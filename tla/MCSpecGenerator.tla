---- MODULE MCSpecGenerator ----
(* Instances of SpecGenerator for TLC. *)
EXTENDS SpecGenerator

Num(n) == [op |-> "num", args |-> << >>, height |-> 0, val |-> n]
Var(v) == [op |-> "var", args |-> << >>, height |-> 0, name |-> v]
Un(o, e) == [op |-> o, args |-> <<e>>, height |-> e.height + 1]
Bin(o, l, r) == [op |-> o, args |-> <<l, r>>, height |-> Max({l.height, r.height}) + 1]

X == Var("x")
Y == Var("y")
A == Var("a")
B == Var("b")

LetStmt(v, e) == [kind |-> "let", var |-> v, exp |-> e]
DoStmt(e) == [kind |-> "do", exp |-> e]
AssertStmt(e, c) == [kind |-> "assert", exp |-> e, code |-> c]

\* one statement or more for every case of the walk, with operands that
\* abort before their operation does
MCStatements ==
  { LetStmt("a", Bin("add", X, Num(1))), LetStmt("a", Bin("div", Bin("sub", X, Y), Y)),
    LetStmt("a", Bin("shl", X, Y)), LetStmt("a", Un("deref", X)), LetStmt("a", Un("narrow", X)),
    LetStmt("b", Bin("mul", A, Y)), LetStmt("b", A),
    LetStmt("b", Un("call", X)),
    [kind |-> "let_tuple", var |-> "a", exp |-> Bin("sub", Y, X)],
    [kind |-> "assign", var |-> "a", exp |-> Bin("add", A, Num(1))],
    [kind |-> "for", exp |-> Bin("add", X, Y)],
    [kind |-> "if_abort", exp |-> Bin("eq", X, Y)],
    [kind |-> "if_return", exp |-> Bin("lt", X, Y)],
    DoStmt(Bin("mod", X, Bin("mul", A, B))), DoStmt(Bin("sub", Bin("add", A, Y), B)),
    DoStmt(Bin("div", Un("deref", X), Y)), DoStmt(Bin("add", Un("deref", X), Bin("sub", X, Y))),
    DoStmt(Un("call", Bin("add", X, Y))), DoStmt(Bin("mul", Bin("shr", X, Y), Y)),
    AssertStmt(Bin("le", A, Y), Num(0)), AssertStmt(Bin("lt", X, Y), A), AssertStmt(Bin("eq", B, X), Num(0)),
    AssertStmt(Bin("ge", Bin("sub", X, Y), Num(1)), Num(0)), AssertStmt(Bin("neq", X, Y), Num(0)),
    AssertStmt(Bin("gt", X, B), Num(0)), AssertStmt(Bin("lt", Bin("shl", X, Num(1)), Y), Num(0)),
    AssertStmt(Un("test", Y), Num(0)), AssertStmt(Un("not", Un("test", A)), Num(0)) }

RECURSIVE WithOperands(_)
WithOperands(e) == {e} \cup UNION {WithOperands(x) : x \in Operands(e)}

MCExpr ==
  UNION {WithOperands(s.exp) \cup (IF s.kind = "assert" THEN WithOperands(s.code) ELSE {})
         : s \in MCStatements}
====
