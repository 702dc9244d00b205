---- MODULE SpecGenerator ----
(***************************************************************************)
(* Generation of a function's specification, FunSpecGenerator in           *)
(* move_generate_spec.rs and move_generate_spec_utils.rs: the body of a    *)
(* Move function is walked for what may abort (collect_spec_exp_), lets    *)
(* that nothing collected needs are dropped (handle_unused_pattern), and   *)
(* what is left becomes `let` and `aborts_if` lines (try_emit_exp_zx).     *)
(*                                                                         *)
(* The user writes a body statement by statement and asks for its          *)
(* specification at any time.  Next to the generator the module defines    *)
(* what a body does when it runs (Aborts) and what a specification says    *)
(* (SaysAbort); the properties compare the two over every argument.        *)
(*                                                                         *)
(* A body is a sequence: the model compiler's Block nests the rest of the  *)
(* body under each let, and the walk visits both in this order.  Items and *)
(* lines are kept by statement: its let first, then the others, whose      *)
(* order among themselves makes no difference.  Values are the integers    *)
(* 0..2^Width-1 of one type, with Booleans as 0 and 1.                     *)
(*                                                                         *)
(* An expression is an operation with its operands and its height as a     *)
(* tree; a number has its value besides, a variable its name.  "narrow" is *)
(* a cast to a smaller type and back, "deref" `*&e`, "call" a function     *)
(* that aborts on 0, "test" one that returns a Boolean.                    *)
(***************************************************************************)
EXTENDS Integers, SequencesExt

CONSTANTS
  Params,      \* parameters of the function
  Locals,      \* names it may declare
  Width,       \* bits of the integer type
  Expr,        \* expressions, operands included
  MaxHeight,   \* bound on how deep they nest
  Statements,  \* statements the user may write
  MaxStmts     \* bound on the length of the body

Arithmetic == {"add", "sub", "mul", "div", "mod", "shl"}
Divisions == {"div", "mod"}
Comparisons == {"eq", "neq", "lt", "gt", "le", "ge"}
Other == {"shr"}   \* an operation the generator has no case for
MoveFunctions == {"call", "test"}
Leaves == {"num", "var"}
Unary == MoveFunctions \cup {"narrow", "deref", "not"}
Binary == Arithmetic \cup Comparisons \cup Other

Binders == {"let", "let_tuple"}
Setters == Binders \cup {"assign"}

Top == 2^Width - 1

ASSUME WidthAssumption == Width \in Nat \ {0}

ASSUME ExprAssumption ==
  /\ MaxHeight \in Nat
  /\ \A e \in Expr :
       /\ e.op \in Leaves \cup Unary \cup Binary
       /\ e.args \in Seq(Expr)
       /\ Len(e.args) = IF e.op \in Leaves THEN 0 ELSE IF e.op \in Unary THEN 1 ELSE 2
       /\ e.height \in 0..MaxHeight
       /\ \A i \in DOMAIN e.args : e.args[i].height < e.height
       /\ e.op = "num" => e.val \in 0..Top
       /\ e.op = "var" => e.name \in Params \cup Locals

ASSUME StatementsAssumption ==
  \A s \in Statements :
    /\ s.kind \in Setters \cup {"do", "assert", "if_abort", "if_return", "for"}
    /\ s.exp \in Expr
    /\ s.kind \in Setters => s.var \in Locals
    /\ s.kind = "assert" => s.code \in Expr

VARIABLES
  body,     \* the function's body, a sequence of statements
  spec,     \* what was generated last: for each statement its let line and
            \* its aborts_if lines
  current   \* whether spec was generated from body

generatorVars == <<body, spec, current>>

----------------------------------------------------------------------------
(* Expressions. *)

Operands(e) == {e.args[i] : i \in DOMAIN e.args}

Inside[e \in Expr] == {e} \cup UNION {Inside[x] : x \in Operands(e)}

Ops(e) == {x.op : x \in Inside[e]}

\* free_vars of an expression
Free(e) == {x.name : x \in {y \in Inside[e] : y.op = "var"}}

\* is_support_operation, is_support_exp: "deref" stands for the operations on
\* references, resources and vectors that the generator does not print
Supported(e) == "deref" \notin Ops(e)

----------------------------------------------------------------------------
(* The generator. *)

\* collect_spec_exp_op: the operations among the operands', then its own.  A
\* call of a function, whose items are never printed, a comparison and
\* whatever has no case end the walk.
Walk[e \in Expr] ==
  IF e.op \in Leaves \cup MoveFunctions \cup Comparisons \cup Other THEN {}
  ELSE {x \in {e} : x.op \in Arithmetic} \cup UNION {Walk[x] : x \in Operands(e)}

CollectExpShallow(e) == Walk[e] \cap {e}
CollectExp(e) == Walk[e]

\* the arms of collect_spec_exp_.  A let is an item of its own when it binds
\* one name and the binding can be printed; assert! is known by its shape,
\* an `if` whose first branch is empty and whose other one aborts, and no
\* other conditional is entered.
CollectStmt(s) ==
  [lets |-> IF s.kind = "let" /\ Supported(s.exp)
            THEN {[var |-> s.var, exp |-> s.exp]} ELSE {},
   items |-> IF s.kind \in Setters \cup {"do"}
             THEN {[kind |-> "binop", exp |-> e] : e \in CollectExp(s.exp)}
             ELSE IF s.kind = "assert" /\ Supported(s.exp) /\ Supported(s.code)
             THEN {[kind |-> "assert", exp |-> s.exp, code |-> s.code]}
             ELSE {}]

\* collect_spec_exp_: the text of an expression that holds a `for` shows the
\* names the compiler gives its counter, and the walk turns back at once
Collect(b) ==
  IF \E i \in DOMAIN b : b[i].kind = "for"
  THEN [i \in DOMAIN b |-> [lets |-> {}, items |-> {}]]
  ELSE [i \in DOMAIN b |-> CollectStmt(b[i])]

ItemVars(item) == Free(item.exp) \cup (IF item.kind = "assert" THEN Free(item.code) ELSE {})
Vars(items) == UNION {ItemVars(item) : item \in items}

\* handle_unused_pattern: one pass from the last item to the first; the names
\* used by what is kept for the last k statements
UsedByLast(groups) ==
  LET used[k \in 0..Len(groups)] ==
        IF k = 0 THEN {}
        ELSE LET g == groups[Len(groups) - k + 1]
                 sofar == used[k - 1] \cup Vars(g.items)
             IN  sofar \cup UNION {Free(l.exp) : l \in {x \in g.lets : x.var \in sofar}}
  IN  used

NeededForwards(groups, i) == UsedByLast(Reverse(groups))[i - 1] \cup Vars(groups[i].items)
NeededByUnused(groups, i) ==
  Vars(groups[i].items) \cup
  UNION {Vars(groups[j].items) \cup UNION {Free(l.exp) : l \in groups[j].lets}
         : j \in (i + 1)..Len(groups)}
Needed(groups, i) == UsedByLast(groups)[Len(groups) - i] \cup Vars(groups[i].items)

Prune(groups) ==
  [i \in DOMAIN groups |->
     [groups[i] EXCEPT !.lets = {l \in groups[i].lets : l.var \in Needed(groups, i)}]]

\* inverse_binop_zx
InverseOpStrict(op) ==
  CASE op = "eq" -> "neq" [] op = "neq" -> "eq" [] op = "lt" -> "ge"
    [] op = "gt" -> "lt"  [] op = "le" -> "ge"  [] op = "ge" -> "lt"
InverseOp(op) ==
  CASE op = "eq" -> "neq" [] op = "neq" -> "eq" [] op = "lt" -> "ge"
    [] op = "gt" -> "le"  [] op = "le" -> "gt"  [] op = "ge" -> "lt"

\* handle_binop_exp replaces every occurrence of the operator in the
\* condition's text, `<` in a `<<` of its operands included
Garbles(cond) ==
  LET hit == CASE cond.op = "lt" -> {"lt", "le", "shl"}
               [] cond.op = "gt" -> {"gt", "ge", "shr"}
               [] OTHER -> {cond.op}
  IN  \E x \in Operands(cond) : Ops(x) \cap hit # {}

\* handle_binop_exp
NegatedComparison(item) ==
  IF Garbles(item.exp) THEN [kind |-> "garbled"]
  ELSE [kind |-> "unless", op |-> InverseOp(item.exp.op), args |-> item.exp.args, code |-> item.code]

\* handle_funcop_exp
NegatedCall(item) ==
  [kind |-> "unless", op |-> "not", args |-> <<item.exp>>, code |-> item.code]

\* the assertions of try_emit_exp_zx; a condition of any other form yields no line
EmitAssert(item) ==
  IF item.exp.op \in Comparisons THEN {NegatedComparison(item)}
  ELSE IF item.exp.op \in MoveFunctions THEN {NegatedCall(item)}
  ELSE {}

\* the binary operations of try_emit_exp_zx: a division is stated whatever
\* its dividend, since the line only shows the divisor
EmitBinop(item) ==
  IF \/ item.exp.op \notin Divisions /\ ~Supported(item.exp.args[1])
     \/ ~Supported(item.exp.args[2])
  THEN {} ELSE {[kind |-> "binop", op |-> item.exp.op, args |-> item.exp.args]}

EmitItem(item) == IF item.kind = "binop" THEN EmitBinop(item) ELSE EmitAssert(item)

Emit(groups) ==
  [i \in DOMAIN groups |->
     [lets |-> groups[i].lets, aborts |-> UNION {EmitItem(item) : item \in groups[i].items}]]

----------------------------------------------------------------------------
(* What a body does when it runs. *)

Aborted == -1
Bit(p) == IF p THEN 1 ELSE 0
Fit(n) == IF n \in 0..Top THEN n ELSE Aborted

Compare(op, a, b) ==
  Bit(CASE op = "eq" -> a = b [] op = "neq" -> a # b [] op = "lt" -> a < b
        [] op = "gt" -> a > b [] op = "le" -> a <= b [] op = "ge" -> a >= b)

Apply(op, v) ==
  CASE op = "add" -> Fit(v[1] + v[2])
    [] op = "sub" -> Fit(v[1] - v[2])
    [] op = "mul" -> Fit(v[1] * v[2])
    [] op = "div" -> IF v[2] = 0 THEN Aborted ELSE v[1] \div v[2]
    [] op = "mod" -> IF v[2] = 0 THEN Aborted ELSE v[1] % v[2]
    [] op = "shl" -> IF v[2] >= Width THEN Aborted ELSE (v[1] * 2^v[2]) % 2^Width
    [] op = "shr" -> IF v[2] >= Width THEN Aborted ELSE v[1] \div 2^v[2]
    [] op = "narrow" -> IF v[1] >= 2^(Width - 1) THEN Aborted ELSE v[1]
    [] op = "deref"  -> v[1]
    [] op = "call"   -> IF v[1] = 0 THEN Aborted ELSE Top - v[1]
    [] op = "test"   -> Bit(v[1] = 1)
    [] op = "not"    -> Bit(v[1] = 0)
    [] op \in Comparisons -> Compare(op, v[1], v[2])

\* values of all expressions in an environment
Values(env) ==
  LET val[e \in Expr] ==
        IF e.op = "num" THEN e.val
        ELSE IF e.op = "var" THEN env[e.name]
        ELSE LET v == [i \in DOMAIN e.args |-> val[e.args[i]]]
             IN  IF \E i \in DOMAIN e.args : v[i] = Aborted THEN Aborted ELSE Apply(e.op, v)
  IN  val
Eval(e, env) == Values(env)[e]

Fails(s, v) ==
  \/ v = Aborted
  \/ s.kind = "assert" /\ v = 0
  \/ s.kind = "if_abort" /\ v # 0

Step(s, before) ==
  LET v == Eval(s.exp, before.env) IN
  IF before.at # "running" THEN before
  ELSE [at |-> IF Fails(s, v) THEN "aborted"
               ELSE IF s.kind = "if_return" /\ v # 0 THEN "returned" ELSE "running",
        env |-> IF s.kind \in Setters /\ v # Aborted
                THEN [before.env EXCEPT ![s.var] = v] ELSE before.env]

Inputs == [Params -> 0..Top]
Env(input) == [n \in Params \cup Locals |-> IF n \in Params THEN input[n] ELSE 0]

\* how far the function has come after each statement
Execution(b, input) ==
  LET run[i \in 0..Len(b)] ==
        IF i = 0 THEN [at |-> "running", env |-> Env(input)] ELSE Step(b[i], run[i - 1])
  IN  run
Aborts(b, input) == Execution(b, input)[Len(b)].at = "aborted"

----------------------------------------------------------------------------
(* What a specification says: its arithmetic is that of the integers, in   *)
(* which division by zero and shifts by negative amounts have some value.  *)

SpecApply(op, v) ==
  CASE op = "add" -> v[1] + v[2]
    [] op = "sub" -> v[1] - v[2]
    [] op = "mul" -> v[1] * v[2]
    [] op = "div" -> IF v[2] <= 0 THEN 0 ELSE v[1] \div v[2]
    [] op = "mod" -> IF v[2] <= 0 THEN 0 ELSE v[1] % v[2]
    [] op = "shl" -> IF v[2] < 0 THEN 0 ELSE v[1] * 2^v[2]
    [] op = "shr" -> IF v[2] < 0 THEN 0 ELSE v[1] \div 2^v[2]
    [] op \in {"narrow", "deref"} -> v[1]
    [] op \in MoveFunctions \cup Comparisons \cup {"not"} -> Apply(op, v)

SpecValues(env) ==
  LET val[e \in Expr] ==
        IF e.op = "num" THEN e.val
        ELSE IF e.op = "var" THEN env[e.name]
        ELSE SpecApply(e.op, [i \in DOMAIN e.args |-> val[e.args[i]]])
  IN  val
SpecEval(e, env) == SpecValues(env)[e]

FreeIn(args) == UNION {Free(args[i]) : i \in DOMAIN args}

LineVars(line) ==
  CASE line.kind = "binop"   -> IF line.op \in Divisions THEN Free(line.args[2]) ELSE FreeIn(line.args)
    [] line.kind = "unless"  -> FreeIn(line.args) \cup Free(line.code)
    [] line.kind = "garbled" -> {}

\* try_emit_exp_zx: the formula of a line
Condition(line, env) ==
  LET v == [i \in DOMAIN line.args |-> SpecEval(line.args[i], env)] IN
  CASE line.kind = "unless" -> SpecApply(line.op, v) = 1
    [] line.kind = "binop" ->
         IF line.op = "sub" THEN v[1] - v[2] < 0
         ELSE IF line.op \in Divisions THEN v[2] = 0
         ELSE SpecApply(line.op, v) > Top
    [] line.kind = "garbled" -> FALSE

\* Names are known from the top down: those known after the let line of each
\* statement, with their values.  A let that shows an unknown name declares nothing.
Reading(lines, input) ==
  LET read[i \in 0..Len(lines)] ==
        IF i = 0 THEN [known |-> Params, env |-> Env(input)]
        ELSE LET before == read[i - 1]
                 lets == {l \in lines[i].lets : Free(l.exp) \subseteq before.known}
             IN  [known |-> before.known \cup {l.var : l \in lets},
                  env |-> [n \in Params \cup Locals |->
                             IF \E l \in lets : l.var = n
                             THEN SpecEval((CHOOSE l \in lets : l.var = n).exp, before.env)
                             ELSE before.env[n]]]
  IN  read

\* does one of the lines say that the function aborts?  One that shows an
\* unknown name says nothing.
SaysAbort(lines, input) ==
  LET read == Reading(lines, input) IN
  \E i \in DOMAIN lines :
    LET at == read[i] IN
    \E line \in lines[i].aborts : LineVars(line) \subseteq at.known /\ Condition(line, at.env)

----------------------------------------------------------------------------
(* Behaviour. *)

\* the names bound by the first n statements
Bound(b, n) == {b[i].var : i \in {j \in 1..n : b[j].kind \in Binders}}

\* what compiles after the first n statements: names are declared before use
Compiles(b, n, s) ==
  /\ Free(s.exp) \subseteq Params \cup Bound(b, n)
  /\ s.kind = "assign" => s.var \in Bound(b, n)
  /\ s.kind = "assert" => Free(s.code) \subseteq Params \cup Bound(b, n)

GeneratorInit == body = << >> /\ spec = << >> /\ current = FALSE

\* the user appends a statement
Write(s) ==
  /\ Len(body) < MaxStmts
  /\ Compiles(body, Len(body), s)
  /\ body' = Append(body, s)
  /\ current' = FALSE
  /\ UNCHANGED spec

\* generate_fun_spec_zx on the body as it stands
Generate ==
  /\ ~current
  /\ spec' = Emit(Prune(Collect(body)))
  /\ current' = TRUE
  /\ UNCHANGED body

GeneratorNext == (\E s \in Statements : Write(s)) \/ Generate
GeneratorSpec == GeneratorInit /\ [][GeneratorNext]_generatorVars

----------------------------------------------------------------------------
(* Properties. *)

Kinds(b) == {b[i].kind : i \in DOMAIN b}

\* no name is declared twice, nor that of a parameter
DeclaredOnce(b) ==
  \A i \in DOMAIN b : b[i].kind \in Binders =>
    /\ b[i].var \notin Params
    /\ \A j \in DOMAIN b : b[j].kind \in Binders /\ b[j].var = b[i].var => j = i

NoneGarbled(lines) == \A i \in DOMAIN lines : \A line \in lines[i].aborts : line.kind # "garbled"

\* A line never claims an abort that cannot happen: whatever the arguments,
\* if a condition of the generated specification holds, then the function
\* aborts.  Out of the generator's reach, and left out: variables that are
\* assigned or declared again, since a line shows a name and not the value
\* it had; an early return; and `<<`, which the generator takes for an
\* operation that overflows (BinOPReason::OverFlowSHL).
Sound ==
  /\ current
  /\ Kinds(body) \cap {"assign", "if_return"} = {}
  /\ DeclaredOnce(body)
  /\ \A i \in DOMAIN body : "shl" \notin Ops(body[i].exp)
  /\ NoneGarbled(spec)
  => \A input \in Inputs : ~Aborts(body, input) => ~SaysAbort(spec, input)

\* expressions whose every abort has a line of its own
Exact(e) ==
  \A x \in Inside[e] :
    \/ x.op \in Leaves \cup {"deref"}
    \/ x.op \in Arithmetic \ {"shl"} /\ EmitBinop([exp |-> x]) # {}

ExactStmt(s) ==
  \/ s.kind = "do" /\ Exact(s.exp)
  \/ s.kind = "let" /\ Exact(s.exp) /\ Supported(s.exp)
  \/ /\ s.kind = "assert"
     /\ s.exp.op \in Comparisons \cup {"test"}
     /\ \A x \in Operands(s.exp) : x.op \in Leaves
     /\ Supported(s.code)

\* The module pragma of a generated file is aborts_if_is_strict: the lines
\* have to cover every abort.  They do for bodies of lets, expressions and
\* assertions in which only arithmetic and assertions abort: operands are
\* walked before their operation, no let they need is dropped, and the
\* negated assertion is its exact complement.
Complete ==
  /\ current
  /\ \A i \in DOMAIN body : ExactStmt(body[i])
  /\ DeclaredOnce(body)
  => \A input \in Inputs : Aborts(body, input) => SaysAbort(spec, input)

\* the names declared by the let lines of the first n statements
Declared(lines, n) == UNION {{l.var : l \in lines[j].lets} : j \in 1..n}

\* Every name a line shows is a parameter or declared by a line above it,
\* however the lets were pruned, unless the body binds a name in a way the
\* generator does not print.
WellScoped ==
  /\ current
  /\ "let_tuple" \notin Kinds(body)
  /\ \A i \in DOMAIN body : body[i].kind = "let" => Supported(body[i].exp)
  => \A i \in DOMAIN spec :
       /\ \A l \in spec[i].lets : Free(l.exp) \subseteq Params \cup Declared(spec, i - 1)
       /\ \A line \in spec[i].aborts : LineVars(line) \subseteq Params \cup Declared(spec, i)

\* the names in dividends of a statement, which no line shows
Dividends(s) ==
  UNION {Free(item.exp.args[1]) :
           item \in {it \in CollectStmt(s).items : it.kind = "binop" /\ it.exp.op \in Divisions}}

\* A let line is there for a later line that shows its name, or for a
\* dividend, of which the generator does not know that its line does not show
\* it: pruning leaves no chain of lets that only serve each other.
NoIdleLet ==
  /\ current
  /\ \A i \in DOMAIN body : Supported(body[i].exp)
  /\ \A i \in DOMAIN body :
       body[i].kind = "assert" => body[i].exp.op \in Comparisons \cup MoveFunctions
  /\ NoneGarbled(spec)
  => \A i \in DOMAIN spec : \A l \in spec[i].lets :
       \E j \in i..Len(spec) :
         \/ \E line \in spec[j].aborts : l.var \in LineVars(line)
         \/ j > i /\ \E other \in spec[j].lets : l.var \in Free(other.exp)
         \/ l.var \in Dividends(body[j])
====
