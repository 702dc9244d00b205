---- MODULE MCNavigation ----
(***************************************************************************)
(* Instances of Navigation and Signatures for TLC.  The statements are     *)
(* trees, and what the compiler makes of them is computed from their text. *)
(***************************************************************************)
EXTENDS Signatures

MCNameLen ==
  [n \in {"g", "m", "Box"} |-> 1] @@ [n \in {"S", "C", "Coin", "xy", "init"} |-> 2]
  @@ [n \in {"put", "CoinStore", "CoinType", "initialize"} |-> 3]

----------------------------------------------------------------------------
(* The text of a statement, and the nodes in it. *)

Gap(n) == [class |-> "gap", len |-> n]
Sub(e) == [class |-> "sub", exp |-> e]
Word(class, name) == [class |-> class, name |-> name]

Pieces(e) ==
  CASE e.op = "num"    -> <<Gap(1)>>
    [] e.op = "const"  -> <<Word("const", Const)>>
    [] e.op = "var"    -> <<Word("use", e.name)>>
    [] e.op = "add"    -> <<Sub(e.args[1]), Gap(1), Sub(e.args[2])>>
    [] e.op = "call"   -> <<Word("fun", e.name), Gap(1), Sub(e.args[1]), Gap(1)>>
    [] e.op = "select" -> <<Sub(e.args[1]), Gap(1), Word("field", Field)>>
    [] e.op = "pack"   -> <<Word("struct", Struct), Gap(1), Word("field", Field), Gap(2),
                            Sub(e.args[1]), Gap(1)>>
    [] e.op = "let"    -> <<Gap(5), Word("bind", e.vars[1]), Gap(1), Sub(e.args[1]), Gap(2)>>
    [] e.op = "tuple"  -> <<Gap(6), Word("bind", e.vars[1]), Gap(1), Word("bind", e.vars[2]),
                            Gap(3), Sub(e.args[1]), Gap(1), Sub(e.args[2]), Gap(3)>>
    [] e.op = "unpack" -> <<Gap(5), Word("struct", Struct), Gap(1), Word("field", Field), Gap(2),
                            Word("bind", e.vars[1]), Gap(2), Sub(e.args[1]), Gap(2)>>
    [] e.op = "assign" -> <<Gap(1), Word("set", e.vars[1]), Gap(1), Sub(e.args[1]), Gap(2)>>
    [] e.op = "do"     -> <<Gap(1), Sub(e.args[1]), Gap(2)>>

RECURSIVE Width(_)
Width(ps) ==
  FoldLeft(LAMBDA n, p : n + CASE p.class = "gap" -> p.len
                               [] p.class = "sub" -> Width(Pieces(p.exp))
                               [] p.class \in {"fun", "struct", "const"} -> NameLen[p.name]
                               [] OTHER -> 1, 0, ps)

\* where the i-th piece begins
StartOf(ps, i, at) == at + Width(SubSeq(ps, 1, i - 1))

RECURSIVE NodesOf(_, _)
NodesOf(e, at) ==
  LET ps == Pieces(e)
      SpanOf(i) == Span(StartOf(ps, i, at), StartOf(ps, i + 1, at))
      names == {i \in DOMAIN ps : ps[i].class \notin {"gap", "sub"}}
      subs == {i \in DOMAIN ps : ps[i].class = "sub"}
  IN {[op |-> e.op, span |-> Span(at, at + Width(ps)),
       tokens |-> {[class |-> ps[i].class, name |-> ps[i].name, span |-> SpanOf(i)] : i \in names}]}
     \union UNION {NodesOf(ps[i].exp, StartOf(ps, i, at)) : i \in subs}

\* the lines of statements; those of the braces of a block are outside of it
RECURSIVE LinesUpTo(_, _, _)
LinesUpTo(stmts, start, depth) ==
  LET Brace(at) == <<[at |-> at, width |-> 3, depth |-> depth, nodes |-> {}]>>
      AddOne(acc, s) ==
        LET at == acc.width IN
        IF s.op = "inner"
        THEN LET in == LinesUpTo(s.args, [width |-> at + 3, lines |-> acc.lines \o Brace(at)], depth + 1)
             IN [width |-> in.width + 3, lines |-> in.lines \o Brace(in.width)]
        ELSE LET width == Width(Pieces(s))
             IN [width |-> at + width,
                 lines |-> Append(acc.lines, [at |-> at, width |-> width, depth |-> depth, nodes |-> NodesOf(s, 0)])]
  IN FoldLeft(AddOne, start, stmts)
Text(stmts) == LinesUpTo(stmts, [width |-> 0, lines |-> <<>>], 0)

Num == [op |-> "num"]
C == [op |-> "const"]
V(x) == [op |-> "var", name |-> x]
Add(l, r) == [op |-> "add", args |-> <<l, r>>]
Call(f, e) == [op |-> "call", name |-> f, args |-> <<e>>]
Select(e) == [op |-> "select", args |-> <<e>>]
Pack(e) == [op |-> "pack", args |-> <<e>>]

Let(x, e) == [op |-> "let", vars |-> <<x>>, args |-> <<e>>]
Assign(x, e) == [op |-> "assign", vars |-> <<x>>, args |-> <<e>>]
Do(e) == [op |-> "do", args |-> <<e>>]
Inner(stmts) == [op |-> "inner", args |-> stmts]

\* every kind of node, names declared again, assigned and hidden, and calls
\* in calls of shorter, equal and longer names
MCTrees ==
  { Let("a", Num), Let("b", C), Let("a", Add(V("a"), C)), Let("p", Select(V("p"))), Let("b", Call("g", V("a"))),
    Do(Call("put", Select(V("b")))),
    [op |-> "tuple", vars |-> <<"a", "b">>, args |-> <<C, V("b")>>],
    [op |-> "unpack", vars |-> <<"a">>, args |-> <<V("p")>>],
    Assign("a", Call("put", Add(V("a"), Num))), Assign("p", Pack(V("a"))),
    Do(Call("g", Call("put", V("a")))), Do(Call("put", Call("g", Select(V("p"))))),
    Do(Select(Pack(Call("put", C)))), Do(Pack(Pack(V("b")))), Do(Select(Pack(Select(V("p"))))),
    Inner(<<Let("a", V("b")), Do(Call("g", V("a")))>>),
    Inner(<<Assign("a", V("b")), Inner(<<Let("b", V("a"))>>)>>) }

MCStatements == {Text(<<s>>) : s \in MCTrees}

MCOtherTrees ==
  << Let("x", Call("g", Pack(C))), Do(Call("m", V("x"))), Do(Call("put", Select(V("x")))) >>

MCOtherBody == Text(MCOtherTrees)

\* types: alone, in one another, in vectors and references
Of(name, args) == [op |-> "struct", name |-> name, args |-> args]
Type(op, args) == [op |-> op, name |-> "", args |-> args]
Primitive(name) == [op |-> "plain", name |-> name, args |-> <<>>]
Coin == Of("Coin", <<>>)
CoinStore == Of("CoinStore", <<>>)
MCTypes ==
  { Primitive("u64"), Primitive("CoinType"), Of("S", <<>>), Coin, CoinStore, Of("Box", <<Coin>>), Of("Box", <<Of("Box", <<CoinStore>>)>>),
    Of("Box", <<Type("vector", <<Coin>>)>>), Type("vector", <<Coin>>), Type("ref", <<CoinStore>>) }

Fun(params, result, acquires) ==
  [kind |-> "fun", params |-> params, result |-> result, acquires |-> acquires, rest |-> 3]
Records(x, y, first, second, rest) ==
  [kind |-> "struct", rest |-> rest,
   fields |-> <<[name |-> x, type |-> first], [name |-> y, type |-> second]>>]
Use(module, members) == [kind |-> "use", module |-> module, members |-> members, rest |-> 3]

MCModuleOf ==
  [a |-> [structs |-> {"Coin"}, funs |-> {"initialize"}],
   coin |-> [structs |-> {"Coin", "CoinStore"}, funs |-> {"init", "initialize"}],
   coin_store |-> [structs |-> {"CoinStore"}, funs |-> {"init"}]]

MembersOf(m) == MCModuleOf[m].structs \union MCModuleOf[m].funs

MCDeclarations ==
  { Fun(<<>>, r, a) : r \in MCTypes \union {Unit}, a \in {<<>>, <<"Coin">>, <<"CoinStore", "Coin">>} }
  \union { Fun(<<t>>, r, a) : t \in MCTypes, r \in {Unit, Coin, Type("tuple", <<Primitive("u64"), CoinStore>>)},
                              a \in {<<>>, <<"CoinStore">>} }
  \union { Fun(<<t, u>>, r, <<>>) : t \in MCTypes, u \in MCTypes, r \in {Unit, CoinStore} }
  \union { Records(n[1], n[2], t, u, rest) : n \in {<<"x", "y">>, <<"x", "xy">>, <<"xy", "x">>},
                                             t \in MCTypes, u \in {Coin, CoinStore, Of("Box", <<CoinStore>>)},
                                             rest \in {3, 20} }
  \union UNION { {Use(m, <<n>>) : n \in MembersOf(m)} : m \in DOMAIN MCModuleOf }
  \union UNION { {Use(m, <<n, k>>) : n \in MembersOf(m), k \in MembersOf(m)} : m \in DOMAIN MCModuleOf }

MCPrefix ==
  {<<"Coin", "CoinStore">>, <<"Coin", "CoinType">>, <<"x", "xy">>, <<"init", "initialize">>, <<"coin", "coin_store">>}
====
