---- MODULE NavigationProofs ----
(***************************************************************************)
(* Proofs about Navigation, for any statements that are well formed, any   *)
(* number of them, any names, and any place of the cursor.                 *)
(***************************************************************************)
EXTENDS Navigation, WellFoundedInduction, TLAPS

----------------------------------------------------------------------------
(* Places in a line. *)

LEMMA NodeTypes ==
  ASSUME NEW l \in Line, NEW n \in l.nodes
  PROVE  /\ n \in Node /\ n.span \in Spans /\ n.tokens \subseteq Token
         /\ n.op \in Expressions \union Roots
         /\ n.span.start \in Nat /\ n.span.end \in Nat
         /\ \A t \in n.tokens : /\ t \in Token /\ t.class \in Classes /\ t.span \in Spans
                                /\ t.span.start \in Nat /\ t.span.end \in Nat
<1>1. n \in Node
  BY DEF Line
<1>2. n.span \in Spans /\ n.tokens \subseteq Token /\ n.op \in Expressions \union Roots
  BY <1>1 DEF Node
<1>3. \A s \in Spans : s.start \in Nat /\ s.end \in Nat
  BY DEF Spans
<1>4. \A t \in Token : t.class \in Classes /\ t.span \in Spans
  BY DEF Token
<1> QED
  BY <1>1, <1>2, <1>3, <1>4

LEMMA InPlace ==
  ASSUME NEW l \in Line, NEW s \in Spans
  PROVE  /\ In(l, s) \in Spans
         /\ In(l, s).start = l.at + s.start /\ In(l, s).end = l.at + s.end
         /\ Length(In(l, s)) = Length(s)
         /\ l.at \in Nat /\ s.start \in Nat /\ s.end \in Nat
<1>1. l.at \in Nat /\ s.start \in Nat /\ s.end \in Nat
  BY DEF Line, Spans
<1> QED
  BY <1>1 DEF In, Span, Spans, Length

\* The only name of its class that a node has.
LEMMA TheName ==
  ASSUME NEW n, NEW class, NEW t \in n.tokens, t.class = class,
         \A u \in n.tokens : u.class = class => u = t
  PROVE  NameOf(n, class) = t
BY DEF NameOf

\* What belongs to a node in a line: an area of it that is all of the node, or
\* apart from its operands.
Covers(l, n, area) ==
  /\ area \in Spans /\ area.start <= area.end
  /\ n.span.start <= area.start /\ area.end <= n.span.end
  /\ area = n.span \/ \A y \in l.nodes : Within(y, n) => Separate(area, y.span)

\* Two areas that touch a place and are not of the same node differ in length:
\* of two nodes one is an operand of the other one.
LEMMA Nesting ==
  ASSUME NEW l \in Line, WellFormed(l), NEW n \in l.nodes, NEW x \in l.nodes, n # x,
         NEW a, NEW b, Covers(l, n, a), Covers(l, x, b), NEW o \in Int,
         Touches(In(l, a), o), Touches(In(l, b), o)
  PROVE  /\ Within(n, x) => Length(a) < Length(b)
         /\ Within(x, n) => Length(b) < Length(a)
         /\ Within(n, x) \/ Within(x, n)
<1>1. /\ n.span.start \in Nat /\ n.span.end \in Nat /\ x.span.start \in Nat /\ x.span.end \in Nat
      /\ a.start \in Nat /\ a.end \in Nat /\ b.start \in Nat /\ b.end \in Nat
  BY NodeTypes DEF Covers, Spans
<1>2. /\ l.at + a.start <= o /\ o <= l.at + a.end
      /\ l.at + b.start <= o /\ o <= l.at + b.end /\ l.at \in Nat
  BY InPlace DEF Covers, Touches
<1>3. ASSUME NEW y \in l.nodes, NEW z \in l.nodes, NEW c, NEW d, Covers(l, y, c), Covers(l, z, d), Within(y, z),
             l.at + c.start <= o, o <= l.at + c.end, l.at + d.start <= o, o <= l.at + d.end,
             y.span.start \in Nat, y.span.end \in Nat, z.span.start \in Nat, z.span.end \in Nat,
             c.start \in Nat, c.end \in Nat, d.start \in Nat, d.end \in Nat
      PROVE  Length(c) < Length(d)
  <2>1. d = z.span
    BY <1>2, <1>3 DEF Covers, Separate
  <2>2. Length(y.span) < Length(z.span)
    BY <1>3 DEF Within
  <2> QED
    BY <1>3, <2>1, <2>2 DEF Covers, Length
<1>4. ~Separate(n.span, x.span)
  BY <1>1, <1>2 DEF Covers, Separate
<1>5. Within(n, x) \/ Within(x, n)
  BY <1>4 DEF WellFormed
<1> QED
  BY <1>1, <1>2, <1>3, <1>5

\* An area of another node that touches a place of a name is longer than any
\* area of the name's node.
LEMMA NameWins ==
  ASSUME NEW l \in Line, WellFormed(l), NEW n \in l.nodes, NEW x \in l.nodes, n # x,
         NEW t \in n.tokens, NEW a, NEW b, Covers(l, n, a), Covers(l, x, b), NEW o \in Int,
         Touches(In(l, t.span), o), Touches(In(l, b), o)
  PROVE  Within(n, x) /\ b = x.span /\ Length(a) < Length(b) /\ Length(n.span) < Length(b)
<1>1. /\ n.span.start \in Nat /\ n.span.end \in Nat /\ x.span.start \in Nat /\ x.span.end \in Nat
      /\ a.start \in Nat /\ a.end \in Nat /\ b.start \in Nat /\ b.end \in Nat
      /\ t.span \in Spans /\ t.span.start \in Nat /\ t.span.end \in Nat
  BY NodeTypes DEF Covers, Spans
<1>2. /\ l.at + t.span.start <= o /\ o <= l.at + t.span.end
      /\ l.at + b.start <= o /\ o <= l.at + b.end /\ l.at \in Nat
  BY <1>1, InPlace DEF Covers, Touches
<1>3. n.span.start <= t.span.start /\ t.span.end <= n.span.end
  BY DEF WellFormed
<1>4. ~Separate(n.span, x.span) /\ ~Separate(t.span, x.span)
  BY <1>1, <1>2, <1>3 DEF Covers, Separate
<1>5. ~Within(x, n)
  BY <1>4 DEF Within
<1>6. Within(n, x)
  BY <1>4, <1>5 DEF WellFormed
<1>7. ~Separate(b, n.span)
  BY <1>1, <1>2, <1>3 DEF Separate
<1>8. b = x.span
  BY <1>6, <1>7 DEF Covers
<1>9. Length(n.span) < Length(x.span)
  BY <1>6 DEF Within
<1> QED
  BY <1>1, <1>6, <1>8, <1>9 DEF Covers, Length

----------------------------------------------------------------------------
(* The names of a node. *)

\* What is known of every node of a line.
LEMMA NodeFacts ==
  ASSUME NEW l \in Line, WellFormed(l), NEW n \in l.nodes
  PROVE  /\ Shaped(n) /\ n.span.start < n.span.end
         /\ \A t \in n.tokens :
              /\ n.span.start <= t.span.start /\ t.span.start < t.span.end /\ t.span.end <= n.span.end
              /\ 0 < t.span.start /\ t.span.end + 1 < l.width
         /\ \A t, u \in n.tokens : t = u \/ Separate(t.span, u.span)
         /\ n.op \in Expressions => 0 < n.span.start /\ n.span.end + 1 < l.width
BY DEF WellFormed

\* A node with one name.
LEMMA OneName ==
  ASSUME NEW n, NEW class, Only(n, class), NEW t \in n.tokens
  PROVE  t.class = class /\ NameOf(n, class) = t /\ n.tokens = {t}
<1>1. PICK u \in n.tokens : n.tokens = {u} /\ u.class = class
  BY DEF Only
<1> QED
  BY <1>1 DEF NameOf

LEMMA OnlyHas ==
  ASSUME NEW n, NEW class, Only(n, class)
  PROVE  \E t \in n.tokens : n.tokens = {t}
BY DEF Only

LEMMA PackNames ==
  ASSUME NEW n, Shaped(n), n.op = "pack"
  PROVE  LET s == NameOf(n, "struct")
             f == NameOf(n, "field")
         IN /\ n.tokens = {s, f} /\ s \in n.tokens /\ f \in n.tokens
            /\ s.class = "struct" /\ s.name = Struct /\ s.span.start = n.span.start
            /\ f.class = "field" /\ f.name = Field
            /\ f.span = Span(s.span.end + 1, s.span.end + 2) /\ f.span.end + 2 < n.span.end
<1>1. PICK s, f \in n.tokens :
        /\ n.tokens = {s, f}
        /\ s.class = "struct" /\ s.name = Struct /\ s.span.start = n.span.start
        /\ f.class = "field" /\ f.name = Field
        /\ f.span = Span(s.span.end + 1, s.span.end + 2) /\ f.span.end + 2 < n.span.end
  BY DEF Shaped
<1>2. NameOf(n, "struct") = s /\ NameOf(n, "field") = f
  BY <1>1 DEF NameOf
<1> QED
  BY <1>1, <1>2

LEMMA UnpackNames ==
  ASSUME NEW n, Shaped(n), n.op = "unpack"
  PROVE  LET s == NameOf(n, "struct")
             f == NameOf(n, "field")
             b == NameOf(n, "bind")
         IN /\ n.tokens = {s, f, b} /\ s \in n.tokens /\ f \in n.tokens /\ b \in n.tokens
            /\ s.class = "struct" /\ s.name = Struct
            /\ f.class = "field" /\ f.name = Field /\ s.span.end < f.span.start
            /\ b.class = "bind" /\ f.span.end < b.span.start /\ b.span.end < n.span.end
<1>1. PICK s, f, b \in n.tokens :
        /\ n.tokens = {s, f, b}
        /\ s.class = "struct" /\ s.name = Struct
        /\ f.class = "field" /\ f.name = Field /\ s.span.end < f.span.start
        /\ b.class = "bind" /\ f.span.end < b.span.start /\ b.span.end < n.span.end
  BY DEF Shaped
<1>2. NameOf(n, "struct") = s /\ NameOf(n, "field") = f /\ NameOf(n, "bind") = b
  BY <1>1 DEF NameOf
<1> QED
  BY <1>1, <1>2

\* The nodes by their names.
LEMMA ByName ==
  ASSUME NEW n, Shaped(n), NEW t \in n.tokens
  PROVE  /\ n.op \in Binding \union {"assign", "const", "var", "call", "select", "pack"}
         /\ n.op = "const"  => t.class = "const" /\ t.name = Const /\ t.span = n.span
         /\ n.op = "var"    => t.class = "use" /\ t.span = n.span
         /\ n.op = "call"   => /\ t.class = "fun" /\ t.span.start = n.span.start
                               /\ t.span.end + 1 < n.span.end
         /\ n.op = "select" => /\ t.class = "field" /\ t.name = Field
                               /\ t.span = Span(n.span.end - 1, n.span.end)
                               /\ n.span.start + 2 < n.span.end
         /\ n.op \in {"let", "tuple"} => t.class = "bind"
         /\ n.op = "assign" => t.class = "set"
         /\ n.op \in {"const", "var", "call", "select", "assign"} =>
              n.tokens = {t} /\ NameOf(n, t.class) = t
<1>1. CASE n.op = "const"
  BY <1>1, OneName DEF Shaped
<1>2. CASE n.op = "var"
  BY <1>2, OneName DEF Shaped
<1>3. CASE n.op = "call"
  BY <1>3, OneName DEF Shaped
<1>4. CASE n.op = "select"
  BY <1>4, OneName DEF Shaped
<1>5. CASE n.op = "assign"
  BY <1>5, OneName DEF Shaped
<1>6. CASE n.op \in {"let", "tuple", "pack", "unpack"}
  BY <1>6 DEF Shaped, Binding
<1> QED
  BY <1>1, <1>2, <1>3, <1>4, <1>5, <1>6 DEF Shaped

\* Where a name is answered for.
LEMMA AreaCovers ==
  ASSUME NEW l \in Line, WellFormed(l), NEW n \in l.nodes, NEW t \in n.tokens
  PROVE  Covers(l, n, Area(n, t))
<1> USE NodeTypes, NodeFacts
<1>1. CASE n.op = "unpack"
  <2> DEFINE s == NameOf(n, "struct")
  <2> DEFINE b == NameOf(n, "bind")
  <2>1. /\ s \in n.tokens /\ b \in n.tokens
        /\ b.span.end < n.span.end /\ s.span.end < b.span.start
    BY <1>1, UnpackNames
  <2>2. Area(n, t) = PatternSpan(n)
    BY <1>1 DEF Area
  <2>3. PatternSpan(n).start = s.span.start /\ PatternSpan(n).end = b.span.end + 1
    BY DEF PatternSpan, Span
  <2>4. PatternSpan(n) \in Spans
    BY <2>1 DEF PatternSpan, Span, Spans
  <2>5. \A y \in l.nodes : Within(y, n) => Separate(PatternSpan(n), y.span)
    BY <1>1 DEF Within, Separate
  <2> QED
    BY <2>1, <2>2, <2>3, <2>4, <2>5 DEF Covers
<1>2. CASE n.op \in {"let", "tuple", "assign"}
  <2>1. Area(n, t) = t.span
    BY <1>2 DEF Area
  <2> QED
    BY <2>1 DEF Covers, Within
<1>3. CASE n.op \notin {"let", "tuple", "assign", "unpack"}
  <2>1. Area(n, t) = n.span
    BY <1>3 DEF Area
  <2> QED
    BY <2>1 DEF Covers
<1> QED
  BY <1>1, <1>2, <1>3

----------------------------------------------------------------------------
(* The compiled functions. *)

Function == [name : Spans, param : Nat, body : Spans, type : SUBSET Spans, lines : Seq(Line)]

FunctionOK(f) ==
  /\ f \in Function
  /\ f.name.start < f.name.end /\ f.name.end <= f.body.start
  /\ \A s \in f.type : s.start < s.end /\ s.end <= f.body.start
  /\ f.body.start + 3 <= f.body.end
  /\ \A i \in DOMAIN f.lines : WellFormed(f.lines[i])
  /\ InOrder(f.lines, f.body.start + 2, f.body.end - 1)

LEMMA FunctionTypes ==
  ASSUME NEW f, FunctionOK(f)
  PROVE  /\ f.name.start \in Nat /\ f.name.end \in Nat /\ f.param \in Nat
         /\ f.body.start \in Nat /\ f.body.end \in Nat
         /\ f.name \in Spans /\ f.type \subseteq Spans /\ f.lines \in Seq(Line)
         /\ DOMAIN f.lines = 1..Len(f.lines) /\ Len(f.lines) \in Nat
         /\ \A i \in DOMAIN f.lines :
              /\ f.lines[i] \in Line
              /\ f.lines[i].at \in Nat /\ f.lines[i].width \in Nat /\ f.lines[i].depth \in Nat
<1>1. /\ f.name \in Spans /\ f.param \in Nat /\ f.body \in Spans /\ f.type \subseteq Spans
      /\ f.lines \in Seq(Line)
  BY DEF FunctionOK, Function
<1>2. DOMAIN f.lines = 1..Len(f.lines) /\ Len(f.lines) \in Nat /\ \A i \in DOMAIN f.lines : f.lines[i] \in Line
  BY <1>1
<1>3. \A l \in Line : l.at \in Nat /\ l.width \in Nat /\ l.depth \in Nat
  BY DEF Line
<1>4. \A s \in Spans : s.start \in Nat /\ s.end \in Nat
  BY DEF Spans
<1> QED
  BY <1>1, <1>2, <1>3, <1>4

\* A line may be moved.
LEMMA Moved ==
  ASSUME NEW l \in Line, WellFormed(l), NEW at \in Nat
  PROVE  LET k == [l EXCEPT !.at = @ + at]
         IN /\ k \in Line /\ WellFormed(k) /\ k.at = l.at + at
            /\ k.width = l.width /\ k.depth = l.depth /\ k.nodes = l.nodes
<1> DEFINE k == [l EXCEPT !.at = @ + at]
<1>1. k \in Line /\ k.at = l.at + at /\ k.width = l.width /\ k.depth = l.depth /\ k.nodes = l.nodes
  BY DEF Line
<1>2. Patterns(k) = Patterns(l)
  BY <1>1 DEF Patterns
<1>3. WellFormed(k)
  <2> HIDE DEF k
  <2> QED
    BY <1>1, <1>2 DEF WellFormed
<1> QED
  BY <1>1, <1>3

LEMMA PlacedOK ==
  ASSUME NEW s, LaidOut(s), NEW at \in Nat
  PROVE  LET lines == Placed(s.lines, at)
         IN /\ lines \in Seq(Line) /\ Len(lines) = Len(s.lines)
            /\ DOMAIN lines = DOMAIN s.lines /\ s.width \in Nat
            /\ \A i \in DOMAIN lines : WellFormed(lines[i])
            /\ InOrder(lines, at, at + s.width)
<1> DEFINE lines == Placed(s.lines, at)
<1>1. /\ s.width \in Nat /\ s.lines \in Seq(Line) /\ InOrder(s.lines, 0, s.width)
      /\ \A i \in DOMAIN s.lines : WellFormed(s.lines[i])
  BY DEF LaidOut
<1>2. DOMAIN s.lines = 1..Len(s.lines) /\ Len(s.lines) \in Nat /\ \A i \in DOMAIN s.lines : s.lines[i] \in Line
  BY <1>1
<1>3. \A i \in DOMAIN s.lines :
        /\ lines[i] \in Line /\ WellFormed(lines[i])
        /\ lines[i].at = s.lines[i].at + at /\ lines[i].width = s.lines[i].width
  BY <1>1, <1>2, Moved DEF Placed
<1>4. DOMAIN lines = DOMAIN s.lines
  BY DEF Placed
<1>5. lines \in Seq(Line) /\ Len(lines) = Len(s.lines)
  <2>1. lines = [i \in 1..Len(s.lines) |-> lines[i]]
    BY <1>2 DEF Placed
  <2> HIDE DEF lines
  <2>2. lines \in [1..Len(s.lines) -> Line]
    BY <1>2, <1>3, <2>1
  <2> QED
    BY <1>2, <2>2
<1>6. \A i \in DOMAIN s.lines : s.lines[i].at \in Nat /\ s.lines[i].width \in Nat
  BY <1>2 DEF Line
<1>7. InOrder(lines, at, at + s.width)
  <2> HIDE DEF lines
  <2> SUFFICES ASSUME NEW i \in DOMAIN s.lines
               PROVE  /\ at <= lines[i].at /\ lines[i].at + lines[i].width <= at + s.width
                      /\ \A j \in DOMAIN s.lines : i < j => lines[i].at + lines[i].width <= lines[j].at
    BY <1>4 DEF InOrder
  <2>1. /\ 0 <= s.lines[i].at /\ s.lines[i].at + s.lines[i].width <= s.width
        /\ \A j \in DOMAIN s.lines : i < j => s.lines[i].at + s.lines[i].width <= s.lines[j].at
    BY <1>1 DEF InOrder
  <2>2. at <= lines[i].at /\ lines[i].at + lines[i].width <= at + s.width
    BY <1>1, <1>3, <1>6, <2>1
  <2>3. ASSUME NEW j \in DOMAIN s.lines, i < j PROVE lines[i].at + lines[i].width <= lines[j].at
    <3>1. s.lines[i].at + s.lines[i].width <= s.lines[j].at
      BY <2>1, <2>3
    <3>2. /\ lines[i].at = s.lines[i].at + at /\ lines[i].width = s.lines[i].width
          /\ lines[j].at = s.lines[j].at + at
      BY <1>3
    <3> QED
      BY <1>6, <3>1, <3>2
  <2> QED
    BY <2>2, <2>3
<1> QED
  BY <1>1, <1>3, <1>4, <1>5, <1>7

LEMMA FunctionAtOK ==
  ASSUME NEW at \in Nat, NEW params \in BOOLEAN, NEW s, LaidOut(s)
  PROVE  /\ FunctionOK(FunctionAt(at, params, s)) /\ FunctionAt(at, params, s).name = Span(at, at + 1)
         /\ at + 7 <= FunctionAt(at, params, s).body.start
<1>1. NameLen[Struct] \in Nat \ {0}
  BY NameLenAssumption, StructAssumption
<1> DEFINE open == IF params THEN at + 9 + NameLen[Struct] ELSE at + 7
<1> DEFINE f == FunctionAt(at, params, s)
<1>2. open \in Nat /\ at + 7 <= open /\ (params => open = at + 9 + NameLen[Struct])
  BY <1>1
<1>3. /\ f.name = Span(at, at + 1) /\ f.param = at + 6 /\ f.body = Span(open, open + 3 + s.width)
      /\ f.type = IF params THEN {Span(at + 8, at + 8 + NameLen[Struct])} ELSE {}
      /\ f.lines = Placed(s.lines, open + 2)
      /\ f = [name |-> f.name, param |-> f.param, body |-> f.body, type |-> f.type, lines |-> f.lines]
  BY DEF FunctionAt
<1> HIDE DEF open, f
<1>4. /\ f.lines \in Seq(Line) /\ s.width \in Nat
      /\ \A i \in DOMAIN f.lines : WellFormed(f.lines[i])
      /\ InOrder(f.lines, open + 2, (open + 2) + s.width)
  <2>1. open + 2 \in Nat
    BY <1>2
  <2> DEFINE more == Placed(s.lines, open + 2)
  <2>2. /\ more \in Seq(Line) /\ s.width \in Nat
        /\ \A i \in DOMAIN more : WellFormed(more[i])
        /\ InOrder(more, open + 2, (open + 2) + s.width)
    BY <2>1, PlacedOK
  <2> HIDE DEF more
  <2>3. f.lines = more
    BY <1>3 DEF more
  <2> QED
    BY <2>2, <2>3
<1>5. f.name \in Spans /\ f.body \in Spans /\ f.param \in Nat /\ f.type \subseteq Spans
  <2>1. at + 1 \in Nat /\ at + 6 \in Nat /\ at + 8 \in Nat /\ at + 8 + NameLen[Struct] \in Nat
        /\ open + 3 + s.width \in Nat
    BY <1>1, <1>2, <1>4
  <2>2. \A x, y \in Nat : Span(x, y) \in Spans
    BY DEF Span, Spans
  <2> QED
    BY <1>2, <1>3, <2>1, <2>2
<1>6. f \in Function
  BY <1>3, <1>4, <1>5 DEF Function
<1>7. /\ f.name.start = at /\ f.name.end = at + 1
      /\ f.body.start = open /\ f.body.end = open + 3 + s.width
  BY <1>3 DEF Span
<1>8. \A x \in f.type : x.start < x.end /\ x.end <= f.body.start
  BY <1>1, <1>2, <1>3, <1>7 DEF Span
<1>9. (open + 2) + s.width = f.body.end - 1
  BY <1>2, <1>4, <1>7
<1>10. FunctionOK(f)
  BY <1>2, <1>4, <1>6, <1>7, <1>8, <1>9 DEF FunctionOK
<1> QED
  BY <1>2, <1>3, <1>7, <1>10 DEF f

LEMMA ExtendedOK ==
  ASSUME NEW f, FunctionOK(f), NEW s, LaidOut(s)
  PROVE  FunctionOK(Extended(f, s))
<1> DEFINE e == Extended(f, s)
<1> DEFINE more == Placed(s.lines, f.body.end - 1)
<1> USE FunctionTypes
<1>1. /\ f.body.start + 3 <= f.body.end /\ f.body.end - 1 \in Nat
      /\ f.body.start \in Nat /\ f.body.end \in Nat
  BY DEF FunctionOK
<1>2. /\ more \in Seq(Line) /\ Len(more) = Len(s.lines) /\ s.width \in Nat
      /\ \A i \in DOMAIN more : WellFormed(more[i])
      /\ InOrder(more, f.body.end - 1, f.body.end - 1 + s.width)
  BY <1>1, PlacedOK
<1>3. /\ e \in Function /\ e.name = f.name /\ e.type = f.type /\ e.body.start = f.body.start
      /\ e.body.end = f.body.end + s.width /\ e.lines = f.lines \o more
  <2>1. f \in Function /\ f.body \in Spans
    BY DEF FunctionOK, Function
  <2> HIDE DEF more
  <2>2. e = [f EXCEPT !.lines = @ \o more, !.body.end = @ + s.width]
    BY DEF Extended, more
  <2>3. f.lines \o more \in Seq(Line)
    BY <1>2
  <2>4. [f.body EXCEPT !.end = @ + s.width] = Span(f.body.start, f.body.end + s.width)
    BY <2>1 DEF Spans, Span
  <2>5. Span(f.body.start, f.body.end + s.width) \in Spans
    BY <1>2 DEF Spans, Span
  <2> QED
    BY <2>1, <2>2, <2>3, <2>4, <2>5 DEF Function, Span
<1> HIDE DEF e, more
<1>4. /\ Len(e.lines) = Len(f.lines) + Len(more) /\ DOMAIN e.lines = 1..(Len(f.lines) + Len(more))
      /\ DOMAIN more = 1..Len(more) /\ Len(more) \in Nat
      /\ \A i \in DOMAIN e.lines : i \in Int
      /\ \A i \in DOMAIN e.lines :
           e.lines[i] = IF i <= Len(f.lines) THEN f.lines[i] ELSE more[i - Len(f.lines)]
  <2>1. f.lines \in Seq(Line) /\ more \in Seq(Line)
    BY <1>2
  <2> QED
    BY <1>3, <2>1
<1>5. ASSUME NEW i \in DOMAIN e.lines
      PROVE  \/ i \in DOMAIN f.lines /\ e.lines[i] = f.lines[i]
             \/ i \notin DOMAIN f.lines /\ i - Len(f.lines) \in DOMAIN more /\ e.lines[i] = more[i - Len(f.lines)]
  <2>1. i \in Int /\ 1 <= i /\ i <= Len(f.lines) + Len(more) /\ Len(f.lines) \in Nat
    BY <1>4
  <2>2. CASE i <= Len(f.lines)
    BY <1>4, <2>1, <2>2
  <2>3. CASE ~(i <= Len(f.lines))
    BY <1>4, <2>1, <2>3
  <2> QED
    BY <2>2, <2>3
<1>6. \A i \in DOMAIN e.lines : WellFormed(e.lines[i])
  BY <1>2, <1>5 DEF FunctionOK
<1>7. \A i \in DOMAIN more : more[i].at \in Nat /\ more[i].width \in Nat
  <2>1. \A i \in DOMAIN more : more[i] \in Line
    BY <1>2, <1>4
  <2> QED
    BY <2>1 DEF Line
<1>8. InOrder(e.lines, e.body.start + 2, e.body.end - 1)
  <2> SUFFICES ASSUME NEW i \in DOMAIN e.lines
               PROVE  /\ e.body.start + 2 <= e.lines[i].at
                      /\ e.lines[i].at + e.lines[i].width <= e.body.end - 1
                      /\ \A j \in DOMAIN e.lines : i < j => e.lines[i].at + e.lines[i].width <= e.lines[j].at
    BY DEF InOrder
  <2>1. CASE i \in DOMAIN f.lines /\ e.lines[i] = f.lines[i]
    <3>1. /\ f.body.start + 2 <= f.lines[i].at /\ f.lines[i].at + f.lines[i].width <= f.body.end - 1
          /\ \A j \in DOMAIN f.lines : i < j => f.lines[i].at + f.lines[i].width <= f.lines[j].at
      BY <2>1 DEF FunctionOK, InOrder
    <3>2. \A j \in DOMAIN more : f.body.end - 1 <= more[j].at
      BY <1>2 DEF InOrder
    <3>3. ASSUME NEW j \in DOMAIN e.lines, i < j PROVE e.lines[i].at + e.lines[i].width <= e.lines[j].at
      <4>1. CASE j \in DOMAIN f.lines /\ e.lines[j] = f.lines[j]
        BY <2>1, <3>1, <3>3, <4>1
      <4>2. CASE j \notin DOMAIN f.lines /\ j - Len(f.lines) \in DOMAIN more /\ e.lines[j] = more[j - Len(f.lines)]
        <5>1. f.body.end - 1 <= e.lines[j].at /\ e.lines[j].at \in Nat
          BY <1>7, <3>2, <4>2
        <5>2. f.lines[i].at + f.lines[i].width \in Nat /\ f.lines[i].at + f.lines[i].width <= f.body.end - 1
          BY <2>1, <3>1
        <5>3. \A x, y \in Nat : x <= f.body.end - 1 /\ f.body.end - 1 <= y => x <= y
          BY <1>1
        <5> QED
          BY <2>1, <5>1, <5>2, <5>3
      <4> QED
        BY <1>5, <4>1, <4>2
    <3>4. f.lines[i].at + f.lines[i].width <= e.body.end - 1
      <4>1. f.lines[i].at + f.lines[i].width \in Nat
        BY <2>1
      <4>2. s.width \in Nat /\ e.body.end = f.body.end + s.width /\ f.body.end \in Nat
        BY <1>1, <1>2, <1>3
      <4>3. \A x \in Nat : x <= f.body.end - 1 => x <= e.body.end - 1
        BY <4>2
      <4> QED
        BY <3>1, <4>1, <4>3
    <3> QED
      BY <1>3, <2>1, <3>1, <3>3, <3>4
  <2>2. CASE i \notin DOMAIN f.lines /\ i - Len(f.lines) \in DOMAIN more /\ e.lines[i] = more[i - Len(f.lines)]
    <3> DEFINE k == i - Len(f.lines)
    <3>1. /\ f.body.end - 1 <= more[k].at /\ more[k].at + more[k].width <= f.body.end - 1 + s.width
          /\ \A j \in DOMAIN more : k < j => more[k].at + more[k].width <= more[j].at
      BY <1>2, <2>2 DEF InOrder
    <3>2. ASSUME NEW j \in DOMAIN e.lines, i < j PROVE e.lines[i].at + e.lines[i].width <= e.lines[j].at
      <4>1. j \notin DOMAIN f.lines
        BY <1>4, <2>2, <3>2
      <4>2. j - Len(f.lines) \in DOMAIN more /\ e.lines[j] = more[j - Len(f.lines)]
        BY <1>5, <4>1
      <4>3. k < j - Len(f.lines)
        BY <1>4, <3>2
      <4> QED
        BY <2>2, <3>1, <4>2, <4>3
    <3>3. /\ f.body.start + 2 <= more[k].at /\ e.body.end - 1 = f.body.end - 1 + s.width
      <4>1. more[k].at \in Nat /\ f.body.end - 1 <= more[k].at
        BY <1>7, <2>2, <3>1
      <4>2. \A x \in Nat : f.body.end - 1 <= x => f.body.start + 2 <= x
        BY <1>1
      <4>3. f.body.start + 2 <= more[k].at
        BY <4>1, <4>2
      <4>4. e.body.end = f.body.end + s.width /\ f.body.end \in Nat /\ s.width \in Nat
        BY <1>1, <1>2, <1>3
      <4> QED
        BY <4>3, <4>4
    <3> QED
      BY <1>3, <2>2, <3>1, <3>2, <3>3
  <2> QED
    BY <1>5, <2>1, <2>2
<1>9. /\ e.name.start < e.name.end /\ e.name.end <= e.body.start
      /\ \A x \in e.type : x.start < x.end /\ x.end <= e.body.start
      /\ e.body.start + 3 <= e.body.end
  BY <1>1, <1>2, <1>3 DEF FunctionOK
<1> QED
  BY <1>3, <1>6, <1>8, <1>9 DEF FunctionOK, e

----------------------------------------------------------------------------
(* The inductive invariant: what the user has written compiles, and the    *)
(* tree is that of the text.                                               *)

IInv ==
  /\ hasParam \in BOOLEAN
  /\ written \in 0..MaxStmts
  /\ FunctionOK(env.m)
  /\ env = Compile(env.m)
  /\ Compiles(hasParam, env.m)

LEMMA BothFunctions ==
  ASSUME IInv
  PROVE  /\ FunctionOK(env.m) /\ FunctionOK(env.h) /\ env.m.body.end + 1 = env.h.name.start
         /\ env.h.name.end < env.h.body.start /\ env.h.type = {}
<1>1. FunctionOK(env.m) /\ env = Compile(env.m)
  BY DEF IInv
<1>2. env.m.body.end + 1 \in Nat
  BY <1>1, FunctionTypes
<1>3. LaidOut(OtherBody)
  BY TextAssumption
<1>4. env.h = FunctionAt(env.m.body.end + 1, FALSE, OtherBody)
  <2>1. \A f : Compile(f).h = FunctionAt(f.body.end + 1, FALSE, OtherBody)
    BY DEF Compile
  <2>2. env.h = Compile(env.m).h
    BY <1>1
  <2> QED
    BY <2>1, <2>2
<1>5. /\ FunctionOK(env.h) /\ env.h.name = Span(env.m.body.end + 1, env.m.body.end + 1 + 1)
      /\ env.m.body.end + 1 + 7 <= env.h.body.start
  BY <1>2, <1>3, <1>4, FunctionAtOK
<1>6. env.h.type = {}
  BY <1>4 DEF FunctionAt
<1>7. env.h.name.start = env.m.body.end + 1 /\ env.h.name.end = env.m.body.end + 1 + 1
  BY <1>5 DEF Span
<1>8. env.h.body.start \in Nat
  BY <1>5, FunctionTypes
<1> QED
  BY <1>1, <1>2, <1>5, <1>6, <1>7, <1>8

LEMMA EmptyBody == LaidOut([width |-> 0, lines |-> <<>>])
BY DEF LaidOut, InOrder

LEMMA IInvInit == Init => IInv
<1> SUFFICES ASSUME Init PROVE IInv
  OBVIOUS
<1> DEFINE f == FunctionAt(0, hasParam, [width |-> 0, lines |-> <<>>])
<1>1. hasParam \in BOOLEAN /\ written = 0 /\ env = Compile(f)
  BY DEF Init
<1>2. FunctionOK(f)
  BY <1>1, EmptyBody, FunctionAtOK
<1>3. f.lines = Placed(<<>>, (IF hasParam THEN 0 + 9 + NameLen[Struct] ELSE 0 + 7) + 2)
  BY DEF FunctionAt
<1>4. DOMAIN f.lines = {}
  BY <1>3 DEF Placed
<1> HIDE DEF f
<1>5. env.m = f /\ env = Compile(env.m)
  BY <1>1 DEF Compile
<1>6. Compiles(hasParam, env.m)
  BY <1>4, <1>5 DEF Compiles
<1> QED
  BY <1>1, <1>2, <1>5, <1>6, MaxStmtsAssumption DEF IInv

LEMMA IInvNext == IInv /\ [Next]_vars => IInv'
<1> SUFFICES ASSUME IInv, [Next]_vars PROVE IInv'
  OBVIOUS
<1>1. CASE \E s \in Statements : Write(s)
  <2>1. PICK s \in Statements : Write(s)
    BY <1>1
  <2>2. LaidOut(s)
    BY TextAssumption
  <2>3. /\ written < MaxStmts /\ written' = written + 1 /\ hasParam' = hasParam
        /\ Compiles(hasParam, Extended(env.m, s)) /\ env' = Compile(Extended(env.m, s))
    BY <2>1 DEF Write
  <2>4. FunctionOK(Extended(env.m, s))
    BY <2>2, ExtendedOK DEF IInv
  <2>5. env'.m = Extended(env.m, s)
    BY <2>3 DEF Compile
  <2>6. written' \in 0..MaxStmts
    BY <2>3, MaxStmtsAssumption DEF IInv
  <2> QED
    BY <2>3, <2>4, <2>5, <2>6 DEF IInv
<1>2. CASE UNCHANGED <<hasParam, written, env>>
  BY <1>2 DEF IInv
<1>3. CASE \/ \E first \in Edges, last \in Edges : InlayHints(first, last)
           \/ \E o \in Places : Hover(o) \/ GotoDefinition(o) \/ References(o)
  BY <1>2, <1>3 DEF InlayHints, Hover, GotoDefinition, References
<1> QED
  BY <1>1, <1>2, <1>3 DEF Next, vars

----------------------------------------------------------------------------
(* Places in a function. *)

\* A place that is inside of a line is inside of no other one.
LEMMA SameLine ==
  ASSUME NEW f, FunctionOK(f), NEW i \in DOMAIN f.lines, NEW j \in DOMAIN f.lines, NEW o \in Int,
         f.lines[i].at < o, o < f.lines[i].at + f.lines[i].width,
         f.lines[j].at < o, o < f.lines[j].at + f.lines[j].width
  PROVE  i = j
<1>1. /\ \A k \in DOMAIN f.lines : i < k => f.lines[i].at + f.lines[i].width <= f.lines[k].at
      /\ \A k \in DOMAIN f.lines : j < k => f.lines[j].at + f.lines[j].width <= f.lines[k].at
  BY DEF FunctionOK, InOrder
<1>2. /\ i \in Int /\ j \in Int
      /\ f.lines[i].at \in Nat /\ f.lines[j].at \in Nat
      /\ f.lines[i].width \in Nat /\ f.lines[j].width \in Nat
  BY FunctionTypes
<1>3. ~(i < j)
  BY <1>1, <1>2
<1>4. ~(j < i)
  BY <1>1, <1>2
<1> QED
  BY <1>2, <1>3, <1>4

\* A part of a line that does not touch its ends.
Inside(l, span) == span \in Spans /\ 0 < span.start /\ span.end < l.width

LEMMA InsideTouched ==
  ASSUME NEW l \in Line, NEW span, Inside(l, span), NEW o \in Int, Touches(In(l, span), o)
  PROVE  l.at < o /\ o < l.at + l.width /\ l.at + span.start <= o /\ o <= l.at + span.end
<1>1. l.width \in Nat
  BY DEF Line
<1> QED
  BY <1>1, InPlace DEF Inside, Touches

LEMMA TouchedLine ==
  ASSUME NEW f, FunctionOK(f), NEW i \in DOMAIN f.lines, NEW j \in DOMAIN f.lines, NEW o \in Int,
         NEW a, NEW b, Inside(f.lines[i], a), Inside(f.lines[j], b),
         Touches(In(f.lines[i], a), o), Touches(In(f.lines[j], b), o)
  PROVE  i = j
<1>1. /\ f.lines[i] \in Line /\ f.lines[j] \in Line
      /\ f.lines[i].at \in Nat /\ f.lines[i].width \in Nat /\ f.lines[j].at \in Nat /\ f.lines[j].width \in Nat
  BY FunctionTypes
<1>2. f.lines[i].at < o /\ o < f.lines[i].at + f.lines[i].width
  BY <1>1, InsideTouched
<1>3. f.lines[j].at < o /\ o < f.lines[j].at + f.lines[j].width
  BY <1>1, InsideTouched
<1> QED
  BY <1>1, <1>2, <1>3, SameLine

\* Where something is touched, the cursor is not taken for its neighbour.
LEMMA MouseAtName ==
  ASSUME NEW f, FunctionOK(f), NEW i \in DOMAIN f.lines, NEW a, Inside(f.lines[i], a),
         NEW o \in Int, Touches(In(f.lines[i], a), o)
  PROVE  MouseEnd(Breaks(f), o) = o
<1> DEFINE l == f.lines[i]
<1>1. /\ l \in Line /\ l.at \in Nat /\ l.width \in Nat /\ i \in Int /\ f.body.start \in Nat
  BY FunctionTypes
<1>2. l.at < o /\ o < l.at + l.width
  BY <1>1, InsideTouched
<1>3. f.body.start + 2 <= l.at
  BY DEF FunctionOK, InOrder
<1>4. ASSUME NEW k \in DOMAIN f.lines PROVE f.lines[k].at + f.lines[k].width - 1 # o - 1
  <2>1. k \in Int /\ f.lines[k].at \in Nat /\ f.lines[k].width \in Nat
    BY FunctionTypes
  <2>2. /\ i < k => l.at + l.width <= f.lines[k].at
        /\ k < i => f.lines[k].at + f.lines[k].width <= l.at
    BY DEF FunctionOK, InOrder
  <2>3. CASE k = i
    BY <1>1, <1>2, <2>3
  <2>4. CASE k # i
    BY <1>1, <1>2, <2>1, <2>2, <2>4
  <2> QED
    BY <2>3, <2>4
<1>5. o - 1 # f.body.start + 1
  BY <1>1, <1>2, <1>3
<1>6. o - 1 \notin Breaks(f)
  BY <1>4, <1>5 DEF Breaks, LinesOf
<1> QED
  BY <1>6 DEF MouseEnd

LEMMA PartsAreInside ==
  ASSUME NEW l \in Line, WellFormed(l), NEW n \in l.nodes, NEW t \in n.tokens
  PROVE  /\ Inside(l, t.span) /\ Inside(l, Area(n, t))
         /\ n.op \in Expressions => Inside(l, n.span)
<1>0. l.width \in Nat
  BY DEF Line
<1>1. Inside(l, t.span)
  BY <1>0, NodeTypes, NodeFacts DEF Inside
<1>2. n.op \in Expressions => Inside(l, n.span)
  BY <1>0, NodeTypes, NodeFacts DEF Inside
<1>3. CASE n.op = "unpack"
  <2> DEFINE s == NameOf(n, "struct")
  <2> DEFINE b == NameOf(n, "bind")
  <2>1. s \in n.tokens /\ b \in n.tokens
    BY <1>3, UnpackNames, NodeFacts
  <2>2. 0 < s.span.start /\ b.span.end + 1 < l.width
    BY <2>1, NodeFacts
  <2>3. s.span.start \in Nat /\ b.span.end \in Nat
    BY <2>1, NodeTypes
  <2>4. Area(n, t) = Span(s.span.start, b.span.end + 1)
    BY <1>3 DEF Area, PatternSpan
  <2>5. l.width \in Nat
    BY DEF Line
  <2> QED
    BY <1>1, <1>2, <2>2, <2>3, <2>4, <2>5 DEF Inside, Span, Spans
<1>4. CASE n.op \in {"let", "tuple", "assign"}
  <2>1. Area(n, t) = t.span
    BY <1>4 DEF Area
  <2> QED
    BY <1>1, <1>2, <2>1
<1>5. CASE n.op \in {"const", "var", "call", "select", "pack"}
  <2>1. Area(n, t) = n.span
    BY <1>5 DEF Area
  <2> QED
    BY <1>1, <1>2, <1>5, <2>1 DEF Expressions
<1> QED
  BY <1>3, <1>4, <1>5, ByName, NodeFacts DEF Binding

----------------------------------------------------------------------------
(* Scopes. *)

LEMMA HasMax ==
  ASSUME NEW n \in Int, NEW S, S \subseteq 1..n, S # {}
  PROVE  MaxOf(S) \in S /\ \A x \in S : x <= MaxOf(S)
<1> DEFINE Rel == OpToRel(<, Nat)
<1> DEFINE T == {n - x : x \in S}
<1>0. \A x \in S : x \in Int /\ n - x \in Nat
  BY \A x \in 1..n : x \in Int /\ n - x \in Nat
<1>1. T \subseteq Nat /\ T # {}
  BY <1>0
<1>2. PICK y \in T : \A z \in T : ~(<<z, y>> \in Rel)
  BY <1>1, NatLessThanWellFounded, WFMin, Zenon
<1>3. PICK m \in S : y = n - m
  BY <1>2
<1>4. \A x \in S : x <= m
  <2> SUFFICES ASSUME NEW x \in S, ~(x <= m) PROVE FALSE
    OBVIOUS
  <2>1. n - x \in Nat /\ n - m \in Nat /\ n - x < n - m
    BY <1>0
  <2>2. <<n - x, y>> \in Rel
    BY <1>3, <2>1 DEF OpToRel
  <2>3. n - x \in T
    OBVIOUS
  <2> QED
    BY <1>2, <2>2, <2>3
<1> QED
  BY <1>3, <1>4 DEF MaxOf

\* The line of the latest declaration before the i-th one.
LEMMA Declared ==
  ASSUME NEW f, FunctionOK(f), NEW i \in DOMAIN f.lines, NEW name
  PROVE  LET own == DeclaredIn(f, i, name)
         IN /\ own \in 0..(i - 1) /\ (own = 0 <=> Visible(f, i, name) = {})
            /\ \A j \in Visible(f, i, name) : j <= own
            /\ own # 0 => own \in Visible(f, i, name) /\ own \in DOMAIN f.lines /\ Has(f.lines[own], "bind", name)
<1>1. i \in Int /\ Visible(f, i, name) \subseteq 1..(i - 1) /\ i - 1 \in Int /\ 1 <= i
  BY FunctionTypes DEF Visible
<1>2. CASE Visible(f, i, name) = {}
  BY <1>1, <1>2 DEF DeclaredIn
<1>3. CASE Visible(f, i, name) # {}
  <2> DEFINE own == MaxOf(Visible(f, i, name))
  <2>1. own \in Visible(f, i, name) /\ \A j \in Visible(f, i, name) : j <= own
    BY <1>1, <1>3, HasMax
  <2>2. DeclaredIn(f, i, name) = own
    BY <1>3 DEF DeclaredIn
  <2>3. own \in 1..(i - 1) /\ Has(f.lines[own], "bind", name)
    BY <1>1, <2>1 DEF Visible
  <2>4. own \in DOMAIN f.lines
    BY <1>1, <2>3, FunctionTypes
  <2> HIDE DEF own
  <2> QED
    BY <1>1, <1>3, <2>1, <2>2, <2>3, <2>4
<1> QED
  BY <1>2, <1>3

\* A line has a pattern for a name once.
LEMMA OnePattern ==
  ASSUME NEW l \in Line, WellFormed(l), NEW t \in Patterns(l)
  PROVE  /\ PatternPlace(l, t.name) = l.at + t.span.start
         /\ \A u \in Patterns(l) : u.name = t.name => u = t
         /\ t.class \in Pattern /\ \A class : Has(l, class, t.name) <=> t.class = class
<1>1. \A u \in Patterns(l) : u.name = t.name => u = t
  BY DEF WellFormed
<1>2. (CHOOSE u \in Patterns(l) : u.name = t.name) = t
  BY <1>1
<1>3. t.class \in Pattern
  BY DEF Patterns, Names
<1> QED
  BY <1>1, <1>2, <1>3 DEF PatternPlace, Has

LEMMA IsPattern ==
  ASSUME NEW l, NEW n \in l.nodes, NEW t \in n.tokens, t.class \in Pattern
  PROVE  t \in Patterns(l)
BY DEF Patterns, Names

\* A line between the declaration and the i-th one, that the declaration can
\* be seen from.
LEMMA SeenBefore ==
  ASSUME NEW f, FunctionOK(f), NEW i \in DOMAIN f.lines, NEW name, NEW j \in Visible(f, i, name),
         NEW k \in (j + 1)..i
  PROVE  j \in Visible(f, k, name)
<1>1. i \in Int /\ j \in 1..(i - 1) /\ k \in Int /\ j < k /\ k <= i
  BY FunctionTypes DEF Visible
<1>2. j \in 1..(k - 1) /\ j..k \subseteq j..i
  BY <1>1
<1> QED
  BY <1>2 DEF Visible

\* The last pattern of a name in the lines that have been walked is that of
\* its declaration, or assigns to the variable, unless the name is stale.
LEMMA LastIsOwn ==
  ASSUME NEW f, FunctionOK(f), NEW i \in DOMAIN f.lines, NEW name, NEW walked \in {i - 1, i},
         LET own == DeclaredIn(f, i, name)
         IN \A k \in (own + 1)..walked :
              Has(f.lines[k], "bind", name) =>
                \E j \in (k + 1)..walked : Has(f.lines[j], "set", name) /\ DeclaredIn(f, j, name) = own,
         NEW last \in 1..walked,
         (Has(f.lines[last], "bind", name) \/ Has(f.lines[last], "set", name)),
         \A j \in 1..walked : Has(f.lines[j], "bind", name) \/ Has(f.lines[j], "set", name) => j <= last
  PROVE  LET own == DeclaredIn(f, i, name)
         IN \/ last = own
            \/ Has(f.lines[last], "set", name) /\ DeclaredIn(f, last, name) = own
<1> DEFINE own == DeclaredIn(f, i, name)
<1>1. /\ i \in Int /\ 1 <= i /\ walked \in Int /\ last \in Int /\ walked <= i /\ 1 <= last /\ last <= walked
      /\ i - 1 <= walked
  BY FunctionTypes
<1>2. /\ own \in 0..(i - 1)
      /\ own # 0 => own \in Visible(f, i, name) /\ Has(f.lines[own], "bind", name)
  BY Declared
<1>3. own <= last
  BY <1>1, <1>2
<1> SUFFICES ASSUME last # own
             PROVE  Has(f.lines[last], "set", name) /\ DeclaredIn(f, last, name) = own
  OBVIOUS
<1> HIDE DEF own
<1>4. own < last
  BY <1>1, <1>2, <1>3
<1>5. ASSUME NEW k \in (own + 1)..walked, Has(f.lines[k], "bind", name)
      PROVE  \E j \in (k + 1)..walked : Has(f.lines[j], "set", name) /\ DeclaredIn(f, j, name) = own
  BY <1>5 DEF own
<1>6. ~Has(f.lines[last], "bind", name)
  <2> SUFFICES ASSUME Has(f.lines[last], "bind", name) PROVE FALSE
    OBVIOUS
  <2>1. last \in (own + 1)..walked
    BY <1>1, <1>2, <1>4
  <2>2. PICK j \in (last + 1)..walked : Has(f.lines[j], "set", name)
    BY <1>5, <2>1
  <2>3. j \in 1..walked /\ ~(j <= last)
    BY <1>1, <2>2
  <2> QED
    BY <2>2, <2>3
<1>7. last \in DOMAIN f.lines
  BY <1>1, FunctionTypes
<1> DEFINE other == DeclaredIn(f, last, name)
<1>8. /\ other \in 0..(last - 1)
      /\ \A j \in Visible(f, last, name) : j <= other
      /\ other # 0 => other \in Visible(f, last, name) /\ Has(f.lines[other], "bind", name)
  BY <1>7, Declared
<1>9. own <= other
  <2>1. CASE own = 0
    BY <1>1, <1>8, <2>1
  <2>2. CASE own # 0
    <3>1. last \in (own + 1)..i
      BY <1>1, <1>2, <1>4
    <3>2. own \in Visible(f, last, name)
      BY <1>2, <2>2, <3>1, SeenBefore
    <3> QED
      BY <1>8, <3>2
  <2> QED
    BY <2>1, <2>2
<1> HIDE DEF other
<1>10. other = own
  <2> SUFFICES ASSUME other # own PROVE FALSE
    OBVIOUS
  <2>1. other \in Int /\ own < other /\ other < last /\ other # 0
    BY <1>1, <1>2, <1>8, <1>9
  <2>2. other \in (own + 1)..walked
    BY <1>1, <1>2, <2>1
  <2>3. PICK j \in (other + 1)..walked : Has(f.lines[j], "set", name) /\ DeclaredIn(f, j, name) = own
    BY <1>5, <1>8, <2>1, <2>2
  <2>4. j \in 1..walked /\ j \in Int /\ other < j /\ j <= walked
    BY <1>1, <1>2, <2>1, <2>3
  <2>5. j <= last
    BY <2>3, <2>4
  <2>6. j # last
    BY <2>1, <2>3 DEF other
  <2>7. j \in (other + 1)..last /\ j \in DOMAIN f.lines
    BY <1>1, <2>1, <2>4, <2>5, FunctionTypes
  <2>8. other \in Visible(f, j, name)
    BY <1>7, <1>8, <2>1, <2>7, SeenBefore
  <2>9. other <= DeclaredIn(f, j, name)
    BY <2>7, <2>8, Declared
  <2> QED
    BY <1>2, <2>1, <2>3, <2>9
<1> QED
  BY <1>6, <1>10 DEF other

----------------------------------------------------------------------------
(* Go to definition: what is captured for a name. *)

\* a variable
Local(i, n, t) ==
  LET walked == Walked(i, n.op)
      declared == IF n.op = "var" THEN Visible(env.m, i, t.name) # {} ELSE Patterned(t.name, walked) # {}
  IN IF declared THEN IF Patterned(t.name, walked) = {} THEN {} ELSE {LastPattern(t.name, walked)}
     ELSE IF hasParam /\ t.name = Param THEN {VarDecl(Param, env.m.param)} ELSE {}

Result(i, n, t) ==
  CASE n.op = "const"              -> {Decl("const", Const)}
    [] n.op = "call"               -> {Decl("fun", t.name)}
    [] n.op = "select"             -> {Decl("field", Field)}
    [] n.op \in {"pack", "unpack"} -> {Decl("struct", Struct)}
    [] OTHER                       -> Local(i, n, t)

Reached(i, n, t, mouse) ==
  /\ Touches(PlaceOf(i, Area(n, t)), mouse)
  /\ n.op = "call" => Encloses(PlaceOf(i, n.span), mouse)

Answers(i, n, t, mouse) ==
  {Capture(PlaceOf(i, Area(n, t)), d) : d \in IF Reached(i, n, t, mouse) THEN Result(i, n, t) ELSE {}}

\* The expressions and patterns with one name.
LEMMA AnswersOfOne ==
  ASSUME NEW i, NEW n, NEW t, n.tokens = {t}, NEW mouse
  PROVE  UNION {Answers(i, n, u, mouse) : u \in n.tokens} = Answers(i, n, t, mouse)
OBVIOUS

\* A capture of one declaration.
LEMMA Inserted ==
  ASSUME NEW i, NEW span, NEW d, NEW mouse
  PROVE  InsertResult(env.m.lines[i], span, d, mouse)
           = {Capture(PlaceOf(i, span), e) : e \in IF Touches(PlaceOf(i, span), mouse) THEN {d} ELSE {}}
BY DEF InsertResult, PlaceOf

\* A variable's capture.
LEMMA InsertedLocal ==
  ASSUME NEW i, NEW n, NEW t, NEW mouse, n.op \notin {"const", "call", "select", "pack", "unpack"},
         Area(n, t) = t.span
  PROVE  Answers(i, n, t, mouse) =
           LET walked == Walked(i, n.op)
           IN IF (IF n.op = "var" THEN Visible(env.m, i, t.name) # {} ELSE Patterned(t.name, walked) # {})
              THEN InsertLocal(env.m.lines[i], t, walked, mouse) ELSE InsertParam(env.m.lines[i], t, mouse)
<1> DEFINE walked == Walked(i, n.op)
<1> DEFINE declared == IF n.op = "var" THEN Visible(env.m, i, t.name) # {} ELSE Patterned(t.name, walked) # {}
<1> DEFINE l == env.m.lines[i]
<1>1. Result(i, n, t) = Local(i, n, t)
  BY DEF Result
<1>2. Answers(i, n, t, mouse)
        = {Capture(PlaceOf(i, t.span), d) : d \in IF Touches(PlaceOf(i, t.span), mouse) THEN Local(i, n, t) ELSE {}}
  BY <1>1 DEF Answers, Reached
<1>3. Local(i, n, t) =
        IF declared THEN IF Patterned(t.name, walked) = {} THEN {} ELSE {LastPattern(t.name, walked)}
        ELSE IF hasParam /\ t.name = Param THEN {VarDecl(Param, env.m.param)} ELSE {}
  BY DEF Local
<1>4. InsertLocal(l, t, walked, mouse) =
        IF Patterned(t.name, walked) = {} THEN {} ELSE InsertResult(l, t.span, LastPattern(t.name, walked), mouse)
  BY DEF InsertLocal
<1>5. InsertParam(l, t, mouse) =
        IF hasParam /\ t.name = Param THEN InsertResult(l, t.span, VarDecl(Param, env.m.param), mouse) ELSE {}
  BY DEF InsertParam
<1> HIDE DEF walked, declared
<1>6. CASE declared /\ Patterned(t.name, walked) = {}
  <2>1. Local(i, n, t) = {} /\ InsertLocal(l, t, walked, mouse) = {}
    BY <1>3, <1>4, <1>6
  <2>2. Answers(i, n, t, mouse) = {}
    BY <1>2, <2>1
  <2> QED
    BY <1>6, <2>1, <2>2 DEF declared, walked
<1>7. CASE declared /\ Patterned(t.name, walked) # {}
  <2>1. Local(i, n, t) = {LastPattern(t.name, walked)}
    BY <1>3, <1>7
  <2>2. InsertLocal(l, t, walked, mouse) = InsertResult(l, t.span, LastPattern(t.name, walked), mouse)
    BY <1>4, <1>7
  <2>3. InsertLocal(l, t, walked, mouse) = Answers(i, n, t, mouse)
    BY <1>2, <2>1, <2>2, Inserted
  <2> QED
    BY <1>7, <2>3 DEF declared, walked
<1>8. CASE ~declared
  <2>1. InsertParam(l, t, mouse) = Answers(i, n, t, mouse)
    <3>1. CASE hasParam /\ t.name = Param
      <4>1. Local(i, n, t) = {VarDecl(Param, env.m.param)}
        BY <1>3, <1>8, <3>1
      <4>2. InsertParam(l, t, mouse) = InsertResult(l, t.span, VarDecl(Param, env.m.param), mouse)
        BY <1>5, <3>1
      <4> QED
        BY <1>2, <4>1, <4>2, Inserted
    <3>2. CASE ~(hasParam /\ t.name = Param)
      BY <1>2, <1>3, <1>5, <1>8, <3>2
    <3> QED
      BY <3>1, <3>2
  <2> QED
    BY <1>8, <2>1 DEF declared, walked
<1> QED
  BY <1>6, <1>7, <1>8

\* A walk captures for a node what its names stand for.
LEMMA VisitIs ==
  ASSUME IInv, NEW i \in DOMAIN env.m.lines, NEW n \in env.m.lines[i].nodes, NEW mouse \in Int
  PROVE  Visit(i, n, mouse) = UNION {Answers(i, n, t, mouse) : t \in n.tokens}
<1> DEFINE l == env.m.lines[i]
<1>1. l \in Line /\ WellFormed(l)
  BY BothFunctions, FunctionTypes DEF FunctionOK
<1>2. Shaped(n) /\ n.op \in Expressions \union Roots
  BY <1>1, NodeFacts, NodeTypes
<1>3. CASE n.op \in {"num", "add", "do"}
  <2>1. n.tokens = {}
    BY <1>2, <1>3 DEF Shaped
  <2> QED
    BY <1>3, <2>1 DEF Visit, Binding
<1>4. CASE n.op = "const"
  <2>1. PICK t \in n.tokens : n.tokens = {t}
    BY <1>2, <1>4, OnlyHas DEF Shaped
  <2>2. Area(n, t) = n.span /\ Result(i, n, t) = {Decl("const", Const)}
    BY <1>4 DEF Area, Result
  <2>3. Visit(i, n, mouse) = InsertResult(l, n.span, Decl("const", Const), mouse)
    BY <1>4 DEF Visit, Binding
  <2>4. Answers(i, n, t, mouse)
          = {Capture(PlaceOf(i, n.span), d) : d \in IF Touches(PlaceOf(i, n.span), mouse) THEN {Decl("const", Const)} ELSE {}}
    BY <1>4, <2>2 DEF Answers, Reached
  <2> QED
    BY <2>1, <2>3, <2>4, AnswersOfOne, Inserted
<1>5. CASE n.op = "call"
  <2>1. PICK t \in n.tokens : n.tokens = {t}
    BY <1>2, <1>5, OnlyHas DEF Shaped
  <2>2. NameOf(n, "fun") = t
    BY <1>2, <1>5, <2>1, ByName
  <2>3. Area(n, t) = n.span /\ Result(i, n, t) = {Decl("fun", t.name)}
    BY <1>5 DEF Area, Result
  <2>4. Visit(i, n, mouse) = IF Encloses(In(l, n.span), mouse)
                             THEN InsertResult(l, n.span, Decl("fun", t.name), mouse) ELSE {}
    BY <1>5, <2>2 DEF Visit, ProcessCall, Binding
  <2>5. Answers(i, n, t, mouse)
          = {Capture(PlaceOf(i, n.span), d) :
               d \in IF Touches(PlaceOf(i, n.span), mouse) /\ Encloses(PlaceOf(i, n.span), mouse)
                     THEN {Decl("fun", t.name)} ELSE {}}
    BY <1>5, <2>3 DEF Answers, Reached
  <2>6. Visit(i, n, mouse) = Answers(i, n, t, mouse)
    BY <2>4, <2>5, Inserted DEF PlaceOf
  <2> QED
    BY <2>1, <2>6, AnswersOfOne
<1>6. CASE n.op = "select"
  <2>1. PICK t \in n.tokens : n.tokens = {t}
    BY <1>2, <1>6, OnlyHas DEF Shaped
  <2>2. Area(n, t) = n.span /\ Result(i, n, t) = {Decl("field", Field)}
    BY <1>6 DEF Area, Result
  <2>3. Visit(i, n, mouse) = InsertResult(l, n.span, Decl("field", Field), mouse)
    BY <1>6 DEF Visit, ProcessCall, Binding
  <2>4. Answers(i, n, t, mouse)
          = {Capture(PlaceOf(i, n.span), d) : d \in IF Touches(PlaceOf(i, n.span), mouse) THEN {Decl("field", Field)} ELSE {}}
    BY <1>6, <2>2 DEF Answers, Reached
  <2> QED
    BY <2>1, <2>3, <2>4, AnswersOfOne, Inserted
<1>7. CASE n.op \in {"pack", "unpack"}
  <2> DEFINE area == IF n.op = "pack" THEN n.span ELSE PatternSpan(n)
  <2>1. n.tokens # {}
    BY <1>2, <1>7, PackNames, UnpackNames
  <2>2. \A t \in n.tokens : Area(n, t) = area /\ Result(i, n, t) = {Decl("struct", Struct)}
    BY <1>7 DEF Area, Result
  <2>3. Visit(i, n, mouse) = InsertResult(l, area, Decl("struct", Struct), mouse)
    BY <1>7 DEF Visit, ProcessCall, ProcessPattern, Binding
  <2> HIDE DEF area
  <2>4. \A t \in n.tokens : Answers(i, n, t, mouse)
          = {Capture(PlaceOf(i, area), d) : d \in IF Touches(PlaceOf(i, area), mouse) THEN {Decl("struct", Struct)} ELSE {}}
    BY <1>7, <2>2 DEF Answers, Reached
  <2>5. \A t \in n.tokens : Answers(i, n, t, mouse) = Visit(i, n, mouse)
    BY <2>3, <2>4, Inserted
  <2> QED
    BY <2>1, <2>5
<1>8. CASE n.op = "var"
  <2>1. PICK t \in n.tokens : n.tokens = {t}
    BY <1>2, <1>8, OnlyHas DEF Shaped
  <2>2. NameOf(n, "use") = t /\ t.span = n.span
    BY <1>2, <1>8, <2>1, ByName
  <2>3. Area(n, t) = t.span /\ Walked(i, n.op) = i
    BY <1>8, <2>2 DEF Area, Walked
  <2>4. Visit(i, n, mouse) = IF Visible(env.m, i, t.name) # {} THEN InsertLocal(l, t, i, mouse)
                             ELSE InsertParam(l, t, mouse)
    BY <1>8, <2>2 DEF Visit, Binding
  <2>5. Visit(i, n, mouse) = Answers(i, n, t, mouse)
    BY <1>8, <2>3, <2>4, InsertedLocal
  <2> QED
    BY <2>1, <2>5, AnswersOfOne
<1>9. CASE n.op \in {"let", "tuple", "assign"}
  <2>1. Names(n, Pattern) = n.tokens
    BY <1>2, <1>9, ByName DEF Names, Pattern
  <2>2. Visit(i, n, mouse) = ProcessPattern(i, n, mouse)
    BY <1>9 DEF Visit, Binding
  <2>3. ProcessPattern(i, n, mouse) =
          UNION {IF Patterned(t.name, Walked(i, n.op)) # {} THEN InsertLocal(l, t, Walked(i, n.op), mouse)
                 ELSE InsertParam(l, t, mouse) : t \in n.tokens}
    BY <1>9, <2>1 DEF ProcessPattern
  <2>4. ASSUME NEW t \in n.tokens
        PROVE  Answers(i, n, t, mouse) = IF Patterned(t.name, Walked(i, n.op)) # {}
                                         THEN InsertLocal(l, t, Walked(i, n.op), mouse) ELSE InsertParam(l, t, mouse)
    <3>1. Area(n, t) = t.span
      BY <1>9 DEF Area
    <3> QED
      BY <1>9, <3>1, InsertedLocal
  <2> QED
    BY <2>2, <2>3, <2>4
<1> QED
  BY <1>2, <1>3, <1>4, <1>5, <1>6, <1>7, <1>8, <1>9 DEF Expressions, Roots, Binding

\* What is captured at a place.
LEMMA CapturedIs ==
  ASSUME IInv, NEW mouse \in Int
  PROVE  /\ \A i \in DOMAIN env.m.lines : \A n \in env.m.lines[i].nodes : \A t \in n.tokens : \A d \in Result(i, n, t) :
              Reached(i, n, t, mouse) => Capture(PlaceOf(i, Area(n, t)), d) \in Captured(mouse)
         /\ \A c \in Captured(mouse) : \E i, n, t, d :
              /\ IsName(i, n, t) /\ d \in Result(i, n, t) /\ c = Capture(PlaceOf(i, Area(n, t)), d)
              /\ Reached(i, n, t, mouse)
<1>1. ASSUME NEW i \in DOMAIN env.m.lines, NEW n \in env.m.lines[i].nodes, NEW t \in n.tokens,
             NEW d \in Result(i, n, t), Reached(i, n, t, mouse)
      PROVE  Capture(PlaceOf(i, Area(n, t)), d) \in Captured(mouse)
  <2>1. Capture(PlaceOf(i, Area(n, t)), d) \in Visit(i, n, mouse)
    BY <1>1, VisitIs DEF Answers
  <2> QED
    BY <2>1 DEF Captured
<1>2. ASSUME NEW c \in Captured(mouse)
      PROVE  \E i, n, t, d :
               /\ IsName(i, n, t) /\ d \in Result(i, n, t) /\ c = Capture(PlaceOf(i, Area(n, t)), d)
               /\ Reached(i, n, t, mouse)
  <2>1. PICK i \in DOMAIN env.m.lines : \E n \in env.m.lines[i].nodes : c \in Visit(i, n, mouse)
    BY DEF Captured
  <2>2. PICK n \in env.m.lines[i].nodes : c \in Visit(i, n, mouse)
    BY <2>1
  <2>3. PICK t \in n.tokens : c \in Answers(i, n, t, mouse)
    BY <2>2, VisitIs
  <2>4. PICK d \in Result(i, n, t) : c = Capture(PlaceOf(i, Area(n, t)), d) /\ Reached(i, n, t, mouse)
    BY <2>3 DEF Answers
  <2> QED
    BY <2>4 DEF IsName
<1> QED
  BY <1>1, <1>2

----------------------------------------------------------------------------
(* Go to definition: variables. *)

LEMMA VariableNodes ==
  ASSUME NEW n, Shaped(n), NEW t \in n.tokens, t.class \in Variable, n.op # "unpack"
  PROVE  /\ n.op \in {"var", "let", "tuple", "assign"}
         /\ n.op = "var" <=> t.class = "use"
         /\ n.op = "assign" <=> t.class = "set"
         /\ n.op \in {"let", "tuple"} <=> t.class = "bind"
<1>1. t.class \in {"bind", "set", "use"}
  BY DEF Variable, Pattern
<1>2. n.op # "pack"
  BY <1>1, PackNames
<1> QED
  BY <1>1, <1>2, ByName DEF Binding

LEMMA LinesOK ==
  ASSUME IInv, NEW i \in DOMAIN env.m.lines
  PROVE  /\ env.m.lines[i] \in Line /\ WellFormed(env.m.lines[i]) /\ i \in Nat /\ 1 <= i
         /\ env.m.lines[i].at \in Nat /\ env.m.lines[i].width \in Nat
         /\ \A j \in 1..i : j \in DOMAIN env.m.lines
<1>1. i \in 1..Len(env.m.lines) /\ Len(env.m.lines) \in Nat
  BY BothFunctions, FunctionTypes
<1>2. \A j \in 1..i : j \in DOMAIN env.m.lines
  BY <1>1, BothFunctions, FunctionTypes
<1> QED
  <2>1. FunctionOK(env.m)
    BY BothFunctions
  <2>2. WellFormed(env.m.lines[i])
    BY <2>1 DEF FunctionOK
  <2>3. i \in Nat /\ 1 <= i
    BY <1>1
  <2> QED
    BY <1>2, <2>1, <2>2, <2>3, FunctionTypes

\* u, in the line last, is the last pattern of a name in the lines that have
\* been walked.
IsLast(last, u, name, walked) ==
  /\ u.name = name /\ last \in DOMAIN env.m.lines
  /\ LastPattern(name, walked) = VarDecl(name, env.m.lines[last].at + u.span.start)
  /\ Has(env.m.lines[last], "bind", name) \/ Has(env.m.lines[last], "set", name)
  /\ \A j \in 1..walked : (\E v \in Patterns(env.m.lines[j]) : v.name = name) => j <= last

LEMMA LastPatternIs ==
  ASSUME IInv, NEW i \in DOMAIN env.m.lines, NEW walked \in {i - 1, i}, NEW name, Patterned(name, walked) # {}
  PROVE  \E last \in 1..walked : \E u \in Patterns(env.m.lines[last]) : IsLast(last, u, name, walked)
<1> DEFINE last == MaxOf(Patterned(name, walked))
<1>1. walked \in Int /\ walked <= i /\ i \in Int
  BY LinesOK
<1>2. last \in Patterned(name, walked) /\ \A j \in Patterned(name, walked) : j <= last
  BY <1>1, HasMax DEF Patterned
<1>3. last \in 1..walked
  BY <1>2 DEF Patterned
<1>4. PICK u \in Patterns(env.m.lines[last]) : u.name = name
  BY <1>2 DEF Patterned
<1>5. last \in DOMAIN env.m.lines
  BY <1>1, <1>3, LinesOK
<1>6. LastPattern(name, walked) = VarDecl(name, PatternPlace(env.m.lines[last], name))
  BY DEF LastPattern
<1> HIDE DEF last
<1>7. /\ PatternPlace(env.m.lines[last], name) = env.m.lines[last].at + u.span.start
      /\ u.class \in Pattern
  BY <1>4, <1>5, LinesOK, OnePattern
<1>8. Has(env.m.lines[last], "bind", name) \/ Has(env.m.lines[last], "set", name)
  BY <1>4, <1>7 DEF Has, Pattern
<1>9. ASSUME NEW j \in 1..walked, \E v \in Patterns(env.m.lines[j]) : v.name = name
      PROVE  j <= last
  BY <1>2, <1>9 DEF Patterned
<1> QED
  BY <1>3, <1>4, <1>5, <1>6, <1>7, <1>8, <1>9 DEF IsLast

\* What stands for a variable is a pattern of it, unless it is stale.
LEMMA LastDenotes ==
  ASSUME IInv, NEW i \in DOMAIN env.m.lines, NEW n \in env.m.lines[i].nodes, NEW t \in n.tokens,
         t.class \in {"use", "set"}, NEW walked, walked = (IF t.class = "set" THEN i - 1 ELSE i),
         ~Stale(i, t), Patterned(t.name, walked) # {},
         t.class = "use" => Visible(env.m, i, t.name) # {}
  PROVE  Denotes(LastPattern(t.name, walked), i, t)
<1> DEFINE name == t.name
<1> DEFINE own == DeclaredIn(env.m, i, name)
<1>1. FunctionOK(env.m) /\ walked \in {i - 1, i}
  BY DEF IInv
<1>2. own \in 0..(i - 1) /\ (own = 0 <=> Visible(env.m, i, name) = {})
  BY <1>1, Declared
<1>3. PICK last \in 1..walked : \E u \in Patterns(env.m.lines[last]) : IsLast(last, u, name, walked)
  BY <1>1, LastPatternIs
<1>4. PICK u \in Patterns(env.m.lines[last]) : IsLast(last, u, name, walked)
  BY <1>3
<1>5. /\ u.name = name /\ last \in DOMAIN env.m.lines
      /\ LastPattern(name, walked) = VarDecl(name, env.m.lines[last].at + u.span.start)
  BY <1>4 DEF IsLast
<1>6. /\ Has(env.m.lines[last], "bind", name) \/ Has(env.m.lines[last], "set", name)
      /\ \A j \in 1..walked : (\E v \in Patterns(env.m.lines[j]) : v.name = name) => j <= last
  BY <1>4 DEF IsLast
<1>7. ASSUME NEW k \in (own + 1)..walked, Has(env.m.lines[k], "bind", name)
      PROVE  \E j \in (k + 1)..walked : Has(env.m.lines[j], "set", name) /\ DeclaredIn(env.m, j, name) = own
  <2>1. t.class = "set" \/ (t.class = "use" /\ own # 0)
    BY <1>2
  <2> QED
    BY <1>7, <2>1 DEF Stale
<1>8. \A j \in 1..walked : Has(env.m.lines[j], "bind", name) \/ Has(env.m.lines[j], "set", name) => j <= last
  BY <1>6 DEF Has
<1>9. \/ last = own
      \/ Has(env.m.lines[last], "set", name) /\ DeclaredIn(env.m, last, name) = own
  BY <1>1, <1>7, <1>8, <1>5, <1>6, LastIsOwn
<1>10. /\ PatternPlace(env.m.lines[last], name) = env.m.lines[last].at + u.span.start
      /\ \A class : Has(env.m.lines[last], class, name) <=> u.class = class
  <2>1. env.m.lines[last] \in Line /\ WellFormed(env.m.lines[last])
    BY <1>5, LinesOK
  <2>2. /\ PatternPlace(env.m.lines[last], u.name) = env.m.lines[last].at + u.span.start
        /\ \A class : Has(env.m.lines[last], class, u.name) <=> u.class = class
    BY <2>1, OnePattern
  <2> QED
    BY <1>5, <2>2
<1>11. DeclOf(env.m, i, t) = VarDecl(name, IF own = 0 THEN env.m.param ELSE PatternPlace(env.m.lines[own], name))
  BY DEF DeclOf
<1>12. DeclOf(env.m, last, u) = DeclOf(env.m, i, t)
  <2>1. CASE last = own
    <3>1. own # 0 /\ u.class = "bind"
      BY <1>1, <1>2, <1>10, <2>1, Declared
    <3> QED
      BY <1>5, <1>10, <1>11, <2>1, <3>1 DEF DeclOf
  <2>2. CASE Has(env.m.lines[last], "set", name) /\ DeclaredIn(env.m, last, name) = own
    <3>1. u.class = "set"
      BY <1>10, <2>2
    <3> QED
      BY <1>5, <1>11, <2>2, <3>1 DEF DeclOf
  <2> QED
    BY <1>9, <2>1, <2>2
<1>13. PlaceOf(last, u.span).start = LastPattern(name, walked).at /\ LastPattern(name, walked).kind = "var"
  BY <1>5 DEF PlaceOf, In, Span, VarDecl
<1> HIDE DEF own
<1>14. t.class \in Variable
  BY DEF Variable, Pattern
<1> QED
  BY <1>5, <1>4, <1>12, <1>13, <1>14 DEF Denotes

LEMMA LocalDenotes ==
  ASSUME IInv, NEW i \in DOMAIN env.m.lines, NEW n \in env.m.lines[i].nodes, NEW t \in n.tokens,
         t.class \in Variable, n.op # "unpack", ~Stale(i, t)
  PROVE  \E d : Result(i, n, t) = {d} /\ Denotes(d, i, t)
<1> DEFINE l == env.m.lines[i]
<1> DEFINE walked == Walked(i, n.op)
<1>1. /\ l \in Line /\ WellFormed(l) /\ FunctionOK(env.m) /\ i \in Nat /\ 1 <= i
      /\ \A j \in 1..i : j \in DOMAIN env.m.lines
  BY LinesOK DEF IInv
<1>2. Shaped(n)
  BY <1>1, NodeFacts
<1>3. Result(i, n, t) = Local(i, n, t)
  BY <1>2, VariableNodes DEF Result
<1>4. walked = IF t.class = "set" THEN i - 1 ELSE i
  BY <1>2, VariableNodes DEF Walked
<1>5. ASSUME t.class \in {"use", "set"}, Visible(env.m, i, t.name) = {}
      PROVE  /\ hasParam /\ t.name = Param
             /\ Denotes(VarDecl(Param, env.m.param), i, t)
  <2>1. hasParam /\ t.name = Param
    BY <1>5 DEF IInv, Compiles, Names
  <2>2. DeclOf(env.m, i, t) = VarDecl(Param, env.m.param)
    BY <1>5, <2>1 DEF DeclOf, DeclaredIn
  <2> QED
    BY <2>1, <2>2 DEF Denotes
<1>6. ASSUME NEW own \in Visible(env.m, i, t.name), t.class \in {"use", "set"}
      PROVE  Patterned(t.name, walked) # {}
  <2>1. own \in 1..(i - 1) /\ Has(env.m.lines[own], "bind", t.name)
    BY DEF Visible
  <2>2. own \in 1..walked
    BY <1>1, <1>4, <2>1
  <2> QED
    BY <2>1, <2>2 DEF Patterned, Has
<1>7. CASE t.class = "use"
  <2>1. n.op = "var"
    BY <1>2, <1>7, VariableNodes
  <2>2. CASE Visible(env.m, i, t.name) = {}
    BY <1>3, <1>5, <1>7, <2>1, <2>2 DEF Local
  <2>3. CASE Visible(env.m, i, t.name) # {}
    <3>1. Patterned(t.name, walked) # {}
      BY <1>6, <1>7, <2>3
    <3>2. Denotes(LastPattern(t.name, walked), i, t)
      BY <1>4, <1>7, <2>3, <3>1, LastDenotes
    <3>3. Local(i, n, t) = {LastPattern(t.name, walked)}
      BY <2>1, <2>3, <3>1 DEF Local
    <3> QED
      BY <1>3, <3>2, <3>3
  <2> QED
    BY <2>2, <2>3
<1>8. CASE t.class = "set"
  <2>1. n.op = "assign"
    BY <1>2, <1>8, VariableNodes
  <2>2. CASE Patterned(t.name, walked) = {}
    <3>1. Visible(env.m, i, t.name) = {}
      BY <1>6, <1>8, <2>2
    <3> QED
      BY <1>3, <1>5, <1>8, <2>1, <2>2, <3>1 DEF Local
  <2>3. CASE Patterned(t.name, walked) # {}
    <3>1. Denotes(LastPattern(t.name, walked), i, t)
      BY <1>4, <1>8, <2>3, LastDenotes
    <3>2. Local(i, n, t) = {LastPattern(t.name, walked)}
      BY <2>1, <2>3 DEF Local
    <3> QED
      BY <1>3, <3>1, <3>2
  <2> QED
    BY <2>2, <2>3
<1>9. CASE t.class = "bind"
  <2>1. n.op \in {"let", "tuple"} /\ walked = i
    BY <1>2, <1>4, <1>9, VariableNodes
  <2>2. t \in Patterns(l)
    BY <1>9, IsPattern DEF Pattern
  <2>3. i \in Patterned(t.name, i)
    BY <1>1, <2>2 DEF Patterned
  <2>4. PICK last \in 1..i : \E u \in Patterns(env.m.lines[last]) : IsLast(last, u, t.name, i)
    BY <2>3, LastPatternIs
  <2>5. last = i
    <3>1. i \in 1..i
      BY <1>1
    <3>2. i <= last
      BY <2>2, <2>4, <3>1 DEF IsLast
    <3> QED
      BY <1>1, <2>4, <3>2
  <2>6. LastPattern(t.name, i) = VarDecl(t.name, l.at + t.span.start)
    BY <1>1, <2>2, <2>4, <2>5, OnePattern DEF IsLast
  <2>7. DeclOf(env.m, i, t) = VarDecl(t.name, l.at + t.span.start)
    BY <1>9 DEF DeclOf
  <2>8. Local(i, n, t) = {LastPattern(t.name, i)}
    BY <2>1, <2>3 DEF Local
  <2> QED
    BY <1>3, <2>6, <2>7, <2>8 DEF Denotes
<1> QED
  BY <1>7, <1>8, <1>9 DEF Variable, Pattern

----------------------------------------------------------------------------
(* Go to definition: what wins. *)

\* What is the shortest of all wins.
LEMMA SmallestIs ==
  ASSUME NEW caps, NEW c \in caps, Length(c.span) \in Int, \A d \in caps : Length(d.span) \in Int,
         \A d \in caps : d = c \/ Length(c.span) < Length(d.span)
  PROVE  Smallest(caps) = {c}
<1>1. c \in Smallest(caps)
  BY DEF Smallest
<1>2. ASSUME NEW d \in Smallest(caps) PROVE d = c
  <2>1. d \in caps /\ Length(d.span) <= Length(c.span)
    BY DEF Smallest
  <2> QED
    BY <2>1
<1> QED
  BY <1>1, <1>2

\* A name lies in the area that it is answered for.
LEMMA NameInArea ==
  ASSUME NEW l \in Line, WellFormed(l), NEW n \in l.nodes, NEW t \in n.tokens,
         n.op = "unpack" => t.class = "struct"
  PROVE  Area(n, t).start <= t.span.start /\ t.span.end <= Area(n, t).end
<1> USE NodeTypes, NodeFacts
<1>1. CASE n.op = "unpack"
  <2> DEFINE s == NameOf(n, "struct")
  <2> DEFINE f == NameOf(n, "field")
  <2> DEFINE b == NameOf(n, "bind")
  <2>1. /\ n.tokens = {s, f, b} /\ s \in n.tokens /\ f \in n.tokens /\ b \in n.tokens
        /\ f.class = "field" /\ b.class = "bind"
        /\ s.span.end < f.span.start /\ f.span.end < b.span.start
    BY <1>1, UnpackNames
  <2>2. t = s
    BY <1>1, <2>1
  <2>3. /\ s.span.end \in Nat /\ f.span.start \in Nat /\ f.span.end \in Nat /\ b.span.start \in Nat /\ b.span.end \in Nat
        /\ f.span.start < f.span.end /\ b.span.start < b.span.end /\ s.span.start \in Nat
    BY <2>1
  <2>4. Area(n, t).start = s.span.start /\ Area(n, t).end = b.span.end + 1
    BY <1>1 DEF Area, PatternSpan, Span
  <2> QED
    BY <2>1, <2>2, <2>3, <2>4
<1>2. CASE n.op # "unpack"
  BY <1>2 DEF Area
<1> QED
  BY <1>1, <1>2

\* The names of a node whose areas both touch a place are answered alike.
LEMMA SameAnswer ==
  ASSUME IInv, NEW i \in DOMAIN env.m.lines, NEW n \in env.m.lines[i].nodes, NEW t \in n.tokens, NEW u \in n.tokens,
         NEW o \in Int, Touches(PlaceOf(i, Area(n, t)), o), Touches(PlaceOf(i, Area(n, u)), o)
  PROVE  Area(n, t) = Area(n, u) /\ Result(i, n, t) = Result(i, n, u)
<1> DEFINE l == env.m.lines[i]
<1>1. l \in Line /\ WellFormed(l)
  BY LinesOK
<1>2. Shaped(n)
  BY <1>1, NodeFacts
<1>3. CASE n.op \in {"pack", "unpack"}
  BY <1>3 DEF Area, Result
<1>4. CASE n.op \in {"let", "tuple"}
  <2>1. Area(n, t) = t.span /\ Area(n, u) = u.span
    BY <1>4 DEF Area
  <2>2. t.span \in Spans /\ u.span \in Spans
    BY <1>1, NodeTypes
  <2>3. /\ l.at + t.span.start <= o /\ o <= l.at + t.span.end
        /\ l.at + u.span.start <= o /\ o <= l.at + u.span.end
        /\ l.at \in Nat /\ t.span.start \in Nat /\ t.span.end \in Nat /\ u.span.start \in Nat /\ u.span.end \in Nat
    BY <1>1, <2>1, <2>2, InPlace DEF Touches, PlaceOf
  <2>4. ~Separate(t.span, u.span)
    BY <2>3 DEF Separate
  <2>5. t = u
    BY <1>1, <2>4, NodeFacts
  <2> QED
    BY <2>5
<1>5. CASE n.op \in {"const", "var", "call", "select", "assign"}
  <2>1. t = u
    BY <1>2, <1>5, ByName
  <2> QED
    BY <2>1
<1> QED
  BY <1>2, <1>3, <1>4, <1>5, ByName DEF Binding

\* Of what is captured for two names at a place, that of the inner node is
\* smaller; for names of one node it is the same.
LEMMA OneInnermost ==
  ASSUME IInv, NEW o \in Int,
         NEW i \in DOMAIN env.m.lines, NEW n \in env.m.lines[i].nodes, NEW t \in n.tokens,
         NEW j \in DOMAIN env.m.lines, NEW x \in env.m.lines[j].nodes, NEW u \in x.tokens,
         Touches(PlaceOf(i, Area(n, t)), o), Touches(PlaceOf(j, Area(x, u)), o)
  PROVE  /\ i = j /\ Length(PlaceOf(i, Area(n, t))) \in Int
         /\ \/ n = x /\ Area(n, t) = Area(x, u) /\ Result(i, n, t) = Result(j, x, u)
            \/ n # x /\ Length(PlaceOf(i, Area(n, t))) # Length(PlaceOf(j, Area(x, u)))
         /\ Touches(PlaceOf(i, t.span), o) /\ n # x =>
              Length(PlaceOf(i, Area(n, t))) < Length(PlaceOf(j, Area(x, u)))
<1> DEFINE l == env.m.lines[i]
<1>1. /\ l \in Line /\ WellFormed(l) /\ env.m.lines[j] \in Line /\ WellFormed(env.m.lines[j])
      /\ FunctionOK(env.m)
  BY LinesOK DEF IInv
<1>2. Inside(l, Area(n, t)) /\ Inside(env.m.lines[j], Area(x, u))
  BY <1>1, PartsAreInside
<1>3. i = j
  BY <1>1, <1>2, TouchedLine DEF PlaceOf
<1>4. Covers(l, n, Area(n, t)) /\ Covers(l, x, Area(x, u))
  BY <1>1, <1>3, AreaCovers
<1>5. /\ Length(PlaceOf(i, Area(n, t))) = Length(Area(n, t))
      /\ Length(PlaceOf(j, Area(x, u))) = Length(Area(x, u))
      /\ Length(Area(n, t)) \in Int /\ Length(Area(x, u)) \in Int
  BY <1>1, <1>3, <1>4, InPlace DEF Covers, PlaceOf, Length
<1>6. CASE n = x
  BY <1>3, <1>5, <1>6, SameAnswer
<1>7. CASE n # x
  <2>1. Touches(In(l, Area(n, t)), o) /\ Touches(In(l, Area(x, u)), o)
    BY <1>3 DEF PlaceOf
  <2>2. Length(Area(n, t)) # Length(Area(x, u))
    <3>1. /\ Within(n, x) => Length(Area(n, t)) < Length(Area(x, u))
          /\ Within(x, n) => Length(Area(x, u)) < Length(Area(n, t))
          /\ Within(n, x) \/ Within(x, n)
      BY <1>1, <1>3, <1>4, <1>7, <2>1, Nesting
    <3> QED
      BY <1>5, <3>1
  <2>3. Touches(In(l, t.span), o) => Length(Area(n, t)) < Length(Area(x, u))
    BY <1>1, <1>3, <1>4, <1>7, <2>1, NameWins
  <2> QED
    BY <1>3, <1>5, <1>7, <2>2, <2>3 DEF PlaceOf
<1> QED
  BY <1>6, <1>7

----------------------------------------------------------------------------
(* Go to definition: the answers. *)

LEMMA OneResult ==
  ASSUME NEW i, NEW n, NEW t, NEW d \in Result(i, n, t)
  PROVE  /\ Result(i, n, t) = {d} /\ d.kind \in {"var", "fun", "const", "struct", "field"}
         /\ n.op \notin {"const", "call", "select", "pack", "unpack"} => d.kind = "var"
<1>1. CASE n.op \in {"const", "call", "select", "pack", "unpack"}
  <2>1. Result(i, n, t) \in {{Decl("const", Const)}, {Decl("fun", t.name)}, {Decl("field", Field)}, {Decl("struct", Struct)}}
    BY <1>1 DEF Result
  <2> QED
    BY <1>1, <2>1 DEF Decl
<1>2. CASE n.op \notin {"const", "call", "select", "pack", "unpack"}
  <2>1. Result(i, n, t) = Local(i, n, t)
    BY <1>2 DEF Result
  <2>2. Local(i, n, t) \in {{}, {LastPattern(t.name, Walked(i, n.op))}, {VarDecl(Param, env.m.param)}}
    BY DEF Local
  <2>3. LastPattern(t.name, Walked(i, n.op)).kind = "var" /\ VarDecl(Param, env.m.param).kind = "var"
    BY DEF LastPattern, VarDecl
  <2> QED
    BY <1>2, <2>1, <2>2, <2>3
<1> QED
  BY <1>1, <1>2

\* What is left of the captures.
LEMMA LeftAt ==
  ASSUME IInv, NEW o \in Int, NEW c \in RemoveNotInLoc(Captured(MouseEnd(Breaks(env.m), o)), o)
  PROVE  \E i, n, t, d :
           /\ IsName(i, n, t) /\ d \in Result(i, n, t) /\ c = Capture(PlaceOf(i, Area(n, t)), d)
           /\ Touches(PlaceOf(i, Area(n, t)), o)
<1> DEFINE mouse == MouseEnd(Breaks(env.m), o)
<1>1. mouse \in Int
  BY DEF MouseEnd
<1>2. c \in Captured(mouse) /\ Touches(c.span, o)
  BY DEF RemoveNotInLoc
<1> HIDE DEF mouse
<1>3. PICK i, n, t, d : IsName(i, n, t) /\ d \in Result(i, n, t) /\ c = Capture(PlaceOf(i, Area(n, t)), d)
  BY <1>1, <1>2, CapturedIs
<1>4. c.span = PlaceOf(i, Area(n, t))
  BY <1>3 DEF Capture
<1> QED
  BY <1>2, <1>3, <1>4

\* A definition is one.
LEMMA OneDefinition ==
  ASSUME IInv, NEW o \in Int, NEW d \in Definition(o), NEW e \in Definition(o)
  PROVE  d = e /\ d.kind \in {"var", "fun", "const", "struct", "field"}
<1> DEFINE caps == RemoveNotInLoc(Captured(MouseEnd(Breaks(env.m), o)), o)
<1>1. PICK b \in Smallest(caps) : d = b.decl
  BY DEF Definition, ToLocations
<1>2. PICK c \in Smallest(caps) : e = c.decl
  BY DEF Definition, ToLocations
<1>3. b \in caps /\ c \in caps
  BY DEF Smallest
<1>4. PICK i, n, t, r :
           /\ IsName(i, n, t) /\ r \in Result(i, n, t) /\ b = Capture(PlaceOf(i, Area(n, t)), r)
           /\ Touches(PlaceOf(i, Area(n, t)), o)
  BY <1>3, LeftAt
<1>5. PICK j, x, u, s :
           /\ IsName(j, x, u) /\ s \in Result(j, x, u) /\ c = Capture(PlaceOf(j, Area(x, u)), s)
           /\ Touches(PlaceOf(j, Area(x, u)), o)
  BY <1>3, LeftAt
<1>6. /\ b.span = PlaceOf(i, Area(n, t)) /\ d \in Result(i, n, t)
      /\ c.span = PlaceOf(j, Area(x, u)) /\ e \in Result(j, x, u)
  BY <1>1, <1>2, <1>4, <1>5 DEF Capture
<1>7. /\ Length(b.span) \in Int
      /\ \/ Result(i, n, t) = Result(j, x, u)
         \/ Length(b.span) # Length(c.span)
  BY <1>4, <1>5, <1>6, OneInnermost DEF IsName
<1>8. Length(c.span) \in Int
  BY <1>4, <1>5, <1>6, OneInnermost DEF IsName
<1>9. Length(b.span) <= Length(c.span) /\ Length(c.span) <= Length(b.span)
  BY <1>3 DEF Smallest
<1>10. Result(i, n, t) = Result(j, x, u)
  BY <1>7, <1>8, <1>9
<1> QED
  BY <1>6, <1>10, OneResult

\* What is captured for a name that the cursor is at.
LEMMA ClickedName ==
  ASSUME IInv, NEW o \in Int, NEW i \in DOMAIN env.m.lines, NEW n \in env.m.lines[i].nodes, NEW t \in n.tokens,
         Clickable(i, n, t, o)
  PROVE  /\ MouseEnd(Breaks(env.m), o) = o /\ Reached(i, n, t, o)
         /\ \E d : Result(i, n, t) = {d} /\ Denotes(d, i, t)
<1> DEFINE l == env.m.lines[i]
<1>1. /\ l \in Line /\ WellFormed(l) /\ FunctionOK(env.m)
  BY LinesOK DEF IInv
<1>2. Shaped(n) /\ t \in Token /\ t.class \in Classes
  BY <1>1, NodeFacts, NodeTypes
<1>3. Touches(In(l, t.span), o) /\ Touches(PlaceOf(i, t.span), o)
  BY DEF Clickable, PlaceOf
<1>4. MouseEnd(Breaks(env.m), o) = o
  BY <1>1, <1>3, MouseAtName, PartsAreInside
<1>5. n.op = "unpack" => t.class = "struct"
  <2> SUFFICES ASSUME n.op = "unpack" PROVE t.class = "struct"
    OBVIOUS
  <2>1. t.class \in {"struct", "field", "bind"}
    BY <1>2, UnpackNames
  <2>2. t.class # "field" /\ t.class # "bind"
    BY DEF Clickable, Variable, Pattern
  <2> QED
    BY <2>1, <2>2
<1>6. Covers(l, n, Area(n, t)) /\ Area(n, t).start <= t.span.start /\ t.span.end <= Area(n, t).end
  BY <1>1, <1>5, AreaCovers, NameInArea
<1>7. /\ t.span \in Spans /\ Area(n, t) \in Spans /\ n.span \in Spans
      /\ t.span.start \in Nat /\ t.span.end \in Nat
      /\ Area(n, t).start \in Nat /\ Area(n, t).end \in Nat /\ n.span.start \in Nat /\ n.span.end \in Nat
  BY <1>1, <1>6, NodeTypes DEF Covers, Spans
<1>8. l.at + t.span.start <= o /\ o <= l.at + t.span.end /\ l.at \in Nat
  BY <1>1, <1>3, <1>7, InPlace DEF Touches
<1>9. Touches(PlaceOf(i, Area(n, t)), o)
  BY <1>1, <1>6, <1>7, <1>8, InPlace DEF Touches, PlaceOf
<1>10. n.op = "call" => Encloses(PlaceOf(i, n.span), o)
  <2> SUFFICES ASSUME n.op = "call" PROVE Encloses(PlaceOf(i, n.span), o)
    OBVIOUS
  <2>1. t.class = "fun" /\ t.span.start = n.span.start /\ t.span.end + 1 < n.span.end
    BY <1>2, ByName
  <2>2. l.at + t.span.start < o
    BY <1>1, <1>7, <2>1, InPlace DEF Clickable, PlaceOf
  <2> QED
    BY <1>1, <1>7, <1>8, <2>1, <2>2, InPlace DEF Encloses, PlaceOf
<1>11. \E d : Result(i, n, t) = {d} /\ Denotes(d, i, t)
  <2>1. CASE t.class \in Variable
    BY <2>1, LocalDenotes DEF Clickable
  <2>2. CASE t.class \notin Variable
    <3>1. DeclOf(env.m, i, t) = Decl(t.class, t.name) /\ t.class \in {"fun", "const", "struct", "field"}
      BY <1>2, <2>2 DEF DeclOf, Variable, Pattern, Classes
    <3>2. CASE t.class = "struct"
      <4>1. n.op \in {"pack", "unpack"} /\ t.name = Struct
        BY <1>2, <3>2, ByName, PackNames, UnpackNames DEF Binding
      <4> QED
        BY <3>1, <3>2, <4>1 DEF Result, Denotes
    <3>3. CASE t.class = "field"
      <4>1. n.op = "select" /\ t.name = Field
        BY <1>2, <3>3, ByName DEF Clickable
      <4> QED
        BY <3>1, <3>3, <4>1 DEF Result, Denotes
    <3>4. CASE t.class \in {"fun", "const"}
      <4>1. /\ n.op \in {"call", "const"}
            /\ n.op = "call" <=> t.class = "fun"
            /\ n.op = "const" => t.name = Const
        BY <1>2, <3>4, ByName, PackNames, UnpackNames DEF Binding
      <4>2. Result(i, n, t) = {Decl(t.class, t.name)}
        <5>1. CASE n.op = "call"
          BY <4>1, <5>1 DEF Result
        <5>2. CASE n.op = "const"
          BY <3>4, <4>1, <5>2 DEF Result
        <5> QED
          BY <4>1, <5>1, <5>2
      <4> QED
        BY <3>1, <4>2 DEF Denotes
    <3> QED
      BY <3>1, <3>2, <3>3, <3>4
  <2> QED
    BY <2>1, <2>2
<1> QED
  BY <1>4, <1>9, <1>10, <1>11 DEF Reached

LEMMA ClickFinds ==
  ASSUME IInv, NEW o \in Int, NEW i \in DOMAIN env.m.lines, NEW n \in env.m.lines[i].nodes, NEW t \in n.tokens,
         Clickable(i, n, t, o)
  PROVE  Definition(o) # {} /\ \A d \in Definition(o) : Denotes(d, i, t)
<1> DEFINE caps == RemoveNotInLoc(Captured(MouseEnd(Breaks(env.m), o)), o)
<1> DEFINE area == PlaceOf(i, Area(n, t))
<1>1. MouseEnd(Breaks(env.m), o) = o /\ Reached(i, n, t, o)
  BY ClickedName
<1>2. PICK d : Result(i, n, t) = {d} /\ Denotes(d, i, t)
  BY ClickedName
<1> DEFINE c == Capture(area, d)
<1>3. c.span = area /\ c.decl = d
  BY DEF Capture
<1>4. c \in caps
  BY <1>1, <1>2, <1>3, CapturedIs DEF RemoveNotInLoc, Reached
<1>5. Touches(area, o) /\ Touches(PlaceOf(i, t.span), o)
  BY <1>1 DEF Reached, Clickable
<1>6. ASSUME NEW b \in caps
      PROVE  Length(b.span) \in Int /\ (b = c \/ Length(c.span) < Length(b.span))
  <2>1. PICK j, x, u, r :
           /\ IsName(j, x, u) /\ r \in Result(j, x, u) /\ b = Capture(PlaceOf(j, Area(x, u)), r)
           /\ Touches(PlaceOf(j, Area(x, u)), o)
    BY LeftAt
  <2>2. /\ j \in DOMAIN env.m.lines /\ x \in env.m.lines[j].nodes /\ u \in x.tokens
        /\ r \in Result(j, x, u) /\ b = Capture(PlaceOf(j, Area(x, u)), r)
    BY <2>1 DEF IsName
  <2>3. b.span = PlaceOf(j, Area(x, u))
    BY <2>2 DEF Capture
  <2>4. Length(b.span) \in Int
    BY <1>5, <2>1, <2>2, <2>3, OneInnermost
  <2>5. CASE n = x
    <3>1. /\ i = j
          /\ \/ Area(n, t) = Area(x, u) /\ Result(i, n, t) = Result(j, x, u)
             \/ n # x
      BY <1>5, <2>1, <2>2, OneInnermost
    <3>2. r = d
      BY <1>2, <2>2, <2>5, <3>1
    <3> QED
      BY <2>2, <2>4, <2>5, <3>1, <3>2
  <2>6. CASE n # x
    <3>1. Length(area) < Length(PlaceOf(j, Area(x, u)))
      BY <1>5, <2>1, <2>2, <2>6, OneInnermost
    <3> QED
      BY <1>3, <2>3, <2>4, <3>1
  <2> QED
    BY <2>5, <2>6
<1> HIDE DEF c, caps
<1>7. Smallest(caps) = {c}
  BY <1>4, <1>6, SmallestIs
<1>8. Definition(o) = {c.decl}
  BY <1>7 DEF Definition, ToLocations, caps
<1> QED
  BY <1>2, <1>3, <1>8

\* Nothing else is answered.
LEMMA StaysThere ==
  ASSUME IInv, NEW o \in Int, NEW d \in Definition(o)
  PROVE  \E i, n, t :
           /\ IsName(i, n, t) /\ Touches(PlaceOf(i, Area(n, t)), o)
           /\ Denotes(d, i, t) \/ Stale(i, t) \/ (t.class \in Pattern /\ d.kind = "var")
<1> DEFINE caps == RemoveNotInLoc(Captured(MouseEnd(Breaks(env.m), o)), o)
<1>1. PICK b \in caps : d = b.decl
  BY DEF Definition, ToLocations, Smallest
<1>2. PICK i, n, t, r :
           /\ IsName(i, n, t) /\ r \in Result(i, n, t) /\ b = Capture(PlaceOf(i, Area(n, t)), r)
           /\ Touches(PlaceOf(i, Area(n, t)), o)
  BY LeftAt
<1>10. i \in DOMAIN env.m.lines /\ n \in env.m.lines[i].nodes /\ t \in n.tokens
  BY <1>2 DEF IsName
<1>3. d \in Result(i, n, t)
  BY <1>1, <1>2 DEF Capture
<1>4. Shaped(n) /\ t.class \in Classes
  BY <1>10, LinesOK, NodeFacts, NodeTypes
<1>5. Result(i, n, t) = {d} /\ (n.op \notin {"const", "call", "select", "pack", "unpack"} => d.kind = "var")
  BY <1>3, OneResult
<1>6. CASE n.op \in {"pack", "unpack"}
  <2> DEFINE s == NameOf(n, "struct")
  <2>1. s \in n.tokens /\ s.class = "struct" /\ s.name = Struct
    BY <1>4, <1>6, PackNames, UnpackNames
  <2>2. Area(n, s) = Area(n, t)
    BY <1>6 DEF Area
  <2>3. d = DeclOf(env.m, i, s)
    BY <1>5, <1>6, <2>1 DEF Result, DeclOf
  <2> QED
    BY <1>2, <1>10, <2>1, <2>2, <2>3 DEF Denotes, IsName
<1>7. CASE n.op \in {"const", "call", "select"}
  <2>1. d = DeclOf(env.m, i, t)
    BY <1>4, <1>5, <1>7, <1>10, ByName DEF Result, DeclOf
  <2> QED
    BY <1>2, <2>1 DEF Denotes
<1>8. CASE n.op = "var"
  <2>1. t.class \in Variable
    BY <1>4, <1>8, <1>10, ByName DEF Variable
  <2>2. ~Stale(i, t) => Denotes(d, i, t)
    BY <1>5, <1>8, <1>10, <2>1, LocalDenotes
  <2> QED
    BY <1>2, <2>2
<1>9. CASE n.op \in {"let", "tuple", "assign"}
  <2>1. t.class \in Pattern /\ d.kind = "var"
    BY <1>4, <1>5, <1>9, <1>10, ByName DEF Pattern
  <2> QED
    BY <1>2, <2>1
<1> QED
  BY <1>4, <1>6, <1>7, <1>8, <1>9, <1>10, ByName DEF Binding

----------------------------------------------------------------------------

LEMMA IInvHolds == Spec => []IInv
<1>1. Init => IInv
  BY IInvInit
<1>2. IInv /\ [Next]_vars => IInv'
  BY IInvNext
<1> QED
  BY <1>1, <1>2, PTL DEF Spec

\* A step asks once, and nothing changes after that.
LEMMA StepKinds ==
  ASSUME [Next]_vars
  PROVE  \/ request' = None
         \/ UNCHANGED vars
         \/ /\ UNCHANGED <<hasParam, written, env>>
            /\ \/ \E o \in Places : request' = [kind |-> "definition", at |-> o] /\ answer' = Definition(o)
               \/ \E o \in Places : request' = [kind |-> "references", at |-> o] /\ answer' = Uses(o)
               \/ \E o \in Places : request' = [kind |-> "hover", at |-> o] /\ answer' = HoverText(o)
               \/ \E first, last \in Edges : request' = [kind |-> "hints", at |-> first, to |-> last]
                                             /\ answer' = HintsIn(first, last)
<1>1. CASE \E s \in Statements : Write(s)
  BY <1>1 DEF Write
<1>2. CASE \E first \in Edges, last \in Edges : InlayHints(first, last)
  BY <1>2 DEF InlayHints
<1>3. CASE \E o \in Places : Hover(o)
  BY <1>3 DEF Hover
<1>4. CASE \E o \in Places : GotoDefinition(o)
  BY <1>4 DEF GotoDefinition
<1>5. CASE \E o \in Places : References(o)
  BY <1>5 DEF References
<1> QED
  BY <1>1, <1>2, <1>3, <1>4, <1>5 DEF Next

LEMMA PlacesAreNumbers == IInv => Places \subseteq Int
BY BothFunctions, FunctionTypes DEF Places

LEMMA GotoInit == Init => GotoFindsDeclaration
BY DEF Init, None, GotoFindsDeclaration

LEMMA GotoNext == IInv /\ GotoFindsDeclaration /\ [Next]_vars => GotoFindsDeclaration'
<1> SUFFICES ASSUME IInv, GotoFindsDeclaration, [Next]_vars PROVE GotoFindsDeclaration'
  OBVIOUS
<1>1. CASE request' = None
  BY <1>1 DEF None, GotoFindsDeclaration
<1>2. CASE UNCHANGED vars
  BY <1>2 DEF vars, GotoFindsDeclaration, Clickable, Denotes, Stale, PlaceOf, StaysAtCursor
<1>3. CASE /\ UNCHANGED <<hasParam, written, env>>
           /\ \E o \in Places : request' = [kind |-> "definition", at |-> o] /\ answer' = Definition(o)
  <2>1. PICK o \in Places : request' = [kind |-> "definition", at |-> o] /\ answer' = Definition(o)
    BY <1>3
  <2>2. o \in Int /\ request'.at = o /\ env' = env
    BY <1>3, <2>1, PlacesAreNumbers
  <2>3. ASSUME NEW i \in DOMAIN env.m.lines, NEW n \in env.m.lines[i].nodes, NEW t \in n.tokens, Clickable(i, n, t, o)
        PROVE  answer' # {} /\ \A d \in answer' : Denotes(d, i, t)
    BY <2>1, <2>2, <2>3, ClickFinds
  <2>4. ASSUME NEW d \in answer'
        PROVE  \E i, n, t :
                 /\ IsName(i, n, t) /\ Touches(PlaceOf(i, Area(n, t)), o)
                 /\ Denotes(d, i, t) \/ Stale(i, t) \/ (t.class \in Pattern /\ d.kind = "var")
    BY <2>1, <2>2, StaysThere
  <2>5. (\A i \in DOMAIN env.m.lines : \A n \in env.m.lines[i].nodes : \A t \in n.tokens :
           Clickable(i, n, t, request.at) => answer # {} /\ \A d \in answer : Denotes(d, i, t))'
    BY <2>2, <2>3 DEF Clickable, Denotes, Stale, PlaceOf
  <2>6. StaysAtCursor'
    <3>1. ASSUME NEW d \in answer'
          PROVE  \E i \in DOMAIN env.m.lines : \E n \in env.m.lines[i].nodes : \E t \in n.tokens :
                   /\ Touches(PlaceOf(i, Area(n, t)), o)
                   /\ Denotes(d, i, t) \/ Stale(i, t) \/ (t.class \in Pattern /\ d.kind = "var")
      BY <2>4 DEF IsName
    <3> QED
      BY <2>2, <3>1 DEF StaysAtCursor, Denotes, Stale, PlaceOf
  <2> QED
    BY <2>5, <2>6 DEF GotoFindsDeclaration
<1>4. CASE request'.kind # "definition"
  BY <1>4 DEF GotoFindsDeclaration
<1> QED
  BY <1>1, <1>2, <1>3, <1>4, StepKinds

\* Go to definition on a name finds the declaration that Move's scoping gives
\* it, and no cursor gets an answer about something else.
THEOREM GotoIsRight == Spec => []GotoFindsDeclaration
<1>1. Init => GotoFindsDeclaration
  BY GotoInit
<1>2. IInv /\ GotoFindsDeclaration /\ [Next]_vars => GotoFindsDeclaration'
  BY GotoNext
<1> QED
  BY <1>1, <1>2, IInvHolds, PTL DEF Spec

----------------------------------------------------------------------------
(* Hover. *)

\* where a name is shown, if it is
HoverArea(n, t) ==
  IF n.op \in {"call", "select"} \/ (n.op = "pack" /\ t.class = "struct") THEN n.span ELSE t.span
IsShown(n, t) == ~(n.op = "unpack" /\ t.class = "struct")

Displays(i, n, t) == Capture(PlaceOf(i, HoverArea(n, t)), DeclOf(env.m, i, t))

LEMMA TypesAre ==
  ASSUME IInv, NEW i \in DOMAIN env.m.lines, NEW n \in env.m.lines[i].nodes
  PROVE  Types(i, n) = {Displays(i, n, t) : t \in {u \in n.tokens : IsShown(n, u)}}
<1> DEFINE l == env.m.lines[i]
<1>1. l \in Line /\ WellFormed(l)
  BY LinesOK
<1>2. Shaped(n) /\ n.op \in Expressions \union Roots
  BY <1>1, NodeFacts, NodeTypes
<1>3. CASE n.op \in {"num", "add", "do"}
  <2>1. n.tokens = {}
    BY <1>2, <1>3 DEF Shaped
  <2> QED
    BY <1>3, <2>1 DEF Types, Binding
<1>4. CASE n.op \in {"const", "var", "call", "select", "assign"}
  <2>1. PICK t \in n.tokens : n.tokens = {t}
    BY <1>2, <1>4, OnlyHas DEF Shaped
  <2>2. {Displays(i, n, u) : u \in {v \in n.tokens : IsShown(n, v)}} = {Displays(i, n, t)}
    BY <1>4, <2>1 DEF IsShown
  <2>3. Types(i, n) = {Displays(i, n, t)}
    <3>1. CASE n.op = "const"
      <4>1. t.class = "const" /\ t.name = Const /\ t.span = n.span
        BY <1>2, <2>1, <3>1, ByName
      <4>2. Types(i, n) = {Capture(In(l, n.span), Decl("const", Const))}
        BY <3>1 DEF Types, Binding
      <4>3. Displays(i, n, t) = Capture(In(l, n.span), Decl("const", Const))
        BY <3>1, <4>1 DEF Displays, HoverArea, DeclOf, PlaceOf
      <4> QED
        BY <4>2, <4>3
    <3>2. CASE n.op = "var"
      <4>1. Names(n, {"use"}) = {t}
        BY <1>2, <2>1, <3>2, ByName DEF Names
      <4>2. Types(i, n) = Shows(i, {t})
        BY <3>2, <4>1 DEF Types, Binding
      <4> QED
        BY <3>2, <4>2 DEF Shows, Displays, HoverArea, PlaceOf
    <3>3. CASE n.op = "call"
      <4>1. t.class = "fun" /\ NameOf(n, "fun") = t
        BY <1>2, <2>1, <3>3, ByName
      <4>2. Types(i, n) = {Capture(In(l, n.span), Decl("fun", t.name))}
        BY <3>3, <4>1 DEF Types, CallTypes, Binding
      <4>3. Displays(i, n, t) = Capture(In(l, n.span), Decl("fun", t.name))
        BY <3>3, <4>1 DEF Displays, HoverArea, DeclOf, PlaceOf
      <4> QED
        BY <4>2, <4>3
    <3>4. CASE n.op = "select"
      <4>1. t.class = "field" /\ t.name = Field
        BY <1>2, <2>1, <3>4, ByName
      <4>2. Types(i, n) = {Capture(In(l, n.span), Decl("field", Field))}
        BY <3>4 DEF Types, CallTypes, Binding
      <4>3. Displays(i, n, t) = Capture(In(l, n.span), Decl("field", Field))
        BY <3>4, <4>1 DEF Displays, HoverArea, DeclOf, PlaceOf
      <4> QED
        BY <4>2, <4>3
    <3>5. CASE n.op = "assign"
      <4>1. Names(n, Pattern) = {t} /\ Names(n, {"field"}) = {}
        BY <1>2, <2>1, <3>5, ByName DEF Names, Pattern
      <4>2. Types(i, n) = Shows(i, {t}) \union Shows(i, {})
        BY <3>5, <4>1 DEF Types, PatternTypes, Labels, Binding
      <4> QED
        BY <3>5, <4>2 DEF Shows, Displays, HoverArea, PlaceOf
    <3> QED
      BY <1>4, <3>1, <3>2, <3>3, <3>4, <3>5
  <2> QED
    BY <2>2, <2>3
<1>5. CASE n.op \in {"let", "tuple"}
  <2>1. Names(n, Pattern) = n.tokens /\ Names(n, {"field"}) = {}
    BY <1>2, <1>5, ByName DEF Names, Pattern
  <2>2. Types(i, n) = Shows(i, n.tokens) \union Shows(i, {})
    BY <1>5, <2>1 DEF Types, PatternTypes, Labels, Binding
  <2>3. \A t \in n.tokens : IsShown(n, t) /\ Displays(i, n, t) = Capture(In(l, t.span), DeclOf(env.m, i, t))
    BY <1>5 DEF IsShown, Displays, HoverArea, PlaceOf
  <2> QED
    BY <2>2, <2>3 DEF Shows
<1>6. CASE n.op = "pack"
  <2> DEFINE s == NameOf(n, "struct")
  <2> DEFINE f == NameOf(n, "field")
  <2>1. n.tokens = {s, f} /\ s.class = "struct" /\ s.name = Struct /\ f.class = "field"
    BY <1>2, <1>6, PackNames
  <2>2. Names(n, {"field"}) = {f} /\ {u \in n.tokens : IsShown(n, u)} = {s, f}
    BY <1>6, <2>1 DEF Names, IsShown
  <2>3. Types(i, n) = {Capture(In(l, n.span), Decl("struct", Struct))} \union Shows(i, {f})
    BY <1>6, <2>2 DEF Types, CallTypes, Labels, Binding
  <2>4. Displays(i, n, s) = Capture(In(l, n.span), Decl("struct", Struct))
    BY <1>6, <2>1 DEF Displays, HoverArea, DeclOf, PlaceOf
  <2>5. Shows(i, {f}) = {Displays(i, n, f)}
    BY <1>6, <2>1 DEF Shows, Displays, HoverArea, PlaceOf
  <2> QED
    BY <2>2, <2>3, <2>4, <2>5
<1>7. CASE n.op = "unpack"
  <2> DEFINE s == NameOf(n, "struct")
  <2> DEFINE f == NameOf(n, "field")
  <2> DEFINE b == NameOf(n, "bind")
  <2>1. n.tokens = {s, f, b} /\ s.class = "struct" /\ f.class = "field" /\ b.class = "bind"
    BY <1>2, <1>7, UnpackNames
  <2>2. /\ Names(n, {"field"}) = {f} /\ Names(n, Pattern) = {b}
        /\ {u \in n.tokens : IsShown(n, u)} = {f, b}
    BY <1>7, <2>1 DEF Names, IsShown, Pattern
  <2>3. Types(i, n) = Shows(i, {b}) \union Shows(i, {f})
    BY <1>7, <2>2 DEF Types, PatternTypes, Labels, Binding
  <2>4. Shows(i, {f}) = {Displays(i, n, f)} /\ Shows(i, {b}) = {Displays(i, n, b)}
    BY <1>7 DEF Shows, Displays, HoverArea, PlaceOf
  <2> QED
    BY <2>2, <2>3, <2>4
<1> QED
  BY <1>2, <1>3, <1>4, <1>5, <1>6, <1>7 DEF Expressions, Roots, Binding

LEMMA HoverCovers ==
  ASSUME NEW l \in Line, WellFormed(l), NEW n \in l.nodes, NEW t \in n.tokens
  PROVE  /\ Covers(l, n, HoverArea(n, t)) /\ Inside(l, HoverArea(n, t))
         /\ HoverArea(n, t).start <= t.span.start /\ t.span.end <= HoverArea(n, t).end
<1>1. CASE HoverArea(n, t) = t.span
  <2>1. t.span \in Spans /\ t.span.start <= t.span.end
    BY NodeTypes, NodeFacts
  <2>2. \A y \in l.nodes : Within(y, n) => Separate(t.span, y.span)
    BY DEF Within
  <2> QED
    BY <1>1, <2>1, <2>2, NodeTypes, NodeFacts, PartsAreInside DEF Covers
<1>2. CASE HoverArea(n, t) = n.span /\ n.op \in {"call", "select", "pack"}
  <2>1. n.op \in Expressions
    BY <1>2 DEF Expressions
  <2> QED
    BY <1>2, <2>1, NodeTypes, NodeFacts, PartsAreInside DEF Covers
<1> QED
  BY <1>1, <1>2 DEF HoverArea

\* Of what is shown for two names at a place, one is smaller: that of the
\* inner node, and that of the name that the cursor is at.
LEMMA OneSmallest ==
  ASSUME IInv, NEW o \in Int,
         NEW i \in DOMAIN env.m.lines, NEW n \in env.m.lines[i].nodes, NEW t \in n.tokens,
         NEW j \in DOMAIN env.m.lines, NEW x \in env.m.lines[j].nodes, NEW u \in x.tokens,
         Touches(PlaceOf(i, HoverArea(n, t)), o), Touches(PlaceOf(j, HoverArea(x, u)), o)
  PROVE  /\ i = j /\ Length(PlaceOf(i, HoverArea(n, t))) \in Int
         /\ \/ n = x /\ t = u
            \/ Length(PlaceOf(i, HoverArea(n, t))) # Length(PlaceOf(j, HoverArea(x, u)))
         /\ Touches(PlaceOf(i, t.span), o) =>
              \/ n = x /\ t = u
              \/ Length(PlaceOf(i, HoverArea(n, t))) < Length(PlaceOf(j, HoverArea(x, u)))
<1> DEFINE l == env.m.lines[i]
<1> DEFINE a == HoverArea(n, t)
<1> DEFINE b == HoverArea(x, u)
<1>1. /\ l \in Line /\ WellFormed(l) /\ env.m.lines[j] \in Line /\ WellFormed(env.m.lines[j])
      /\ FunctionOK(env.m)
  BY LinesOK DEF IInv
<1>2. Inside(l, a) /\ Inside(env.m.lines[j], b)
  BY <1>1, HoverCovers
<1> HIDE DEF a, b
<1>3. i = j
  BY <1>1, <1>2, TouchedLine DEF PlaceOf, a, b
<1>4. Covers(l, n, a) /\ Covers(l, x, b)
  BY <1>1, <1>3, HoverCovers DEF a, b
<1>5. /\ Length(PlaceOf(i, a)) = Length(a) /\ Length(PlaceOf(j, b)) = Length(b)
      /\ Length(a) \in Int /\ Length(b) \in Int /\ a \in Spans /\ b \in Spans
  BY <1>1, <1>3, <1>4, InPlace DEF Covers, PlaceOf, Length
<1>6. Touches(In(l, a), o) /\ Touches(In(l, b), o)
  BY <1>3 DEF PlaceOf, a, b
<1>7. CASE n # x
  <2>1. Length(a) # Length(b)
    <3>1. /\ Within(n, x) => Length(a) < Length(b)
          /\ Within(x, n) => Length(b) < Length(a)
          /\ Within(n, x) \/ Within(x, n)
      BY <1>1, <1>3, <1>4, <1>6, <1>7, Nesting
    <3> QED
      BY <1>5, <3>1
  <2>2. Touches(In(l, t.span), o) => Length(a) < Length(b)
    BY <1>1, <1>3, <1>4, <1>6, <1>7, NameWins
  <2> QED
    BY <1>3, <1>5, <1>7, <2>1, <2>2 DEF PlaceOf, a, b
<1>8. CASE n = x /\ t # u
  <2>1. u \in n.tokens /\ Shaped(n)
    BY <1>1, <1>8, NodeFacts
  <2>2. n.op \in {"let", "tuple", "pack", "unpack"}
    BY <1>8, <2>1, ByName DEF Binding
  <2>3. /\ t.span \in Spans /\ u.span \in Spans
        /\ t.span.start \in Nat /\ t.span.end \in Nat /\ u.span.start \in Nat /\ u.span.end \in Nat
        /\ Separate(t.span, u.span)
    BY <1>1, <1>8, <2>1, NodeTypes, NodeFacts
  <2>4. ~(Touches(In(l, t.span), o) /\ Touches(In(l, u.span), o))
    BY <1>1, <2>3, InPlace DEF Touches, Separate
  <2>5. n.op = "pack"
    <3> SUFFICES ASSUME n.op # "pack" PROVE FALSE
      OBVIOUS
    <3>1. a = t.span /\ b = u.span
      BY <1>8, <2>2 DEF a, b, HoverArea
    <3> QED
      BY <1>6, <2>4, <3>1
  <2> DEFINE s == NameOf(n, "struct")
  <2> DEFINE f == NameOf(n, "field")
  <2>6. /\ n.tokens = {s, f} /\ s \in n.tokens /\ f \in n.tokens /\ s.class = "struct" /\ f.class = "field"
        /\ s.span.start = n.span.start /\ f.span = Span(s.span.end + 1, s.span.end + 2) /\ f.span.end + 2 < n.span.end
    BY <2>1, <2>5, PackNames
  <2>7. /\ f.span.start \in Nat /\ f.span.end \in Nat /\ n.span.start \in Nat /\ n.span.end \in Nat
        /\ n.span.start <= f.span.start
    BY <1>1, <2>6, NodeTypes, NodeFacts
  <2>8. Length(f.span) < Length(n.span)
    BY <2>6, <2>7 DEF Length
  <2>9. CASE t = s /\ u = f
    <3>1. a = n.span /\ b = f.span
      BY <1>8, <2>5, <2>6, <2>9 DEF a, b, HoverArea
    <3>2. ~Touches(In(l, t.span), o)
      BY <1>6, <2>4, <2>9, <3>1
    <3> QED
      BY <1>3, <1>5, <2>8, <3>1, <3>2 DEF PlaceOf, a, b
  <2>10. CASE t = f /\ u = s
    <3>1. a = f.span /\ b = n.span
      BY <1>8, <2>5, <2>6, <2>10 DEF a, b, HoverArea
    <3> QED
      BY <1>3, <1>5, <2>8, <3>1 DEF PlaceOf, a, b
  <2> QED
    BY <1>8, <2>1, <2>6, <2>9, <2>10
<1>9. CASE n = x /\ t = u
  BY <1>3, <1>5, <1>9 DEF PlaceOf, a, b
<1> QED
  BY <1>7, <1>8, <1>9

LEMMA HoverCapturedIs ==
  ASSUME IInv, NEW o \in Int
  PROVE  LET mouse == MouseEnd(Breaks(env.m), o)
         IN /\ \A i \in DOMAIN env.m.lines : \A n \in env.m.lines[i].nodes : \A t \in n.tokens :
                 IsShown(n, t) /\ Shown(Displays(i, n, t), o, mouse) => Displays(i, n, t) \in HoverCaptured(o)
            /\ \A c \in HoverCaptured(o) : \E i, n, t :
                 /\ IsName(i, n, t) /\ c = Displays(i, n, t)
                 /\ Shown(c, o, mouse)
<1> DEFINE mouse == MouseEnd(Breaks(env.m), o)
<1>1. ASSUME NEW i \in DOMAIN env.m.lines, NEW n \in env.m.lines[i].nodes, NEW t \in n.tokens,
             IsShown(n, t), Shown(Displays(i, n, t), o, mouse)
      PROVE  Displays(i, n, t) \in HoverCaptured(o)
  <2>1. Displays(i, n, t) \in Types(i, n)
    BY <1>1, TypesAre
  <2> QED
    BY <1>1, <2>1 DEF HoverCaptured
<1>2. ASSUME NEW c \in HoverCaptured(o)
      PROVE  \E i, n, t : IsName(i, n, t) /\ c = Displays(i, n, t) /\ Shown(c, o, mouse)
  <2>1. PICK i \in DOMAIN env.m.lines : \E n \in env.m.lines[i].nodes : c \in Types(i, n)
    BY DEF HoverCaptured
  <2>2. PICK n \in env.m.lines[i].nodes : c \in Types(i, n)
    BY <2>1
  <2>3. PICK t \in n.tokens : c = Displays(i, n, t)
    BY <2>2, TypesAre
  <2>4. Shown(c, o, mouse)
    BY DEF HoverCaptured
  <2> QED
    BY <2>3, <2>4 DEF IsName
<1> QED
  BY <1>1, <1>2

\* The kind of what a name stands for.
LEMMA KindOfName ==
  ASSUME IInv, NEW i \in DOMAIN env.m.lines, NEW n \in env.m.lines[i].nodes, NEW t \in n.tokens
  PROVE  LET kind == DeclOf(env.m, i, t).kind
         IN /\ kind \in {"var", "fun", "const", "struct", "field"}
            /\ kind = "const" <=> t.class = "const"
            /\ kind = "fun" <=> t.class = "fun"
            /\ n.op = "const" <=> t.class = "const"
            /\ n.op = "call" <=> t.class = "fun"
<1>1. Shaped(n) /\ t.class \in Classes
  BY LinesOK, NodeFacts, NodeTypes
<1>2. CASE t.class \in Variable
  BY <1>1, <1>2, ByName DEF DeclOf, VarDecl, Variable, Pattern
<1>3. CASE t.class \notin Variable
  <2>1. DeclOf(env.m, i, t) = Decl(t.class, t.name) /\ t.class \in {"fun", "const", "struct", "field"}
    BY <1>1, <1>3 DEF DeclOf, Variable, Pattern, Classes
  <2>2. DeclOf(env.m, i, t).kind = t.class
    BY <2>1 DEF Decl
  <2>3. /\ n.op = "const" <=> t.class = "const"
        /\ n.op = "call" <=> t.class = "fun"
    BY <1>1, <2>1, ByName, PackNames, UnpackNames DEF Binding
  <2> QED
    BY <2>1, <2>2, <2>3
<1> QED
  BY <1>2, <1>3

\* What is shown is at the cursor.
LEMMA ShownTouches ==
  ASSUME IInv, NEW o \in Int, NEW i \in DOMAIN env.m.lines, NEW n \in env.m.lines[i].nodes, NEW t \in n.tokens,
         Shown(Displays(i, n, t), o, MouseEnd(Breaks(env.m), o))
  PROVE  Touches(PlaceOf(i, HoverArea(n, t)), MouseEnd(Breaks(env.m), o))
<1> DEFINE l == env.m.lines[i]
<1> DEFINE mouse == MouseEnd(Breaks(env.m), o)
<1> DEFINE area == PlaceOf(i, HoverArea(n, t))
<1>1. Displays(i, n, t).span = area /\ Displays(i, n, t).decl = DeclOf(env.m, i, t)
  BY DEF Displays, Capture
<1>2. l \in Line /\ WellFormed(l) /\ FunctionOK(env.m)
  BY LinesOK DEF IInv
<1>3. mouse \in Int
  BY DEF MouseEnd
<1>4. Inside(l, HoverArea(n, t))
  BY <1>2, HoverCovers
<1>5. area.start \in Int /\ area.end \in Int
  BY <1>2, <1>4, InPlace DEF Inside, PlaceOf
<1> HIDE DEF mouse, area
<1>6. CASE DeclOf(env.m, i, t).kind = "const"
  <2>1. Encloses(area, o)
    BY <1>1, <1>6 DEF Shown
  <2>2. Touches(area, o)
    BY <1>5, <2>1 DEF Encloses, Touches
  <2>3. mouse = o
    BY <1>2, <1>4, <2>2, MouseAtName DEF area, PlaceOf, mouse
  <2> QED
    BY <2>2, <2>3 DEF area, mouse
<1>7. CASE DeclOf(env.m, i, t).kind = "fun"
  <2>1. Encloses(area, mouse)
    BY <1>1, <1>7 DEF Shown, mouse
  <2> QED
    BY <1>3, <1>5, <2>1 DEF Encloses, Touches, area, mouse
<1>8. CASE DeclOf(env.m, i, t).kind \notin {"const", "fun"}
  BY <1>1, <1>8 DEF Shown, area, mouse
<1> QED
  BY <1>6, <1>7, <1>8

\* What is shown is one.
LEMMA OneHover ==
  ASSUME IInv, NEW o \in Int, NEW d \in HoverText(o), NEW e \in HoverText(o)
  PROVE  d = e /\ d.kind \in {"var", "fun", "const", "struct", "field"}
<1> DEFINE mouse == MouseEnd(Breaks(env.m), o)
<1>1. PICK b \in Smallest(HoverCaptured(o)) : d = b.decl
  BY DEF HoverText
<1>2. PICK c \in Smallest(HoverCaptured(o)) : e = c.decl
  BY DEF HoverText
<1>3. b \in HoverCaptured(o) /\ c \in HoverCaptured(o)
  BY DEF Smallest
<1>4. PICK i, n, t : IsName(i, n, t) /\ b = Displays(i, n, t) /\ Shown(b, o, mouse)
  BY <1>3, HoverCapturedIs
<1>5. PICK j, x, u : IsName(j, x, u) /\ c = Displays(j, x, u) /\ Shown(c, o, mouse)
  BY <1>3, HoverCapturedIs
<1>6. /\ b.span = PlaceOf(i, HoverArea(n, t)) /\ d = DeclOf(env.m, i, t)
      /\ c.span = PlaceOf(j, HoverArea(x, u)) /\ e = DeclOf(env.m, j, u)
  BY <1>1, <1>2, <1>4, <1>5 DEF Displays, Capture
<1>7. mouse \in Int
  BY DEF MouseEnd
<1>8. /\ Touches(PlaceOf(i, HoverArea(n, t)), mouse)
      /\ Touches(PlaceOf(j, HoverArea(x, u)), mouse)
  BY <1>4, <1>5, ShownTouches DEF IsName
<1> HIDE DEF mouse
<1>9. /\ i = j /\ Length(b.span) \in Int
      /\ \/ n = x /\ t = u
         \/ Length(b.span) # Length(c.span)
  BY <1>4, <1>5, <1>6, <1>7, <1>8, OneSmallest DEF IsName
<1>10. Length(c.span) \in Int
  BY <1>4, <1>5, <1>6, <1>7, <1>8, OneSmallest DEF IsName
<1>11. Length(b.span) <= Length(c.span) /\ Length(c.span) <= Length(b.span)
  BY <1>3 DEF Smallest
<1>12. i = j /\ t = u
  BY <1>9, <1>10, <1>11
<1>13. DeclOf(env.m, i, t).kind \in {"var", "fun", "const", "struct", "field"}
  BY <1>4, KindOfName DEF IsName
<1> QED
  BY <1>6, <1>12, <1>13

\* When the cursor is at a name, it is the name's own type that is shown.
LEMMA HoverFinds ==
  ASSUME IInv, NEW o \in Int, NEW i \in DOMAIN env.m.lines, NEW n \in env.m.lines[i].nodes, NEW t \in n.tokens,
         Touches(PlaceOf(i, t.span), o),
         t.class = "const" => Encloses(PlaceOf(i, t.span), o),
         t.class = "fun" => PlaceOf(i, t.span).start < o,
         t.class = "struct" => n.op = "pack"
  PROVE  HoverText(o) = {DeclOf(env.m, i, t)}
<1> DEFINE l == env.m.lines[i]
<1> DEFINE area == PlaceOf(i, HoverArea(n, t))
<1> DEFINE c == Displays(i, n, t)
<1>1. /\ l \in Line /\ WellFormed(l) /\ FunctionOK(env.m)
  BY LinesOK DEF IInv
<1>2. Shaped(n)
  BY <1>1, NodeFacts
<1>3. MouseEnd(Breaks(env.m), o) = o
  BY <1>1, MouseAtName, PartsAreInside DEF PlaceOf
<1>4. c.span = area /\ c.decl = DeclOf(env.m, i, t)
  BY DEF Displays, Capture
<1>5. /\ Inside(l, HoverArea(n, t)) /\ HoverArea(n, t) \in Spans /\ t.span \in Spans /\ n.span \in Spans
      /\ HoverArea(n, t).start <= t.span.start /\ t.span.end <= HoverArea(n, t).end
  BY <1>1, HoverCovers, NodeTypes DEF Inside
<1>6. /\ HoverArea(n, t).start \in Nat /\ HoverArea(n, t).end \in Nat /\ t.span.start \in Nat /\ t.span.end \in Nat
      /\ l.at \in Nat /\ n.span.end \in Nat /\ n.span.start \in Nat
      /\ l.at + t.span.start <= o /\ o <= l.at + t.span.end
      /\ area.start = l.at + HoverArea(n, t).start /\ area.end = l.at + HoverArea(n, t).end
  BY <1>1, <1>5, InPlace DEF Touches, PlaceOf
<1>7. Touches(area, o)
  BY <1>5, <1>6 DEF Touches
<1>8. Shown(c, o, o)
  <2>1. CASE t.class = "const"
    <3>1. HoverArea(n, t) = t.span
      BY <2>1, KindOfName DEF HoverArea
    <3>2. Encloses(area, o)
      BY <2>1, <3>1
    <3> QED
      BY <1>4, <2>1, <3>2, KindOfName DEF Shown
  <2>2. CASE t.class = "fun"
    <3>1. n.op = "call" /\ HoverArea(n, t) = n.span
      BY <2>2, KindOfName DEF HoverArea
    <3>2. t.span.start = n.span.start /\ t.span.end + 1 < n.span.end
      BY <1>2, <3>1, ByName
    <3>3. l.at + t.span.start < o
      BY <1>1, <1>5, <2>2, InPlace DEF PlaceOf
    <3>4. Encloses(area, o)
      BY <1>6, <3>1, <3>2, <3>3 DEF Encloses
    <3> QED
      BY <1>4, <2>2, <3>4, KindOfName DEF Shown
  <2>3. CASE t.class \notin {"const", "fun"}
    <3>1. c.decl.kind \notin {"const", "fun"}
      BY <1>4, <2>3, KindOfName
    <3> QED
      BY <1>4, <1>7, <3>1 DEF Shown
  <2> QED
    BY <2>1, <2>2, <2>3
<1>9. c \in HoverCaptured(o)
  BY <1>3, <1>8, HoverCapturedIs DEF IsShown
<1>10. ASSUME NEW b \in HoverCaptured(o)
       PROVE  Length(b.span) \in Int /\ (b = c \/ Length(c.span) < Length(b.span))
  <2>1. PICK j, x, u : IsName(j, x, u) /\ b = Displays(j, x, u) /\ Shown(b, o, o)
    BY <1>3, HoverCapturedIs
  <2>2. j \in DOMAIN env.m.lines /\ x \in env.m.lines[j].nodes /\ u \in x.tokens
    BY <2>1 DEF IsName
  <2>3. b.span = PlaceOf(j, HoverArea(x, u))
    BY <2>1 DEF Displays, Capture
  <2>4. Touches(PlaceOf(j, HoverArea(x, u)), o)
    BY <1>3, <2>1, <2>2, ShownTouches
  <2>5. /\ i = j
        /\ \/ n = x /\ t = u
           \/ Length(area) < Length(b.span)
    BY <1>7, <2>2, <2>3, <2>4, OneSmallest
  <2>6. Length(b.span) \in Int
    BY <1>7, <2>2, <2>3, <2>4, OneSmallest
  <2> QED
    BY <1>4, <2>1, <2>5, <2>6
<1> HIDE DEF c
<1>11. Smallest(HoverCaptured(o)) = {c}
  BY <1>9, <1>10, SmallestIs
<1> QED
  BY <1>4, <1>11 DEF HoverText

----------------------------------------------------------------------------
(* Hints. *)

\* The fields that are selected in a function.
LEMMA SelectsAre ==
  ASSUME NEW f, FunctionOK(f), NEW k \in DOMAIN f.lines, NEW x \in f.lines[k].nodes, x.op = "select"
  PROVE  LET l == f.lines[k]
             t == NameOf(x, "field")
         IN /\ [whole |-> In(l, x.span), name |-> In(l, t.span)] \in Selects(f)
            /\ x.tokens = {t} /\ t.class = "field" /\ t.name = Field
            /\ In(l, t.span) = Span(In(l, x.span).end - 1, In(l, x.span).end)
            /\ In(l, x.span) = Span(l.at + x.span.start, l.at + x.span.end)
            /\ x.span.start \in Nat /\ x.span.end \in Nat /\ l.at \in Nat
            /\ l.at < l.at + x.span.end - 1 /\ l.at + x.span.end - 1 < l.at + l.width
<1> DEFINE l == f.lines[k]
<1> DEFINE t == NameOf(x, "field")
<1>1. l \in Line /\ WellFormed(l) /\ l.at \in Nat /\ l.width \in Nat
  BY FunctionTypes DEF FunctionOK
<1>2. Shaped(x) /\ x.span \in Spans /\ x.span.start \in Nat /\ x.span.end \in Nat
  BY <1>1, NodeFacts, NodeTypes
<1>3. PICK u \in x.tokens : x.tokens = {u}
  BY <1>2, OnlyHas DEF Shaped
<1>4. u.class = "field" /\ u.name = Field /\ NameOf(x, "field") = u /\ u.span = Span(x.span.end - 1, x.span.end)
      /\ x.span.start + 2 < x.span.end
  BY <1>2, <1>3, ByName
<1>5. In(l, x.span) = Span(l.at + x.span.start, l.at + x.span.end)
  BY DEF In
<1>6. In(l, u.span) = Span(l.at + x.span.end - 1, l.at + x.span.end)
  <2>1. u.span.start = x.span.end - 1 /\ u.span.end = x.span.end
    BY <1>4 DEF Span
  <2>2. l.at + (x.span.end - 1) = l.at + x.span.end - 1
    BY <1>1, <1>2
  <2> QED
    BY <2>1, <2>2 DEF In
<1>7. In(l, x.span).end = l.at + x.span.end
  BY <1>5 DEF Span
<1>8. x.span.end + 1 < l.width
  BY <1>1, <1>2, NodeFacts DEF Expressions
<1>9. [whole |-> In(l, x.span), name |-> In(l, t.span)] \in Selects(f)
  <2>1. l \in LinesOf(f) /\ x \in {y \in l.nodes : y.op = "select"}
    BY DEF LinesOf
  <2> HIDE DEF l, t
  <2>2. [whole |-> In(l, x.span), name |-> In(l, NameOf(x, "field").span)] \in
          {[whole |-> In(l, y.span), name |-> In(l, NameOf(y, "field").span)] : y \in {z \in l.nodes : z.op = "select"}}
    BY <2>1
  <2> QED
    BY <2>1, <2>2 DEF Selects, t
<1>10. l.at < l.at + x.span.end - 1 /\ l.at + x.span.end - 1 < l.at + l.width
  BY <1>1, <1>2, <1>4, <1>8
<1> QED
  BY <1>1, <1>2, <1>3, <1>4, <1>5, <1>6, <1>7, <1>9, <1>10

LEMMA SelectIs ==
  ASSUME NEW f, NEW s \in Selects(f)
  PROVE  \E k, x : /\ k \in DOMAIN f.lines /\ x \in f.lines[k].nodes /\ x.op = "select"
                   /\ s = [whole |-> In(f.lines[k], x.span), name |-> In(f.lines[k], NameOf(x, "field").span)]
<1>1. PICK l \in LinesOf(f) : \E x \in l.nodes :
           x.op = "select" /\ s = [whole |-> In(l, x.span), name |-> In(l, NameOf(x, "field").span)]
  BY DEF Selects
<1>2. PICK k \in DOMAIN f.lines : l = f.lines[k]
  BY DEF LinesOf
<1> QED
  BY <1>1, <1>2

\* An expression that ends where a name does is that name.
LEMMA EndsWithName ==
  ASSUME NEW l \in Line, WellFormed(l), NEW n \in l.nodes, NEW t \in n.tokens, n.op \in Binding \union {"var"},
         n.op = "var" => t.span = n.span,
         NEW y \in l.nodes, y.op \in Expressions \ {"add"}, y.span.end = t.span.end
  PROVE  y = n /\ n.op = "var"
<1>1. /\ n.span.start \in Nat /\ n.span.end \in Nat /\ t.span.start \in Nat /\ t.span.end \in Nat
      /\ y.span.start \in Nat /\ y.span.end \in Nat
      /\ n.span.start <= t.span.start /\ t.span.start < t.span.end /\ t.span.end <= n.span.end
      /\ y.span.start < y.span.end
  BY NodeTypes, NodeFacts
<1>2. ~Separate(y.span, n.span) /\ ~Separate(t.span, y.span)
  BY <1>1 DEF Separate
<1>3. ~Within(n, y)
  BY <1>1 DEF Within
<1>4. ~Within(y, n)
  BY <1>2 DEF Within
<1>5. y = n
  BY <1>2, <1>3, <1>4 DEF WellFormed
<1> QED
  BY <1>5 DEF Expressions, Binding

\* A name is followed by a field exactly when its field is taken.
LEMMA FieldTaken ==
  ASSUME NEW f, FunctionOK(f), NEW i \in DOMAIN f.lines, NEW n \in f.lines[i].nodes, NEW t \in n.tokens,
         n.op \in Binding \union {"var"}
  PROVE  LET span == In(f.lines[i], t.span)
         IN DotFollows(f, span) <=> \E s \in Selects(f) : s.whole = Span(span.start, span.end + 2)
<1> DEFINE l == f.lines[i]
<1> DEFINE span == In(l, t.span)
<1>1. l \in Line /\ WellFormed(l) /\ l.at \in Nat /\ l.width \in Nat
  BY FunctionTypes DEF FunctionOK
<1>2. /\ t.span \in Spans /\ t.span.start \in Nat /\ t.span.end \in Nat
      /\ t.span.start < t.span.end /\ 0 < t.span.start /\ t.span.end + 1 < l.width
      /\ n.op = "var" => t.span = n.span
  BY <1>1, NodeTypes, NodeFacts, ByName
<1>3. span.start = l.at + t.span.start /\ span.end = l.at + t.span.end
  BY <1>1, <1>2, InPlace
<1>4. ASSUME NEW s \in Selects(f), s.whole = Span(span.start, span.end + 2)
      PROVE  s.name.start = span.end + 1
  <2>1. PICK k, x : /\ k \in DOMAIN f.lines /\ x \in f.lines[k].nodes /\ x.op = "select"
                    /\ s = [whole |-> In(f.lines[k], x.span), name |-> In(f.lines[k], NameOf(x, "field").span)]
    BY SelectIs
  <2>2. s.name = Span(s.whole.end - 1, s.whole.end)
    BY <2>1, SelectsAre
  <2>3. s.whole.end = span.end + 2
    BY <1>4 DEF Span
  <2>4. s.name.start = s.whole.end - 1
    BY <2>2 DEF Span
  <2> QED
    BY <1>1, <1>2, <1>3, <2>3, <2>4
<1>5. ASSUME NEW s \in Selects(f), s.name.start = span.end + 1
      PROVE  s.whole = Span(span.start, span.end + 2)
  <2>1. PICK k, x : /\ k \in DOMAIN f.lines /\ x \in f.lines[k].nodes /\ x.op = "select"
                    /\ s = [whole |-> In(f.lines[k], x.span), name |-> In(f.lines[k], NameOf(x, "field").span)]
    BY SelectIs
  <2> DEFINE m == f.lines[k]
  <2>2. /\ s.name = Span(s.whole.end - 1, s.whole.end)
        /\ s.whole = Span(m.at + x.span.start, m.at + x.span.end)
        /\ x.span.start \in Nat /\ x.span.end \in Nat /\ m.at \in Nat
        /\ m.at < m.at + x.span.end - 1 /\ m.at + x.span.end - 1 < m.at + m.width
    BY <2>1, SelectsAre
  <2>3. s.whole.end = m.at + x.span.end /\ s.name.start = s.whole.end - 1
    BY <2>2 DEF Span
  <2>4. m.at + x.span.end - 1 = l.at + t.span.end + 1
    <3> HIDE DEF m
    <3>1. s.name.start = m.at + x.span.end - 1
      BY <2>2, <2>3
    <3>2. span.end + 1 = l.at + t.span.end + 1
      BY <1>3
    <3> QED
      BY <1>5, <3>1, <3>2
  <2>5. i = k
    <3> DEFINE o == l.at + t.span.end + 1
    <3>1. o \in Int /\ l.at < o /\ o < l.at + l.width
      BY <1>1, <1>2
    <3>2. m.at < o /\ o < m.at + m.width
      BY <2>2, <2>4
    <3> QED
      BY <2>1, <3>1, <3>2, SameLine
  <2>6. x.span.end = t.span.end + 2
    BY <1>1, <1>2, <2>2, <2>4, <2>5
  <2>7. PICK y \in l.nodes : Operand(x, y)
    BY <1>1, <2>1, <2>5 DEF WellFormed
  <2>8. /\ y.op \in Expressions \ {"add"} /\ y.span = Span(x.span.start, x.span.end - 2)
        /\ y.span.start = x.span.start /\ y.span.end = x.span.end - 2
    BY <2>7 DEF Operand, Span
  <2>9. y.span.end = t.span.end
    BY <1>2, <2>2, <2>6, <2>8
  <2>10. y = n /\ n.op = "var"
    BY <1>1, <1>2, <2>8, <2>9, EndsWithName
  <2>11. x.span.start = t.span.start
    BY <1>2, <2>8, <2>10
  <2>12. m.at + x.span.start = span.start /\ m.at + x.span.end = span.end + 2
    BY <1>1, <1>2, <1>3, <2>5, <2>6, <2>11
  <2> QED
    BY <2>2, <2>12
<1> QED
  BY <1>4, <1>5 DEF DotFollows

\* The names of a node that have a hint have the one they should have.
LEMMA HintsOfNames ==
  ASSUME NEW f, FunctionOK(f), NEW i \in DOMAIN f.lines, NEW n \in f.lines[i].nodes, n.op # "select"
  PROVE  HintsOf(f, i, n) = HintsFor(f, i, n)
<1> DEFINE l == f.lines[i]
<1> DEFINE names == Names(n, {"use", "bind"})
<1>1. l \in Line /\ WellFormed(l)
  BY FunctionTypes DEF FunctionOK
<1>2. Shaped(n)
  BY <1>1, NodeFacts
<1>3. Hinted(f, l, n) = {t \in names : ~\E s \in Selects(f) : s.whole = Span(In(l, t.span).start, In(l, t.span).end + 2)}
  BY DEF Hinted
<1>4. CASE n.op \in Binding \union {"var"}
  <2>1. \A t \in names : DotFollows(f, In(l, t.span))
                           <=> \E s \in Selects(f) : s.whole = Span(In(l, t.span).start, In(l, t.span).end + 2)
    BY <1>4, FieldTaken DEF Names
  <2>2. Hinted(f, l, n) = {t \in names : ~DotFollows(f, In(l, t.span))}
    BY <1>3, <2>1
  <2>3. HintsOf(f, i, n) = {Hint(In(l, n.span), In(l, t.span), DeclOf(f, i, t)) : t \in {x \in names : ~DotFollows(f, In(l, x.span))}}
    BY <1>4 DEF HintsOf, Binding
  <2> QED
    BY <2>2, <2>3 DEF HintsFor
<1>5. CASE n.op \notin Binding \union {"var"}
  <2>1. names = {}
    BY <1>2, <1>5, ByName, PackNames DEF Names
  <2>2. Hinted(f, l, n) = {}
    BY <1>3, <2>1
  <2>3. HintsOf(f, i, n) = {}
    BY <1>5 DEF HintsOf
  <2> QED
    BY <2>2, <2>3 DEF HintsFor
<1> QED
  BY <1>4, <1>5

LEMMA HintOfField ==
  ASSUME NEW f, FunctionOK(f), NEW i \in DOMAIN f.lines, NEW n \in f.lines[i].nodes, n.op = "select"
  PROVE  HintsFor(f, i, n) =
           {Hint(In(f.lines[i], n.span), In(f.lines[i], NameOf(n, "field").span), Decl("field", Field))}
<1> DEFINE l == f.lines[i]
<1> DEFINE t == NameOf(n, "field")
<1>1. n.tokens = {t} /\ t.class = "field" /\ t.name = Field
  BY SelectsAre
<1>2. Names(n, {"use", "bind"}) = {}
  BY <1>1 DEF Names
<1>3. Hinted(f, l, n) = {t}
  BY <1>1, <1>2 DEF Hinted
<1>4. DeclOf(f, i, t) = Decl("field", Field)
  BY <1>1 DEF DeclOf
<1> HIDE DEF t
<1> QED
  BY <1>3, <1>4 DEF HintsFor, t

\* Behind a field in an expression of another field there may be two hints.
Doubled(f, at) == \E s, u \in Selects(f) : s # u /\ s \in FieldsIn(f, u.whole) /\ s.name.end = at

LEMMA HintsOfFields ==
  ASSUME NEW f, FunctionOK(f), NEW i \in DOMAIN f.lines, NEW n \in f.lines[i].nodes, n.op = "select"
  PROVE  /\ (\A s \in FieldsIn(f, In(f.lines[i], n.span)) : s.whole = In(f.lines[i], n.span))
              => HintsFor(f, i, n) \subseteq HintsOf(f, i, n)
         /\ \A h \in HintsOf(f, i, n) :
              \E k \in DOMAIN f.lines : \E x \in f.lines[k].nodes : \E t \in Hinted(f, f.lines[k], x) :
                /\ h = Hint(In(f.lines[i], n.span), In(f.lines[k], t.span), DeclOf(f, k, t))
                /\ \/ h.whole = In(f.lines[k], x.span)
                   \/ Doubled(f, h.at)
<1> DEFINE l == f.lines[i]
<1> DEFINE t == NameOf(n, "field")
<1> DEFINE span == In(l, n.span)
<1> DEFINE own == [whole |-> span, name |-> In(l, t.span)]
<1>1. HintsOf(f, i, n) = FieldHint(f, span)
  BY DEF HintsOf, Binding
<1>2. /\ own \in Selects(f) /\ own.whole = span /\ own.name = In(l, t.span)
      /\ span.start \in Int /\ span.end \in Int
      /\ own.name.start = span.end - 1
  <2>1. /\ own \in Selects(f)
        /\ In(l, t.span) = Span(span.end - 1, span.end) /\ span = Span(l.at + n.span.start, l.at + n.span.end)
        /\ n.span.start \in Nat /\ n.span.end \in Nat /\ l.at \in Nat
    BY SelectsAre
  <2> QED
    BY <2>1 DEF Span
<1>3. \A s \in Selects(f) : s.name.start = s.whole.end - 1
  <2> SUFFICES ASSUME NEW s \in Selects(f) PROVE s.name.start = s.whole.end - 1
    OBVIOUS
  <2>1. PICK k, x : /\ k \in DOMAIN f.lines /\ x \in f.lines[k].nodes /\ x.op = "select"
                    /\ s = [whole |-> In(f.lines[k], x.span), name |-> In(f.lines[k], NameOf(x, "field").span)]
    BY SelectIs
  <2>2. s.name = Span(s.whole.end - 1, s.whole.end)
    BY <2>1, SelectsAre
  <2> QED
    BY <2>2 DEF Span
<1>4. HintsFor(f, i, n) = {Hint(span, own.name, Decl("field", Field))}
  BY <1>2, HintOfField
<1> HIDE DEF own, span
<1>5. own \in FieldsIn(f, span)
  BY <1>2 DEF FieldsIn
<1>6. ASSUME \A s \in FieldsIn(f, span) : s.whole = span
      PROVE  HintsFor(f, i, n) \subseteq HintsOf(f, i, n)
  <2>1. \A s \in FieldsIn(f, span) : s.name.start = span.end - 1
    BY <1>3, <1>6 DEF FieldsIn
  <2>2. own \in {x \in FieldsIn(f, span) : \A y \in FieldsIn(f, span) : x.name.start <= y.name.start}
    BY <1>2, <1>5, <2>1
  <2>3. Hint(span, own.name, Decl("field", Field)) \in FieldHint(f, span)
    BY <2>2 DEF FieldHint
  <2> QED
    BY <1>1, <1>4, <2>3
<1>7. ASSUME NEW h \in HintsOf(f, i, n)
      PROVE  \E k \in DOMAIN f.lines : \E x \in f.lines[k].nodes : \E u \in Hinted(f, f.lines[k], x) :
               /\ h = Hint(span, In(f.lines[k], u.span), DeclOf(f, k, u))
               /\ h.whole = In(f.lines[k], x.span) \/ Doubled(f, h.at)
  <2>1. PICK s \in FieldsIn(f, span) : h = Hint(span, s.name, Decl("field", Field))
    BY <1>1 DEF FieldHint
  <2>2. PICK k, x : /\ k \in DOMAIN f.lines /\ x \in f.lines[k].nodes /\ x.op = "select"
                    /\ s = [whole |-> In(f.lines[k], x.span), name |-> In(f.lines[k], NameOf(x, "field").span)]
    BY <2>1, SelectIs DEF FieldsIn
  <2> DEFINE u == NameOf(x, "field")
  <2>3. x.tokens = {u} /\ u.class = "field" /\ u.name = Field
    BY <2>2, SelectsAre
  <2>4. u \in Hinted(f, f.lines[k], x) /\ DeclOf(f, k, u) = Decl("field", Field)
    BY <2>2, <2>3 DEF Hinted, DeclOf
  <2>5. h.whole = span /\ h.at = s.name.end
    BY <2>1 DEF Hint
  <2>6. s.whole = In(f.lines[k], x.span) /\ s.name = In(f.lines[k], u.span)
    BY <2>2
  <2>7. h.whole = In(f.lines[k], x.span) \/ Doubled(f, h.at)
    <3>1. CASE s = own
      BY <1>2, <2>5, <2>6, <3>1
    <3>2. CASE s # own
      BY <1>2, <2>1, <2>5, <3>2 DEF Doubled, FieldsIn
    <3> QED
      BY <3>1, <3>2
  <2> HIDE DEF u
  <2> QED
    BY <2>1, <2>2, <2>4, <2>6, <2>7
<1> QED
  BY <1>6, <1>7 DEF span

\* No two names of a function end at the same place, and none of m where one of
\* h does.
LEMMA OneToken ==
  ASSUME NEW f, FunctionOK(f),
         NEW i \in DOMAIN f.lines, NEW n \in f.lines[i].nodes, NEW t \in n.tokens,
         NEW j \in DOMAIN f.lines, NEW x \in f.lines[j].nodes, NEW u \in x.tokens,
         In(f.lines[i], t.span).end = In(f.lines[j], u.span).end
  PROVE  i = j /\ n = x /\ t = u
<1>1. /\ f.lines[i] \in Line /\ WellFormed(f.lines[i]) /\ f.lines[i].at \in Nat /\ f.lines[i].width \in Nat
      /\ f.lines[j] \in Line /\ WellFormed(f.lines[j]) /\ f.lines[j].at \in Nat /\ f.lines[j].width \in Nat
  BY FunctionTypes DEF FunctionOK
<1>2. /\ t.span \in Spans /\ u.span \in Spans
      /\ t.span.start \in Nat /\ t.span.end \in Nat /\ u.span.start \in Nat /\ u.span.end \in Nat
      /\ n.span.start \in Nat /\ n.span.end \in Nat /\ x.span.start \in Nat /\ x.span.end \in Nat
  BY <1>1, NodeTypes
<1>3. /\ 0 < t.span.start /\ t.span.start < t.span.end /\ t.span.end + 1 < f.lines[i].width
      /\ n.span.start <= t.span.start /\ t.span.end <= n.span.end
      /\ 0 < u.span.start /\ u.span.start < u.span.end /\ u.span.end + 1 < f.lines[j].width
      /\ x.span.start <= u.span.start /\ u.span.end <= x.span.end
  BY <1>1, NodeFacts
<1>4. /\ In(f.lines[i], t.span).end = f.lines[i].at + t.span.end
      /\ In(f.lines[j], u.span).end = f.lines[j].at + u.span.end
  BY <1>1, <1>2, InPlace
<1>5. i = j
  <2> DEFINE o == f.lines[i].at + t.span.end
  <2>1. /\ o \in Int /\ f.lines[i].at < o /\ o < f.lines[i].at + f.lines[i].width
        /\ f.lines[j].at < o /\ o < f.lines[j].at + f.lines[j].width
    <3>1. ASSUME NEW a \in Nat, NEW b \in Nat, NEW c \in Nat, NEW d \in Nat, NEW v \in Nat, NEW w \in Nat,
                 0 < c, c + 1 < v, 0 < d, d + 1 < w, a + c = b + d
          PROVE  /\ a + c \in Int /\ a < a + c /\ a + c < a + v
                 /\ b < a + c /\ a + c < b + w
      BY <3>1
    <3>2. f.lines[i].at + t.span.end = f.lines[j].at + u.span.end
      BY <1>4
    <3>3. 0 < t.span.end /\ 0 < u.span.end
      BY <1>2, <1>3
    <3> QED
      BY <1>1, <1>2, <1>3, <3>1, <3>2, <3>3
  <2> HIDE DEF o
  <2> QED
    BY <2>1, SameLine
<1>6. t.span.end = u.span.end
  <2>1. \A a, c, d \in Nat : a + c = a + d => c = d
    OBVIOUS
  <2>2. f.lines[i].at + t.span.end = f.lines[i].at + u.span.end
    BY <1>4, <1>5
  <2> QED
    BY <1>1, <1>2, <2>1, <2>2
<1>7. ~Separate(t.span, u.span) /\ ~Separate(t.span, x.span) /\ ~Separate(u.span, n.span) /\ ~Separate(n.span, x.span)
  BY <1>2, <1>3, <1>6 DEF Separate
<1>8. n = x
  <2>1. ~Within(n, x) /\ ~Within(x, n)
    <3>1. ASSUME Within(n, x) PROVE FALSE
      <4>1. Separate(u.span, n.span)
        BY <3>1 DEF Within
      <4> QED
        BY <1>7, <4>1
    <3>2. ASSUME Within(x, n) PROVE FALSE
      <4>1. Separate(t.span, x.span)
        BY <3>2 DEF Within
      <4> QED
        BY <1>7, <4>1
    <3> QED
      BY <3>1, <3>2
  <2> QED
    BY <1>1, <1>5, <1>7, <2>1 DEF WellFormed
<1>9. t = u
  BY <1>1, <1>7, <1>8, NodeFacts
<1> QED
  BY <1>5, <1>8, <1>9

LEMMA OtherFunction ==
  ASSUME IInv,
         NEW i \in DOMAIN env.m.lines, NEW n \in env.m.lines[i].nodes, NEW t \in n.tokens,
         NEW j \in DOMAIN env.h.lines, NEW x \in env.h.lines[j].nodes, NEW u \in x.tokens
  PROVE  In(env.m.lines[i], t.span).end # In(env.h.lines[j], u.span).end
<1>1. ASSUME NEW f, FunctionOK(f), NEW k \in DOMAIN f.lines, NEW y \in f.lines[k].nodes, NEW v \in y.tokens
      PROVE  /\ In(f.lines[k], v.span).end \in Nat
             /\ f.body.start < In(f.lines[k], v.span).end /\ In(f.lines[k], v.span).end < f.body.end
  <2> DEFINE l == f.lines[k]
  <2>1. l \in Line /\ WellFormed(l) /\ l.at \in Nat /\ l.width \in Nat /\ f.body.start \in Nat /\ f.body.end \in Nat
    BY <1>1, FunctionTypes DEF FunctionOK
  <2>2. f.body.start + 2 <= l.at /\ l.at + l.width <= f.body.end - 1
    BY <1>1 DEF FunctionOK, InOrder
  <2> HIDE DEF l
  <2>3. v.span \in Spans /\ v.span.end \in Nat /\ y \in l.nodes
    BY <1>1, <2>1, NodeTypes DEF l
  <2>4. v.span.end + 1 < l.width
    BY <1>1, <2>1, <2>3, NodeFacts
  <2>5. In(l, v.span).end = l.at + v.span.end
    BY <2>1, <2>3, InPlace
  <2>6. In(l, v.span).end \in Nat /\ f.body.start < In(l, v.span).end /\ In(l, v.span).end < f.body.end
    BY <2>1, <2>2, <2>3, <2>4, <2>5
  <2> QED
    BY <2>6 DEF l
<1>2. /\ FunctionOK(env.m) /\ FunctionOK(env.h) /\ env.m.body.end + 1 = env.h.name.start
      /\ env.h.name.end < env.h.body.start
  BY BothFunctions
<1>3. /\ env.m.body.end \in Nat /\ env.h.body.start \in Nat /\ env.h.name.start \in Nat /\ env.h.name.end \in Nat
      /\ env.h.name.start < env.h.name.end
  BY <1>2, FunctionTypes DEF FunctionOK
<1>4. /\ In(env.m.lines[i], t.span).end \in Nat /\ In(env.m.lines[i], t.span).end < env.m.body.end
      /\ In(env.h.lines[j], u.span).end \in Nat /\ env.h.body.start < In(env.h.lines[j], u.span).end
  BY <1>1, <1>2
<1> QED
  BY <1>2, <1>3, <1>4

\* The hints in a range.
LEMMA HintStandsBehind ==
  ASSUME IInv, NEW first, NEW last, NEW h \in HintsIn(first, last)
  PROVE  \E g \in Covered(first, last) : \E k \in DOMAIN env[g].lines : \E x \in env[g].lines[k].nodes :
           \E t \in Hinted(env[g], env[g].lines[k], x) :
             /\ h.at = In(env[g].lines[k], t.span).end /\ h.decl = DeclOf(env[g], k, t)
             /\ h = [whole |-> h.whole, at |-> h.at, decl |-> h.decl]
             /\ h.whole = In(env[g].lines[k], x.span) \/ Doubled(env[g], h.at)
<1>1. PICK g \in Covered(first, last) :
             h \in UNION {UNION {HintsOf(env[g], i, n) : n \in env[g].lines[i].nodes} : i \in DOMAIN env[g].lines}
  BY DEF HintsIn
<1>2. PICK i \in DOMAIN env[g].lines : h \in UNION {HintsOf(env[g], i, n) : n \in env[g].lines[i].nodes}
  BY <1>1
<1>3. PICK n \in env[g].lines[i].nodes : h \in HintsOf(env[g], i, n)
  BY <1>2
<1>4. FunctionOK(env[g])
  BY BothFunctions DEF Covered, Functions
<1>5. CASE n.op = "select"
  <2>1. PICK k, x, t :
               /\ k \in DOMAIN env[g].lines /\ x \in env[g].lines[k].nodes /\ t \in Hinted(env[g], env[g].lines[k], x)
               /\ h = Hint(In(env[g].lines[i], n.span), In(env[g].lines[k], t.span), DeclOf(env[g], k, t))
               /\ h.whole = In(env[g].lines[k], x.span) \/ Doubled(env[g], h.at)
    <3>1. \E k \in DOMAIN env[g].lines : \E x \in env[g].lines[k].nodes : \E t \in Hinted(env[g], env[g].lines[k], x) :
            /\ h = Hint(In(env[g].lines[i], n.span), In(env[g].lines[k], t.span), DeclOf(env[g], k, t))
            /\ h.whole = In(env[g].lines[k], x.span) \/ Doubled(env[g], h.at)
      BY <1>3, <1>4, <1>5, HintsOfFields
    <3> QED
      BY <3>1
  <2>2. /\ h.at = In(env[g].lines[k], t.span).end /\ h.decl = DeclOf(env[g], k, t)
        /\ h = [whole |-> h.whole, at |-> h.at, decl |-> h.decl]
    BY <2>1 DEF Hint
  <2> QED
    BY <2>1, <2>2
<1>6. CASE n.op # "select"
  <2>1. h \in HintsFor(env[g], i, n)
    BY <1>3, <1>4, <1>6, HintsOfNames
  <2>2. PICK t \in Hinted(env[g], env[g].lines[i], n) :
               h = Hint(In(env[g].lines[i], n.span), In(env[g].lines[i], t.span), DeclOf(env[g], i, t))
    BY <2>1 DEF HintsFor
  <2>3. /\ h.at = In(env[g].lines[i], t.span).end /\ h.decl = DeclOf(env[g], i, t)
        /\ h = [whole |-> h.whole, at |-> h.at, decl |-> h.decl]
        /\ h.whole = In(env[g].lines[i], n.span)
    BY <2>2 DEF Hint
  <2> QED
    BY <2>3
<1> QED
  BY <1>5, <1>6

LEMMA HintsAreRight ==
  ASSUME IInv, NEW first, NEW last
  PROVE  /\ \A g \in Covered(first, last) : \A i \in DOMAIN env[g].lines : \A n \in env[g].lines[i].nodes :
              (n.op = "select" => \A s \in FieldsIn(env[g], In(env[g].lines[i], n.span)) : s.whole = In(env[g].lines[i], n.span))
              => HintsFor(env[g], i, n) \subseteq HintsIn(first, last)
         /\ \A h \in HintsIn(first, last) : \E g \in Covered(first, last) :
              \E i \in DOMAIN env[g].lines : \E n \in env[g].lines[i].nodes :
                \E k \in HintsFor(env[g], i, n) : k.at = h.at /\ k.decl = h.decl
         /\ \A h, k \in HintsIn(first, last) :
              h.at = k.at => h = k \/ \E g \in Covered(first, last) : Doubled(env[g], h.at)
<1>1. \A g \in Covered(first, last) : g \in {"m", "h"} /\ FunctionOK(env[g])
  BY BothFunctions DEF Covered, Functions
<1>2. ASSUME NEW g \in Covered(first, last), NEW i \in DOMAIN env[g].lines, NEW n \in env[g].lines[i].nodes,
             n.op = "select" => \A s \in FieldsIn(env[g], In(env[g].lines[i], n.span)) : s.whole = In(env[g].lines[i], n.span)
      PROVE  HintsFor(env[g], i, n) \subseteq HintsIn(first, last)
  <2>1. HintsFor(env[g], i, n) \subseteq HintsOf(env[g], i, n)
    BY <1>1, <1>2, HintsOfNames, HintsOfFields
  <2>2. HintsOf(env[g], i, n) \subseteq HintsIn(first, last)
    BY DEF HintsIn
  <2> QED
    BY <2>1, <2>2
<1>3. ASSUME NEW h \in HintsIn(first, last)
      PROVE  \E g \in Covered(first, last) :
              \E i \in DOMAIN env[g].lines : \E n \in env[g].lines[i].nodes :
                \E k \in HintsFor(env[g], i, n) : k.at = h.at /\ k.decl = h.decl
  <2>1. PICK g, i, n, t :
               /\ g \in Covered(first, last) /\ i \in DOMAIN env[g].lines /\ n \in env[g].lines[i].nodes
               /\ t \in Hinted(env[g], env[g].lines[i], n)
               /\ h.at = In(env[g].lines[i], t.span).end /\ h.decl = DeclOf(env[g], i, t)
    BY HintStandsBehind
  <2> DEFINE k == Hint(In(env[g].lines[i], n.span), In(env[g].lines[i], t.span), DeclOf(env[g], i, t))
  <2>2. k \in HintsFor(env[g], i, n)
    BY <2>1 DEF HintsFor
  <2>3. k.at = h.at /\ k.decl = h.decl
    BY <2>1 DEF Hint
  <2> QED
    BY <2>1, <2>2, <2>3
<1>4. ASSUME NEW h \in HintsIn(first, last), NEW k \in HintsIn(first, last), h.at = k.at,
             ~\E g \in Covered(first, last) : Doubled(env[g], h.at)
      PROVE  h = k
  <2>1. PICK g, i, n, t :
               /\ g \in Covered(first, last) /\ i \in DOMAIN env[g].lines /\ n \in env[g].lines[i].nodes
               /\ t \in Hinted(env[g], env[g].lines[i], n)
               /\ h.at = In(env[g].lines[i], t.span).end /\ h.decl = DeclOf(env[g], i, t)
               /\ h = [whole |-> h.whole, at |-> h.at, decl |-> h.decl]
               /\ h.whole = In(env[g].lines[i], n.span)
    BY <1>4, HintStandsBehind
  <2>2. PICK f, j, x, u :
               /\ f \in Covered(first, last) /\ j \in DOMAIN env[f].lines /\ x \in env[f].lines[j].nodes
               /\ u \in Hinted(env[f], env[f].lines[j], x)
               /\ k.at = In(env[f].lines[j], u.span).end /\ k.decl = DeclOf(env[f], j, u)
               /\ k = [whole |-> k.whole, at |-> k.at, decl |-> k.decl]
               /\ k.whole = In(env[f].lines[j], x.span)
    BY <1>4, HintStandsBehind
  <2>3. t \in n.tokens /\ u \in x.tokens
    BY <2>1, <2>2 DEF Hinted, Names
  <2>4. In(env[g].lines[i], t.span).end = In(env[f].lines[j], u.span).end
    BY <1>4, <2>1, <2>2
  <2>5. g = f
    <3>1. ASSUME g = "m", f = "h" PROVE FALSE
      BY <2>1, <2>2, <2>3, <2>4, <3>1, OtherFunction
    <3>2. ASSUME g = "h", f = "m" PROVE FALSE
      BY <2>1, <2>2, <2>3, <2>4, <3>2, OtherFunction
    <3> QED
      BY <1>1, <2>1, <2>2, <3>1, <3>2
  <2>6. i = j /\ n = x /\ t = u
    <3>1. FunctionOK(env[g]) /\ j \in DOMAIN env[g].lines /\ x \in env[g].lines[j].nodes
      BY <1>1, <2>1, <2>2, <2>5
    <3> QED
      BY <2>1, <2>3, <2>4, <2>5, <3>1, OneToken
  <2> QED
    BY <1>4, <2>1, <2>2, <2>5, <2>6
<1> QED
  BY <1>2, <1>3, <1>4

LEMMA TypesInit == Init => TypesAreShown
BY DEF Init, None, TypesAreShown, HoverShowsTheName, HintsStandBehindNames

LEMMA TypesNext == IInv /\ TypesAreShown /\ [Next]_vars => TypesAreShown'
<1> SUFFICES ASSUME IInv, TypesAreShown, [Next]_vars PROVE TypesAreShown'
  OBVIOUS
<1> USE DEF TypesAreShown
<1>1. CASE request' = None
  BY <1>1 DEF None, HoverShowsTheName, HintsStandBehindNames
<1>2. CASE UNCHANGED vars
  <2>1. HoverShowsTheName'
    BY <1>2 DEF vars, HoverShowsTheName, PlaceOf
  <2>2. HintsStandBehindNames'
    <3>1. \A first, last : Covered(first, last)' = Covered(first, last)
      BY <1>2 DEF vars, Covered, LineNumber
    <3> QED
      BY <1>2, <3>1 DEF vars, HintsStandBehindNames
  <2> QED
    BY <2>1, <2>2
<1>3. CASE /\ UNCHANGED <<hasParam, written, env>>
           /\ \E o \in Places : request' = [kind |-> "hover", at |-> o] /\ answer' = HoverText(o)
  <2>1. PICK o \in Places : request' = [kind |-> "hover", at |-> o] /\ answer' = HoverText(o)
    BY <1>3
  <2>2. o \in Int /\ request'.at = o /\ env' = env /\ request'.kind # "hints"
    BY <1>3, <2>1, PlacesAreNumbers
  <2>3. ASSUME NEW i \in DOMAIN env.m.lines, NEW n \in env.m.lines[i].nodes, NEW t \in n.tokens,
               Touches(PlaceOf(i, t.span), o),
               t.class = "const" => Encloses(PlaceOf(i, t.span), o),
               t.class = "fun" => PlaceOf(i, t.span).start < o,
               t.class = "struct" => n.op = "pack"
        PROVE  answer' = {DeclOf(env.m, i, t)}
    BY <2>1, <2>2, <2>3, HoverFinds
  <2>4. HoverShowsTheName'
    BY <2>2, <2>3 DEF HoverShowsTheName, PlaceOf
  <2>5. HintsStandBehindNames'
    BY <2>2 DEF HintsStandBehindNames
  <2> QED
    BY <2>4, <2>5
<1>4. CASE /\ UNCHANGED <<hasParam, written, env>>
           /\ \E first, last \in Edges : request' = [kind |-> "hints", at |-> first, to |-> last]
                                         /\ answer' = HintsIn(first, last)
  <2>1. PICK first, last \in Edges : request' = [kind |-> "hints", at |-> first, to |-> last]
                                     /\ answer' = HintsIn(first, last)
    BY <1>4
  <2>2. request'.at = first /\ request'.to = last /\ env' = env /\ request'.kind # "hover"
    BY <1>4, <2>1
  <2>3. /\ \A g \in Covered(first, last) : \A i \in DOMAIN env[g].lines : \A n \in env[g].lines[i].nodes :
              (n.op = "select" => \A s \in FieldsIn(env[g], In(env[g].lines[i], n.span)) : s.whole = In(env[g].lines[i], n.span))
              => HintsFor(env[g], i, n) \subseteq answer'
        /\ \A h \in answer' : \E g \in Covered(first, last) :
              \E i \in DOMAIN env[g].lines : \E n \in env[g].lines[i].nodes :
                \E k \in HintsFor(env[g], i, n) : k.at = h.at /\ k.decl = h.decl
        /\ \A h, k \in answer' :
              h.at = k.at => h = k \/ \E g \in Covered(first, last) : Doubled(env[g], h.at)
    BY <2>1, HintsAreRight
  <2>4. Covered(first, last)' = Covered(first, last)
    BY <2>2 DEF Covered, LineNumber
  <2>5. HintsStandBehindNames'
    BY <2>2, <2>3, <2>4 DEF HintsStandBehindNames, Doubled
  <2>6. HoverShowsTheName'
    BY <2>2 DEF HoverShowsTheName
  <2> QED
    BY <2>5, <2>6
<1>5. CASE request'.kind \notin {"hover", "hints"}
  BY <1>5 DEF HoverShowsTheName, HintsStandBehindNames
<1> QED
  BY <1>1, <1>2, <1>3, <1>4, <1>5, StepKinds

\* Hovering over a name shows its own type, and hints stand behind the names
\* they are for.
THEOREM TypesAreRight == Spec => []TypesAreShown
<1>1. Init => TypesAreShown
  BY TypesInit
<1>2. IInv /\ TypesAreShown /\ [Next]_vars => TypesAreShown'
  BY TypesNext
<1> QED
  BY <1>1, <1>2, IInvHolds, PTL DEF Spec

----------------------------------------------------------------------------
(* References: the uses. *)

LEMMA ClassNodes ==
  ASSUME NEW n, Shaped(n), NEW t \in n.tokens
  PROVE  /\ t.class = "const" => n.op = "const" /\ t.name = Const /\ t.span = n.span
         /\ t.class = "fun" => n.op = "call"
         /\ t.class = "struct" => n.op \in {"pack", "unpack"} /\ t.name = Struct
         /\ t.class = "field" => n.op \in {"select", "pack", "unpack"} /\ t.name = Field
BY ByName, PackNames, UnpackNames DEF Binding

LEMMA AllLinesOK ==
  ASSUME IInv, NEW l \in AllLines
  PROVE  /\ l \in Line /\ WellFormed(l)
         /\ \E f \in Functions : \E i \in DOMAIN env[f].lines : l = env[f].lines[i]
<1>1. PICK f \in Functions : l \in LinesOf(env[f])
  BY DEF AllLines
<1>2. PICK i \in DOMAIN env[f].lines : l = env[f].lines[i]
  BY <1>1 DEF LinesOf
<1>3. FunctionOK(env[f])
  BY BothFunctions DEF Functions
<1> QED
  BY <1>2, <1>3, FunctionTypes DEF FunctionOK

LEMMA UsesOf ==
  ASSUME NEW t, NEW e
  PROVE  e \in UNION {UsesIn(k, t) : k \in AllLines} <=>
           \E k \in AllLines : \E x \in k.nodes : \E u \in x.tokens :
             u.class = t.class /\ u.name = t.name /\ e = In(k, UseOf(x, u))
BY DEF UsesIn

LEMMA SpansOfIs ==
  ASSUME NEW op, NEW e
  PROVE  e \in SpansOf(op) <=> \E k \in AllLines : \E x \in k.nodes : x.op = op /\ e = In(k, x.span)
BY DEF SpansOf

LEMMA SpansInIs ==
  ASSUME NEW op, NEW class, NEW e
  PROVE  e \in SpansIn(op, class) <=>
           \E k \in AllLines : \E x \in k.nodes : \E u \in x.tokens :
             x.op = op /\ u.class = class /\ e = In(k, u.span)
BY DEF SpansIn, NamesIn, Names

LEMMA ConstUsesAre ==
  ASSUME IInv, NEW t, t.class = "const", t.name = Const
  PROVE  ConstUses = UNION {UsesIn(k, t) : k \in AllLines}
<1>1. ASSUME NEW e, NEW k \in AllLines, NEW x \in k.nodes, x.op = "const", e = In(k, x.span)
      PROVE  e \in UNION {UsesIn(l, t) : l \in AllLines}
  <2>1. Shaped(x)
    BY AllLinesOK, NodeFacts
  <2>2. PICK u \in x.tokens : x.tokens = {u}
    BY <1>1, <2>1, OnlyHas DEF Shaped
  <2>3. u.class = "const" /\ u.name = Const /\ u.span = x.span /\ UseOf(x, u) = u.span
    BY <1>1, <2>1, <2>2, ByName DEF UseOf
  <2> QED
    BY <1>1, <2>2, <2>3, UsesOf
<1>2. ASSUME NEW e, NEW k \in AllLines, NEW x \in k.nodes, NEW u \in x.tokens,
             u.class = t.class, e = In(k, UseOf(x, u))
      PROVE  e \in SpansOf("const")
  <2>1. x.op = "const" /\ u.span = x.span
    BY <1>2, AllLinesOK, NodeFacts, ClassNodes
  <2> QED
    BY <1>2, <2>1, SpansOfIs DEF UseOf
<1>3. \A e : e \in SpansOf("const") => e \in UNION {UsesIn(l, t) : l \in AllLines}
  BY <1>1, SpansOfIs
<1>4. \A e : e \in UNION {UsesIn(l, t) : l \in AllLines} => e \in SpansOf("const")
  <2> SUFFICES ASSUME NEW e, e \in UNION {UsesIn(l, t) : l \in AllLines} PROVE e \in SpansOf("const")
    OBVIOUS
  <2>1. \E k \in AllLines : \E x \in k.nodes : \E u \in x.tokens : u.class = t.class /\ e = In(k, UseOf(x, u))
    BY UsesOf
  <2> QED
    BY <1>2, <2>1
<1> QED
  BY <1>3, <1>4 DEF ConstUses

LEMMA FunctionUsesAre ==
  ASSUME IInv, NEW t, t.class = "fun"
  PROVE  FunctionUses(t.name) = UNION {UsesIn(k, t) : k \in AllLines}
<1>1. ASSUME NEW e
      PROVE  e \in FunctionUses(t.name) <=>
               \E k \in AllLines : \E x \in k.nodes : \E u \in x.tokens :
                 u.class = "fun" /\ u.name = t.name /\ e = In(k, u.span)
  BY DEF FunctionUses, Names
<1>2. \A k \in AllLines : \A x \in k.nodes : \A u \in x.tokens : u.class = "fun" => UseOf(x, u) = u.span
  <2> SUFFICES ASSUME NEW k \in AllLines, NEW x \in k.nodes, NEW u \in x.tokens, u.class = "fun"
               PROVE  UseOf(x, u) = u.span
    OBVIOUS
  <2>1. x.op = "call"
    BY AllLinesOK, NodeFacts, ClassNodes
  <2> QED
    BY <2>1 DEF UseOf
<1>3. \A e : e \in FunctionUses(t.name) <=> e \in UNION {UsesIn(k, t) : k \in AllLines}
  BY <1>1, <1>2, UsesOf
<1> QED
  BY <1>3

LEMMA StructUsesAre ==
  ASSUME IInv, NEW t, t.class = "struct", t.name = Struct
  PROVE  StructUses = (UNION {UsesIn(k, t) : k \in AllLines}) \union env.m.type
<1>1. UNION {env[f].type : f \in Functions} = env.m.type
  BY BothFunctions DEF Functions
<1>2. ASSUME NEW e, NEW k \in AllLines, NEW x \in k.nodes, NEW u \in x.tokens, u.class = "struct"
      PROVE  x.op \in {"pack", "unpack"} /\ u.name = Struct /\ UseOf(x, u) = u.span
  <2>1. x.op \in {"pack", "unpack"} /\ u.name = Struct
    BY <1>2, AllLinesOK, NodeFacts, ClassNodes
  <2> QED
    BY <2>1 DEF UseOf
<1>3. ASSUME NEW e
      PROVE  e \in SpansIn("pack", "struct") \union SpansIn("unpack", "struct")
               <=> e \in UNION {UsesIn(k, t) : k \in AllLines}
  <2>1. e \in SpansIn("pack", "struct") \union SpansIn("unpack", "struct")
          <=> \E k \in AllLines : \E x \in k.nodes : \E u \in x.tokens : u.class = "struct" /\ e = In(k, u.span)
    BY <1>2, SpansInIs
  <2> QED
    BY <1>2, <2>1, UsesOf
<1>4. SpansIn("pack", "struct") \union SpansIn("unpack", "struct") = UNION {UsesIn(k, t) : k \in AllLines}
  BY <1>3
<1> QED
  BY <1>1, <1>4 DEF StructUses

LEMMA FieldUsesAre ==
  ASSUME IInv, NEW t, t.class = "field", t.name = Field
  PROVE  FieldUses = UNION {UsesIn(k, t) : k \in AllLines}
<1>1. ASSUME NEW k \in AllLines, NEW x \in k.nodes, NEW u \in x.tokens, u.class = "field"
      PROVE  x.op \in {"select", "pack", "unpack"} /\ u.name = Field
  BY <1>1, AllLinesOK, NodeFacts, ClassNodes
<1>2. ASSUME NEW e, e \in FieldUses
      PROVE  e \in UNION {UsesIn(k, t) : k \in AllLines}
  <2>1. CASE e \in SpansOf("select")
    <3>1. PICK k \in AllLines : \E x \in k.nodes : x.op = "select" /\ e = In(k, x.span)
      BY <2>1, SpansOfIs
    <3>2. PICK x \in k.nodes : x.op = "select" /\ e = In(k, x.span)
      BY <3>1
    <3>3. Shaped(x)
      BY AllLinesOK, NodeFacts
    <3>4. PICK u \in x.tokens : x.tokens = {u}
      BY <3>2, <3>3, OnlyHas DEF Shaped
    <3>5. u.class = "field" /\ u.name = Field /\ UseOf(x, u) = x.span
      BY <3>2, <3>3, <3>4, ByName DEF UseOf
    <3> QED
      BY <3>2, <3>4, <3>5, UsesOf
  <2>2. ASSUME NEW op \in {"pack", "unpack"}, e \in SpansIn(op, "field")
        PROVE  e \in UNION {UsesIn(k, t) : k \in AllLines}
    <3>1. PICK k \in AllLines : \E x \in k.nodes : \E u \in x.tokens :
                 x.op = op /\ u.class = "field" /\ e = In(k, u.span)
      BY <2>2, SpansInIs
    <3>2. PICK x \in k.nodes : \E u \in x.tokens : x.op = op /\ u.class = "field" /\ e = In(k, u.span)
      BY <3>1
    <3>3. PICK u \in x.tokens : x.op = op /\ u.class = "field" /\ e = In(k, u.span)
      BY <3>2
    <3>4. u.name = Field /\ UseOf(x, u) = u.span
      BY <1>1, <3>3 DEF UseOf
    <3> QED
      BY <3>3, <3>4, UsesOf
  <2> QED
    BY <1>2, <2>1, <2>2 DEF FieldUses, SelectUses, PackUses, UnpackUses
<1>3. ASSUME NEW e, e \in UNION {UsesIn(k, t) : k \in AllLines}
      PROVE  e \in FieldUses
  <2>1. PICK k \in AllLines : \E x \in k.nodes : \E u \in x.tokens :
             u.class = t.class /\ u.name = t.name /\ e = In(k, UseOf(x, u))
    BY <1>3, UsesOf
  <2>2. PICK x \in k.nodes : \E u \in x.tokens : u.class = t.class /\ e = In(k, UseOf(x, u))
    BY <2>1
  <2>3. PICK u \in x.tokens : u.class = t.class /\ e = In(k, UseOf(x, u))
    BY <2>2
  <2>4. CASE x.op = "select"
    <3>1. e \in SpansOf("select")
      BY <2>3, <2>4, SpansOfIs DEF UseOf
    <3> QED
      BY <3>1 DEF FieldUses, SelectUses
  <2>5. CASE x.op # "select"
    <3>1. x.op \in {"pack", "unpack"}
      BY <1>1, <2>3, <2>5
    <3>2. e \in SpansIn(x.op, "field")
      BY <2>3, <2>5, SpansInIs DEF UseOf
    <3> QED
      BY <3>1, <3>2 DEF FieldUses, PackUses, UnpackUses
  <2> QED
    BY <2>4, <2>5
<1> QED
  BY <1>2, <1>3

----------------------------------------------------------------------------
(* References: what wins. *)

Whole(x) == IF x.op = "unpack" THEN PatternSpan(x) ELSE x.span

LEMMA WholeCovers ==
  ASSUME NEW l \in Line, WellFormed(l), NEW x \in l.nodes, x.op \in {"call", "select", "pack", "unpack"}
  PROVE  /\ Covers(l, x, Whole(x)) /\ Inside(l, Whole(x)) /\ Length(Whole(x)) <= Length(x.span)
         /\ \A t \in x.tokens : Area(x, t) = Whole(x)
<1>1. Shaped(x)
  BY NodeFacts
<1>2. PICK t : t \in x.tokens
  BY <1>1, OnlyHas, PackNames, UnpackNames DEF Shaped
<1>3. \A u \in x.tokens : Area(x, u) = Whole(x)
  BY DEF Area, Whole
<1>4. Covers(l, x, Whole(x)) /\ Inside(l, Whole(x))
  BY <1>2, <1>3, AreaCovers, PartsAreInside
<1>5. Length(Whole(x)) <= Length(x.span)
  BY <1>4, NodeTypes DEF Covers, Spans, Length
<1> QED
  BY <1>3, <1>4, <1>5

\* What the walk captures for a node.
LEMMA WalkNodeIs ==
  ASSUME NEW l \in Line, WellFormed(l), NEW x \in l.nodes, NEW o \in Int, NEW c \in WalkNode(l, x, o)
  PROVE  /\ x.op \in {"call", "select", "pack", "unpack"}
         /\ c.whole = In(l, Whole(x)) /\ Touches(c.whole, o)
         /\ \/ x.op = "call" /\ Encloses(In(l, x.span), o) /\ c.span = In(l, NameOf(x, "fun").span)
            \/ x.op \in {"pack", "unpack"} /\ c.span = In(l, NameOf(x, "struct").span) /\ o < c.span.end
            \/ c.span = c.whole
         /\ c.uses \in {FieldUses, StructUses} \union {FunctionUses(NameOf(x, "fun").name)}
<1> USE DEF PushUses
<1>1. x.op \in {"call", "select", "pack", "unpack"}
  BY DEF WalkNode
<1>2. Inside(l, Whole(x))
  BY <1>1, WholeCovers
<1>3. In(l, Whole(x)).start \in Int /\ In(l, Whole(x)).end \in Int
  BY <1>2, InPlace DEF Inside
<1>4. CASE x.op = "call"
  <2>1. Encloses(In(l, x.span), o) /\ c \in PushUses(In(l, x.span), In(l, NameOf(x, "fun").span), FunctionUses(NameOf(x, "fun").name))
    BY <1>4 DEF WalkNode
  <2>2. c = [whole |-> In(l, x.span), span |-> In(l, NameOf(x, "fun").span), uses |-> FunctionUses(NameOf(x, "fun").name)]
    BY <2>1
  <2>3. Whole(x) = x.span
    BY <1>4 DEF Whole
  <2>4. Touches(In(l, x.span), o)
    BY <1>3, <2>1, <2>3 DEF Encloses, Touches
  <2> QED
    BY <1>4, <2>1, <2>2, <2>3, <2>4
<1>5. CASE x.op = "select"
  <2>1. Touches(In(l, x.span), o) /\ c \in PushUses(In(l, x.span), In(l, x.span), FieldUses)
    BY <1>5 DEF WalkNode
  <2>2. c = [whole |-> In(l, x.span), span |-> In(l, x.span), uses |-> FieldUses]
    BY <2>1
  <2>3. Whole(x) = x.span
    BY <1>5 DEF Whole
  <2> QED
    BY <1>5, <2>1, <2>2, <2>3
<1>6. CASE x.op \in {"pack", "unpack"}
  <2> DEFINE struct == In(l, NameOf(x, "struct").span)
  <2> DEFINE whole == In(l, Whole(x))
  <2>1. \E onLabel \in BOOLEAN : c \in Braced(l, x, whole, onLabel, o)
    <3>1. CASE x.op = "pack"
      <4> DEFINE label == In(l, NameOf(x, "field").span).start
      <4>1. WalkNode(l, x, o) = Braced(l, x, whole, label < o /\ o < label + 3, o)
        BY <3>1 DEF WalkNode, PackAt, Whole
      <4>2. (label < o /\ o < label + 3) \in BOOLEAN
        OBVIOUS
      <4> QED
        BY <4>1, <4>2
    <3>2. CASE x.op = "unpack"
      <4>1. WalkNode(l, x, o) = Braced(l, x, whole, o < In(l, NameOf(x, "bind").span).start, o)
        BY <3>2 DEF WalkNode, UnpackAt, Whole
      <4>2. (o < In(l, NameOf(x, "bind").span).start) \in BOOLEAN
        OBVIOUS
      <4> QED
        BY <4>1, <4>2
    <3> QED
      BY <1>6, <3>1, <3>2
  <2>2. PICK onLabel \in BOOLEAN : c \in Braced(l, x, whole, onLabel, o)
    BY <2>1
  <2>3. /\ Touches(whole, o)
        /\ \/ c \in PushUses(whole, struct, StructUses) /\ struct.end > o
           \/ c \in PushUses(whole, whole, FieldUses)
    BY <2>2 DEF Braced
  <2> HIDE DEF struct, whole
  <2>4. CASE c \in PushUses(whole, struct, StructUses) /\ struct.end > o
    <3>1. c = [whole |-> whole, span |-> struct, uses |-> StructUses]
      BY <2>4
    <3>2. o < struct.end
      BY <2>4
    <3> QED
      BY <1>6, <2>3, <3>1, <3>2 DEF struct, whole
  <2>5. CASE c \in PushUses(whole, whole, FieldUses)
    <3>1. c = [whole |-> whole, span |-> whole, uses |-> FieldUses]
      BY <2>5
    <3> QED
      BY <1>6, <2>3, <3>1 DEF whole
  <2> QED
    BY <2>3, <2>4, <2>5
<1> QED
  BY <1>1, <1>4, <1>5, <1>6

LEMMA NameWinsWhole ==
  ASSUME NEW l \in Line, WellFormed(l), NEW n \in l.nodes, NEW x \in l.nodes, n # x, NEW t \in n.tokens,
         n.op \in {"call", "select", "pack", "unpack"}, x.op \in {"call", "select", "pack", "unpack"},
         NEW o \in Int, Touches(In(l, t.span), o), Touches(In(l, Whole(x)), o)
  PROVE  Within(n, x) /\ Whole(x) = x.span /\ Length(n.span) < Length(Whole(x))
<1>1. Covers(l, n, Whole(n)) /\ Covers(l, x, Whole(x))
  BY WholeCovers
<1> QED
  BY <1>1, NameWins, ZenonT(60)

\* A name that the cursor is at, and what is captured for another node.
LEMMA OwnNodeWins ==
  ASSUME IInv, NEW o \in Int, NEW i \in DOMAIN env.m.lines, NEW n \in env.m.lines[i].nodes, NEW t \in n.tokens,
         n.op \in {"call", "select", "pack", "unpack"}, Touches(PlaceOf(i, t.span), o),
         NEW j \in DOMAIN env.m.lines, NEW x \in env.m.lines[j].nodes, NEW c \in WalkNode(env.m.lines[j], x, o),
         i # j \/ n # x, NEW length \in Int, length <= Length(n.span), ~Eclipsed(length, o)
  PROVE  /\ Length(c.span) \in Int /\ Length(c.whole) \in Int
         /\ length <= Length(c.span) /\ Length(n.span) < Length(c.whole)
<1> DEFINE l == env.m.lines[i]
<1>1. /\ l \in Line /\ WellFormed(l) /\ env.m.lines[j] \in Line /\ WellFormed(env.m.lines[j])
      /\ FunctionOK(env.m) /\ l.at \in Nat
  BY LinesOK DEF IInv
<1>2. /\ x.op \in {"call", "select", "pack", "unpack"}
      /\ c.whole = In(env.m.lines[j], Whole(x)) /\ Touches(c.whole, o)
      /\ \/ x.op = "call" /\ Encloses(In(env.m.lines[j], x.span), o) /\ c.span = In(env.m.lines[j], NameOf(x, "fun").span)
         \/ x.op \in {"pack", "unpack"} /\ c.span = In(env.m.lines[j], NameOf(x, "struct").span) /\ o < c.span.end
         \/ c.span = c.whole
  BY <1>1, WalkNodeIs
<1>3. Inside(env.m.lines[j], Whole(x)) /\ Inside(l, t.span)
  BY <1>1, <1>2, WholeCovers, PartsAreInside
<1>4. i = j
  BY <1>1, <1>2, <1>3, TouchedLine DEF PlaceOf
<1>5. n # x /\ Touches(In(l, t.span), o) /\ Touches(In(l, Whole(x)), o)
  BY <1>2, <1>4 DEF PlaceOf
<1>6. Covers(l, n, Whole(n)) /\ Covers(l, x, Whole(x))
  BY <1>1, <1>2, <1>4, WholeCovers
<1>7. Within(n, x) /\ Whole(x) = x.span /\ Length(n.span) < Length(Whole(x))
  BY <1>1, <1>2, <1>4, <1>5, NameWinsWhole
<1>8. /\ Whole(x) \in Spans /\ n.span \in Spans /\ t.span \in Spans
      /\ Length(Whole(x)) \in Int /\ Length(n.span) \in Int /\ Length(c.whole) = Length(Whole(x))
  BY <1>1, <1>2, <1>4, <1>6, NodeTypes, InPlace DEF Covers, Spans, Length
<1>9. Shaped(x)
  BY <1>1, <1>4, NodeFacts
<1>10. CASE x.op = "call" /\ Encloses(In(l, x.span), o) /\ c.span = In(l, NameOf(x, "fun").span)
  <2> DEFINE u == NameOf(x, "fun")
  <2>1. u \in x.tokens
    BY <1>9, <1>10, OnlyHas, OneName DEF Shaped
  <2>2. u.span \in Spans /\ u.span.start \in Nat /\ u.span.end \in Nat
    BY <1>1, <1>4, <2>1, NodeTypes
  <2>3. Length(c.span) = Length(u.span) /\ Length(u.span) \in Int
    BY <1>1, <1>10, <2>2, InPlace DEF Length
  <2>4. ~(Length(u.span) < length)
    BY <1>4, <1>10 DEF Eclipsed, LinesOf
  <2> QED
    BY <1>7, <1>8, <2>3, <2>4
<1>11. CASE x.op \in {"pack", "unpack"} /\ c.span = In(l, NameOf(x, "struct").span) /\ o < c.span.end
  <2> DEFINE s == NameOf(x, "struct")
  <2>1. s \in x.tokens /\ Whole(x).start = s.span.start
    BY <1>9, <1>11, PackNames, UnpackNames DEF Whole, PatternSpan, Span
  <2>2. /\ s.span \in Spans /\ s.span.start \in Nat /\ s.span.end \in Nat
        /\ n.span.start \in Nat /\ n.span.end \in Nat /\ t.span.start \in Nat /\ t.span.end \in Nat
        /\ n.span.start <= t.span.start /\ t.span.end <= n.span.end
    BY <1>1, <1>4, <2>1, NodeTypes, NodeFacts
  <2>3. l.at + t.span.start <= o /\ o <= l.at + t.span.end
    BY <1>1, <1>5, <1>8, InPlace DEF Touches
  <2>4. l.at + s.span.start <= o
    BY <1>1, <1>5, <1>8, <2>1, InPlace DEF Touches
  <2>5. o < l.at + s.span.end
    BY <1>1, <1>11, <2>2, InPlace
  <2>6. ~Separate(s.span, n.span)
    BY <1>1, <2>2, <2>3, <2>4, <2>5 DEF Separate
  <2> QED
    BY <1>7, <2>1, <2>6 DEF Within
<1>12. CASE c.span = c.whole
  BY <1>7, <1>8, <1>12
<1> QED
  BY <1>2, <1>4, <1>10, <1>11, <1>12

LEMMA NotOnConst ==
  ASSUME IInv, NEW o \in Int, NEW i \in DOMAIN env.m.lines, NEW n \in env.m.lines[i].nodes, NEW t \in n.tokens,
         n.op # "const", Touches(PlaceOf(i, t.span), o)
  PROVE  ~OnConst(o)
<1> SUFFICES ASSUME OnConst(o) PROVE FALSE
  OBVIOUS
<1> DEFINE l == env.m.lines[i]
<1>1. PICK j \in DOMAIN env.m.lines : \E x \in env.m.lines[j].nodes : x.op = "const" /\ Touches(In(env.m.lines[j], x.span), o)
  BY DEF OnConst, LinesOf
<1>2. PICK x \in env.m.lines[j].nodes : x.op = "const" /\ Touches(In(env.m.lines[j], x.span), o)
  BY <1>1
<1>3. /\ l \in Line /\ WellFormed(l) /\ env.m.lines[j] \in Line /\ WellFormed(env.m.lines[j])
      /\ FunctionOK(env.m)
  BY LinesOK DEF IInv
<1>4. Shaped(x)
  BY <1>3, NodeFacts
<1>5. PICK u \in x.tokens : x.tokens = {u}
  BY <1>2, <1>4, OnlyHas DEF Shaped
<1>6. u.span = x.span
  BY <1>2, <1>4, <1>5, ByName
<1>7. Inside(l, t.span) /\ Inside(env.m.lines[j], u.span)
  BY <1>3, PartsAreInside
<1>8. i = j
  BY <1>2, <1>3, <1>6, <1>7, TouchedLine DEF PlaceOf
<1>9. Area(x, u) = x.span /\ Covers(l, x, Area(x, u)) /\ Covers(l, n, Area(n, t))
  BY <1>2, <1>3, <1>8, AreaCovers DEF Area
<1>10. Within(n, x)
  BY <1>2, <1>3, <1>8, <1>9, NameWins DEF PlaceOf
<1>11. Separate(x.span, n.span)
  BY <1>5, <1>6, <1>10 DEF Within
<1>12. /\ n.span.start \in Nat /\ n.span.end \in Nat /\ x.span.start \in Nat /\ x.span.end \in Nat
       /\ n.span.start < n.span.end /\ x.span.start <= n.span.start /\ n.span.end <= x.span.end
  BY <1>3, <1>8, <1>10, NodeTypes, NodeFacts DEF Within
<1> QED
  BY <1>11, <1>12 DEF Separate

\* The cursor at a name of a body.
LEMMA NameInBody ==
  ASSUME IInv, NEW o \in Int, NEW i \in DOMAIN env.m.lines, NEW n \in env.m.lines[i].nodes, NEW t \in n.tokens,
         Touches(PlaceOf(i, t.span), o)
  PROVE  MouseEnd(Breaks(env.m), o) = o /\ Encloses(env.m.body, o)
<1> DEFINE l == env.m.lines[i]
<1>1. /\ l \in Line /\ WellFormed(l) /\ FunctionOK(env.m) /\ l.at \in Nat /\ l.width \in Nat
      /\ env.m.body.start \in Nat /\ env.m.body.end \in Nat
  BY LinesOK, FunctionTypes DEF IInv
<1>2. Inside(l, t.span) /\ Touches(In(l, t.span), o)
  BY <1>1, PartsAreInside DEF PlaceOf
<1>3. MouseEnd(Breaks(env.m), o) = o
  BY <1>1, <1>2, MouseAtName
<1>4. l.at < o /\ o < l.at + l.width
  BY <1>1, <1>2, InsideTouched
<1>5. env.m.body.start + 2 <= l.at /\ l.at + l.width <= env.m.body.end - 1
  BY <1>1 DEF FunctionOK, InOrder
<1>6. Encloses(env.m.body, o)
  BY <1>1, <1>4, <1>5 DEF Encloses
<1> QED
  BY <1>3, <1>6

\* What is captured for the node of the name that the cursor is at wins.
LEMMA WalkFinds ==
  ASSUME IInv, hasParam, NEW o \in Int,
         NEW i \in DOMAIN env.m.lines, NEW n \in env.m.lines[i].nodes, NEW t \in n.tokens,
         n.op \in {"call", "select", "pack", "unpack"}, Touches(PlaceOf(i, t.span), o),
         NEW c, WalkNode(env.m.lines[i], n, o) = {c}, Length(c.span) \in Int, Length(c.whole) \in Int,
         Length(c.span) <= Length(n.span), Length(c.whole) <= Length(n.span), ~Eclipsed(Length(c.span), o)
  PROVE  Uses(o) = c.uses
<1>1. /\ MouseEnd(Breaks(env.m), o) = o /\ Encloses(env.m.body, o) /\ ~OnConst(o)
  BY NameInBody, NotOnConst
<1>2. Length(n.span) \in Int
  BY LinesOK, NodeTypes DEF Length
<1>3. FuncUses(o) = Walk(o)
  BY <1>1 DEF FuncUses, ParameterUses
<1>4. c \in Walk(o)
  <2>1. env.m.lines[i] \in LinesOf(env.m)
    BY DEF LinesOf
  <2> QED
    BY <2>1 DEF Walk
<1>5. ASSUME NEW b \in Walk(o)
      PROVE  /\ Length(b.span) \in Int /\ Length(b.whole) \in Int /\ Length(c.span) <= Length(b.span)
             /\ b = c \/ Length(c.whole) < Length(b.whole)
  <2>1. PICK m \in LinesOf(env.m) : \E x \in m.nodes : b \in WalkNode(m, x, o)
    BY DEF Walk
  <2>2. PICK j \in DOMAIN env.m.lines : m = env.m.lines[j]
    BY DEF LinesOf
  <2>3. PICK x \in env.m.lines[j].nodes : b \in WalkNode(env.m.lines[j], x, o)
    BY <2>1, <2>2
  <2>4. CASE i = j /\ n = x
    BY <2>3, <2>4
  <2>5. CASE i # j \/ n # x
    <3>1. /\ Length(b.span) \in Int /\ Length(b.whole) \in Int
          /\ Length(c.span) <= Length(b.span) /\ Length(n.span) < Length(b.whole)
      BY <2>3, <2>5, OwnNodeWins
    <3> QED
      BY <1>2, <3>1
  <2> QED
    BY <2>4, <2>5
<1>6. c \in Smallest(Walk(o))
  BY <1>4, <1>5 DEF Smallest
<1>7. Smallest(Walk(o)) \subseteq Walk(o)
  BY DEF Smallest
<1>8. First(Walk(o)) = {c}
  <2>1. c \in First(Walk(o))
    <3>1. \A d \in Smallest(Walk(o)) : Length(c.whole) <= Length(d.whole)
      BY <1>5, <1>7
    <3> QED
      BY <1>6, <3>1 DEF First
  <2>2. ASSUME NEW d \in First(Walk(o)) PROVE d = c
    <3>1. d \in Walk(o) /\ Length(d.whole) <= Length(c.whole)
      BY <1>6, <1>7 DEF First
    <3> QED
      BY <1>5, <3>1
  <2> QED
    BY <2>1, <2>2
<1>9. Uses(o) = UNION {b.uses : b \in First(Walk(o))}
  BY <1>1, <1>3 DEF Uses
<1> QED
  BY <1>8, <1>9
----------------------------------------------------------------------------
(* References: what is asked for. *)

LEMMA CallFinds ==
  ASSUME IInv, hasParam, NEW o \in Int,
         NEW i \in DOMAIN env.m.lines, NEW n \in env.m.lines[i].nodes, NEW t \in n.tokens,
         t.class = "fun", Touches(PlaceOf(i, t.span), o), PlaceOf(i, t.span).start < o,
         ~Eclipsed(Length(t.span), o)
  PROVE  Uses(o) = FunctionUses(t.name)
<1> DEFINE l == env.m.lines[i]
<1>1. l \in Line /\ WellFormed(l)
  BY LinesOK DEF IInv
<1>2. Shaped(n)
  BY <1>1, NodeFacts
<1>3. n.op = "call"
  BY <1>2, ClassNodes
<1>4. /\ NameOf(n, "fun") = t /\ t.span.start = n.span.start /\ t.span.end + 1 < n.span.end
  BY <1>2, <1>3, ByName
<1>5. /\ n.span \in Spans /\ t.span \in Spans
      /\ n.span.start \in Nat /\ n.span.end \in Nat /\ t.span.start \in Nat /\ t.span.end \in Nat
  BY <1>1, NodeTypes
<1>6. Touches(In(l, t.span), o) /\ In(l, t.span).start < o
  BY DEF PlaceOf
<1>7. Encloses(In(l, n.span), o)
  BY <1>1, <1>4, <1>5, <1>6, InPlace DEF Encloses, Touches
<1>8. In(l, t.span) \in FunctionUses(t.name)
  <2>1. l \in AllLines
    BY DEF AllLines, LinesOf, Functions
  <2> QED
    BY <2>1 DEF FunctionUses, Names
<1> DEFINE c == [whole |-> In(l, n.span), span |-> In(l, t.span), uses |-> FunctionUses(t.name)]
<1>9. WalkNode(l, n, o) = {c}
  <2>1. WalkNode(l, n, o) = PushUses(In(l, n.span), In(l, t.span), FunctionUses(t.name))
    BY <1>3, <1>4, <1>7 DEF WalkNode
  <2> QED
    BY <1>8, <2>1 DEF PushUses
<1>10. c.span = In(l, t.span) /\ c.whole = In(l, n.span) /\ c.uses = FunctionUses(t.name)
  OBVIOUS
<1>11. Length(c.span) = Length(t.span) /\ Length(c.whole) = Length(n.span)
  BY <1>1, <1>5, <1>10, InPlace
<1>12. /\ Length(t.span) \in Int /\ Length(n.span) \in Int /\ Length(t.span) <= Length(n.span)
  BY <1>4, <1>5 DEF Length
<1> HIDE DEF c
<1>13. ~Eclipsed(Length(c.span), o)
  BY <1>11
<1>14. /\ Length(c.span) \in Int /\ Length(c.whole) \in Int
      /\ Length(c.span) <= Length(n.span) /\ Length(c.whole) <= Length(n.span)
  BY <1>11, <1>12
<1>15. n.op \in {"call", "select", "pack", "unpack"}
  BY <1>3
<1>16. Uses(o) = c.uses
  BY <1>9, <1>13, <1>14, <1>15, WalkFinds
<1> QED
  BY <1>10, <1>16

LEMMA StructFinds ==
  ASSUME IInv, hasParam, NEW o \in Int,
         NEW i \in DOMAIN env.m.lines, NEW n \in env.m.lines[i].nodes, NEW t \in n.tokens,
         t.class = "struct", Touches(PlaceOf(i, t.span), o), o < PlaceOf(i, t.span).end,
         ~Eclipsed(Length(t.span), o)
  PROVE  Uses(o) = StructUses
<1> DEFINE l == env.m.lines[i]
<1>1. l \in Line /\ WellFormed(l)
  BY LinesOK DEF IInv
<1>2. Shaped(n)
  BY <1>1, NodeFacts
<1>3. n.op \in {"pack", "unpack"}
  BY <1>2, ClassNodes
<1>4. NameOf(n, "struct") = t
  BY <1>2, <1>3, PackNames, UnpackNames
<1>5. /\ n.span \in Spans /\ t.span \in Spans
      /\ n.span.start \in Nat /\ n.span.end \in Nat /\ t.span.start \in Nat /\ t.span.end \in Nat
      /\ n.span.start <= t.span.start /\ t.span.end <= n.span.end
  BY <1>1, NodeTypes, NodeFacts
<1>6. Touches(In(l, t.span), o) /\ o < In(l, t.span).end
  BY DEF PlaceOf
<1>7. /\ Whole(n) \in Spans /\ Whole(n).start <= t.span.start /\ t.span.end <= Whole(n).end
      /\ Whole(n).start \in Nat /\ Whole(n).end \in Nat
      /\ Length(Whole(n)) \in Int /\ Length(Whole(n)) <= Length(n.span)
  <2>1. Whole(n) \in Spans /\ Length(Whole(n)) <= Length(n.span)
    BY <1>1, <1>3, WholeCovers DEF Covers
  <2>2. Whole(n).start \in Nat /\ Whole(n).end \in Nat /\ Length(Whole(n)) \in Int
    BY <2>1 DEF Spans, Length
  <2>3. CASE n.op = "pack"
    BY <1>5, <2>1, <2>2, <2>3 DEF Whole
  <2>4. CASE n.op = "unpack"
    <3> DEFINE f == NameOf(n, "field")
    <3> DEFINE b == NameOf(n, "bind")
    <3>1. f \in n.tokens /\ b \in n.tokens /\ t.span.end < f.span.start /\ f.span.end < b.span.start
      BY <1>2, <1>4, <2>4, UnpackNames
    <3>2. /\ f.span.start \in Nat /\ f.span.end \in Nat /\ b.span.start \in Nat /\ b.span.end \in Nat
          /\ f.span.start < f.span.end /\ b.span.start < b.span.end
      BY <1>1, <3>1, NodeTypes, NodeFacts
    <3>3. Whole(n).start = t.span.start /\ Whole(n).end = b.span.end + 1
      BY <1>4, <2>4 DEF Whole, PatternSpan, Span
    <3> QED
      BY <1>5, <2>1, <2>2, <3>1, <3>2, <3>3
  <2> QED
    BY <1>3, <2>3, <2>4
<1> DEFINE whole == In(l, Whole(n))
<1>8. Touches(whole, o)
  BY <1>1, <1>5, <1>6, <1>7, InPlace DEF Touches
<1>9. In(l, t.span) \in StructUses
  <2>1. l \in AllLines
    BY DEF AllLines, LinesOf, Functions
  <2>2. In(l, t.span) \in SpansIn(n.op, "struct")
    BY <2>1, SpansInIs
  <2> QED
    BY <1>3, <2>2 DEF StructUses
<1> DEFINE c == [whole |-> whole, span |-> In(l, t.span), uses |-> StructUses]
<1>10. WalkNode(l, n, o) = {c}
  <2>1. In(l, t.span).end > o
    BY <1>1, <1>5, <1>6, InPlace
  <2>2. \A onLabel : Braced(l, n, whole, onLabel, o) = PushUses(whole, In(l, t.span), StructUses)
    BY <1>4, <1>8, <2>1 DEF Braced
  <2>3. WalkNode(l, n, o) = PushUses(whole, In(l, t.span), StructUses)
    <3>1. CASE n.op = "pack"
      <4>1. \E onLabel : WalkNode(l, n, o) = Braced(l, n, whole, onLabel, o)
        BY <3>1 DEF WalkNode, PackAt, Whole
      <4> QED
        BY <2>2, <4>1
    <3>2. CASE n.op = "unpack"
      <4>1. \E onLabel : WalkNode(l, n, o) = Braced(l, n, whole, onLabel, o)
        BY <3>2 DEF WalkNode, UnpackAt, Whole
      <4> QED
        BY <2>2, <4>1
    <3> QED
      BY <1>3, <3>1, <3>2
  <2> QED
    BY <1>9, <2>3 DEF PushUses
<1>11. c.span = In(l, t.span) /\ c.whole = whole /\ c.uses = StructUses
  OBVIOUS
<1>12. Length(c.span) = Length(t.span) /\ Length(c.whole) = Length(Whole(n))
  BY <1>1, <1>5, <1>7, <1>11, InPlace
<1>13. Length(t.span) \in Int /\ Length(t.span) <= Length(n.span)
  BY <1>5 DEF Length
<1> HIDE DEF c
<1>14. ~Eclipsed(Length(c.span), o)
  BY <1>12
<1>15. /\ Length(c.span) \in Int /\ Length(c.whole) \in Int
      /\ Length(c.span) <= Length(n.span) /\ Length(c.whole) <= Length(n.span)
  BY <1>7, <1>12, <1>13
<1>16. n.op \in {"call", "select", "pack", "unpack"}
  BY <1>3
<1>17. Uses(o) = c.uses
  BY <1>10, <1>14, <1>15, <1>16, WalkFinds
<1> QED
  BY <1>11, <1>17

LEMMA FieldFinds ==
  ASSUME IInv, hasParam, NEW o \in Int,
         NEW i \in DOMAIN env.m.lines, NEW n \in env.m.lines[i].nodes, NEW t \in n.tokens,
         t.class = "field", Touches(PlaceOf(i, t.span), o),
         n.op = "pack" => PlaceOf(i, t.span).start < o,
         ~Eclipsed(Length(Area(n, t)), o)
  PROVE  Uses(o) = FieldUses
<1> DEFINE l == env.m.lines[i]
<1>1. l \in Line /\ WellFormed(l)
  BY LinesOK DEF IInv
<1>2. Shaped(n)
  BY <1>1, NodeFacts
<1>3. n.op \in {"select", "pack", "unpack"}
  BY <1>2, ClassNodes
<1>4. /\ n.span \in Spans /\ t.span \in Spans
      /\ n.span.start \in Nat /\ n.span.end \in Nat /\ t.span.start \in Nat /\ t.span.end \in Nat
      /\ n.span.start <= t.span.start /\ t.span.end <= n.span.end /\ t.span.start < t.span.end
  BY <1>1, NodeTypes, NodeFacts
<1>5. /\ l.at + t.span.start <= o /\ o <= l.at + t.span.end /\ l.at \in Nat
      /\ n.op = "pack" => l.at + t.span.start < o
  BY <1>1, <1>4, InPlace DEF PlaceOf, Touches
<1>6. /\ Area(n, t) = Whole(n) /\ Whole(n) \in Spans /\ Length(Whole(n)) <= Length(n.span)
  BY <1>1, <1>3, WholeCovers DEF Covers
<1>7. Whole(n).start \in Nat /\ Whole(n).end \in Nat /\ Length(Whole(n)) \in Int
  BY <1>6 DEF Spans, Length
<1> DEFINE whole == In(l, Whole(n))
<1>8. whole.start = l.at + Whole(n).start /\ whole.end = l.at + Whole(n).end /\ Length(whole) = Length(Whole(n))
  BY <1>1, <1>6, InPlace
<1>9. FieldUses # {}
  <2>1. l \in AllLines
    BY DEF AllLines, LinesOf, Functions
  <2>2. CASE n.op = "select"
    <3>1. In(l, n.span) \in SpansOf("select")
      BY <2>1, <2>2, SpansOfIs
    <3> QED
      BY <3>1 DEF FieldUses, SelectUses
  <2>3. CASE n.op \in {"pack", "unpack"}
    <3>1. In(l, t.span) \in SpansIn(n.op, "field")
      BY <2>1, SpansInIs
    <3> QED
      BY <2>3, <3>1 DEF FieldUses, PackUses, UnpackUses
  <2> QED
    BY <1>3, <2>2, <2>3
<1> DEFINE c == [whole |-> whole, span |-> whole, uses |-> FieldUses]
<1>10. PushUses(whole, whole, FieldUses) = {c}
  BY <1>9 DEF PushUses
<1> HIDE DEF c, whole
<1>11. WalkNode(l, n, o) = PushUses(whole, whole, FieldUses)
  <2>1. CASE n.op = "select"
    <3>1. Whole(n) = n.span
      BY <2>1 DEF Whole
    <3>2. Touches(In(l, n.span), o)
      BY <1>4, <1>5, <1>7, <1>8, <3>1 DEF Touches, whole
    <3> QED
      BY <2>1, <3>1, <3>2 DEF WalkNode, whole
  <2>2. CASE n.op = "pack"
    <3> DEFINE s == NameOf(n, "struct")
    <3>1. /\ s \in n.tokens /\ t = NameOf(n, "field") /\ Whole(n) = n.span
          /\ t.span = Span(s.span.end + 1, s.span.end + 2)
      BY <1>2, <2>2, PackNames DEF Whole
    <3>2. s.span \in Spans /\ s.span.start \in Nat /\ s.span.end \in Nat
      BY <1>1, <3>1, NodeTypes
    <3>3. t.span.start = s.span.end + 1 /\ t.span.end = s.span.end + 2
      BY <3>1 DEF Span
    <3>4. /\ In(l, t.span).start = l.at + t.span.start /\ In(l, s.span).end = l.at + s.span.end
      BY <1>1, <1>4, <3>2, InPlace
    <3>5. Touches(whole, o)
      BY <1>4, <1>5, <1>7, <1>8, <3>1 DEF Touches
    <3>6. ~(In(l, s.span).end > o)
      BY <1>4, <1>5, <3>2, <3>3, <3>4
    <3>7. In(l, t.span).start < o /\ o < In(l, t.span).start + 3
      BY <1>4, <1>5, <2>2, <3>2, <3>3, <3>4
    <3>8. WalkNode(l, n, o) = Braced(l, n, whole, In(l, t.span).start < o /\ o < In(l, t.span).start + 3, o)
      BY <2>2, <3>1 DEF WalkNode, PackAt, whole
    <3> QED
      BY <3>5, <3>6, <3>7, <3>8 DEF Braced
  <2>3. CASE n.op = "unpack"
    <3> DEFINE s == NameOf(n, "struct")
    <3> DEFINE b == NameOf(n, "bind")
    <3>1. /\ s \in n.tokens /\ b \in n.tokens /\ t = NameOf(n, "field")
          /\ s.span.end < t.span.start /\ t.span.end < b.span.start
      BY <1>2, <2>3, UnpackNames
    <3>2. /\ s.span \in Spans /\ s.span.start \in Nat /\ s.span.end \in Nat
          /\ b.span \in Spans /\ b.span.start \in Nat /\ b.span.end \in Nat
          /\ s.span.start < s.span.end /\ b.span.start < b.span.end
      BY <1>1, <3>1, NodeTypes, NodeFacts
    <3>3. Whole(n).start = s.span.start /\ Whole(n).end = b.span.end + 1
      BY <2>3 DEF Whole, PatternSpan, Span
    <3>4. /\ In(l, b.span).start = l.at + b.span.start /\ In(l, s.span).end = l.at + s.span.end
      BY <1>1, <3>2, InPlace
    <3>5. Touches(whole, o)
      BY <1>4, <1>5, <1>7, <1>8, <3>1, <3>2, <3>3 DEF Touches
    <3>6. ~(In(l, s.span).end > o)
      BY <1>4, <1>5, <3>1, <3>2, <3>4
    <3>7. o < In(l, b.span).start
      BY <1>4, <1>5, <3>1, <3>2, <3>4
    <3>8. WalkNode(l, n, o) = Braced(l, n, whole, o < In(l, b.span).start, o)
      BY <2>3 DEF WalkNode, UnpackAt, Whole, whole
    <3> QED
      BY <3>5, <3>6, <3>7, <3>8 DEF Braced
  <2> QED
    BY <1>3, <2>1, <2>2, <2>3
<1>12. WalkNode(l, n, o) = {c}
  BY <1>10, <1>11
<1>13. c.span = whole /\ c.whole = whole /\ c.uses = FieldUses
  BY DEF c
<1>14. ~Eclipsed(Length(c.span), o)
  BY <1>6, <1>8, <1>13
<1>15. /\ Length(c.span) \in Int /\ Length(c.whole) \in Int
      /\ Length(c.span) <= Length(n.span) /\ Length(c.whole) <= Length(n.span)
  BY <1>6, <1>7, <1>8, <1>13
<1>16. n.op \in {"call", "select", "pack", "unpack"}
  BY <1>3
<1>17. Uses(o) = c.uses
  BY <1>12, <1>14, <1>15, <1>16, WalkFinds
<1> QED
  BY <1>13, <1>17

\* What is asked for is found.
LEMMA AskedFinds ==
  ASSUME IInv, NEW o \in Int, NEW i \in DOMAIN env.m.lines, NEW n \in env.m.lines[i].nodes, NEW t \in n.tokens,
         Asked(env.m.lines[i], n, t, o)
  PROVE  Uses(o) = (UNION {UsesIn(k, t) : k \in AllLines}) \union IF t.class = "struct" THEN env.m.type ELSE {}
<1> DEFINE l == env.m.lines[i]
<1>1. l \in Line /\ WellFormed(l)
  BY LinesOK DEF IInv
<1>2. Shaped(n)
  BY <1>1, NodeFacts
<1>3. /\ Touches(PlaceOf(i, t.span), o)
      /\ \/ t.class = "const" /\ PlaceOf(i, t.span).start < o
         \/ t.class = "fun" /\ PlaceOf(i, t.span).start < o /\ hasParam /\ ~Eclipsed(Length(t.span), o)
         \/ t.class = "struct" /\ o < PlaceOf(i, t.span).end /\ hasParam /\ ~Eclipsed(Length(t.span), o)
         \/ /\ t.class = "field" /\ hasParam /\ ~Eclipsed(Length(Area(n, t)), o)
            /\ n.op = "pack" => PlaceOf(i, t.span).start < o
  BY DEF Asked, PlaceOf
<1>4. CASE t.class = "const" /\ PlaceOf(i, t.span).start < o
  <2>1. n.op = "const" /\ t.name = Const /\ t.span = n.span
    BY <1>2, <1>4, ClassNodes
  <2>2. MouseEnd(Breaks(env.m), o) = o
    BY <1>3, NameInBody
  <2>3. l \in LinesOf(env.m)
    BY DEF LinesOf
  <2>4. OnConst(o)
    BY <1>3, <1>4, <2>1, <2>3 DEF OnConst, PlaceOf
  <2>5. Uses(o) = ConstUses
    BY <2>2, <2>4 DEF Uses
  <2> QED
    BY <1>4, <2>1, <2>5, ConstUsesAre
<1>5. CASE t.class = "fun"
  <2>1. Uses(o) = FunctionUses(t.name)
    BY <1>3, <1>5, CallFinds
  <2> QED
    BY <1>5, <2>1, FunctionUsesAre
<1>6. CASE t.class = "struct"
  <2>1. Uses(o) = StructUses
    BY <1>3, <1>6, StructFinds
  <2>2. t.name = Struct
    BY <1>2, <1>6, ClassNodes
  <2> QED
    BY <1>6, <2>1, <2>2, StructUsesAre
<1>7. CASE t.class = "field"
  <2>1. Uses(o) = FieldUses
    BY <1>3, <1>7, FieldFinds
  <2>2. t.name = Field
    BY <1>2, <1>7, ClassNodes
  <2> QED
    BY <1>7, <2>1, <2>2, FieldUsesAre
<1> QED
  BY <1>3, <1>4, <1>5, <1>6, <1>7

LEMMA ReferencesInit == Init => ReferencesAreUses
BY DEF Init, None, ReferencesAreUses

LEMMA ReferencesNext == IInv /\ ReferencesAreUses /\ [Next]_vars => ReferencesAreUses'
<1> SUFFICES ASSUME IInv, ReferencesAreUses, [Next]_vars PROVE ReferencesAreUses'
  OBVIOUS
<1>1. CASE request' = None
  BY <1>1 DEF None, ReferencesAreUses
<1>2. CASE UNCHANGED vars
  BY <1>2 DEF vars, ReferencesAreUses, Asked, Eclipsed, AllLines
<1>3. CASE /\ UNCHANGED <<hasParam, written, env>>
           /\ \E o \in Places : request' = [kind |-> "references", at |-> o] /\ answer' = Uses(o)
  <2>1. PICK o \in Places : request' = [kind |-> "references", at |-> o] /\ answer' = Uses(o)
    BY <1>3
  <2>2. o \in Int /\ request'.at = o /\ env' = env /\ hasParam' = hasParam
    BY <1>3, <2>1, PlacesAreNumbers
  <2>3. ASSUME NEW l \in LinesOf(env.m), NEW n \in l.nodes, NEW t \in n.tokens, Asked(l, n, t, o)
        PROVE  answer' = (UNION {UsesIn(k, t) : k \in AllLines}) \union IF t.class = "struct" THEN env.m.type ELSE {}
    <3>1. PICK i \in DOMAIN env.m.lines : l = env.m.lines[i]
      BY DEF LinesOf
    <3> QED
      BY <2>1, <2>2, <2>3, <3>1, AskedFinds
  <2> QED
    BY <2>2, <2>3 DEF ReferencesAreUses, Asked, Eclipsed, AllLines
<1>4. CASE request'.kind # "references"
  BY <1>4 DEF ReferencesAreUses
<1> QED
  BY <1>1, <1>2, <1>3, <1>4, StepKinds

\* References on the name of a function, a constant, the struct or its field
\* yields all uses of it, in whatever function, and nothing else.
THEOREM ReferencesAreRight == Spec => []ReferencesAreUses
<1>1. Init => ReferencesAreUses
  BY ReferencesInit
<1>2. IInv /\ ReferencesAreUses /\ [Next]_vars => ReferencesAreUses'
  BY ReferencesNext
<1> QED
  BY <1>1, <1>2, IInvHolds, PTL DEF Spec

----------------------------------------------------------------------------
(* Types. *)

\* A place in the file.
InFile(u) == u.start < u.end /\ u.end < env.h.body.end

\* A part of a line of a function is in the file.
LEMMA PartInFile ==
  ASSUME IInv, NEW l \in AllLines, NEW s, Inside(l, s), s.start < s.end
  PROVE  InFile(In(l, s))
<1>1. l \in Line /\ l.at \in Nat /\ l.width \in Nat
  BY AllLinesOK DEF Line
<1>2. s \in Spans /\ s.start \in Nat /\ s.end \in Nat /\ s.end < l.width
  BY DEF Inside, Spans
<1>3. In(l, s).start = l.at + s.start /\ In(l, s).end = l.at + s.end
  BY <1>1, <1>2, InPlace
<1>4. /\ FunctionOK(env.m) /\ FunctionOK(env.h) /\ env.m.body.end + 1 = env.h.name.start
      /\ env.h.name.end < env.h.body.start
  BY BothFunctions
<1>5. /\ env.m.body.end \in Nat /\ env.h.body.start \in Nat /\ env.h.body.end \in Nat
      /\ env.h.name.start \in Nat /\ env.h.name.end \in Nat
      /\ env.h.name.start < env.h.name.end /\ env.h.body.start + 3 <= env.h.body.end
  BY <1>4, FunctionTypes DEF FunctionOK
<1>6. PICK f \in Functions : \E i \in DOMAIN env[f].lines : l = env[f].lines[i]
  BY AllLinesOK
<1>7. l.at + l.width <= env[f].body.end - 1
  BY <1>4, <1>6 DEF FunctionOK, InOrder, Functions
<1>8. env[f].body.end <= env.h.body.end /\ env[f].body.end \in Nat
  BY <1>4, <1>5 DEF Functions
<1> QED
  BY <1>1, <1>2, <1>3, <1>5, <1>7, <1>8 DEF InFile

\* A name in the text of a function.
LEMMA NameInFile ==
  ASSUME IInv, NEW l \in AllLines, NEW n \in l.nodes, NEW t \in n.tokens
  PROVE  InFile(In(l, t.span)) /\ (n.op \in Expressions => InFile(In(l, n.span)))
<1>1. l \in Line /\ WellFormed(l)
  BY AllLinesOK
<1>2. t.span.start < t.span.end /\ n.span.start < n.span.end
  BY <1>1, NodeFacts
<1> QED
  BY <1>1, <1>2, PartsAreInside, PartInFile

LEMMA TypesInFile ==
  ASSUME IInv, NEW u \in UNION {env[f].type : f \in Functions}
  PROVE  InFile(u)
<1>1. /\ FunctionOK(env.m) /\ FunctionOK(env.h) /\ env.m.body.end + 1 = env.h.name.start
      /\ env.h.name.end < env.h.body.start /\ env.h.type = {}
  BY BothFunctions
<1>2. u \in env.m.type
  BY <1>1 DEF Functions
<1>3. u \in Spans /\ u.start < u.end /\ u.end <= env.m.body.start
  BY <1>1, <1>2, FunctionTypes DEF FunctionOK
<1>4. /\ u.end \in Nat /\ env.m.body.start \in Nat /\ env.m.body.end \in Nat
      /\ env.h.body.start \in Nat /\ env.h.body.end \in Nat /\ env.h.name.start \in Nat /\ env.h.name.end \in Nat
      /\ env.m.body.start + 3 <= env.m.body.end /\ env.h.body.start + 3 <= env.h.body.end
      /\ env.h.name.start < env.h.name.end
  BY <1>1, <1>3, FunctionTypes DEF FunctionOK, Spans
<1> QED
  BY <1>1, <1>3, <1>4 DEF InFile

LEMMA UsesInFile ==
  ASSUME IInv, NEW o, NEW u \in Uses(o)
  PROVE  InFile(u)
<1>1. ASSUME NEW op \in Expressions, op # "num", op # "add", NEW e \in SpansOf(op) PROVE InFile(e)
  <2>1. PICK k \in AllLines : \E x \in k.nodes : x.op = op /\ e = In(k, x.span)
    BY SpansOfIs
  <2>2. PICK x \in k.nodes : x.op = op /\ e = In(k, x.span)
    BY <2>1
  <2>3. Shaped(x)
    BY AllLinesOK, NodeFacts
  <2>4. PICK t : t \in x.tokens
    BY <1>1, <2>2, <2>3, OnlyHas, PackNames DEF Shaped, Expressions
  <2> QED
    BY <1>1, <2>2, <2>4, NameInFile
<1>2. ASSUME NEW op, NEW class, NEW e \in SpansIn(op, class) PROVE InFile(e)
  BY SpansInIs, NameInFile
<1>3. ASSUME NEW name, NEW e \in FunctionUses(name) PROVE InFile(e)
  BY NameInFile DEF FunctionUses, Names
<1>4. \A e \in ConstUses : InFile(e)
  BY <1>1 DEF ConstUses, Expressions
<1>5. \A e \in FieldUses : InFile(e)
  BY <1>1, <1>2 DEF FieldUses, SelectUses, PackUses, UnpackUses, Expressions
<1>6. \A e \in StructUses : InFile(e)
  BY <1>2, TypesInFile DEF StructUses
<1> DEFINE mouse == MouseEnd(Breaks(env.m), o)
<1>7. ASSUME NEW c \in FuncUses(mouse)
      PROVE  c.uses \in {FieldUses, StructUses} \/ \E name : c.uses = FunctionUses(name)
  <2>1. CASE c \in ParameterUses
    BY <2>1 DEF ParameterUses, PushUses
  <2>2. CASE c \in Walk(mouse)
    <3>1. PICK l \in LinesOf(env.m) : \E n \in l.nodes : c \in WalkNode(l, n, mouse)
      BY <2>2 DEF Walk
    <3>2. PICK n \in l.nodes : c \in WalkNode(l, n, mouse)
      BY <3>1
    <3> HIDE DEF mouse
    <3> QED
      BY <3>2 DEF WalkNode, PackAt, UnpackAt, Braced, PushUses
  <2> QED
    BY <1>7, <2>1, <2>2 DEF FuncUses
<1>8. CASE OnConst(mouse)
  BY <1>4, <1>8 DEF Uses
<1>9. CASE ~OnConst(mouse)
  <2>1. PICK c \in First(FuncUses(mouse)) : u \in c.uses
    BY <1>9 DEF Uses
  <2>2. c \in FuncUses(mouse)
    BY DEF First, Smallest
  <2> QED
    BY <1>3, <1>5, <1>6, <1>7, <2>1, <2>2
<1> QED
  BY <1>8, <1>9

LEMMA TypeInit == Init => TypeOK
BY MaxStmtsAssumption DEF Init, None, TypeOK

LEMMA TypeNext == IInv /\ IInv' /\ TypeOK /\ [Next]_vars => TypeOK'
<1> SUFFICES ASSUME IInv, IInv', TypeOK, [Next]_vars PROVE TypeOK'
  OBVIOUS
<1>1. hasParam' \in BOOLEAN /\ written' \in 0..MaxStmts
  BY DEF IInv
<1>2. CASE request' = None
  BY <1>1, <1>2 DEF None, TypeOK
<1>3. CASE UNCHANGED vars
  BY <1>3 DEF vars, TypeOK
<1>4. CASE /\ UNCHANGED <<hasParam, written, env>>
           /\ \/ \E o \in Places : request' = [kind |-> "definition", at |-> o] /\ answer' = Definition(o)
              \/ \E o \in Places : request' = [kind |-> "hover", at |-> o] /\ answer' = HoverText(o)
  <2>1. PICK o \in Places : \/ request' = [kind |-> "definition", at |-> o] /\ answer' = Definition(o)
                            \/ request' = [kind |-> "hover", at |-> o] /\ answer' = HoverText(o)
    BY <1>4
  <2>2. o \in Int
    BY PlacesAreNumbers
  <2>3. \A d, e \in answer' : d = e /\ d.kind \in {"var", "fun", "const", "struct", "field"}
    BY <2>1, <2>2, OneDefinition, OneHover
  <2>4. request'.kind \in {"definition", "hover"}
    BY <2>1
  <2> QED
    BY <1>1, <2>3, <2>4 DEF TypeOK
<1>5. CASE /\ UNCHANGED <<hasParam, written, env>>
           /\ \E o \in Places : request' = [kind |-> "references", at |-> o] /\ answer' = Uses(o)
  <2>1. request'.kind = "references"
    BY <1>5
  <2>2. \A u \in answer' : u.start < u.end /\ u.end < env'.h.body.end
    BY <1>5, UsesInFile DEF InFile
  <2> QED
    BY <1>1, <2>1, <2>2 DEF TypeOK
<1>6. CASE \E first, last \in Edges : request' = [kind |-> "hints", at |-> first, to |-> last]
                                      /\ answer' = HintsIn(first, last)
  BY <1>1, <1>6 DEF TypeOK
<1> QED
  BY <1>2, <1>3, <1>4, <1>5, <1>6, StepKinds

\* A definition and what a hover shows are one, and a reference is a place in
\* the file.
THEOREM TypeCorrect == Spec => []TypeOK
<1>1. Init => TypeOK
  BY TypeInit
<1>2. IInv /\ IInv' /\ TypeOK /\ [Next]_vars => TypeOK'
  BY TypeNext
<1> QED
  BY <1>1, <1>2, IInvHolds, PTL DEF Spec

====
