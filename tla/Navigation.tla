---- MODULE Navigation ----
(***************************************************************************)
(* Go to definition (goto_definition.rs), references (references.rs),      *)
(* hover (hover.rs) and hints (inlay_hints.rs) inside of functions.  A     *)
(* handler walks the compiler's tree of the function and captures what     *)
(* lies under the cursor: a span, and with it the declaration, the uses or *)
(* the type it stands for.  The smallest span wins.  Hints are for every   *)
(* name of the functions in a range.                                       *)
(*                                                                         *)
(* The user writes the body of the function m and asks at any place of it; *)
(* a second function, h, uses the same declarations.  Places are byte      *)
(* offsets in the file.  A declaration is [kind, name, at], where at is    *)
(* the place of a variable's pattern, and 0 for what is declared in other  *)
(* places.  The struct has one field.  No name contains another one, for   *)
(* the code finds some of them by searching the text.                      *)
(*                                                                         *)
(* The compiler's tree: a body is a sequence of lines [at, width, depth,   *)
(* nodes], which has the place the line begins at, the number of blocks    *)
(* around it, and its statement's and expressions' nodes.  A node is       *)
(* [op, span, tokens] and a token, which is a name that is the node's own, *)
(* [class, name, span]; their spans are counted from the line's beginning. *)
(***************************************************************************)
EXTENDS Integers, FiniteSets, Sequences

CONSTANTS
  NameLen,     \* lengths of the names of functions, the struct and the constant
  Statements,  \* what the user may write: lines, and how wide they are together
  OtherBody,   \* the body of h, likewise
  MaxStmts     \* bound on the statements of m

VARIABLES
  hasParam, \* whether m has its parameter, `p` of the struct's type
  written,  \* how many statements m has
  env,      \* the compiler's tree of each function
  request,  \* what was asked last, and where
  answer    \* the answer to it, a set

vars == <<hasParam, written, env, request, answer>>

Const == "C"
Struct == "S"
Field == "f"
Param == "p"

Span(s, e) == [start |-> s, end |-> e]
Length(span) == span.end - span.start
Touches(span, o) == span.start <= o /\ o <= span.end
Encloses(span, o) == span.start < o /\ o < span.end
Separate(s, t) == s.end < t.start \/ t.end < s.start
MinOf(S) == CHOOSE x \in S : \A y \in S : x <= y
MaxOf(S) == CHOOSE x \in S : \A y \in S : x >= y

----------------------------------------------------------------------------
(* What the compiler makes of a line. *)

Expressions == {"num", "const", "var", "add", "call", "select", "pack"}
Binding == {"let", "tuple", "unpack"}
Roots == Binding \union {"assign", "do"}

Pattern == {"bind", "set"}
Variable == Pattern \union {"use"}
Classes == Variable \union {"fun", "const", "struct", "field"}

Spans == [start : Nat, end : Nat]
Token == [class : Classes, name : STRING, span : Spans]
Node == [op : Expressions \union Roots, span : Spans, tokens : SUBSET Token]
Line == [at : Nat, width : Nat, depth : Nat, nodes : SUBSET Node]

Names(n, classes) == {t \in n.tokens : t.class \in classes}
Patterns(l) == UNION {Names(n, Pattern) : n \in l.nodes}
NameOf(n, class) == CHOOSE t \in n.tokens : t.class = class

\* the place of `S{f: a}`
PatternSpan(n) == Span(NameOf(n, "struct").span.start, NameOf(n, "bind").span.end + 1)

\* the names of a node, and those places of them that do not depend on its
\* operands: `C`, `a`, `g(..)`, `...f`, `S{f: ..}`
Only(n, class) == \E t \in n.tokens : n.tokens = {t} /\ t.class = class
Shaped(n) ==
  \/ n.op \in {"num", "add", "do"} /\ n.tokens = {}
  \/ n.op = "const" /\ Only(n, "const") /\ NameOf(n, "const").name = Const
     /\ NameOf(n, "const").span = n.span
  \/ n.op = "var" /\ Only(n, "use") /\ NameOf(n, "use").span = n.span
  \/ n.op = "call" /\ Only(n, "fun") /\ NameOf(n, "fun").span.start = n.span.start
     /\ NameOf(n, "fun").span.end + 1 < n.span.end
  \/ n.op = "select" /\ Only(n, "field") /\ NameOf(n, "field").name = Field
     /\ NameOf(n, "field").span = Span(n.span.end - 1, n.span.end)
     /\ n.span.start + 2 < n.span.end
  \/ n.op = "pack"
     /\ \E s, f \in n.tokens :
          /\ n.tokens = {s, f}
          /\ s.class = "struct" /\ s.name = Struct /\ s.span.start = n.span.start
          /\ f.class = "field" /\ f.name = Field
          /\ f.span = Span(s.span.end + 1, s.span.end + 2) /\ f.span.end + 2 < n.span.end
  \/ n.op = "unpack"
     /\ \E s, f, b \in n.tokens :
          /\ n.tokens = {s, f, b}
          /\ s.class = "struct" /\ s.name = Struct
          /\ f.class = "field" /\ f.name = Field /\ s.span.end < f.span.start
          /\ b.class = "bind" /\ f.span.end < b.span.start /\ b.span.end < n.span.end
  \/ n.op \in {"let", "tuple"} /\ \A t \in n.tokens : t.class = "bind"
  \/ n.op = "assign" /\ Only(n, "set")

\* y is an operand of x, or part of one.  A field's operand is a name, or ends
\* with a bracket or another field.
Within(y, x) ==
  /\ x.span.start <= y.span.start /\ y.span.end <= x.span.end
  /\ Length(y.span) < Length(x.span)
  /\ x.op # "add" => y.span.end < x.span.end
  /\ \A t \in x.tokens : Separate(t.span, y.span)
  /\ x.op = "pack" => NameOf(x, "field").span.end + 2 <= y.span.start
  /\ x.op = "unpack" => PatternSpan(x).end < y.span.start
Operand(x, y) == y.op \in Expressions \ {"add"} /\ y.span = Span(x.span.start, x.span.end - 2)

\* Nodes are nested or stand apart, names do not touch each other nor the line
\* breaks, and a statement has a pattern for a name once.
WellFormed(l) ==
  /\ \A n \in l.nodes :
       /\ Shaped(n) /\ n.span.start < n.span.end
       /\ n.op \in Expressions => 0 < n.span.start /\ n.span.end + 1 < l.width
       /\ \A t \in n.tokens :
            /\ n.span.start <= t.span.start /\ t.span.start < t.span.end /\ t.span.end <= n.span.end
            /\ 0 < t.span.start /\ t.span.end + 1 < l.width
       /\ \A t, u \in n.tokens : t = u \/ Separate(t.span, u.span)
       /\ n.op = "select" => \E y \in l.nodes : Operand(n, y)
  /\ \A x, y \in l.nodes : x = y \/ Within(x, y) \/ Within(y, x) \/ Separate(x.span, y.span)
  /\ \A t, u \in Patterns(l) : t.name = u.name => t = u

\* lines from one place to another one, in their order
InOrder(lines, from, to) ==
  \A i \in DOMAIN lines :
    /\ from <= lines[i].at /\ lines[i].at + lines[i].width <= to
    /\ \A j \in DOMAIN lines : i < j => lines[i].at + lines[i].width <= lines[j].at

LaidOut(s) ==
  /\ s.width \in Nat /\ s.lines \in Seq(Line)
  /\ \A i \in DOMAIN s.lines : WellFormed(s.lines[i])
  /\ InOrder(s.lines, 0, s.width)

ASSUME NameLenAssumption == \A n \in DOMAIN NameLen : NameLen[n] \in Nat \ {0}
ASSUME StructAssumption == Struct \in DOMAIN NameLen
ASSUME TextAssumption == \A s \in Statements \union {OtherBody} : LaidOut(s)
ASSUME MaxStmtsAssumption == MaxStmts \in Nat

----------------------------------------------------------------------------
(* What the compiler makes of the functions: names are resolved. *)

Placed(lines, at) == [i \in DOMAIN lines |-> [lines[i] EXCEPT !.at = @ + at]]
In(l, span) == Span(l.at + span.start, l.at + span.end)
LinesOf(f) == {f.lines[i] : i \in DOMAIN f.lines}

\* "fun m(p:S){" or "fun m(){" at the place at, the lines, and "}"
FunctionAt(at, params, s) ==
  LET open == IF params THEN at + 9 + NameLen[Struct] ELSE at + 7
  IN [name |-> Span(at, at + 1), param |-> at + 6, body |-> Span(open, open + 3 + s.width),
      type |-> IF params THEN {Span(at + 8, at + 8 + NameLen[Struct])} ELSE {},
      lines |-> Placed(s.lines, open + 2)]

Compile(m) == [m |-> m, h |-> FunctionAt(m.body.end + 1, FALSE, OtherBody)]

Extended(f, s) ==
  [f EXCEPT !.lines = @ \o Placed(s.lines, f.body.end - 1), !.body.end = @ + s.width]

Breaks(f) == {f.body.start + 1} \union {l.at + l.width - 1 : l \in LinesOf(f)}

Decl(kind, name) == [kind |-> kind, name |-> name, at |-> 0]
VarDecl(name, at) == [kind |-> "var", name |-> name, at |-> at]

\* a line's pattern of a name
Has(l, class, name) == \E t \in Patterns(l) : t.class = class /\ t.name = name
PatternPlace(l, name) == l.at + (CHOOSE t \in Patterns(l) : t.name = name).span.start

\* the lines before the i-th that declare the name in a block around it
Visible(f, i, name) ==
  {j \in 1..(i - 1) : /\ Has(f.lines[j], "bind", name)
                      /\ \A k \in j..i : f.lines[j].depth <= f.lines[k].depth}

\* the line that declares the variable; none for the parameter
DeclaredIn(f, i, name) == IF Visible(f, i, name) = {} THEN 0 ELSE MaxOf(Visible(f, i, name))

DeclOf(f, i, t) ==
  CASE t.class = "bind" -> VarDecl(t.name, f.lines[i].at + t.span.start)
    [] t.class \in {"use", "set"} ->
         LET j == DeclaredIn(f, i, t.name)
         IN VarDecl(t.name, IF j = 0 THEN f.param ELSE PatternPlace(f.lines[j], t.name))
    [] OTHER -> Decl(t.class, t.name)

Compiles(params, f) ==
  \A i \in DOMAIN f.lines : \A n \in f.lines[i].nodes : \A t \in Names(n, {"use", "set"}) :
    Visible(f, i, t.name) = {} => params /\ t.name = Param

----------------------------------------------------------------------------
(* All handlers. *)

\* get_mouse_loc: from the first byte of the cursor's line at least one
\* further, so that the first column is taken for the second
MouseEnd(breaks, o) == IF o - 1 \in breaks THEN o + 1 ELSE o

\* find_smallest_length_index
Smallest(caps) == {c \in caps : \A d \in caps : Length(c.span) <= Length(d.span)}

----------------------------------------------------------------------------
(* Go to definition.  Spans and results lie in two lists, which are filled  *)
(* and filtered alike, so that a capture is a pair of them.  No two of the  *)
(* captures that touch the cursor are of the same length, so that the order *)
(* of the walk does not matter.                                             *)

Capture(span, decl) == [span |-> span, decl |-> decl]

\* insert_result
InsertResult(l, span, decl, mouse) ==
  IF Touches(In(l, span), mouse) THEN {Capture(In(l, span), decl)} ELSE {}

\* process_temporary_for_function_para: a parameter is known by its name
InsertParam(l, t, mouse) ==
  IF hasParam /\ t.name = Param
  THEN InsertResult(l, t.span, VarDecl(Param, env.m.param), mouse) ELSE {}

\* collect_local_var_in_pattern: symbol_2_pattern_id has the last of the
\* patterns of a name in the lines that have been walked
Patterned(name, walked) == {j \in 1..walked : \E t \in Patterns(env.m.lines[j]) : t.name = name}
FirstPattern(name, walked) ==
  VarDecl(name, PatternPlace(env.m.lines[MinOf(Patterned(name, walked))], name))
LastPattern(name, walked) ==
  VarDecl(name, PatternPlace(env.m.lines[MaxOf(Patterned(name, walked))], name))

InsertLocal(l, t, walked, mouse) ==
  IF Patterned(t.name, walked) = {} THEN {}
  ELSE InsertResult(l, t.span, LastPattern(t.name, walked), mouse)

\* process_pattern; the pattern of a Block has been collected before it is
\* processed, that of an Assign is collected afterwards
Walked(i, op) == IF op = "assign" THEN i - 1 ELSE i
ProcessPattern(i, n, mouse) ==
  LET l == env.m.lines[i]
      walked == Walked(i, n.op)
  IN IF n.op = "unpack" THEN InsertResult(l, PatternSpan(n), Decl("struct", Struct), mouse)
     ELSE UNION {IF Patterned(t.name, walked) # {} THEN InsertLocal(l, t, walked, mouse)
                 ELSE InsertParam(l, t, mouse) : t \in Names(n, Pattern)}

\* process_call
ProcessCall(l, n, mouse) ==
  CASE n.op = "call"   -> IF Encloses(In(l, n.span), mouse)
                          THEN InsertResult(l, n.span, Decl("fun", NameOf(n, "fun").name), mouse) ELSE {}
    [] n.op = "select" -> InsertResult(l, n.span, Decl("field", Field), mouse)
    [] n.op = "pack"   -> InsertResult(l, n.span, Decl("struct", Struct), mouse)

\* process_expr: Value, LocalVar and Temporary, Call, Block and Assign
Visit(i, n, mouse) ==
  LET l == env.m.lines[i]
      t == NameOf(n, "use")
  IN CASE n.op = "const" -> InsertResult(l, n.span, Decl("const", Const), mouse)
       [] n.op = "var" -> IF Visible(env.m, i, t.name) # {} THEN InsertLocal(l, t, i, mouse)
                          ELSE InsertParam(l, t, mouse)
       [] n.op \in {"call", "select", "pack"} -> ProcessCall(l, n, mouse)
       [] n.op \in Binding \union {"assign"} -> ProcessPattern(i, n, mouse)
       [] OTHER -> {}

\* process_func
Captured(mouse) ==
  UNION {UNION {Visit(i, n, mouse) : n \in env.m.lines[i].nodes} : i \in DOMAIN env.m.lines}

\* remove_not_in_loc, with the cursor's own line and column
RemoveNotInLoc(caps, o) == {c \in caps : Touches(c.span, o)}

\* convert_to_locations
ToLocations(caps) == {c.decl : c \in Smallest(caps)}

\* on_goto_definition
Definition(o) == ToLocations(RemoveNotInLoc(Captured(MouseEnd(Breaks(env.m), o)), o))

----------------------------------------------------------------------------
(* Hover; for a type stands the declaration that has it. *)

Shows(i, tokens) == {Capture(In(env.m.lines[i], t.span), DeclOf(env.m, i, t)) : t \in tokens}

\* process_struct_field: labels in packs and patterns
Labels(i, n) == IF n.op = "select" THEN {} ELSE Shows(i, Names(n, {"field"}))

\* match_pattern
PatternTypes(i, n) == Shows(i, Names(n, Pattern)) \union Labels(i, n)

\* process_call
CallTypes(i, n) ==
  LET span == In(env.m.lines[i], n.span)
  IN CASE n.op = "call"   -> {Capture(span, Decl("fun", NameOf(n, "fun").name))}
       [] n.op = "select" -> {Capture(span, Decl("field", Field))}
       [] n.op = "pack"   -> {Capture(span, Decl("struct", Struct))} \union Labels(i, n)

\* process_expr: what a node may show
Types(i, n) ==
  CASE n.op = "const" -> {Capture(In(env.m.lines[i], n.span), Decl("const", Const))}
    [] n.op = "var" -> Shows(i, Names(n, {"use"}))
    [] n.op \in {"call", "select", "pack"} -> CallTypes(i, n)
    [] n.op \in Binding \union {"assign"} -> PatternTypes(i, n)
    [] OTHER -> {}

\* constants are compared by the cursor's own column, and with functions by <
Shown(c, o, mouse) ==
  CASE c.decl.kind = "const" -> Encloses(c.span, o)
    [] c.decl.kind = "fun"   -> Encloses(c.span, mouse)
    [] OTHER                 -> Touches(c.span, mouse)

\* process_func
HoverCaptured(o) ==
  {c \in UNION {UNION {Types(i, n) : n \in env.m.lines[i].nodes} : i \in DOMAIN env.m.lines} :
     Shown(c, o, MouseEnd(Breaks(env.m), o))}

\* get_result
HoverText(o) == {c.decl : c \in Smallest(HoverCaptured(o))}

----------------------------------------------------------------------------
(* References. *)

Functions == {"m", "h"}
AllLines == UNION {LinesOf(env[f]) : f \in Functions}

SpansOf(op) == UNION {{In(l, n.span) : n \in {x \in l.nodes : x.op = op}} : l \in AllLines}
NamesIn(l, op, class) ==
  UNION {{In(l, t.span) : t \in Names(n, {class})} : n \in {x \in l.nodes : x.op = op}}
SpansIn(op, class) == UNION {NamesIn(l, op, class) : l \in AllLines}

\* process_const: the uses of the constant
ConstUses == SpansOf("const")

\* process_fn_name: the name in the bodies of the functions that call it
FunctionUses(name) ==
  UNION {UNION {{In(l, t.span) : t \in {u \in Names(n, {"fun"}) : u.name = name}} : n \in l.nodes}
         : l \in AllLines}

\* collect_all_select_of_module, collect_all_pack_of_module and
\* collect_all_unpack_of_module: expressions, and labels in packs and patterns
SelectUses == SpansOf("select")
PackUses == SpansIn("pack", "field")
UnpackUses == SpansIn("unpack", "field")

\* find_field_used_of_module
FieldUsesInExpressions == SelectUses \union PackUses
FieldUses == SelectUses \union PackUses \union UnpackUses

\* process_type: the name in the whole text of every function
StructUses ==
  SpansIn("pack", "struct") \union SpansIn("unpack", "struct") \union UNION {env[f].type : f \in Functions}

\* whole: the node that the capture is for
PushUses(whole, span, uses) ==
  IF uses = {} THEN {} ELSE {[whole |-> whole, span |-> span, uses |-> uses]}

\* `S{f: e}` or `S{f: a}`, in which the cursor is in front of the brace, or
\* else where it has to be for the label
Braced(l, n, span, onLabel, mouse) ==
  LET struct == In(l, NameOf(n, "struct").span)
  IN IF ~Touches(span, mouse) THEN {}
     ELSE IF struct.end > mouse THEN PushUses(span, struct, StructUses)
     ELSE IF onLabel THEN PushUses(span, span, FieldUses)
     ELSE {}

\* process_call, process_pattern
PackAt(l, n, mouse) ==
  LET label == In(l, NameOf(n, "field").span).start
  IN Braced(l, n, In(l, n.span), label < mouse /\ mouse < label + 3, mouse)
UnpackAt(l, n, mouse) ==
  Braced(l, n, In(l, PatternSpan(n)), mouse < In(l, NameOf(n, "bind").span).start, mouse)

\* process_expr, process_call
WalkNode(l, n, mouse) ==
  CASE n.op = "call" ->
         IF Encloses(In(l, n.span), mouse)
         THEN PushUses(In(l, n.span), In(l, NameOf(n, "fun").span), FunctionUses(NameOf(n, "fun").name)) ELSE {}
    [] n.op = "select" ->
         IF Touches(In(l, n.span), mouse) THEN PushUses(In(l, n.span), In(l, n.span), FieldUses) ELSE {}
    [] n.op = "pack" -> PackAt(l, n, mouse)
    [] n.op = "unpack" -> UnpackAt(l, n, mouse)
    [] OTHER -> {}
Walk(mouse) == UNION {UNION {WalkNode(l, n, mouse) : n \in l.nodes} : l \in LinesOf(env.m)}

\* process_const: whether the token at the cursor is a constant.  The lexer
\* finds the token before a name first if both touch the cursor; no constant
\* of m follows white space.
OnConst(mouse) ==
  \E l \in LinesOf(env.m) : \E n \in l.nodes :
    n.op = "const" /\ Touches(In(l, n.span), mouse) /\ In(l, n.span).start < mouse

\* process_parameter: a function without parameters is taken for the name
\* under the cursor
ParameterUses == IF hasParam THEN {} ELSE PushUses(env.m.name, env.m.name, FunctionUses("m"))

\* process_func
FuncUses(mouse) ==
  ParameterUses \union IF Encloses(env.m.body, mouse) THEN Walk(mouse) ELSE {}

\* A call is captured after what is in its arguments, with the length of its
\* name; of captures of the same length the first one is taken.
First(caps) == {c \in Smallest(caps) : \A d \in Smallest(caps) : Length(c.whole) <= Length(d.whole)}

\* run_move_model_visitor_internal, convert_to_locations
Uses(o) ==
  LET mouse == MouseEnd(Breaks(env.m), o)
  IN IF OnConst(mouse) THEN ConstUses ELSE UNION {c.uses : c \in First(FuncUses(mouse))}

----------------------------------------------------------------------------
(* Hints; a node of the tree is walked once. *)

\* the line of a place in the file
LineNumber(o) == Cardinality({b \in Breaks(env.m) \union {env.m.body.end} \union Breaks(env.h) : b < o})

\* a hint that the node with the span whole leads to: two nodes may have theirs
\* at the same place
Hint(whole, span, decl) == [whole |-> whole, at |-> span.end, decl |-> decl]

\* fields, with the place of the whole expression and that of the name
Selects(f) ==
  UNION {{[whole |-> In(l, n.span), name |-> In(l, NameOf(n, "field").span)] :
            n \in {x \in l.nodes : x.op = "select"}} : l \in LinesOf(f)}

\* next_char: the name of a field follows
DotFollowsNever(f, span) == FALSE
DotFollows(f, span) == \E s \in Selects(f) : s.name.start = span.end + 1

\* process_call: behind the first field in the text of the expression
FieldsIn(f, span) == {s \in Selects(f) : span.start <= s.whole.start /\ s.whole.end <= span.end}
FieldHint(f, span) ==
  {Hint(span, s.name, Decl("field", Field)) :
     s \in {x \in FieldsIn(f, span) : \A y \in FieldsIn(f, span) : x.name.start <= y.name.start}}

\* process_expr
HintsOf(f, i, n) ==
  LET l == f.lines[i]
  IN CASE n.op = "select" -> FieldHint(f, In(l, n.span))
       [] n.op \in Binding \union {"var"} ->
            {Hint(In(l, n.span), In(l, t.span), DeclOf(f, i, t)) :
               t \in {x \in Names(n, {"use", "bind"}) : ~DotFollows(f, In(l, x.span))}}
       [] OTHER -> {}

\* process_func: functions that lie wholly on the lines of the range
Covered(first, last) ==
  {f \in Functions : /\ LineNumber(first) <= LineNumber(env[f].name.start)
                     /\ LineNumber(env[f].body.end) <= LineNumber(last)}
HintsIn(first, last) ==
  UNION {UNION {UNION {HintsOf(env[f], i, n) : n \in env[f].lines[i].nodes} : i \in DOMAIN env[f].lines}
         : f \in Covered(first, last)}

----------------------------------------------------------------------------
(* Behaviour. *)

None == [kind |-> "none", at |-> 0]

Init ==
  /\ hasParam \in BOOLEAN
  /\ written = 0
  /\ env = Compile(FunctionAt(0, hasParam, [width |-> 0, lines |-> <<>>]))
  /\ request = None
  /\ answer = {}

\* the user adds a statement that compiles, and the server loads it; since an
\* answer changes nothing, the next statement need not wait for one
Write(s) ==
  /\ request = None
  /\ written < MaxStmts
  /\ Compiles(hasParam, Extended(env.m, s))
  /\ written' = written + 1
  /\ env' = Compile(Extended(env.m, s))
  /\ UNCHANGED <<hasParam, request, answer>>

\* places on the lines of the statements
Places == (env.m.body.start + 2)..(env.m.body.end - 2)

GotoDefinition(o) ==
  /\ request = None
  /\ request' = [kind |-> "definition", at |-> o]
  /\ answer' = Definition(o)
  /\ UNCHANGED <<hasParam, written, env>>

References(o) ==
  /\ request = None
  /\ request' = [kind |-> "references", at |-> o]
  /\ answer' = Uses(o)
  /\ UNCHANGED <<hasParam, written, env>>

Hover(o) ==
  /\ request = None
  /\ request' = [kind |-> "hover", at |-> o]
  /\ answer' = HoverText(o)
  /\ UNCHANGED <<hasParam, written, env>>

\* a range from and to the ends or the middle of a function
InlayHints(first, last) ==
  /\ request = None
  /\ request' = [kind |-> "hints", at |-> first, to |-> last]
  /\ answer' = HintsIn(first, last)
  /\ UNCHANGED <<hasParam, written, env>>

Edges == UNION {{env[f].name.start, env[f].body.start + 2, env[f].body.end} : f \in Functions}

Next ==
  \/ \E s \in Statements : Write(s)
  \/ \E first \in Edges, last \in Edges : InlayHints(first, last)
  \/ \E o \in Places : Hover(o)
  \/ \E o \in Places : GotoDefinition(o)
  \/ \E o \in Places : References(o)

Spec == Init /\ [][Next]_vars

----------------------------------------------------------------------------
(* Properties. *)

\* Types; an answer never names a place that is not in the file, and a
\* definition and a hovered type are one.
TypeOK ==
  /\ hasParam \in BOOLEAN
  /\ written \in 0..MaxStmts
  /\ request.kind \in {"none", "definition", "references", "hover", "hints"}
  /\ request.kind \in {"definition", "hover"} =>
       \A d, e \in answer : d = e /\ d.kind \in {"var", "fun", "const", "struct", "field"}
  /\ request.kind = "references" => \A u \in answer : u.start < u.end /\ u.end < env.h.body.end

\* A name in m: a token of the node n of the i-th line.
IsName(i, n, t) == i \in DOMAIN env.m.lines /\ n \in env.m.lines[i].nodes /\ t \in n.tokens
PlaceOf(i, span) == In(env.m.lines[i], span)

\* the name's latest declaration in the text that has been walked with t comes
\* after all patterns of the variable itself
Stale(i, t) ==
  LET walked == IF t.class = "set" THEN i - 1 ELSE i
      own == DeclaredIn(env.m, i, t.name)
  IN /\ t.class = "set" \/ (t.class = "use" /\ own # 0)
     /\ \E k \in (own + 1)..walked :
          /\ Has(env.m.lines[k], "bind", t.name)
          /\ \A j \in (k + 1)..walked :
               Has(env.m.lines[j], "set", t.name) => DeclaredIn(env.m, j, t.name) # own

\* the answered declaration d is that of the name t: for a variable, any
\* pattern that binds or assigns it will do
Denotes(d, i, t) ==
  \/ d = DeclOf(env.m, i, t)
  \/ /\ d.kind = "var" /\ t.class \in Variable
     /\ \E k \in DOMAIN env.m.lines : \E u \in Patterns(env.m.lines[k]) :
          PlaceOf(k, u.span).start = d.at /\ DeclOf(env.m, k, u) = DeclOf(env.m, i, t)

\* what a click on the name t of the node n should find
Clickable(i, n, t, o) ==
  /\ Touches(PlaceOf(i, t.span), o)
  /\ t.class \in Variable => ~Stale(i, t) /\ n.op # "unpack"
  /\ t.class = "fun" => PlaceOf(i, t.span).start < o
  /\ t.class = "field" => n.op = "select"

\* where a name may be answered for: its whole expression or pattern
Area(n, t) ==
  CASE n.op = "unpack" -> PatternSpan(n)
    [] n.op \in {"let", "tuple", "assign"} -> t.span
    [] OTHER -> n.span

\* No answer is about something that the cursor is not at.
StaysAtCursor ==
  \A d \in answer : \E i \in DOMAIN env.m.lines : \E n \in env.m.lines[i].nodes : \E t \in n.tokens :
    /\ Touches(PlaceOf(i, Area(n, t)), request.at)
    /\ Denotes(d, i, t) \/ Stale(i, t) \/ (t.class \in Pattern /\ d.kind = "var")

\* Go to definition on a name finds what Move's scoping makes of it, through
\* nested expressions, blocks, assignments and names declared again, and no
\* cursor gets an answer about something else.  The exceptions: a variable
\* whose name has been declared again since its last pattern, in a scope that
\* has ended or by the statement that it stands in; variables and labels of
\* unpacking patterns and labels of packs, which lead to the struct; and a
\* cursor in front of the first letter of a call.
GotoFindsDeclaration ==
  request.kind = "definition" =>
    /\ \A i \in DOMAIN env.m.lines : \A n \in env.m.lines[i].nodes : \A t \in n.tokens :
         Clickable(i, n, t, request.at) => answer # {} /\ \A d \in answer : Denotes(d, i, t)
    /\ StaysAtCursor

\* Hovering over a name shows the type or the value of what Move's scoping
\* makes of it, whatever encloses it, and however often the name is declared.
\* The exceptions: the ends of a constant's name, the front of a call, and
\* the struct's name in an unpacking pattern.
HoverShowsTheName ==
  request.kind = "hover" =>
    \A i \in DOMAIN env.m.lines : \A n \in env.m.lines[i].nodes : \A t \in n.tokens :
      (/\ Touches(PlaceOf(i, t.span), request.at)
       /\ t.class = "const" => Encloses(PlaceOf(i, t.span), request.at)
       /\ t.class = "fun" => PlaceOf(i, t.span).start < request.at
       /\ t.class = "struct" => n.op = "pack")
      => answer = {DeclOf(env.m, i, t)}

\* the names of n to which a hint belongs: not one whose field is taken
Hinted(f, l, n) ==
  LET Taken(span) == \E s \in Selects(f) : s.whole = Span(span.start, span.end + 2)
  IN {t \in Names(n, {"use", "bind"}) : ~Taken(In(l, t.span))}
     \union IF n.op = "select" THEN n.tokens ELSE {}
HintsFor(f, i, n) ==
  {Hint(In(f.lines[i], n.span), In(f.lines[i], t.span), DeclOf(f, i, t)) : t \in Hinted(f, f.lines[i], n)}

\* Each name that stands for a value, except one whose field is taken, has one
\* hint right behind it and never two, in the functions that lie wholly in the
\* range and no others.  The exception: a field of an expression in which there
\* is a field, whose hint stands behind the first one of these, as a second one.
HintsStandBehindNames ==
  request.kind = "hints" =>
    LET Sure(f, l, n) == n.op = "select" => \A s \in FieldsIn(f, In(l, n.span)) : s.whole = In(l, n.span)
        Belongs(g, h) == \E i \in DOMAIN env[g].lines : \E n \in env[g].lines[i].nodes :
                           \E k \in HintsFor(env[g], i, n) : k.at = h.at /\ k.decl = h.decl
        Doubled(g, h) == \E s, u \in Selects(env[g]) :
                           s # u /\ s \in FieldsIn(env[g], u.whole) /\ s.name.end = h.at
    IN /\ \A g \in Covered(request.at, request.to) : \A i \in DOMAIN env[g].lines :
            \A n \in env[g].lines[i].nodes :
              Sure(env[g], env[g].lines[i], n) => HintsFor(env[g], i, n) \subseteq answer
       /\ \A h \in answer : \E g \in Covered(request.at, request.to) : Belongs(g, h)
       /\ \A h, k \in answer :
            h.at = k.at => h = k \/ \E g \in Covered(request.at, request.to) : Doubled(g, h)

\* What the editor is told of types, on request or beside the text.
TypesAreShown == HoverShowsTheName /\ HintsStandBehindNames

\* a call around the cursor that is captured with a shorter span: its name is
\* taken, wherever the cursor is in its arguments
Eclipsed(length, o) ==
  \E l \in LinesOf(env.m) : \E c \in l.nodes :
    c.op = "call" /\ Encloses(In(l, c.span), o) /\ Length(NameOf(c, "fun").span) < length

Asked(l, n, t, o) ==
  /\ Touches(In(l, t.span), o)
  /\ \/ t.class = "const" /\ In(l, t.span).start < o
     \/ t.class = "fun" /\ In(l, t.span).start < o /\ hasParam /\ ~Eclipsed(Length(t.span), o)
     \/ t.class = "struct" /\ o < In(l, t.span).end /\ hasParam /\ ~Eclipsed(Length(t.span), o)
     \/ /\ t.class = "field" /\ hasParam /\ ~Eclipsed(Length(Area(n, t)), o)
        /\ n.op = "pack" => In(l, t.span).start < o

\* the uses in a line of what t stands for
UseOf(n, t) == IF n.op = "select" THEN n.span ELSE t.span
UsesIn(l, t) ==
  UNION {{In(l, UseOf(x, u)) : u \in {y \in x.tokens : y.class = t.class /\ y.name = t.name}} : x \in l.nodes}

\* References on the name of a function, a constant, the struct or its field
\* yields all uses of it, in whatever function, and nothing else.  The
\* exceptions, which the handler's captures do not tell apart: a cursor in
\* the arguments of a function with a shorter name, and any cursor in a
\* function without parameters.
ReferencesAreUses ==
  request.kind = "references" =>
    \A l \in LinesOf(env.m) : \A n \in l.nodes : \A t \in n.tokens :
      Asked(l, n, t, request.at) =>
        answer = (UNION {UsesIn(k, t) : k \in AllLines}) \union IF t.class = "struct" THEN env.m.type ELSE {}
====
