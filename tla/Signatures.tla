---- MODULE Signatures ----
(***************************************************************************)
(* Go to definition, references and hover on declarations                  *)
(* (goto_definition.rs, references.rs and hover.rs): use declarations,     *)
(* structs, and the headers of functions.                                  *)
(* Where Navigation finds what the compiler's tree says of a place, here   *)
(* the tree has types and no places for them: the handlers lex the text,   *)
(* take the token at the cursor, and look for the names of the declared    *)
(* type inside of it.                                                      *)
(*                                                                         *)
(* A file has either a body (Navigation) or one declaration, since each   *)
(* handler deals with the one that the cursor is in.  A use declaration    *)
(* and a header stand on one line, the fields of a struct on lines of      *)
(* their own.  A type is a tree of [op, name, args].                       *)
(***************************************************************************)
EXTENDS Navigation, SequencesExt

CONSTANTS
  Declarations, \* what the user may declare
  Prefix,       \* pairs of names of which the second begins with the first
  ModuleOf,     \* module -> [structs |-> , funs |-> ], its names
  Window        \* hover looks that far for the end of a field's line (128)

VARIABLES
  file,   \* the declaration, its tokens and their places
  asked,  \* what was asked last of the declaration, and where
  found   \* the answer to it, a set

sigVars == <<file, asked, found>>
allVars == <<vars, file, asked, found>>

----------------------------------------------------------------------------
(* The text of a declaration. *)

\* part: the field, the parameter or what comes after these
Piece(class, text, part) == [class |-> class, text |-> text, part |-> part]
Plain(texts, part) == [i \in DOMAIN texts |-> Piece("plain", texts[i], part)]
Blank == Piece("blank", " ", 0)
NewLine == Piece("break", " ", 0)

Listed(items) ==
  FlattenSeq([i \in DOMAIN items |->
    IF i = 1 THEN items[1] ELSE <<Piece("plain", ",", 0), Blank>> \o items[i]])

RECURSIVE TypeText(_, _)
TypeText(type, part) ==
  LET args == Listed([i \in DOMAIN type.args |-> TypeText(type.args[i], part)])
      Around(open, close) == IF args = <<>> THEN args
                         ELSE Plain(<<open>>, part) \o args \o Plain(<<close>>, part)
  IN CASE type.op = "struct" -> <<Piece("type", type.name, part)>> \o Around("<", ">")
       [] type.op = "vector" -> Plain(<<"vector">>, part) \o Around("<", ">")
       [] type.op = "ref"    -> Plain(<<"&">>, part) \o args
       [] type.op = "tuple"  -> Around("(", ")")
       [] OTHER              -> Plain(<<type.name>>, part)

Unit == [op |-> "tuple", name |-> "", args |-> <<>>]

\* `name: type`
Typed(name, type, part) ==
  <<Piece("name", name, part), Piece("plain", ":", part), Blank>> \o TypeText(type, part)

Header(d) ==
  LET after == Len(d.params) + 1 IN
  <<Piece("plain", "fun", 0), Blank, Piece("name", "m", 0), Piece("plain", "(", 0)>>
  \o Listed([i \in DOMAIN d.params |-> Typed("p", d.params[i], i)])
  \o Plain(<<")">>, after)
  \o (IF d.result = Unit THEN <<>> ELSE Plain(<<":">>, after) \o <<Blank>> \o TypeText(d.result, after))
  \o (IF d.acquires = <<>> THEN <<>>
      ELSE <<Blank, Piece("plain", "acquires", after), Blank>>
           \o Listed([i \in DOMAIN d.acquires |-> <<Piece("type", d.acquires[i], after)>>]))
  \o <<Blank, Piece("plain", "{", after)>>

StructText(d) ==
  <<Piece("plain", "struct", 0), Blank, Piece("name", "W", 0), Blank, Piece("plain", "{", 0), NewLine>>
  \o FlattenSeq([i \in DOMAIN d.fields |->
       <<Blank, Blank>> \o Typed(d.fields[i].name, d.fields[i].type, i)
       \o <<Piece("plain", ",", 0), NewLine>>])
  \o Plain(<<"}">>, 0)

UseText(d) ==
  <<Piece("plain", "use", 0), Blank, Piece("name", d.module, 0), Piece("plain", "::", 0), Piece("plain", "{", 0)>>
  \o Listed([i \in DOMAIN d.members |-> <<Piece("member", d.members[i], i)>>])
  \o Plain(<<"}">>, 0)

TextOf(d) ==
  CASE d.kind = "fun" -> Header(d) [] d.kind = "struct" -> StructText(d) [] d.kind = "use" -> UseText(d)

LengthOf(text) == IF text \in DOMAIN NameLen THEN NameLen[text] ELSE 1

\* the pieces with their places; rest is how much text follows in the file
FileOf(d) ==
  LET laid == FoldLeft(LAMBDA ts, p :
                LET at == IF ts = <<>> THEN 0 ELSE Last(ts).span.end
                IN Append(ts, [class |-> p.class, text |-> p.text, part |-> p.part,
                               span |-> Span(at, at + LengthOf(p.text))]),
                <<>>, TextOf(d))
  IN [decl |-> d,
      tokens |-> SelectSeq(laid, LAMBDA t : t.class \notin {"blank", "break"}),
      breaks |-> {t.span.start : t \in {u \in ToSet(laid) : u.class = "break"}},
      end |-> Last(laid).span.end + d.rest]

NoFile == [decl |-> [kind |-> "none"], tokens |-> <<>>, breaks |-> {}, end |-> 0]

----------------------------------------------------------------------------
(* Captures, of which several may be as short: the lists of the handlers.  *)

NoCapture == [spans |-> <<>>, results |-> <<>>]
Push(cap, span, result) ==
  [cap EXCEPT !.spans = Append(@, span), !.results = Append(@, result)]

\* insert_result, capture_items_span_push
InsertType(acc, mouse, span, decl) ==
  IF Touches(span, mouse) /\ ~Contains(acc.cap.spans, span)
  THEN [acc EXCEPT !.cap = Push(@, span, decl)] ELSE acc

PushTypeUses(cap, span, uses) == IF uses = {} THEN cap ELSE Push(cap, span, uses)

\* remove_not_in_loc, with the cursor's own line and column
RetainInLoc(cap, o) ==
  LET kept == SelectSeq([i \in DOMAIN cap.spans |-> i], LAMBDA i : Touches(cap.spans[i], o))
  IN [spans |-> [k \in DOMAIN kept |-> cap.spans[kept[k]]],
      results |-> [k \in DOMAIN kept |-> cap.results[kept[k]]]]

\* find_smallest_length_index
FirstSmallest(spans) ==
  MinOf({i \in DOMAIN spans : \A j \in DOMAIN spans : Length(spans[i]) <= Length(spans[j])})

\* convert_to_locations
Located(cap) == IF cap.spans = <<>> THEN {} ELSE {cap.results[FirstSmallest(cap.spans)]}

----------------------------------------------------------------------------
(* What both handlers do with the text. *)

Includes(text, name) == text = name \/ <<name, text>> \in Prefix

TokensIn(span) ==
  SelectSeq(file.tokens, LAMBDA t : span.start <= t.span.start /\ t.span.end <= span.end)

\* the tokens in which the text of a span has a name, which is at their start
Having(span, name) == SelectSeq(TokensIn(span), LAMBDA t : Includes(t.text, name))

\* get_mouse_loc; the first line has no line break before it
Mouse(o) == MouseEnd(file.breaks \union {-1}, o)

\* get_mouse_token_span: the first token that touches the cursor, or nothing
\* at the beginning
TokenAt(ts, mouse, otherwise) ==
  LET touching == SelectSeq(ts, LAMBDA t : Touches(t.span, mouse))
  IN IF touching = <<>> THEN otherwise ELSE Head(touching).span

----------------------------------------------------------------------------
(* Go to definition. *)

\* process_type: is the name of the type, of one of its type arguments or of
\* one of theirs, in the text of the span?  Arguments first.
RECURSIVE ProcessType(_, _, _, _)
ProcessType(acc, mouse, span, type) ==
  LET NotFound(a) == [a EXCEPT !.found = FALSE]
      All(a, types) == FoldLeft(LAMBDA b, t : ProcessType(b, mouse, span, t), a, types)
      FirstOf(a, types) ==
        FoldLeft(LAMBDA b, t : IF b.found THEN b ELSE ProcessType(b, mouse, span, t), NotFound(a), types)
      Argument(a, t) ==
        IF a.found THEN a
        ELSE IF t.op # "struct" THEN NotFound(ProcessType(a, mouse, span, t))
        ELSE LET below == FirstOf(a, t.args)
                 having == Having(span, t.name)
                 start == Head(having).span.start
                 place == Span(start, start + NameLen[t.name])
             IN IF below.found \/ having = <<>> \/ ~Touches(place, mouse) THEN below
                ELSE [InsertType(below, mouse, place, Decl("struct", t.name)) EXCEPT !.found = TRUE]
      args == FoldLeft(Argument, NotFound(acc), type.args)
  IN CASE type.op = "struct" ->
            IF args.found \/ Having(span, type.name) = <<>> THEN args
            ELSE [InsertType(args, mouse, span, Decl("struct", type.name)) EXCEPT !.found = TRUE]
       [] type.op \in {"vector", "ref", "tuple"} -> NotFound(All(acc, type.args))
       [] OTHER -> NotFound(acc)

\* a type of whose text the handler has only this span
TypeAt(acc, mouse, span, type) ==
  IF Touches(span, mouse) THEN ProcessType(acc, mouse, span, type)
  ELSE [acc EXCEPT !.found = FALSE]

TheToken(class, part) ==
  Head(SelectSeq(file.tokens, LAMBDA t : t.class = class /\ t.part = part)).span

\* of the tokens behind a parameter's name, the second colon or the brace
EndOfType(ts) ==
  MinOf({k \in DOMAIN ts : \/ ts[k].text = "{"
                           \/ ts[k].text = ":" /\ \E j \in 1..(k - 1) : ts[j].text = ":"})
BehindName(i) == TokensIn(Span(TheToken("name", i).end, Last(file.tokens).span.end))

\* the tokens of what is acquired, before the brace
Acquired ==
  LET ts == file.tokens
      n == Len(file.decl.acquires)
  IN IF n = 0 THEN <<>> ELSE SelectSeq(SubSeq(ts, Len(ts) - 2 * n + 1, Len(ts)), LAMBDA t : t.class = "type")

\* process_parameter: the text up to the next parameter; for the last one up to
\* the end of its type, which the cursor's token may come before
ProcessParameter(acc, mouse, i) ==
  LET params == file.decl.params
      start == TheToken("name", i).end
      ts == BehindName(i)
      end == EndOfType(ts)
      span == IF i < Len(params)
              THEN TokenAt(TokensIn(Span(start, TheToken("name", i + 1).start)), mouse, Span(start, start))
              ELSE TokenAt(SubSeq(ts, 1, end), mouse, Span(start, ts[end].span.start))
  IN TypeAt(acc, mouse, span, params[i])

\* process_return_type_and_specifiers: the text from the last parameter, or
\* the name, to the body; what is acquired if the result is not at the cursor
ProcessResult(acc, mouse) ==
  LET d == file.decl
      start == TheToken("name", Len(d.params)).end
      whole == Span(start, Last(file.tokens).span.start)
      ts == TokensIn(whole)
      colons == {k \in DOMAIN ts : ts[k].text = ":" /\ \E j \in 1..(k - 1) : ts[j].text = ")"}
      span == TokenAt(ts, mouse, Span(start, IF colons = {} THEN start ELSE ts[MaxOf(colons)].span.start))
      result == TypeAt(acc, mouse, span, d.result)
      Specifier(a, t) ==
        IF a.found THEN a ELSE TypeAt(a, mouse, t.span, [op |-> "struct", name |-> t.text, args |-> <<>>])
      specified == FoldLeft(Specifier, result, Acquired)
      Require(a, name) ==
        IF Having(span, name) = <<>> THEN a ELSE InsertType(a, mouse, span, Decl("struct", name))
  IN IF ~Touches(whole, mouse) THEN acc
     ELSE IF specified.found THEN specified
     ELSE FoldLeft(Require, specified, d.acquires)

\* process_func, without the body
ProcessHeader(acc, mouse) ==
  ProcessResult(FoldLeft(LAMBDA a, i : ProcessParameter(a, mouse, i), acc,
                         [i \in DOMAIN file.decl.params |-> i]), mouse)

\* process_struct: the fields, from the one that the token stands behind on
ProcessStructEveryField(acc, mouse) ==
  LET whole == TokensIn(Span(0, file.end))
      span == TokenAt(whole, mouse, Span(0, 0))
      Field_(a, i) ==
        IF a.found \/ TheToken("name", i).start > span.end THEN a
        ELSE TypeAt(a, mouse, span, file.decl.fields[i].type)
  IN FoldLeft(Field_, acc, [i \in DOMAIN file.decl.fields |-> i])
ProcessStruct(acc, mouse) ==
  LET fields == file.decl.fields
      span == TokenAt(TokensIn(Span(0, file.end)), mouse, Span(0, 0))
      Before(i) == i < Len(fields) /\ TheToken("name", i + 1).end < span.start
      OfField(a, i) ==
        IF a.found \/ TheToken("name", i).start > span.end \/ Before(i) THEN a
        ELSE TypeAt(a, mouse, span, fields[i].type)
  IN FoldLeft(OfField, acc, [i \in DOMAIN fields |-> i])

\* process_use_decl: the member at the cursor; the first struct of the module, in
\* an order that nobody chose, in whose full name its name is, or else a function
Members(o) == {t \in ToSet(file.tokens) : t.class = "member" /\ Touches(t.span, o)}
Meanings(module, member) ==
  LET structs == {s \in ModuleOf[module].structs : Includes(module, member) \/ Includes(s, member)}
      funs == {f \in ModuleOf[module].funs : Includes(f, member)}
  IN IF structs # {} THEN {Decl("struct", s) : s \in structs} ELSE {Decl("fun", f) : f \in funs}
UseDefinitions(o) ==
  LET meanings == UNION {Meanings(file.decl.module, t.text) : t \in Members(o)}
  IN IF meanings = {} THEN {{Decl("module", file.decl.module)}} ELSE {{m} : m \in meanings}

\* on_goto_definition: the possible answers
Definitions(o) ==
  LET none == [cap |-> NoCapture, found |-> FALSE]
      captured == CASE file.decl.kind = "fun" -> ProcessHeader(none, Mouse(o))
                    [] file.decl.kind = "struct" -> ProcessStruct(none, Mouse(o))
  IN IF file.decl.kind = "use" THEN UseDefinitions(o)
     ELSE {Located(RetainInLoc(captured.cap, o))}

----------------------------------------------------------------------------
(* Hover. *)

\* process_struct: a field's line is looked for from the first place that has
\* the field's name, within a window that has to lie in the file
FieldArea(name) ==
  LET having == SelectSeq(file.tokens, LAMBDA t : Includes(t.text, name))
      start == Head(having).span.start + LengthOf(name)
      ends == {b \in file.breaks : start <= b /\ b < start + Window}
  IN IF ends = {} \/ start + Window > file.end THEN {} ELSE {Span(start, MinOf(ends))}

Inside(o) == MinOf(file.breaks) < o /\ o <= MaxOf(file.breaks)

StructTypes(o) ==
  IF ~Inside(o) THEN {}
  ELSE UNION {{[span |-> a, type |-> f.type] : a \in {b \in FieldArea(f.name) : Touches(b, Mouse(o))}} :
              f \in ToSet(file.decl.fields)}

\* process_use_decl: in the first module whose name is in that of the declared
\* one, in an order that nobody chose
UseTexts(o) ==
  LET at == {t \in ToSet(file.tokens) : t.class = "member" /\ Encloses(t.span, o)}
      modules == {m \in DOMAIN ModuleOf : Includes(file.decl.module, m)}
      Answers(meanings) == IF meanings = {} THEN {{}} ELSE {{m} : m \in meanings}
  IN IF at = {} THEN {{}} ELSE UNION {Answers(Meanings(m, t.text)) : m \in modules, t \in at}

\* get_result: the possible texts
HoverTexts(o) ==
  LET types == StructTypes(o)
      smallest == {c.type : c \in {x \in types : \A y \in types : Length(x.span) <= Length(y.span)}}
  IN CASE file.decl.kind = "use" -> UseTexts(o)
       [] file.decl.kind = "struct" /\ smallest # {} -> {{type} : type \in smallest}
       [] OTHER -> {{}}

----------------------------------------------------------------------------
(* References; h is in the file, too. *)

Place(f, span) == [fun |-> f, span |-> span]
InH(class, name) ==
  UNION {UNION {{Place("h", In(l, t.span)) : t \in {x \in n.tokens : x.class = class /\ x.name = name}}
                : n \in l.nodes} : l \in LinesOf(env.h)}

\* process_type: the name in the whole text of every function
TypeUses(name) ==
  {Place("m", Span(t.span.start, t.span.start + NameLen[name])) :
     t \in {x \in ToSet(file.tokens) : file.decl.kind = "fun" /\ Includes(x.text, name)}}
  \union InH("struct", name)

\* a type, or what it is a vector of or a reference to
RECURSIVE Element(_)
Element(type) == IF type.op \in {"vector", "ref"} THEN Element(type.args[1]) ELSE type

PushType(cap, span, type) ==
  IF Element(type).op # "struct" THEN cap ELSE PushTypeUses(cap, span, TypeUses(Element(type).name))

\* process_parameter: the last one that begins before the cursor; if none
\* does, the name of the function, wherever the cursor is
ParameterTypeUses(cap, mouse) ==
  LET before == {i \in DOMAIN file.decl.params : TheToken("name", i).start <= mouse}
      i == MaxOf(before)
      ts == BehindName(i)
      end == ts[EndOfType(ts)].span.start
  IN IF before = {} THEN PushTypeUses(cap, Span(0, NameLen["m"]), InH("fun", "m"))
     ELSE IF end < mouse THEN cap
     ELSE PushType(cap, Span(TheToken("name", i).end, end), file.decl.params[i])

\* process_return_type_and_specifiers: from the last colon behind the
\* parameters, or else from the beginning, to the body
ResultTypeUses(cap, mouse) ==
  LET ts == file.tokens
      colons == {k \in DOMAIN ts : ts[k].text = ":" /\ \E j \in 1..(k - 1) : ts[j].text = ")"}
      whole == Span(IF colons = {} THEN 0 ELSE ts[MaxOf(colons)].span.start, Last(ts).span.start)
      Specifier(c, t) ==
        IF Touches(t.span, mouse) THEN PushTypeUses(c, t.span, TypeUses(t.text)) ELSE c
  IN IF ~Touches(whole, mouse) THEN cap
     ELSE FoldLeft(Specifier, PushType(cap, whole, file.decl.result), Acquired)

\* process_struct: by the line of the field
FieldTypeUses(o) ==
  LET OfField(c, f) ==
        LET areas == {a \in FieldArea(f.name) : Touches(a, Mouse(o))}
        IN IF areas = {} THEN c ELSE PushType(c, CHOOSE a \in areas : TRUE, f.type)
  IN IF Inside(o) THEN FoldLeft(OfField, NoCapture, file.decl.fields) ELSE NoCapture

\* run_move_model_visitor_internal; use declarations are not looked at
DeclarationUses(o) ==
  LET cap == CASE file.decl.kind = "fun" -> ResultTypeUses(ParameterTypeUses(NoCapture, Mouse(o)), Mouse(o))
               [] file.decl.kind = "struct" -> FieldTypeUses(o)
               [] file.decl.kind = "use" -> NoCapture
  IN IF cap.spans = <<>> THEN {} ELSE cap.results[FirstSmallest(cap.spans)]

----------------------------------------------------------------------------
(* Behaviour. *)

SigInit == Init /\ file = NoFile /\ asked = None /\ found = {}

\* there is no body
Unwritten == written = 0 /\ ~hasParam /\ request = None

Declare(d) ==
  /\ file = NoFile
  /\ file' = FileOf(d)
  /\ UNCHANGED <<asked, found>>

\* places of the declaration, from its second token on
TextPlaces == 2..(IF file = NoFile THEN 0 ELSE Last(file.tokens).span.start)

AskDefinition(o) ==
  /\ asked = None
  /\ asked' = [kind |-> "definition", at |-> o]
  /\ found' \in Definitions(o)
  /\ UNCHANGED file

AskHover(o) ==
  /\ asked = None
  /\ asked' = [kind |-> "hover", at |-> o]
  /\ found' \in HoverTexts(o)
  /\ UNCHANGED file

AskReferences(o) ==
  /\ asked = None
  /\ asked' = [kind |-> "references", at |-> o]
  /\ found' = DeclarationUses(o)
  /\ UNCHANGED file

OnDeclaration ==
  \/ Unwritten /\ \E d \in Declarations : Declare(d)
  \/ \E o \in TextPlaces : AskDefinition(o)
  \/ \E o \in TextPlaces : AskHover(o)
  \/ \E o \in TextPlaces : AskReferences(o)

FileNext ==
  \/ file = NoFile /\ request = None /\ Next /\ UNCHANGED sigVars
  \/ OnDeclaration /\ UNCHANGED vars

FileSpec == SigInit /\ [][FileNext]_allVars

----------------------------------------------------------------------------
(* Properties. *)

Named(class) == {t \in ToSet(file.tokens) : t.class = class}

\* the parts of a header that are looked at for one place: a parameter alone,
\* or the last parameter, the result and what is acquired
Together(i, j) ==
  \/ i = j
  \/ file.decl.kind = "fun" /\ {i, j} \subseteq {Len(file.decl.params), Len(file.decl.params) + 1}

\* another name in the same place that the name of t begins with
Mistakable(t) ==
  \E u \in Named("type") : Together(t.part, u.part) /\ <<u.text, t.text>> \in Prefix

\* the token before a name is taken if it touches the cursor
IsToken(t, o) ==
  Touches(t.span, o) /\ (o = t.span.start => \A u \in ToSet(file.tokens) : u.span.end # o)

\* a member is known by its name, unless the module has another name with it
Known(t) ==
  LET m == file.decl.module
  IN /\ ~Includes(m, t.text)
     /\ \A n \in ModuleOf[m].structs \union ModuleOf[m].funs : n = t.text \/ ~Includes(n, t.text)
Meant(t) ==
  Decl(IF t.text \in ModuleOf[file.decl.module].structs THEN "struct" ELSE "fun", t.text)

GotoFindsType ==
  asked.kind = "definition" =>
    /\ \A t \in Named("type") :
         IsToken(t, asked.at) /\ ~Mistakable(t) => found = {Decl("struct", t.text)}
    /\ \A t \in Named("member") : Touches(t.span, asked.at) /\ Known(t) => found = {Meant(t)}

\* every field's name stands first where the field is declared
FieldsFirst ==
  \A t \in Named("name") : \A u \in ToSet(file.tokens) :
    Includes(u.text, t.text) => u.span.start >= t.span.start

\* the line of the i-th field behind its name, far enough from the file's end
AtField(i, o) ==
  LET name == TheToken("name", i)
  IN /\ name.end <= o /\ \A b \in file.breaks : b > name.end => o <= b
     /\ name.end + Window <= file.end

HoverShowsType ==
  asked.kind = "hover" =>
    /\ file.decl.kind = "struct" /\ FieldsFirst =>
         \A i \in DOMAIN file.decl.fields : AtField(i, asked.at) => found = {file.decl.fields[i].type}
    /\ \A t \in Named("member") :
         /\ Encloses(t.span, asked.at) /\ Known(t)
         /\ \A m \in DOMAIN ModuleOf : m = file.decl.module \/ ~Includes(file.decl.module, m)
         => found = {Meant(t)}

\* the outermost name of a type in a header, and what is acquired
Outermost(t) ==
  LET d == file.decl
      type == IF t.part <= Len(d.params) THEN d.params[t.part] ELSE d.result
      first == SelectSeq(file.tokens, LAMBDA u : u.part = t.part /\ u.class = "type")[1]
  IN \/ t = first /\ Element(type).op = "struct"
     \/ t \in ToSet(Acquired)

UsesOfType(name) ==
  {Place("m", t.span) : t \in {x \in Named("type") : file.decl.kind = "fun" /\ x.text = name}}
  \union InH("struct", name)

ReferencesFindType ==
  asked.kind = "references" =>
    /\ file.decl.kind = "fun" /\ file.decl.params # <<>> =>
         \A t \in Named("type") :
           /\ Touches(t.span, asked.at) /\ Outermost(t)
           /\ \A u \in ToSet(file.tokens) : <<t.text, u.text>> \notin Prefix
           => found = UsesOfType(t.text)
    /\ file.decl.kind = "struct" /\ FieldsFirst =>
         \A i \in DOMAIN file.decl.fields :
           LET type == Element(file.decl.fields[i].type)
           IN AtField(i, asked.at) => found = IF type.op = "struct" THEN UsesOfType(type.name) ELSE {}

\* A type that is named in the header of a function, as it stands or as an
\* argument of another one, or in a struct leads to that type, and what a use
\* declaration brings in to its declaration; hovering over a field shows the
\* field's type and over what is used what it is; and references on a type
\* are its uses in all functions.  The exceptions: names that begin with one
\* another, fields near the end of the file, and for references arguments of
\* types, results that are tuples, and functions without parameters.
DeclarationsAreFound == GotoFindsType /\ HoverShowsType /\ ReferencesFindType
====
