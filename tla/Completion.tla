---- MODULE Completion ----
(***************************************************************************)
(* Completion: on_completion_request of src/completion.rs and the          *)
(* middleware that lets requests through only after a change was           *)
(* forwarded, composed with EditorSync.  A project keeps one text, that of *)
(* its file that was changed last (current_modifing_file_content), and     *)
(* every completion in the project is computed in it.                      *)
(*                                                                         *)
(* All documents lie in one project.  A line is a sequence of spaces,      *)
(* colons, dots, other punctuation and words; a character the lexer        *)
(* refuses does not occur.  A document's text is a sequence of lines,      *)
(* which each edit replaces by the next.                                   *)
(***************************************************************************)
EXTENDS EditorSync, SequencesExt

CONSTANTS
  Text,      \* document -> number of edits -> its lines
  Word,      \* identifiers and keywords
  Keyword,   \* KEYWORDS, which the lexer does not take for identifiers
  Standard,  \* std, aptos_std, aptos_framework
  Holds,     \* pairs of words the first of which contains the second
  AtOne,     \* modules of address 0x1
  Member,    \* module -> its functions and structs
  Field,     \* module -> the fields of its structs
  ModuleOf,  \* document -> its module
  Used       \* module -> modules that its use declarations name

ASSUME CompletionAssumption ==
  /\ Keyword \subseteq Word /\ Standard \subseteq Word \ Keyword
  /\ DOMAIN Member \subseteq Word \ (Keyword \cup Standard)
  /\ DOMAIN Field = DOMAIN Member /\ AtOne \subseteq DOMAIN Member
  /\ ModuleOf \in [Doc -> DOMAIN Member]
  /\ Used \in [DOMAIN Member -> SUBSET DOMAIN Member]

VARIABLES
  modified,  \* current_modifing_filepath, with the number of the text kept
  builds     \* whether the project can be loaded

completionVars == <<syncVars, modified, builds>>

NoText == [doc |-> NoDoc, text |-> 0]

\* current_modifing_file_content, empty before the first change
Buffer(m) == IF m.doc = NoDoc THEN <<>> ELSE Text[m.doc][m.text]

----------------------------------------------------------------------------
(* The text around the cursor. *)

Identifiers == Word \ Keyword

\* truncate_from_last_space: the last word of the line, wherever the cursor is
LastWord(line) == SubSeq(line, SelectLastInSeq(line, LAMBDA c : c = " ") + 1, Len(line))

\* The lexer takes two colons for one token.
Lexed(line) ==
  FoldLeft(LAMBDA ts, c : IF c = ":" /\ ts # <<>> /\ Last(ts) = ":"
                          THEN Append(Front(ts), "::") ELSE Append(ts, c),
           <<>>, line)

\* lexer_for_buffer
Tokens(line) == SelectSeq(Lexed(line), LAMBDA t : t \in Identifiers \cup {"::", "."})

\* get_cursor_token: the trigger before the cursor, which is behind k characters
CursorToken(line, k) ==
  CASE k > 0 /\ line[k] = "." -> "."
    [] k > 1 /\ line[k] = ":" /\ line[k - 1] = ":" -> "::"
    [] k > 0 /\ line[k] = ":" /\ (k = 1 \/ line[k - 1] # ":") -> ":"
    [] OTHER -> "none"

\* The token n before the last one, or none.
FromEnd(ts, n) == IF n < Len(ts) THEN ts[Len(ts) - n] ELSE "none"

----------------------------------------------------------------------------
(* What is offered: pairs of a kind and a label. *)

Keywords == {<<"keyword", w>> : w \in Keyword}
Builtins == {<<"builtin", "assert">>}
Primitives == {<<"primitive", "u64">>}
Classes == {<<"module", m>> : m \in AtOne}
MembersOf(m) == IF m \in DOMAIN Member THEN {<<"member", x>> : x \in Member[m]} ELSE {}
FieldsOf(m) == {<<"field", x>> : x \in Field[m]}
Containing(items, w) == {i \in items : <<i[2], w>> \in Holds}

\* handle_identifiers_for_coloncolon: a module's members behind its name
AfterColons(ts) ==
  CASE FromEnd(ts, 1) \in Standard -> Classes
    [] FromEnd(ts, 1) \notin Standard -> MembersOf(FromEnd(ts, 1))

\* handle_identifiers_for_coloncolon_item: those that contain the word begun;
\* behind a standard address all modules of 0x1
BegunMember(ts) ==
  CASE FromEnd(ts, 2) \in Standard -> Classes
    [] FromEnd(ts, 2) \notin Standard -> Containing(MembersOf(FromEnd(ts, 2)), FromEnd(ts, 0))

\* handle_identifiers_for_period: all functions, structs and fields of the
\* document's module and of the modules it uses, whatever stands before the dot
AfterPeriod(d, ts) ==
  IF Len(ts) <= 1 THEN {}
  ELSE UNION {MembersOf(m) \cup FieldsOf(m) : m \in {ModuleOf[d]} \cup Used[ModuleOf[d]]}

\* handle_file_identifiers
InFile(buffer, w) ==
  LET ts == UNION {ToSet(Tokens(buffer[l])) : l \in DOMAIN buffer}
  IN Containing({<<"text", t>> : t \in ts}, w)

Items(d, buffer, line, k) ==
  LET ts == Tokens(LastWord(line))
      tok == CursorToken(line, k)
  IN CASE tok = ":"  -> Primitives
       [] tok = "::" -> AfterColons(ts)
       [] tok = "."  -> AfterPeriod(d, ts)
       [] tok = "none" -> Keywords \cup Builtins \cup
            IF FromEnd(ts, 1) = "::" THEN BegunMember(ts) ELSE InFile(buffer, FromEnd(ts, 0))

NoAnswer == {<<"no answer", "">>}

\* on_completion_request for a cursor behind k characters of line l of d
OnCompletion(d, buffer, l, k) ==
  CASE l \notin DOMAIN buffer -> NoAnswer
    [] l \in DOMAIN buffer ->
         IF Tokens(LastWord(buffer[l])) = <<>> THEN NoAnswer
         ELSE Items(d, buffer, buffer[l], IF k <= Len(buffer[l]) THEN k ELSE 0)

\* provideCompletionItem: nothing is asked for before a change was forwarded
ProvideCompletionItem == didchange

----------------------------------------------------------------------------
(* The text completion works on. *)

\* Project::update_defs: kept only if the project can be loaded again
UpdateDefsOnce(d, n) ==
  modified' = IF builds /\ modified.doc # d THEN [doc |-> d, text |-> n] ELSE modified
UpdateDefs(d, n) ==
  modified' = IF builds THEN [doc |-> d, text |-> n] ELSE modified

DidChange(d) == Send(d) /\ UpdateDefs(d, SentText(d)) /\ UNCHANGED builds
DidSave(d) == Save(d) /\ UpdateDefs(d, text[d]) /\ UNCHANGED builds

\* A Move.toml of the project breaks, or is mended.
EditManifest == builds' = ~builds /\ UNCHANGED <<syncVars, modified>>

Elsewhere ==
  /\ (\E d \in Doc : Type(d)) \/ Fire \/ ProvideInlayHints \/ Tick
  /\ UNCHANGED <<modified, builds>>

CompletionNext ==
  \/ \E d \in Doc : DidChange(d) \/ DidSave(d)
  \/ EditManifest
  \/ Elsewhere

CompletionInit == SyncInit /\ modified = NoText /\ builds \in BOOLEAN

\* Time passes, a due timer fires and the client sends; nobody has to type,
\* save, scroll or mend a manifest.
CompletionSpec ==
  /\ CompletionInit /\ [][CompletionNext]_completionVars
  /\ WF_syncVars(Tick) /\ WF_syncVars(Fire)
  /\ \A d \in Doc : WF_syncVars(DidChange(d))

----------------------------------------------------------------------------
(* Property. *)

\* What should be offered at the end of a line, by the shape of its end.
Fits(d, line, offered) ==
  \A w \in Identifiers :
    /\ IsSuffix(<<w, ":", ":">>, line) =>
         offered = IF w \in Standard THEN Classes ELSE MembersOf(w)
    /\ IsSuffix(<<w, ".">>, line) => FieldsOf(ModuleOf[d]) \subseteq offered
    /\ IsSuffix(<<w>>, line) => Keywords \subseteq offered
    /\ IsSuffix(<<w>>, line) /\ ~IsSuffix(<<":", w>>, line) => <<"text", w>> \in offered
    /\ \A m \in DOMAIN Member :
         IsSuffix(<<m, ":", ":", w>>, line) =>
           {i \in offered : i[1] = "member"} = Containing(MembersOf(m), w)

\* The kept texts in which completion fits at the end of each line of a text.
Kept == {NoText} \cup [doc : Doc, text : 0..MaxEdits]
ServedBy == [d \in Doc |-> [n \in 0..MaxEdits |->
  {m \in Kept : \A l \in DOMAIN Text[d][n] :
     LET line == Text[d][n][l]
     IN Fits(d, line, OnCompletion(d, Buffer(m), l, Len(line)))}]]

\* When the text of a document arrives and the project builds, completion at
\* the end of each of its lines offers the members of the module that is named
\* there, those that contain the word begun, the document's own fields behind a
\* dot, and the document's identifiers behind a word; a change that arrives
\* lets the requests through.
CompletionFits ==
  [][\A d \in Doc :
       /\ DidChange(d) => ProvideCompletionItem'
       /\ (DidChange(d) \/ DidSave(d)) /\ builds =>
            modified' \in ServedBy[d][text'[d]]]_completionVars
====
