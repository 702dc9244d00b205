---- MODULE FormatOnSave ----
(***************************************************************************)
(* format_on_did_save of src/bin/aptos-move-analyzer.rs: when movefmt is   *)
(* enabled, the server answers a save by writing the formatted text over   *)
(* the file, at a time of its own, while the user types and saves on.  The *)
(* editor takes a file that changed on disk into an unmodified document.   *)
(*                                                                         *)
(* One document.  A text is the set of the user's edits that it contains   *)
(* and whether it is formatted; Truncated is an empty file, in which state *)
(* std::fs::write leaves the file between opening it and writing to it.    *)
(***************************************************************************)
EXTENDS Naturals, Sequences

CONSTANTS
  MaxEdits,   \* bound on the user's edits
  MaxSaves    \* bound on the user's saves

ASSUME ConstantsAssumption == MaxEdits \in Nat /\ MaxSaves \in Nat

VARIABLES
  patient, \* whether the user waits for the server before going on
  cutOff,  \* history: a write was cut off, by a full disk or with the server
  text,    \* the document in the editor
  dirty,   \* whether it differs from the file as the editor knows it
  seen,    \* the file as the editor knows it
  disk,    \* the file
  edits,   \* number of edits
  saves,   \* number of saves
  saved,   \* history: the edits that the user has saved
  sent,    \* history: the text of the last save the running server was sent
  inbox,   \* texts of didSave notifications under way
  pc,      \* step of format_on_did_save
  content, \* file_content, the text of the notification
  known    \* current_modifing_file_content of the project

editorVars == <<text, dirty, seen>>
worldVars == <<patient, cutOff>>
vars == <<worldVars, editorVars, disk, edits, saves, saved, sent, inbox, pc, content, known>>

Text == [edits : SUBSET (1..MaxEdits), formatted : BOOLEAN]
Truncated == [edits |-> {}, formatted |-> FALSE]

\* movefmt::core::fmt::format_entry (external) keeps what the user wrote.
Formatted(t) == [edits |-> t.edits, formatted |-> TRUE]

----------------------------------------------------------------------------
(* The user and the editor. *)

\* A patient user lets the server finish and the editor take over the result.
MayGoOn == patient => inbox = << >> /\ pc = "idle" /\ seen = disk

TypeText ==
  /\ MayGoOn
  /\ edits < MaxEdits
  /\ edits' = edits + 1
  /\ text' = [edits |-> text.edits \cup {edits + 1}, formatted |-> FALSE]
  /\ dirty' = TRUE
  /\ UNCHANGED <<worldVars, seen, disk, saves, saved, sent, inbox, pc, content, known>>

\* The editor refuses to save over a file that is newer than the one it knows.
Save ==
  /\ MayGoOn
  /\ saves < MaxSaves
  /\ dirty
  /\ seen = disk
  /\ disk' = text
  /\ seen' = text
  /\ dirty' = FALSE
  /\ saves' = saves + 1
  /\ saved' = saved \cup text.edits
  /\ sent' = text
  /\ inbox' = Append(inbox, text)
  /\ UNCHANGED <<worldVars, text, edits, pc, content, known>>

\* The file watcher: an unmodified document follows the file, and the client
\* tells the server (the language client's didChange, EditorSync, is left out).
Reload ==
  /\ seen # disk
  /\ ~dirty
  /\ text' = disk
  /\ seen' = disk
  /\ UNCHANGED <<worldVars, dirty, disk, edits, saves, saved, sent, inbox, pc, content, known>>

\* The user compares the two and decides for the document in the editor.
Overwrite ==
  /\ seen # disk
  /\ dirty
  /\ seen' = disk
  /\ UNCHANGED <<worldVars, text, dirty, disk, edits, saves, saved, sent, inbox, pc, content, known>>

----------------------------------------------------------------------------
(* The server. *)

\* DidSaveTextDocument arrives.
Receive ==
  /\ pc = "idle"
  /\ inbox # << >>
  /\ inbox' = Tail(inbox)
  /\ content' = Head(inbox)
  /\ pc' = "format"
  /\ UNCHANGED <<worldVars, editorVars, disk, edits, saves, saved, sent, known>>

Return(result) == known' = result /\ pc' = "idle"

\* The formatter rejects the text, or the file cannot be opened for writing.
FormatFails ==
  /\ pc = "format"
  /\ Return(content)
  /\ UNCHANGED <<worldVars, editorVars, disk, edits, saves, saved, sent, inbox, content>>

\* std::fs::write opens the file and truncates it ...
Truncate ==
  /\ pc = "format"
  /\ disk' = Truncated
  /\ pc' = "write"
  /\ UNCHANGED <<worldVars, editorVars, edits, saves, saved, sent, inbox, content, known>>

\* ... and writes the formatted text, which the function returns.
WriteReturningContent ==
  /\ pc = "write"
  /\ disk' = Formatted(content)
  /\ Return(content)
  /\ UNCHANGED <<worldVars, editorVars, edits, saves, saved, sent, inbox, content>>
WriteKnownText ==
  /\ pc = "write"
  /\ disk' = Formatted(known)
  /\ Return(Formatted(known))
  /\ UNCHANGED <<worldVars, editorVars, edits, saves, saved, sent, inbox, content>>
Write ==
  /\ pc = "write"
  /\ disk' = Formatted(content)
  /\ Return(Formatted(content))
  /\ UNCHANGED <<worldVars, editorVars, edits, saves, saved, sent, inbox, content>>

\* Writing fails for lack of space, and the unformatted text is returned.
WriteFails ==
  /\ pc = "write"
  /\ Return(content)
  /\ cutOff' = TRUE
  /\ UNCHANGED <<patient, editorVars, disk, edits, saves, saved, sent, inbox, content>>

\* The client kills the server, as it does when the editor closes; the next
\* server starts with an empty channel.
Kill ==
  /\ pc' = "idle"
  /\ inbox' = << >>
  /\ known' = Truncated
  /\ sent' = Truncated
  /\ cutOff' = TRUE
  /\ UNCHANGED <<patient, editorVars, disk, edits, saves, saved, content>>

Server == Receive \/ FormatFails \/ Truncate \/ Write \/ WriteFails

Next == TypeText \/ Save \/ Reload \/ Overwrite \/ Server \/ Kill

Init ==
  /\ patient \in BOOLEAN
  /\ cutOff = FALSE
  /\ text = Truncated /\ seen = Truncated /\ disk = Truncated
  /\ dirty = FALSE
  /\ edits = 0 /\ saves = 0 /\ saved = {}
  /\ sent = Truncated
  /\ inbox = << >>
  /\ pc = "idle"
  /\ content = Truncated
  /\ known = Truncated

Spec == Init /\ [][Next]_vars

----------------------------------------------------------------------------
(* Properties. *)

\* Types, and that no save is handled more than once.
TypeOK ==
  /\ {text, seen, disk, content, known, sent} \subseteq Text
  /\ {dirty, patient, cutOff} \subseteq BOOLEAN
  /\ edits \in 0..MaxEdits /\ saves \in 0..MaxSaves
  /\ saved \subseteq 1..edits
  /\ inbox \in Seq(Text)
  /\ pc \in {"idle", "format", "write"}
  /\ Len(inbox) + (IF pc = "idle" THEN 0 ELSE 1) <= saves

Resting == pc = "idle" /\ inbox = << >>

\* However far the server lags behind the user, and whatever it made of the
\* file, what it analyses once it rests is the last text it was sent.
KnowsLastSave == Resting => known.edits = sent.edits

Undisturbed == Resting /\ patient /\ ~cutOff

\* With a user who waits, it is the file itself, formatted or not.
KnowsTheFile == (Undisturbed /\ saves > 0) => known = disk

\* editors/CHANGELOG.md, 5, "try avoiding to truncating source code": nothing
\* that such a user has saved is missing from the file once all is at rest.
\* (With a hasty user it may be: the formatted text of one save is written over
\* the file of the next.)
SavedStays == (Undisturbed /\ seen = disk /\ ~dirty) => saved \subseteq disk.edits
====
