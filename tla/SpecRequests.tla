---- MODULE SpecRequests ----
(***************************************************************************)
(* The two commands that generate specifications, move.generate.spec.file  *)
(* and move.generate.spec.sel of reg.ts, and their handlers                *)
(* on_generate_spec_file and on_generate_spec_sel, composed with           *)
(* FormatOnSave, the other writer of the user's files.  The server takes   *)
(* saves and requests in their order, one at a time; the extension inserts *)
(* a specification at the place the server names, into whichever editor is *)
(* active when the answer comes.                                           *)
(*                                                                         *)
(* A place is the text in which the server has computed it: it is the      *)
(* place the user means in that text, and in no other.  One command is     *)
(* under way at a time.                                                    *)
(***************************************************************************)
EXTENDS FormatOnSave

VARIABLES
  active,   \* whether the document's editor is the active one
  ask,      \* the request under way to the server
  ahead,    \* number of the saves in inbox that were sent before it
  reply,    \* its answer under way to the extension: its kind and a place
  step,     \* step of on_generate_spec_file
  due,      \* a save is formatted and update_defs has not run yet
  env,      \* the text of the file that global_env was built from
  specFile  \* the specification file next to the module

requestVars == <<active, ask, ahead, reply, step, due, env, specFile>>
specVars == <<vars, requestVars>>

Idle == pc = "idle" /\ step = "idle" /\ ~due
Answered(kind) == [kind |-> kind, place |-> Truncated]
Unasked == ask = "none" /\ reply = Answered("none")

\* A patient user waits for requests, too.
MayDo == patient => Unasked /\ Idle

----------------------------------------------------------------------------
(* The user, the editor and the extension. *)

Edit ==
  /\ MayDo
  /\ TypeText \/ Save \/ Overwrite
  /\ UNCHANGED requestVars

Follow == Reload /\ UNCHANGED requestVars

SwitchEditor ==
  /\ MayDo
  /\ active' = ~active
  /\ UNCHANGED <<vars, ask, ahead, reply, step, due, env, specFile>>

\* The user writes a specification file, or goes on with the one generated.
WriteOwnSpec ==
  /\ MayDo
  /\ specFile \in {"absent", "generated"}
  /\ specFile' = "own"
  /\ UNCHANGED <<vars, active, ask, ahead, reply, step, due, env>>

\* The commands; .sel takes the cursor of the active editor.
Ask(kind) ==
  /\ MayDo /\ MayGoOn
  /\ Unasked
  /\ active
  /\ ask' = kind
  /\ ahead' = Len(inbox)
  /\ UNCHANGED <<vars, active, reply, step, due, env, specFile>>

\* An insertion is an edit of the document, like one of the user's.
Insert ==
  /\ reply.kind = "insert"
  /\ reply' = Answered("none")
  /\ IF active /\ edits < MaxEdits
     THEN /\ edits' = edits + 1
          /\ text' = [edits |-> text.edits \cup {edits + 1}, formatted |-> FALSE]
          /\ dirty' = TRUE
     ELSE UNCHANGED <<edits, text, dirty>>
  /\ UNCHANGED <<worldVars, seen, disk, saves, saved, sent, inbox, pc, content, known>>
  /\ UNCHANGED <<active, ask, ahead, step, due, env, specFile>>

\* openTextDocument and showTextDocument
Open ==
  /\ reply.kind = "opened"
  /\ reply' = Answered("none")
  /\ active' = FALSE
  /\ UNCHANGED <<vars, ask, ahead, step, due, env, specFile>>

ShowError ==
  /\ reply.kind = "error"
  /\ reply' = Answered("none")
  /\ UNCHANGED <<vars, active, ask, ahead, step, due, env, specFile>>

----------------------------------------------------------------------------
(* The server. *)

\* A save is received before the requests that were sent after it.
ReceiveSave ==
  /\ Idle
  /\ ask # "none" => ahead > 0
  /\ Receive
  /\ ahead' = IF ahead > 0 THEN ahead - 1 ELSE 0
  /\ UNCHANGED <<active, ask, reply, step, due, env, specFile>>

Format ==
  /\ Truncate \/ FormatFails \/ Write \/ WriteFails
  /\ due' = (pc' = "idle")
  /\ UNCHANGED <<active, ask, ahead, reply, step, env, specFile>>

\* update_defs builds the project from the files.
UpdateDefsFromSave ==
  /\ due
  /\ due' = FALSE
  /\ env' = content
  /\ UNCHANGED <<vars, active, ask, ahead, reply, step, specFile>>
UpdateDefs ==
  /\ due
  /\ due' = FALSE
  /\ env' = disk
  /\ UNCHANGED <<vars, active, ask, ahead, reply, step, specFile>>

Handle(kind) == Idle /\ ask = kind /\ ahead = 0

Answer(what) == ask' = "none" /\ reply' = what

\* on_generate_spec_sel: behind the item at the cursor, nothing found there, or
\* no project and therefore no answer
OnGenerateSpecSel ==
  /\ Handle("sel")
  /\ \E what \in {[kind |-> "insert", place |-> env], Answered("error"), Answered("none")} :
       Answer(what)
  /\ UNCHANGED <<vars, active, ahead, step, due, env, specFile>>

\* on_generate_spec_file up to the project: an existing file is refused.
OnGenerateSpecFileUnchecked ==
  /\ Handle("file")
  /\ \/ step' = "generate" /\ UNCHANGED <<ask, reply>>
     \/ Answer(Answered("none")) /\ UNCHANGED step
  /\ UNCHANGED <<vars, active, ahead, due, env, specFile>>
OnGenerateSpecFile ==
  /\ Handle("file")
  /\ IF specFile # "absent"
     THEN Answer(Answered("error")) /\ UNCHANGED step
     ELSE \/ step' = "generate" /\ UNCHANGED <<ask, reply>>
          \/ Answer(Answered("none")) /\ UNCHANGED step
  /\ UNCHANGED <<vars, active, ahead, due, env, specFile>>

\* std::fs::write, of which the file is created or truncated first
CreateFile ==
  /\ step = "generate"
  /\ step' = "write"
  /\ specFile' = "empty"
  /\ UNCHANGED <<vars, active, ask, ahead, reply, due, env>>

FillFile ==
  /\ step = "write"
  /\ step' = "idle"
  /\ specFile' = "generated"
  /\ Answer(Answered("opened"))
  /\ UNCHANGED <<vars, active, ahead, due, env>>

WriteFileFails ==
  /\ step \in {"generate", "write"}
  /\ step' = "idle"
  /\ Answer(Answered("error"))
  /\ UNCHANGED <<vars, active, ahead, due, env, specFile>>

\* The next server loads the project when it opens the document.
KillServer ==
  /\ Kill
  /\ ask' = "none"
  /\ ahead' = 0
  /\ step' = "idle"
  /\ due' = FALSE
  /\ env' = disk
  /\ UNCHANGED <<active, reply, specFile>>

RequestsNext ==
  \/ Edit \/ Follow \/ SwitchEditor \/ WriteOwnSpec
  \/ \E kind \in {"file", "sel"} : Ask(kind)
  \/ Insert \/ Open \/ ShowError
  \/ ReceiveSave \/ Format \/ UpdateDefs
  \/ OnGenerateSpecSel \/ OnGenerateSpecFile \/ CreateFile \/ FillFile \/ WriteFileFails
  \/ KillServer

RequestsInit ==
  /\ Init
  /\ active \in BOOLEAN
  /\ ask = "none" /\ ahead = 0 /\ reply = Answered("none")
  /\ step = "idle" /\ due = FALSE
  /\ env = disk
  /\ specFile = "absent"

RequestsSpec == RequestsInit /\ [][RequestsNext]_specVars

----------------------------------------------------------------------------
(* Properties. *)

\* To a user who waits, a specification that he asks for in a saved document is
\* inserted into this document and at the place he means: the text that the
\* server has computed the place in is the one in the editor, whatever the
\* formatter made of the save before.
InsertedWhereAsked ==
  [][Insert /\ patient /\ ~cutOff /\ ~dirty => active /\ reply.place = text]_specVars

\* The specification file is never opened half written, and what such a user
\* has written in it stays, however often he asks for it again.
OwnSpecStays ==
  [][/\ patient /\ specFile = "own" => specFile' = "own"
     /\ Open => specFile # "empty"]_specVars
====
