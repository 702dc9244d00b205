---- MODULE EditorSync ----
(***************************************************************************)
(* What the server learns of the text in the editor: the middleware of     *)
(* editors/code/src/context.ts, which holds didChange back while the user  *)
(* types.  One timer and one time of last change serve all documents.      *)
(*                                                                         *)
(* A text is the number of edits that made it.  The language client        *)
(* (external) sends the text a document has when it sends, shortly after   *)
(* the middleware calls next; it sends no willSave, for the server does    *)
(* not register for it, so that middleware.willSave never runs.            *)
(***************************************************************************)
EXTENDS Naturals, FiniteSets

CONSTANTS
  Doc,       \* open documents
  NoDoc,     \* the timer is not set
  Quiet,     \* ticks in 1000 ms
  Delay,     \* ticks in 800 ms
  MaxEdits,  \* bound on the edits of each document
  InlayHints \* whether the editor asks for inlay hints

ASSUME ConstantsAssumption ==
  /\ NoDoc \notin Doc
  /\ Quiet \in Nat /\ Delay \in Nat /\ MaxEdits \in Nat
  /\ 0 < Delay /\ Delay < Quiet
  /\ InlayHints \in BOOLEAN

VARIABLES
  text,      \* document -> its text in the editor
  known,     \* document -> its text as the server has it
  age,       \* ticks since lastChangeTime, up to Quiet
  timer,     \* the document that didChangeTimer will forward
  left,      \* ticks until it does
  pending,   \* documents whose change the client is about to send
  didchange  \* whether a change was ever forwarded

syncVars == <<text, known, age, timer, left, pending, didchange>>

----------------------------------------------------------------------------
(* The editor and its timer. *)

\* The text a delayed next(data) delivers: the document's, when it is sent.
CapturedText(d) == IF text[d] = 0 THEN 0 ELSE text[d] - 1
SentText(d) == text[d]

\* didChange: within the window of the last change the timer is set anew; a
\* change outside it only marks the time.
TypeRearmingOnce(d) ==
  /\ text[d] < MaxEdits
  /\ text' = [text EXCEPT ![d] = @ + 1]
  /\ age' = 0
  /\ IF age < Quiet
     THEN timer' = (IF timer = NoDoc THEN d ELSE NoDoc) /\ left' = Delay
     ELSE UNCHANGED <<timer, left>>
  /\ UNCHANGED <<known, pending, didchange>>
Type(d) ==
  /\ text[d] < MaxEdits
  /\ text' = [text EXCEPT ![d] = @ + 1]
  /\ age' = 0
  /\ IF age < Quiet
     THEN timer' = d /\ left' = Delay
     ELSE UNCHANGED <<timer, left>>
  /\ UNCHANGED <<known, pending, didchange>>

\* The timer's callback.
Fire ==
  /\ timer # NoDoc
  /\ left = 0
  /\ pending' = pending \cup {timer}
  /\ didchange' = TRUE
  /\ timer' = NoDoc
  /\ UNCHANGED <<text, known, age, left>>

\* The client sends a change that was forwarded to it.
Send(d) ==
  /\ d \in pending
  /\ pending' = pending \ {d}
  /\ known' = [known EXCEPT ![d] = SentText(d)]
  /\ UNCHANGED <<text, age, timer, left, didchange>>

\* didSave carries the text (SaveOptions include_text).
Save(d) ==
  /\ known' = [known EXCEPT ![d] = text[d]]
  /\ UNCHANGED <<text, age, timer, left, pending, didchange>>

\* provideInlayHints: lastInlayHintsTime stays 0, so that every request takes
\* the last branch, which marks the time of a change.
ProvideInlayHints ==
  /\ InlayHints
  /\ age' = 0
  /\ UNCHANGED <<text, known, timer, left, pending, didchange>>

Tick ==
  /\ age' = IF age < Quiet THEN age + 1 ELSE age
  /\ left' = IF left > 0 THEN left - 1 ELSE 0
  /\ UNCHANGED <<text, known, timer, pending, didchange>>

SyncNext ==
  \/ \E d \in Doc : Type(d) \/ Send(d) \/ Save(d)
  \/ Fire
  \/ ProvideInlayHints
  \/ Tick

SyncInit ==
  /\ text = [d \in Doc |-> 0]
  /\ known = [d \in Doc |-> 0]
  /\ age = Quiet
  /\ timer = NoDoc
  /\ left = 0
  /\ pending = {}
  /\ didchange = FALSE

SyncSpec == SyncInit /\ [][SyncNext]_syncVars

----------------------------------------------------------------------------
(* Properties. *)

SyncTypeOK ==
  /\ text \in [Doc -> 0..MaxEdits]
  /\ known \in [Doc -> 0..MaxEdits]
  /\ age \in 0..Quiet
  /\ timer \in Doc \cup {NoDoc}
  /\ left \in 0..Delay
  /\ pending \in SUBSET Doc
  /\ didchange \in BOOLEAN
  /\ pending # {} => didchange

\* A delayed change never takes the server back to an older text, not even
\* one that a save has overtaken while the timer ran.
NeverOlder == [][\A d \in Doc : known'[d] >= known[d]]_syncVars

\* Once the timer runs for a document, the server gets its text, unless an
\* edit of another document takes the timer over.
TimedIsForwarded ==
  \A d \in Doc :
    (timer = d) ~> (known[d] = text[d] \/ timer \notin {d, NoDoc})
====
