---- MODULE FormatOnSaveProofs ----
(***************************************************************************)
(* Proofs about FormatOnSave and SpecRequests, for any numbers of edits    *)
(* and saves.                                                              *)
(***************************************************************************)
EXTENDS SpecRequests, SequenceTheorems, TLAPS

\* Texts of the first n edits.
TextUpTo(n) == [edits : SUBSET (1..n), formatted : BOOLEAN]

\* Every text in the system is one of the edits made so far.
Typed ==
  /\ edits \in 0..MaxEdits /\ saves \in 0..MaxSaves
  /\ text \in TextUpTo(edits) /\ seen \in TextUpTo(edits) /\ disk \in TextUpTo(edits)
  /\ content \in TextUpTo(edits) /\ known \in TextUpTo(edits) /\ sent \in TextUpTo(edits)
  /\ inbox \in Seq(TextUpTo(edits))
  /\ saved \subseteq 1..edits
  /\ dirty \in BOOLEAN /\ patient \in BOOLEAN /\ cutOff \in BOOLEAN
  /\ pc \in {"idle", "format", "write"}
  /\ Len(inbox) + (IF pc = "idle" THEN 0 ELSE 1) <= saves

\* The texts of fewer edits are among those of more.
LEMMA TextGrows ==
  ASSUME NEW n \in Nat, NEW m \in Nat, n <= m
  PROVE  TextUpTo(n) \subseteq TextUpTo(m)
<1>1. 1..n \subseteq 1..m
  OBVIOUS
<1>2. SUBSET (1..n) \subseteq SUBSET (1..m)
  BY <1>1
<1> QED
  BY <1>2, Zenon DEF TextUpTo

\* So are their sequences.
LEMMA SeqGrows ==
  ASSUME NEW S, NEW T, S \subseteq T, NEW q \in Seq(S)
  PROVE  q \in Seq(T)
OBVIOUS

\* The typing of the variables follows.
LEMMA TypedSuffices == Typed => TypeOK
<1> SUFFICES ASSUME Typed PROVE TypeOK
  OBVIOUS
<1>1. TextUpTo(edits) \subseteq Text
  <2>1. Text = TextUpTo(MaxEdits)
    BY DEF Text, TextUpTo
  <2> QED
    BY <2>1, TextGrows, ConstantsAssumption DEF Typed
<1>2. inbox \in Seq(Text)
  BY <1>1, SeqGrows DEF Typed
<1> QED
  BY <1>1, <1>2, Zenon DEF Typed, TypeOK

\* Taking the first element off a sequence keeps its last one, unless it was
\* the only one.
LEMMA TailKeepsLast ==
  ASSUME NEW S, NEW q \in Seq(S), q # << >>
  PROVE  /\ Tail(q) # << >> => Tail(q)[Len(Tail(q))] = q[Len(q)]
         /\ Tail(q) = << >> => Head(q) = q[Len(q)]
<1>1. Len(q) \in Nat \ {0}
  BY EmptySeq
<1>2. Tail(q) \in Seq(S) /\ Len(Tail(q)) = Len(q) - 1
  BY HeadTailProperties
<1>3. Tail(q) # << >> => Len(q) - 1 \in 1..Len(Tail(q))
  BY <1>1, <1>2, EmptySeq
<1>4. \A i \in 1..Len(Tail(q)) : Tail(q)[i] = q[i + 1]
  BY HeadTailProperties
<1>5. Tail(q) = << >> => Len(q) = 1
  <2>1. Tail(q) = << >> => Len(Tail(q)) = 0
    BY EmptySeq
  <2>2. Len(q) \in Nat
    BY <1>1
  <2> QED
    BY <1>2, <2>1, <2>2
<1> QED
  BY <1>1, <1>2, <1>3, <1>4, <1>5

\* The empty file is a text.
LEMMA TruncatedIsText ==
  ASSUME NEW n \in Nat
  PROVE  Truncated \in TextUpTo(n) /\ Truncated.edits = {}
BY DEF Truncated, TextUpTo

\* Formatting keeps the edits of a text.
LEMMA FormattedIsText ==
  ASSUME NEW n \in Nat, NEW t \in TextUpTo(n)
  PROVE  Formatted(t) \in TextUpTo(n) /\ Formatted(t).edits = t.edits
<1>1. t.edits \in SUBSET (1..n)
  BY DEF TextUpTo
<1> QED
  BY <1>1 DEF TextUpTo, Formatted

----------------------------------------------------------------------------
(* Typing. *)

\* It holds at first ...
LEMMA InitTyped == Init => Typed
<1> SUFFICES ASSUME Init PROVE Typed
  OBVIOUS
<1>1. edits = 0 /\ Truncated \in TextUpTo(0)
  BY TruncatedIsText DEF Init
<1>2. inbox \in Seq(TextUpTo(edits)) /\ Len(inbox) = 0
  BY EmptySeq DEF Init
<1>3. saved \subseteq 1..edits
  BY DEF Init
<1>4. edits \in 0..MaxEdits /\ saves \in 0..MaxSaves /\ saves = 0
  BY ConstantsAssumption DEF Init
<1>5. pc = "idle" /\ dirty \in BOOLEAN /\ patient \in BOOLEAN /\ cutOff \in BOOLEAN
  BY DEF Init
<1>6. {text, seen, disk, content, known, sent} \subseteq TextUpTo(edits)
  BY <1>1 DEF Init
<1> QED
  BY <1>2, <1>3, <1>4, <1>5, <1>6 DEF Typed

\* ... and every step keeps it.
LEMMA NextTyped == Typed /\ [Next]_vars => Typed'
<1> SUFFICES ASSUME Typed, [Next]_vars PROVE Typed'
  OBVIOUS
<1> USE ConstantsAssumption DEF Typed, worldVars, editorVars
<1>t. Truncated \in TextUpTo(edits)
  BY TruncatedIsText
<1>f. Formatted(content) \in TextUpTo(edits)
  BY FormattedIsText
<1>1. CASE TypeText
  <2>1. edits' = edits + 1 /\ edits' \in 0..MaxEdits /\ edits + 1 \in Nat
    BY <1>1 DEF TypeText
  <2>2. TextUpTo(edits) \subseteq TextUpTo(edits')
    BY <2>1, TextGrows
  <2>3. text' \in TextUpTo(edits')
    <3>1. text.edits \in SUBSET (1..edits)
      BY DEF TextUpTo
    <3>2. text.edits \cup {edits + 1} \in SUBSET (1..edits')
      BY <2>1, <3>1
    <3> QED
      BY <1>1, <3>2 DEF TypeText, TextUpTo
  <2>4. inbox \in Seq(TextUpTo(edits'))
    BY <2>2, SeqGrows
  <2>5. saved' \subseteq 1..edits'
    BY <1>1, <2>1 DEF TypeText
  <2>6. /\ seen \in TextUpTo(edits') /\ disk \in TextUpTo(edits') /\ content \in TextUpTo(edits')
        /\ known \in TextUpTo(edits') /\ sent \in TextUpTo(edits')
    BY <2>2
  <2> QED
    BY <1>1, <2>1, <2>3, <2>4, <2>5, <2>6 DEF TypeText
<1>2. CASE Save
  <2>1. text.edits \in SUBSET (1..edits)
    BY DEF TextUpTo
  <2>2. inbox' \in Seq(TextUpTo(edits)) /\ Len(inbox') = Len(inbox) + 1
    BY <1>2, AppendProperties DEF Save
  <2>3. saves' = saves + 1 /\ saves' \in 0..MaxSaves
    BY <1>2 DEF Save
  <2>4. saved' \subseteq 1..edits
    BY <1>2, <2>1 DEF Save
  <2>5. UNCHANGED <<text, content, known, edits, patient, cutOff, pc>>
    BY <1>2 DEF Save
  <2>6. disk' = text /\ seen' = text /\ sent' = text /\ dirty' = FALSE
    BY <1>2 DEF Save
  <2>7. Len(inbox') + (IF pc' = "idle" THEN 0 ELSE 1) <= saves'
    BY <2>2, <2>3, <2>5
  <2>8. /\ inbox' \in Seq(TextUpTo(edits')) /\ saved' \subseteq 1..edits' /\ edits' \in 0..MaxEdits
        /\ pc' \in {"idle", "format", "write"}
    BY <2>2, <2>4, <2>5
  <2>9. {text', seen', disk', content', known', sent'} \subseteq TextUpTo(edits')
    BY <2>5, <2>6
  <2> QED
    BY <2>3, <2>5, <2>6, <2>7, <2>8, <2>9
<1>3. CASE Reload
  BY <1>3 DEF Reload
<1>4. CASE Overwrite
  BY <1>4 DEF Overwrite
<1>5. CASE Receive
  <2>1. /\ inbox' \in Seq(TextUpTo(edits)) /\ content' \in TextUpTo(edits)
        /\ Len(inbox') = Len(inbox) - 1
    BY <1>5, HeadTailProperties DEF Receive
  <2> QED
    BY <1>5, <2>1 DEF Receive
<1>6. CASE FormatFails
  BY <1>6 DEF FormatFails, Return
<1>7. CASE Truncate
  BY <1>7, <1>t DEF Truncate
<1>8. CASE Write
  BY <1>8, <1>f DEF Write, Return
<1>9. CASE WriteFails
  BY <1>9 DEF WriteFails, Return
<1>10. CASE Kill
  BY <1>10, <1>t, EmptySeq DEF Kill
<1>11. CASE UNCHANGED vars
  BY <1>11 DEF vars
<1> QED
  BY <1>1, <1>2, <1>3, <1>4, <1>5, <1>6, <1>7, <1>8, <1>9, <1>10, <1>11 DEF Next, Server

\* The variables keep their types, and the server handles no save twice.
THEOREM TypeCorrect == Spec => []TypeOK
BY InitTyped, NextTyped, TypedSuffices, PTL DEF Spec

----------------------------------------------------------------------------
(* The server knows the last save. *)

\* The last save under way, or the one the server is at or last was at.
Latest ==
  IF inbox # << >> THEN inbox[Len(inbox)] ELSE IF pc = "idle" THEN known ELSE content

LastInv == Latest.edits = sent.edits

\* A step of the server passes the last save on, from the channel to
\* file_content and from there to the text it keeps.
LEMMA NextLastInv == Typed /\ LastInv /\ [Next]_vars => LastInv'
<1> SUFFICES ASSUME Typed, LastInv, [Next]_vars PROVE LastInv'
  OBVIOUS
<1> USE DEF Typed, LastInv, Latest, worldVars, editorVars
<1>1. CASE TypeText \/ Reload \/ Overwrite \/ UNCHANGED vars
  BY <1>1 DEF TypeText, Reload, Overwrite, vars
<1>2. CASE Save
  BY <1>2, AppendProperties DEF Save
<1>3. CASE Receive
  <2>1. content' = Head(inbox) /\ inbox' = Tail(inbox) /\ sent' = sent /\ pc' # "idle" /\ inbox # << >>
    BY <1>3 DEF Receive
  <2>2. /\ Tail(inbox) # << >> => Tail(inbox)[Len(Tail(inbox))] = inbox[Len(inbox)]
        /\ Tail(inbox) = << >> => Head(inbox) = inbox[Len(inbox)]
    BY <2>1, TailKeepsLast
  <2> QED
    BY <2>1, <2>2
<1>4. CASE FormatFails
  BY <1>4 DEF FormatFails, Return
<1>5. CASE Truncate
  BY <1>5 DEF Truncate
<1>6. CASE Write
  BY <1>6, FormattedIsText DEF Write, Return
<1>7. CASE WriteFails
  BY <1>7 DEF WriteFails, Return
<1>8. CASE Kill
  BY <1>8 DEF Kill
<1> QED
  BY <1>1, <1>2, <1>3, <1>4, <1>5, <1>6, <1>7, <1>8 DEF Next, Server

\* However far the server lags behind the user, and however formatting and
\* writing end, the text it analyses once it rests is the last it was sent.
THEOREM KnowsLastSaveAlways == Spec => []KnowsLastSave
<1>1. Init => LastInv
  BY DEF Init, LastInv, Latest
<1>2. LastInv => KnowsLastSave
  BY DEF LastInv, Latest, KnowsLastSave, Resting
<1> QED
  BY <1>1, <1>2, InitTyped, NextTyped, NextLastInv, PTL DEF Spec

----------------------------------------------------------------------------
(* A user who waits. *)

\* The editor's half: while the user has unsaved edits the server rests, and
\* they are edits of the file.
EditorHalf ==
  /\ ~dirty => text = seen
  /\ dirty => Resting /\ seen = disk /\ saved \subseteq text.edits

\* The server's half: it works on the file as the user saved it.
ServerHalf ==
  /\ inbox # << >> => pc = "idle" /\ inbox = <<disk>>
  /\ pc = "format" => content = disk
  /\ IF pc = "write" THEN saved \subseteq content.edits ELSE saved \subseteq disk.edits
  /\ (Resting /\ saves > 0) => known = disk

PatientInv == (patient /\ ~cutOff) => EditorHalf /\ ServerHalf

\* At most one save is under way, and nothing is typed until the file is
\* formatted and loaded.
LEMMA NextPatientInv == Typed /\ PatientInv /\ [Next]_vars => PatientInv'
<1> SUFFICES ASSUME Typed, PatientInv, [Next]_vars, patient, ~cutOff'
             PROVE  EditorHalf' /\ ServerHalf'
  <2>1. ASSUME [Next]_vars PROVE patient' = patient
    BY <2>1 DEF Next, Server, vars, worldVars, TypeText, Save, Reload, Overwrite, Receive, FormatFails, Truncate, Write, WriteFails, Kill
  <2> QED
    BY <2>1, Zenon DEF PatientInv
<1>0. EditorHalf /\ ServerHalf
  <2>1. ~cutOff' => ~cutOff
    BY DEF Typed, Next, Server, vars, worldVars, TypeText, Save, Reload, Overwrite, Receive, FormatFails, Truncate, Write, WriteFails, Kill
  <2> QED
    BY <2>1 DEF PatientInv
<1> USE <1>0 DEF Typed, EditorHalf, ServerHalf, Resting, worldVars, editorVars
<1>1. CASE TypeText
  BY <1>1 DEF TypeText, MayGoOn
<1>2. CASE Save
  <2>1. inbox = << >> /\ pc = "idle" /\ saved \subseteq text.edits
    BY <1>2 DEF Save, MayGoOn
  <2>2. inbox' = <<text>> /\ disk' = text /\ seen' = text /\ text' = text /\ pc' = "idle" /\ ~dirty'
    BY <1>2, <2>1 DEF Save
  <2>3. saved' \subseteq disk'.edits
    BY <1>2, <2>1, <2>2 DEF Save
  <2> QED
    BY <2>2, <2>3
<1>3. CASE Reload
  BY <1>3 DEF Reload
<1>4. CASE Overwrite
  BY <1>4 DEF Overwrite
<1>5. CASE Receive
  BY <1>5 DEF Receive
<1>6. CASE FormatFails
  BY <1>6 DEF FormatFails, Return
<1>7. CASE Truncate
  BY <1>7 DEF Truncate
<1>8. CASE Write
  BY <1>8, FormattedIsText DEF Write, Return
<1>9. CASE WriteFails
  BY <1>9 DEF WriteFails
<1>10. CASE Kill
  BY <1>10 DEF Kill
<1>11. CASE UNCHANGED vars
  BY <1>11 DEF vars
<1> QED
  BY <1>1, <1>2, <1>3, <1>4, <1>5, <1>6, <1>7, <1>8, <1>9, <1>10, <1>11 DEF Next, Server

\* It is an invariant.
LEMMA PatientInvAlways == Spec => []PatientInv
<1>1. Init => PatientInv
  BY DEF Init, PatientInv, EditorHalf, ServerHalf, Resting, Truncated
<1> QED
  BY <1>1, InitTyped, NextTyped, NextPatientInv, PTL DEF Spec

\* With a user who waits, the text the server analyses once it rests is the
\* file, formatted or not.
THEOREM KnowsTheFileAlways == Spec => []KnowsTheFile
<1>1. PatientInv => KnowsTheFile
  BY DEF PatientInv, ServerHalf, KnowsTheFile, Undisturbed
<1> QED
  BY <1>1, PatientInvAlways, PTL

\* And no edit which that user has saved is lost from the file by formatting.
THEOREM SavedStaysAlways == Spec => []SavedStays
<1>1. PatientInv => SavedStays
  BY DEF PatientInv, ServerHalf, SavedStays, Undisturbed, Resting
<1> QED
  BY <1>1, PatientInvAlways, PTL

----------------------------------------------------------------------------
(* The commands that generate specifications. *)

\* To a user who waits nothing else is under way with a request.
WaitInv ==
  patient =>
    /\ Len(inbox) <= 1
    /\ pc # "idle" \/ due \/ ~Unasked => inbox = << >>
    /\ due \/ ~Unasked => pc = "idle"
    /\ ~Unasked => ~due /\ seen = disk
    /\ step # "idle" => ask = "file"

\* Steps of the composition are steps of FormatOnSave: an insertion is typed by
\* the extension, and the rest of it concerns other files.
LEMMA RequestStep == WaitInv /\ [RequestsNext]_specVars => [Next]_vars
<1> SUFFICES ASSUME WaitInv, RequestsNext PROVE [Next]_vars
  BY DEF specVars
<1>1. CASE Edit \/ Follow
  BY <1>1 DEF Edit, Follow, Next
<1>2. CASE Insert
  <2>1. MayGoOn
    BY <1>2 DEF Insert, WaitInv, MayGoOn, Unasked, Answered
  <2>2. CASE active /\ edits < MaxEdits
    BY <1>2, <2>1, <2>2 DEF Insert, TypeText, Next, worldVars
  <2>3. CASE ~(active /\ edits < MaxEdits)
    BY <1>2, <2>3 DEF Insert, vars, worldVars, editorVars
  <2> QED
    BY <2>2, <2>3
<1>3. CASE ReceiveSave \/ Format \/ KillServer
  BY <1>3 DEF ReceiveSave, Format, KillServer, Next, Server
<1>4. CASE \/ SwitchEditor \/ WriteOwnSpec \/ \E kind \in {"file", "sel"} : Ask(kind)
           \/ Open \/ ShowError \/ UpdateDefs
           \/ OnGenerateSpecSel \/ OnGenerateSpecFile \/ CreateFile \/ FillFile \/ WriteFileFails
  BY <1>4 DEF SwitchEditor, WriteOwnSpec, Ask, Open, ShowError, UpdateDefs, OnGenerateSpecSel,
              OnGenerateSpecFile, CreateFile, FillFile, WriteFileFails
<1> QED
  BY <1>1, <1>2, <1>3, <1>4 DEF RequestsNext

LEMMA NextWaitInv == Typed /\ WaitInv /\ [RequestsNext]_specVars => WaitInv'
<1> SUFFICES ASSUME Typed, WaitInv, [RequestsNext]_specVars, patient' PROVE WaitInv'
  BY DEF WaitInv
<1>0. patient
  BY RequestStep DEF Next, Server, vars, worldVars, TypeText, Save, Reload, Overwrite, Receive,
                     FormatFails, Truncate, Write, WriteFails, Kill
<1> DEFINE P == /\ Len(inbox) <= 1
                /\ pc # "idle" \/ due \/ ~Unasked => inbox = << >>
                /\ due \/ ~Unasked => pc = "idle"
                /\ ~Unasked => ~due /\ seen = disk
                /\ step # "idle" => ask = "file"
<1>p. P
  BY <1>0 DEF WaitInv
<1>s. SUFFICES P'
  BY DEF WaitInv
<1> USE <1>0, <1>p DEF vars, requestVars, worldVars, editorVars
<1>1. CASE Edit /\ TypeText
  BY <1>1 DEF Edit, TypeText, Unasked, Answered
<1>2. CASE Edit /\ Save
  <2>1. Unasked /\ Idle /\ inbox = << >>
    BY <1>2 DEF Edit, MayDo, Save, MayGoOn
  <2>2. inbox' = <<text>> /\ pc' = "idle" /\ ~due' /\ Unasked' /\ step' = "idle"
    BY <1>2, <2>1 DEF Edit, Save, Idle, Unasked, Answered
  <2> QED
    BY <2>2
<1>3. CASE Edit /\ Overwrite
  BY <1>3 DEF Edit, Overwrite, Unasked, Answered
<1>4. CASE Follow
  BY <1>4 DEF Follow, Reload, Unasked, Answered
<1>5. CASE SwitchEditor \/ WriteOwnSpec \/ Open \/ ShowError \/ UpdateDefs \/ CreateFile
  BY <1>5 DEF SwitchEditor, WriteOwnSpec, Open, ShowError, UpdateDefs, CreateFile, Unasked, Answered
<1>6. ASSUME NEW kind \in {"file", "sel"}, Ask(kind) PROVE P'
  BY <1>6 DEF Ask, MayDo, MayGoOn, Idle, Unasked, Answered
<1>7. CASE Insert
  BY <1>7 DEF Insert, Unasked, Answered
<1>8. CASE ReceiveSave
  <2>1. Unasked /\ inbox # << >>
    BY <1>8 DEF ReceiveSave, Receive
  <2>2. inbox' = Tail(inbox) /\ inbox \in Seq(TextUpTo(edits)) /\ Len(inbox) \in Nat
    BY <1>8, <2>1 DEF ReceiveSave, Receive, Typed
  <2>3. Len(inbox) = 1
    <3>1. Len(inbox) # 0
      BY <2>1, <2>2, EmptySeq
    <3>2. Len(inbox) <= 1 /\ Len(inbox) \in Nat
      BY <2>2
    <3> HIDE <1>p DEF P
    <3> QED
      BY <3>1, <3>2
  <2>4. inbox' \in Seq(TextUpTo(edits)) /\ Len(inbox') = 0
    BY <2>1, <2>2, <2>3, HeadTailProperties
  <2>5. inbox' = << >>
    BY <2>4, EmptySeq
  <2> QED
    BY <1>8, <2>1, <2>4, <2>5 DEF ReceiveSave, Receive, Idle, Unasked, Answered
<1>9. CASE Format
  <2>1. pc # "idle" /\ Unasked /\ inbox = << >>
    BY <1>9 DEF Format, Truncate, FormatFails, Write, WriteFails
  <2>2. inbox' = inbox /\ Unasked' /\ due' = (pc' = "idle") /\ step' = "idle"
    BY <1>9, <2>1 DEF Format, Truncate, FormatFails, Write, WriteFails, Unasked, Answered
  <2> QED
    BY <2>1, <2>2
<1>10. CASE OnGenerateSpecSel \/ OnGenerateSpecFile
  BY <1>10 DEF OnGenerateSpecSel, OnGenerateSpecFile, Handle, Idle, Unasked
<1>11. CASE FillFile \/ WriteFileFails
  BY <1>11 DEF FillFile, WriteFileFails, Unasked
<1>12. CASE KillServer
  BY <1>12 DEF KillServer, Kill, Unasked
<1>13. CASE UNCHANGED specVars
  BY <1>13 DEF specVars, Unasked, Answered
<1> QED
  BY <1>1, <1>2, <1>3, <1>4, <1>5, <1>6, <1>7, <1>8, <1>9, <1>10, <1>11, <1>12, <1>13
     DEF RequestsNext, Edit

\* The composition implements FormatOnSave, whose theorems hold of it.
THEOREM RequestsImplementFormat == RequestsSpec => Spec
<1>1. RequestsInit => Init /\ WaitInv
  BY EmptySeq DEF RequestsInit, Init, WaitInv, Unasked, Answered
<1> QED
  BY <1>1, InitTyped, NextTyped, NextWaitInv, RequestStep, PTL DEF RequestsSpec, Spec

\* When such a user's file rests the project is built from it, and what is
\* computed for him is computed in it.
PlaceInv ==
  patient /\ ~cutOff =>
    /\ Resting /\ ~due => env = disk
    /\ ask = "sel" \/ reply.kind = "insert" => active
    /\ reply.kind = "insert" => reply.place = env
    /\ ask # "none" => reply = Answered("none")

LEMMA NextPlaceInv == Typed /\ WaitInv /\ PlaceInv /\ [RequestsNext]_specVars => PlaceInv'
<1> SUFFICES ASSUME Typed, WaitInv, PlaceInv, [RequestsNext]_specVars, patient', ~cutOff'
             PROVE  PlaceInv'
  BY DEF PlaceInv
<1>0. patient /\ ~cutOff
  BY RequestStep DEF Typed, Next, Server, vars, worldVars, TypeText, Save, Reload, Overwrite, Receive,
                     FormatFails, Truncate, Write, WriteFails, Kill
<1> USE <1>0 DEF PlaceInv, WaitInv, Resting, Unasked, Answered, vars, requestVars, worldVars, editorVars
<1>1. CASE Edit
  BY <1>1 DEF Edit, TypeText, Save, Overwrite
<1>2. CASE Follow \/ WriteOwnSpec \/ CreateFile \/ UpdateDefs
  BY <1>2 DEF Follow, Reload, WriteOwnSpec, CreateFile, UpdateDefs
<1>3. CASE SwitchEditor
  BY <1>3 DEF SwitchEditor, MayDo
<1>4. ASSUME NEW kind \in {"file", "sel"}, Ask(kind) PROVE PlaceInv'
  <2>1. reply' = Answered("none") /\ active'
    BY <1>4 DEF Ask
  <2>2. UNCHANGED <<inbox, pc, due, env, disk>>
    BY <1>4 DEF Ask
  <2> QED
    BY <2>1, <2>2
<1>5. CASE Insert \/ Open \/ ShowError
  BY <1>5 DEF Insert, Open, ShowError
<1>6. CASE ReceiveSave
  BY <1>6 DEF ReceiveSave, Receive
<1>7. CASE Format
  BY <1>7 DEF Format, Truncate, FormatFails, Write, WriteFails, Return
<1>8. CASE OnGenerateSpecSel
  BY <1>8 DEF OnGenerateSpecSel, Handle, Answer
<1>9. CASE OnGenerateSpecFile \/ FillFile \/ WriteFileFails
  BY <1>9 DEF OnGenerateSpecFile, FillFile, WriteFileFails, Answer
<1>10. CASE KillServer
  BY <1>10 DEF KillServer, Kill
<1>11. CASE UNCHANGED specVars
  BY <1>11 DEF specVars
<1> QED
  BY <1>1, <1>2, <1>3, <1>4, <1>5, <1>6, <1>7, <1>8, <1>9, <1>10, <1>11 DEF RequestsNext

\* To a user who waits, a specification lands in the document and at the place
\* it was asked for, whatever the formatter made of the save before.
THEOREM InsertedWhereAskedAlways == RequestsSpec => InsertedWhereAsked
<1>1. RequestsInit => Init /\ WaitInv /\ PlaceInv
  BY EmptySeq DEF RequestsInit, Init, WaitInv, PlaceInv, Unasked, Answered
<1>2. /\ PatientInv /\ WaitInv /\ PlaceInv /\ [RequestsNext]_specVars
      => [Insert /\ patient /\ ~cutOff /\ ~dirty => active /\ reply.place = text]_specVars
  <2> SUFFICES ASSUME PatientInv, WaitInv, PlaceInv, Insert, patient, ~cutOff, ~dirty
               PROVE  active /\ reply.place = text
    OBVIOUS
  <2>1. reply.kind = "insert" /\ ~Unasked
    BY DEF Insert, Unasked, Answered
  <2>2. Resting /\ ~due /\ seen = disk
    BY <2>1 DEF WaitInv, Resting
  <2>3. text = seen
    BY DEF PatientInv, EditorHalf
  <2> QED
    BY <2>1, <2>2, <2>3 DEF PlaceInv
<1> QED
  BY <1>1, <1>2, InitTyped, NextTyped, NextWaitInv, NextPlaceInv, RequestStep, RequestsImplementFormat,
     PatientInvAlways, PTL DEF RequestsSpec, InsertedWhereAsked

\* While the server writes a specification file it is the only one to answer,
\* and what it answers with is whole.
FileInv ==
  /\ ask # "none" => reply = Answered("none")
  /\ step # "idle" => ask = "file"
  /\ patient /\ step = "generate" => specFile = "absent"
  /\ step = "write" => specFile = "empty"
  /\ reply.kind = "opened" => specFile # "empty"

LEMMA NextFileInv == FileInv /\ [RequestsNext]_specVars => FileInv'
<1> SUFFICES ASSUME FileInv, [RequestsNext]_specVars PROVE FileInv'
  OBVIOUS
<1> USE DEF FileInv, Answered, vars, requestVars, worldVars, editorVars
<1>1. CASE Edit \/ Follow
  BY <1>1 DEF Edit, Follow, TypeText, Save, Overwrite, Reload
<1>2. CASE SwitchEditor \/ UpdateDefs
  BY <1>2 DEF SwitchEditor, UpdateDefs
<1>3. CASE WriteOwnSpec
  BY <1>3 DEF WriteOwnSpec, MayDo, Idle
<1>4. ASSUME NEW kind \in {"file", "sel"}, Ask(kind) PROVE FileInv'
  <2>1. reply = Answered("none") /\ reply' = reply /\ ask = "none" /\ step' = step /\ step = "idle"
    BY <1>4 DEF Ask, Unasked
  <2> QED
    BY <2>1
<1>5. CASE Insert \/ Open \/ ShowError
  BY <1>5 DEF Insert, Open, ShowError
<1>6. CASE ReceiveSave
  BY <1>6 DEF ReceiveSave, Receive
<1>7. CASE Format
  BY <1>7 DEF Format, Truncate, FormatFails, Write, WriteFails
<1>8. CASE OnGenerateSpecSel
  BY <1>8 DEF OnGenerateSpecSel, Handle, Idle, Answer
<1>9. CASE OnGenerateSpecFile
  BY <1>9 DEF OnGenerateSpecFile, Handle, Idle, Answer
<1>10. CASE CreateFile \/ FillFile \/ WriteFileFails
  BY <1>10 DEF CreateFile, FillFile, WriteFileFails, Answer
<1>11. CASE KillServer
  BY <1>11 DEF KillServer, Kill
<1>12. CASE UNCHANGED specVars
  BY <1>12 DEF specVars
<1> QED
  BY <1>1, <1>2, <1>3, <1>4, <1>5, <1>6, <1>7, <1>8, <1>9, <1>10, <1>11, <1>12 DEF RequestsNext

\* A specification file is never opened half written, and one that a user who
\* waits has written in is never replaced by a generated one.
THEOREM OwnSpecStaysAlways == RequestsSpec => OwnSpecStays
<1>1. RequestsInit => FileInv
  BY DEF RequestsInit, FileInv, Answered
<1>2. FileInv /\ [RequestsNext]_specVars
      => [/\ patient /\ specFile = "own" => specFile' = "own"
          /\ Open => specFile # "empty"]_specVars
  <2> SUFFICES ASSUME FileInv, RequestsNext
               PROVE  /\ patient /\ specFile = "own" => specFile' = "own"
                      /\ Open => specFile # "empty"
    OBVIOUS
  <2>1. ASSUME patient, specFile = "own" PROVE specFile' = "own"
    BY <2>1 DEF FileInv, RequestsNext, requestVars, Edit, Follow, SwitchEditor, WriteOwnSpec, Ask, Insert,
                Open, ShowError, ReceiveSave, Format, UpdateDefs, OnGenerateSpecSel,
                OnGenerateSpecFile, CreateFile, FillFile, WriteFileFails, KillServer
  <2>2. ASSUME Open PROVE specFile # "empty"
    BY <2>2 DEF Open, FileInv
  <2> QED
    BY <2>1, <2>2
<1> QED
  BY <1>1, <1>2, NextFileInv, PTL DEF RequestsSpec, OwnSpecStays
====
