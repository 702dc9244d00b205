---- MODULE LspSessionProofs ----
(***************************************************************************)
(* Proofs about LspSession, for any requests and any number of changes of  *)
(* the settings.                                                           *)
(***************************************************************************)
EXTENDS LspSession, SequenceTheorems, WellFoundedInduction, TLAPS

Answer == {"result", "error"}

Requests(ts) == {i \in DOMAIN ts : ts[i].kind \in Kind}
Answers(tc) == {i \in DOMAIN tc : tc[i].kind \in Answer}

\* In the channels ts and tc a request is in one place, on its way to the
\* server or answered, and is among those that the client waits for, w.
OnePlace(ts, tc, w) ==
  /\ \A i \in Requests(ts) : ts[i].id \in w
  /\ \A i, j \in Requests(ts) : ts[i].id = ts[j].id => i = j
  /\ \A i \in Answers(tc) : tc[i].id \in w
  /\ \A i, j \in Answers(tc) : tc[i].id = tc[j].id => i = j
  /\ \A i \in Requests(ts), j \in Answers(tc) : ts[i].id # tc[j].id

Typed ==
  /\ settings \subseteq Feature /\ config \subseteq Feature
  /\ changes \in 0..MaxChanges
  /\ toServer \in Seq(ClientMessage)
  /\ toClient \in Seq(ServerMessage)
  /\ registered \subseteq Feature
  /\ waiting \subseteq asked /\ asked \subseteq Id
  /\ client \in {"up", "leaving", "gone"}
  /\ process \in {"starting", "loop", "joining", "ended"}
  /\ writing \in BOOLEAN

Inv == Typed /\ OnePlace(toServer, toClient, waiting)

----------------------------------------------------------------------------
(* Messages and sequences of them. *)

\* What can be told of a message by its kind.
LEMMA ClientMessageKinds ==
  ASSUME NEW m \in ClientMessage
  PROVE  /\ m.kind \in Kind => m.id \in Id
         /\ m.kind = "config" => m.feature \in Feature /\ m.enable \in BOOLEAN
         /\ m.kind \in Kind \cup {"config", "response", "cancel", "exit"}
BY DEF ClientMessage, ConfigMessage, AskMessage, SilentMessage, Kind

LEMMA ServerMessageKinds ==
  ASSUME NEW m \in ServerMessage
  PROVE  /\ m.kind \in Answer => m.id \in Id
         /\ m.kind \in {"register", "unregister"} => m.feature \in Feature
         /\ m.kind \in Answer \/ m.kind \in {"register", "unregister"}
BY DEF ServerMessage, Answer

\* The elements of a sequence after Append and after Tail.
LEMMA AppendElements ==
  ASSUME NEW S, NEW q \in Seq(S), NEW e \in S
  PROVE  /\ Append(q, e) \in Seq(S)
         /\ \A i \in DOMAIN Append(q, e) :
              \/ i \in DOMAIN q /\ Append(q, e)[i] = q[i]
              \/ i = Len(q) + 1 /\ Append(q, e)[i] = e
         /\ Len(q) + 1 \notin DOMAIN q
OBVIOUS

LEMMA TailElements ==
  ASSUME NEW S, NEW q \in Seq(S), q # << >>
  PROVE  /\ Tail(q) \in Seq(S) /\ Head(q) \in S /\ Head(q) = q[1] /\ 1 \in DOMAIN q
         /\ \A i \in DOMAIN Tail(q) : i \in Nat /\ i + 1 \in DOMAIN q /\ i + 1 # 1 /\ Tail(q)[i] = q[i + 1]
<1>1. Len(q) \in Nat /\ Len(q) # 0
  BY EmptySeq
<1>2. Tail(q) \in Seq(S) /\ Head(q) \in S /\ Len(Tail(q)) = Len(q) - 1
  BY HeadTailProperties
<1>3. \A i \in 1..Len(Tail(q)) : Tail(q)[i] = q[i + 1]
  BY HeadTailProperties
<1>4. DOMAIN Tail(q) = 1..Len(Tail(q)) /\ DOMAIN q = 1..Len(q)
  BY <1>2, LenProperties
<1> QED
  BY <1>1, <1>2, <1>3, <1>4

\* A handler sends one answer or none.
LEMMA RepliesShort ==
  ASSUME NEW kind \in Kind, NEW reply \in Replies(kind)
  PROVE  reply = << >> \/ \E a \in Answer : reply = <<a>>
BY DEF Kind, Replies, Answer, Unanswered, on_go_to_def_request, on_references_request, on_hover_request,
       on_inlay_hints, on_document_symbol_request, on_completion_request, on_movefmt_request,
       on_generate_spec_file, on_generate_spec_sel

----------------------------------------------------------------------------
(* How the steps move a request from place to place. *)

\* A channel to the server that has lost requests at its head, or none.
LEMMA FewerRequests ==
  ASSUME NEW ts, NEW tc, NEW w, OnePlace(ts, tc, w), NEW k \in {0, 1}, NEW later,
         \A i \in Requests(later) : i \in Nat /\ i + k \in Requests(ts) /\ later[i] = ts[i + k]
  PROVE  OnePlace(later, tc, w)
<1>1. \A i \in Requests(later) : later[i].id \in w
  BY DEF OnePlace
<1>2. ASSUME NEW i \in Requests(later), NEW j \in Requests(later), later[i].id = later[j].id
      PROVE  i = j
  <2>1. i \in Nat /\ j \in Nat /\ i + k = j + k
    BY <1>2 DEF OnePlace
  <2> QED
    BY <2>1
<1>3. \A i \in Requests(later), j \in Answers(tc) : later[i].id # tc[j].id
  BY DEF OnePlace
<1> QED
  BY <1>1, <1>2, <1>3 DEF OnePlace

\* A channel to the client that has lost answers at its head, or none.
LEMMA FewerAnswers ==
  ASSUME NEW ts, NEW tc, NEW w, OnePlace(ts, tc, w), NEW k \in {0, 1}, NEW later,
         \A i \in Answers(later) : i \in Nat /\ i + k \in Answers(tc) /\ later[i] = tc[i + k]
  PROVE  OnePlace(ts, later, w)
<1>1. \A i \in Answers(later) : later[i].id \in w
  BY DEF OnePlace
<1>2. ASSUME NEW i \in Answers(later), NEW j \in Answers(later), later[i].id = later[j].id
      PROVE  i = j
  <2>1. i \in Nat /\ j \in Nat /\ i + k = j + k
    BY <1>2 DEF OnePlace
  <2> QED
    BY <2>1
<1>3. \A i \in Requests(ts), j \in Answers(later) : ts[i].id # later[j].id
  BY DEF OnePlace
<1> QED
  BY <1>1, <1>2, <1>3 DEF OnePlace

\* Another message to the server, or a request of the server, changes nothing.
LEMMA SendOther ==
  ASSUME NEW ts \in Seq(ClientMessage), NEW tc, NEW w, OnePlace(ts, tc, w),
         NEW e \in ClientMessage, e.kind \notin Kind
  PROVE  OnePlace(Append(ts, e), tc, w)
<1>1. \A i \in Requests(Append(ts, e)) : i \in Nat /\ i \in Requests(ts) /\ Append(ts, e)[i] = ts[i]
  BY AppendElements DEF Requests
<1>2. \A i \in Nat : i + 0 = i
  OBVIOUS
<1>3. \A i \in Requests(Append(ts, e)) : i \in Nat /\ i + 0 \in Requests(ts) /\ Append(ts, e)[i] = ts[i + 0]
  BY <1>1, <1>2, Zenon
<1> QED
  BY <1>3, FewerRequests

LEMMA ServerAsks ==
  ASSUME NEW ts, NEW tc \in Seq(ServerMessage), NEW w, OnePlace(ts, tc, w),
         NEW e \in ServerMessage, e.kind \notin Answer
  PROVE  OnePlace(ts, Append(tc, e), w)
<1>1. \A i \in Answers(Append(tc, e)) : i \in Nat /\ i \in Answers(tc) /\ Append(tc, e)[i] = tc[i]
  BY AppendElements DEF Answers
<1>2. \A i \in Nat : i + 0 = i
  OBVIOUS
<1>3. \A i \in Answers(Append(tc, e)) : i \in Nat /\ i + 0 \in Answers(tc) /\ Append(tc, e)[i] = tc[i + 0]
  BY <1>1, <1>2, Zenon
<1> QED
  BY <1>3, FewerAnswers

\* A message that the server takes leaves the channel.
LEMMA ServerTakes ==
  ASSUME NEW ts \in Seq(ClientMessage), ts # << >>, NEW tc, NEW w, OnePlace(ts, tc, w)
  PROVE  OnePlace(Tail(ts), tc, w)
<1>1. \A i \in Requests(Tail(ts)) : i \in Nat /\ i + 1 \in Requests(ts) /\ Tail(ts)[i] = ts[i + 1]
  BY TailElements DEF Requests
<1> QED
  BY <1>1, FewerRequests

\* A new request is waited for.
LEMMA OneMoreRequest ==
  ASSUME NEW ts, NEW tc, NEW w, OnePlace(ts, tc, w), NEW e, e.id \notin w, NEW later,
         \A i \in Requests(later) :
           (i \in Requests(ts) /\ later[i] = ts[i]) \/ (i = Len(ts) + 1 /\ later[i] = e)
  PROVE  OnePlace(later, tc, w \cup {e.id})
BY DEF OnePlace

LEMMA SendRequest ==
  ASSUME NEW ts \in Seq(ClientMessage), NEW tc, NEW w, OnePlace(ts, tc, w),
         NEW e \in ClientMessage, e.id \notin w
  PROVE  OnePlace(Append(ts, e), tc, w \cup {e.id})
<1>1. \A i \in Requests(Append(ts, e)) :
        \/ i \in Requests(ts) /\ Append(ts, e)[i] = ts[i]
        \/ i = Len(ts) + 1 /\ Append(ts, e)[i] = e
  BY AppendElements DEF Requests
<1> QED
  BY <1>1, OneMoreRequest, Zenon

\* An answer takes the place of its request.
LEMMA OneMoreAnswer ==
  ASSUME NEW ts, NEW tc, NEW w, OnePlace(ts, tc, w), NEW e, e.id \in w, NEW later,
         \A i \in Requests(ts) : ts[i].id # e.id,
         \A i \in Answers(tc) : tc[i].id # e.id,
         \A i \in Answers(later) :
           (i \in Answers(tc) /\ later[i] = tc[i]) \/ (i = Len(tc) + 1 /\ later[i] = e)
  PROVE  OnePlace(ts, later, w)
BY DEF OnePlace

LEMMA ServerAnswers ==
  ASSUME NEW ts \in Seq(ClientMessage), ts # << >>, Head(ts).kind \in Kind,
         NEW tc \in Seq(ServerMessage), NEW w, OnePlace(ts, tc, w),
         NEW e \in ServerMessage, e.id = Head(ts).id
  PROVE  OnePlace(Tail(ts), Append(tc, e), w)
<1>1. \A i \in Answers(Append(tc, e)) :
        \/ i \in Answers(tc) /\ Append(tc, e)[i] = tc[i]
        \/ i = Len(tc) + 1 /\ Append(tc, e)[i] = e
  BY AppendElements DEF Answers
<1>2. OnePlace(Tail(ts), tc, w)
  BY ServerTakes
<1>3. 1 \in Requests(ts) /\ Head(ts) = ts[1]
  BY TailElements DEF Requests
<1>4. \A i \in Requests(Tail(ts)) : i + 1 \in Requests(ts) /\ i + 1 # 1 /\ Tail(ts)[i] = ts[i + 1]
  BY TailElements DEF Requests
<1>5. \A i \in Requests(ts) : i # 1 => ts[i].id # e.id
  BY <1>3 DEF OnePlace
<1>6. \A i \in Requests(Tail(ts)) : Tail(ts)[i].id # e.id
  BY <1>4, <1>5, Zenon
<1>7. e.id \in w /\ \A i \in Answers(tc) : tc[i].id # e.id
  BY <1>3 DEF OnePlace
<1> DEFINE left == Tail(ts)
           more == Append(tc, e)
<1>8. OnePlace(left, tc, w) /\ \A i \in Requests(left) : left[i].id # e.id
  BY <1>2, <1>6
<1>9. \A i \in Answers(more) : (i \in Answers(tc) /\ more[i] = tc[i]) \/ (i = Len(tc) + 1 /\ more[i] = e)
  BY <1>1
<1> HIDE DEF left, more
<1>10. OnePlace(left, more, w)
  BY <1>7, <1>8, <1>9, OneMoreAnswer
<1> QED
  BY <1>10 DEF left, more

\* The client takes an answer and stops waiting, or takes another message.
LEMMA NoLongerWaiting ==
  ASSUME NEW ts, NEW tc, NEW w, OnePlace(ts, tc, w), NEW id,
         \A i \in Requests(ts) : ts[i].id # id,
         \A i \in Answers(tc) : tc[i].id # id
  PROVE  OnePlace(ts, tc, w \ {id})
BY DEF OnePlace

LEMMA ClientTakes ==
  ASSUME NEW ts, NEW tc \in Seq(ServerMessage), tc # << >>, NEW w, OnePlace(ts, tc, w)
  PROVE  /\ OnePlace(ts, Tail(tc), w)
         /\ Head(tc).kind \in Answer => OnePlace(ts, Tail(tc), w \ {Head(tc).id})
<1>1. \A i \in Answers(Tail(tc)) :
        i \in Nat /\ i + 1 \in Answers(tc) /\ i + 1 # 1 /\ Tail(tc)[i] = tc[i + 1]
  BY TailElements DEF Answers
<1>2. OnePlace(ts, Tail(tc), w)
  BY <1>1, FewerAnswers
<1>3. ASSUME Head(tc).kind \in Answer PROVE OnePlace(ts, Tail(tc), w \ {Head(tc).id})
  <2>1. 1 \in Answers(tc) /\ Head(tc) = tc[1]
    BY <1>3, TailElements DEF Answers
  <2>2. \A i \in Answers(tc) : i # 1 => tc[i].id # Head(tc).id
    BY <2>1 DEF OnePlace
  <2>3. \A i \in Answers(Tail(tc)) : Tail(tc)[i].id # Head(tc).id
    BY <1>1, <2>2, Zenon
  <2>4. \A i \in Requests(ts) : ts[i].id # Head(tc).id
    BY <2>1 DEF OnePlace
  <2> QED
    BY <1>2, <2>3, <2>4, NoLongerWaiting
<1> QED
  BY <1>2, <1>3

----------------------------------------------------------------------------
(* The invariant. *)

\* At first only configurations are under way.
LEMMA InitInv == Init => Inv
<1> SUFFICES ASSUME Init PROVE Inv
  OBVIOUS
<1> USE DEF Init
<1>1. /\ Configuration("inlay", settings) \in ConfigMessage
      /\ Configuration("fmt", settings) \in ConfigMessage
  BY DEF Configuration, ConfigMessage, Feature
<1>2. toServer \in Seq(ClientMessage) /\ toServer \in Seq(ConfigMessage)
  BY <1>1 DEF ConfigMessages, ClientMessage
<1>3. Requests(toServer) = {}
  <2>1. \A m \in ConfigMessage : m.kind \notin Kind
    BY DEF ConfigMessage, Kind
  <2>2. \A i \in DOMAIN toServer : toServer[i] \in ConfigMessage
    BY <1>2, LenProperties, ElementOfSeq
  <2> QED
    BY <2>1, <2>2 DEF Requests
<1>4. Answers(toClient) = {}
  BY DEF Answers
<1>5. Typed
  BY <1>2, ConstantsAssumption DEF Typed
<1> QED
  BY <1>3, <1>4, <1>5 DEF Inv, OnePlace

\* Every step keeps a request in one place.
LEMMA NextInv == Inv /\ [Next]_vars => Inv'
<1> SUFFICES ASSUME Inv, [Next]_vars PROVE Inv'
  OBVIOUS
<1> USE DEF Inv, Typed, lifeVars
<1>1. CASE ChangeSettings
  <2> DEFINE a == Configuration("inlay", settings')
             b == Configuration("fmt", settings')
  <2>1. a \in ClientMessage /\ b \in ClientMessage /\ a.kind \notin Kind /\ b.kind \notin Kind
    BY DEF Configuration, ClientMessage, ConfigMessage, Feature, Kind
  <2>2. toServer' = Append(Append(toServer, a), b)
    BY <1>1, <2>1 DEF ChangeSettings, ConfigMessages
  <2> HIDE DEF a, b
  <2>3. Append(toServer, a) \in Seq(ClientMessage) /\ toServer' \in Seq(ClientMessage)
    BY <2>1, <2>2
  <2>4. OnePlace(Append(toServer, a), toClient, waiting)
    BY <2>1, SendOther
  <2>5. OnePlace(toServer', toClient, waiting)
    BY <2>1, <2>2, <2>3, <2>4, SendOther
  <2>6. changes' \in 0..MaxChanges /\ settings' \subseteq Feature
    BY <1>1, ConstantsAssumption DEF ChangeSettings
  <2> QED
    BY <1>1, <2>3, <2>5, <2>6 DEF ChangeSettings
<1>2. ASSUME NEW kind \in Made, NEW id \in Id, Ask(kind, id) PROVE Inv'
  <2> DEFINE e == [kind |-> kind, id |-> id]
  <2>1. e \in ClientMessage /\ e.id = id
    BY ConstantsAssumption DEF ClientMessage, AskMessage
  <2>2. toServer' = Append(toServer, e) /\ waiting' = waiting \cup {id} /\ id \notin waiting
    BY <1>2 DEF Ask
  <2> HIDE DEF e
  <2>3. toServer' \in Seq(ClientMessage)
    BY <2>1, <2>2
  <2>4. OnePlace(toServer', toClient, waiting')
    BY <2>1, <2>2, SendRequest
  <2> QED
    BY <1>2, <2>3, <2>4 DEF Ask
<1>3. ASSUME NEW id \in Id, Cancel(id) PROVE Inv'
  <2> DEFINE e == [kind |-> "cancel"]
  <2>1. e \in ClientMessage /\ e.kind \notin Kind
    BY DEF ClientMessage, SilentMessage, Kind
  <2>2. toServer' = Append(toServer, e)
    BY <1>3 DEF Cancel
  <2> HIDE DEF e
  <2>3. toServer' \in Seq(ClientMessage) /\ OnePlace(toServer', toClient, waiting)
    BY <2>1, <2>2, SendOther
  <2> QED
    BY <1>3, <2>3 DEF Cancel
<1>4. CASE ClientReceives
  <2> DEFINE m == Head(toClient)
             e == [kind |-> "response"]
  <2>1. e \in ClientMessage /\ e.kind \notin Kind
    BY DEF ClientMessage, SilentMessage, Kind
  <2>2. m \in ServerMessage /\ toClient' = Tail(toClient) /\ toClient' \in Seq(ServerMessage) /\ toClient # << >>
    BY <1>4, TailElements DEF ClientReceives
  <2>3. CASE m.kind \in {"register", "unregister"}
    <3>1. toServer' = Append(toServer, e) /\ waiting' = waiting
      BY <1>4, <2>3 DEF ClientReceives
    <3>2. registered' \subseteq Feature
      <4>1. m.feature \in Feature
        BY <2>2, <2>3, ServerMessageKinds
      <4>2. registered' \in {registered \cup {m.feature}, registered \ {m.feature}}
        BY <1>4, <2>3 DEF ClientReceives
      <4> QED
        BY <4>1, <4>2
    <3> HIDE DEF e, m
    <3>3. toServer' \in Seq(ClientMessage)
      BY <2>1, <3>1
    <3>4. OnePlace(toServer, Tail(toClient), waiting)
      BY <2>2, ClientTakes
    <3>5. OnePlace(toServer', toClient', waiting')
      BY <2>1, <2>2, <3>1, <3>4, SendOther
    <3> QED
      BY <1>4, <2>2, <3>1, <3>2, <3>3, <3>5 DEF ClientReceives
  <2>4. CASE m.kind \in Answer
    <3>1. waiting' = waiting \ {m.id} /\ UNCHANGED <<registered, toServer>>
      BY <1>4, <2>4 DEF ClientReceives, Answer
    <3>2. OnePlace(toServer', toClient', waiting')
      BY <2>2, <2>4, <3>1, ClientTakes
    <3> QED
      BY <1>4, <2>2, <3>1, <3>2 DEF ClientReceives
  <2> QED
    BY <2>2, <2>3, <2>4, ServerMessageKinds
<1>5. CASE Configure
  <2> DEFINE m == Head(toServer)
             e == [kind |-> IF m.enable THEN "register" ELSE "unregister", feature |-> m.feature]
  <2>1. toServer # << >> /\ m.kind = "config" /\ toServer' = Tail(toServer)
    BY <1>5 DEF Configure, Receiving
  <2>2. m \in ClientMessage /\ toServer' \in Seq(ClientMessage)
    BY <2>1, TailElements
  <2>3. m.feature \in Feature /\ m.enable \in BOOLEAN
    BY <2>1, <2>2, ClientMessageKinds
  <2>4. e \in ServerMessage /\ e.kind \notin Answer
    BY <2>3 DEF ServerMessage, Answer
  <2>5. OnePlace(toServer', toClient, waiting)
    BY <2>1, ServerTakes
  <2>6. /\ (toClient' = toClient \/ toClient' = Append(toClient, e))
        /\ UNCHANGED <<settings, changes, registered, asked, waiting, client, writing>>
        /\ process' \in {process, "ended"}
    BY <1>5 DEF Configure
  <2>7. config' \subseteq Feature
    BY <1>5, <2>3 DEF Configure
  <2> HIDE DEF e, m
  <2>8. toClient' \in Seq(ServerMessage)
    BY <2>4, <2>6
  <2>9. OnePlace(toServer', Append(toClient, e), waiting)
    BY <2>4, <2>5, ServerAsks
  <2>10. OnePlace(toServer', toClient', waiting)
    BY <2>5, <2>6, <2>9
  <2> QED
    BY <2>2, <2>6, <2>7, <2>8, <2>10
<1>6. CASE OnRequest
  <2> DEFINE m == Head(toServer)
  <2>1. toServer # << >> /\ m.kind \in Kind /\ toServer' = Tail(toServer)
    BY <1>6 DEF OnRequest, Receiving
  <2>2. m \in ClientMessage /\ toServer' \in Seq(ClientMessage)
    BY <2>1, TailElements
  <2>3. m.id \in Id
    BY <2>1, <2>2, ClientMessageKinds
  <2>4. PICK reply \in Replies(m.kind) :
          /\ toClient' = IF writing
               THEN toClient \o [i \in DOMAIN reply |-> [kind |-> reply[i], id |-> m.id]]
               ELSE toClient
          /\ process' \in {process, "ended"}
    BY <1>6 DEF OnRequest
  <2>5. /\ UNCHANGED <<settings, changes, config, registered, asked, waiting, client, writing>>
        /\ process' \in {process, "ended"}
    BY <1>6, <2>4 DEF OnRequest
  <2>6. CASE reply = << >> \/ ~writing
    <3>1. toClient' = toClient
      BY <2>4, <2>6
    <3> QED
      BY <2>1, <2>2, <2>5, <3>1, ServerTakes
  <2>7. ASSUME NEW a \in Answer, reply = <<a>>, writing PROVE Inv'
    <3> DEFINE e == [kind |-> a, id |-> m.id]
    <3>1. e \in ServerMessage /\ e.id = m.id
      BY <2>3 DEF ServerMessage, Answer
    <3>2. [i \in DOMAIN reply |-> [kind |-> reply[i], id |-> m.id]] = <<e>>
      BY <2>7
    <3> HIDE DEF e, m
    <3>3. toClient' = Append(toClient, e) /\ toClient' \in Seq(ServerMessage)
      BY <2>4, <2>7, <3>1, <3>2
    <3>4. OnePlace(toServer', toClient', waiting)
      BY <2>1, <3>1, <3>3, ServerAnswers DEF m
    <3> QED
      BY <2>2, <2>5, <3>3, <3>4
  <2> QED
    BY <2>1, <2>6, <2>7, RepliesShort
<1>7. CASE Ignore
  <2>1. toServer # << >> /\ toServer' = Tail(toServer)
    BY <1>7 DEF Ignore, Receiving
  <2>2. toServer' \in Seq(ClientMessage) /\ OnePlace(toServer', toClient, waiting)
    BY <2>1, TailElements, ServerTakes
  <2> QED
    BY <1>7, <2>2 DEF Ignore
<1>8. CASE Leave
  <2> DEFINE e == [kind |-> "exit"]
  <2>1. e \in ClientMessage /\ e.kind \notin Kind
    BY DEF ClientMessage, SilentMessage, Kind
  <2>2. toServer' = Append(toServer, e)
    BY <1>8 DEF Leave
  <2> HIDE DEF e
  <2>3. toServer' \in Seq(ClientMessage) /\ OnePlace(toServer', toClient, waiting)
    BY <2>1, <2>2, SendOther
  <2> QED
    BY <1>8, <2>3 DEF Leave
<1>9. CASE Exit
  <2>1. toServer # << >> /\ toServer' = Tail(toServer)
    BY <1>9 DEF Exit, Receiving
  <2>2. toServer' \in Seq(ClientMessage) /\ OnePlace(toServer', toClient, waiting)
    BY <2>1, TailElements, ServerTakes
  <2> QED
    BY <1>9, <2>2 DEF Exit
<1>10. CASE WriteFails
  <2>1. toClient' \in Seq(ServerMessage) /\ Answers(toClient') = {}
    BY <1>10 DEF WriteFails, Answers
  <2>2. OnePlace(toServer, toClient', waiting)
    BY <2>1 DEF OnePlace
  <2> QED
    BY <1>10, <2>1, <2>2 DEF WriteFails
<1>11. CASE Initialize \/ Join \/ Close
  BY <1>11 DEF Initialize, Join, Close
<1>12. CASE UNCHANGED vars
  BY <1>12 DEF vars
<1>13. CASE RecvFails
  BY <1>12, <1>13 DEF RecvFails
<1> QED
  BY <1>1, <1>2, <1>3, <1>4, <1>5, <1>6, <1>7, <1>8, <1>9, <1>10, <1>11, <1>12, <1>13 DEF Next, Server

\* It is an invariant.
LEMMA InvAlways == Spec => []Inv
BY InitInv, NextInv, PTL DEF Spec

\* The variables keep their types, and the client waits for the answer to
\* every request that the server has not received yet.
THEOREM TypeCorrect == Spec => []TypeOK
<1>1. Inv => TypeOK
  BY DEF Inv, Typed, TypeOK, OnePlace, Requests
<1> QED
  BY <1>1, InvAlways, PTL

\* Whichever way a handler ends and whatever else is under way, a request gets
\* one answer at most, and the client still waits for it when it comes.
THEOREM OneAnswerAlways == Spec => []OneAnswer
<1>1. Inv => OneAnswer
  BY DEF Inv, OnePlace, OneAnswer, Answers, Answer
<1> QED
  BY <1>1, InvAlways, PTL

----------------------------------------------------------------------------
(* Registrations. *)

Switch == {"register", "unregister"}
Switches(tc, f) == {i \in DOMAIN tc : tc[i].kind \in Switch /\ tc[i].feature = f}

\* Of a feature's switches in the channel, the last one leads to what the server
\* has configured, c; the first one registers nothing that the client has
\* registered, r, and each further one only what the one before it has removed.
Alternate(tc, f, r, c) ==
  /\ Switches(tc, f) = {} => (f \in r <=> f \in c)
  /\ \A i \in Switches(tc, f) :
       (\A j \in Switches(tc, f) : j <= i) => (tc[i].kind = "register" <=> f \in c)
  /\ \A i \in Switches(tc, f) :
       (\A j \in Switches(tc, f) : i <= j) => (tc[i].kind = "register" => f \notin r)
  /\ \A i, j \in Switches(tc, f) :
       j < i /\ (\A l \in Switches(tc, f) : l <= j \/ i <= l) =>
         (tc[i].kind = "register" => tc[j].kind = "unregister")

\* Once a write has failed nothing is under way to the client any more.
SwitchInv ==
  /\ ~writing => toClient = << >>
  /\ writing => \A f \in Feature : Alternate(toClient, f, registered, config)

\* A message that is no switch of the feature changes nothing for it.
LEMMA SameSwitches ==
  ASSUME NEW tc, NEW f, NEW r, NEW c, Alternate(tc, f, r, c), NEW more, NEW rr, NEW cc,
         Switches(more, f) = Switches(tc, f),
         \A i \in Switches(tc, f) : more[i] = tc[i],
         f \in r <=> f \in rr, f \in c <=> f \in cc
  PROVE  Alternate(more, f, rr, cc)
BY DEF Alternate

LEMMA OtherMessage ==
  ASSUME NEW tc \in Seq(ServerMessage), NEW e \in ServerMessage, NEW f, NEW r, NEW c, NEW cc,
         Alternate(tc, f, r, c), f \in c <=> f \in cc,
         e.kind \in Switch => e.feature # f
  PROVE  Alternate(Append(tc, e), f, r, cc)
<1>1. /\ \A i \in Switches(Append(tc, e), f) : i \in Switches(tc, f)
      /\ \A i \in Switches(tc, f) : i \in Switches(Append(tc, e), f) /\ Append(tc, e)[i] = tc[i]
  BY AppendElements DEF Switches
<1>2. Switches(Append(tc, e), f) = Switches(tc, f)
  BY <1>1, Zenon
<1> QED
  BY <1>1, <1>2, SameSwitches, Zenon

\* The server registers what it had not configured and removes the feature
\* whenever it is disabled.
LEMMA OneMoreSwitch ==
  ASSUME NEW tc \in Seq(ServerMessage), NEW e \in ServerMessage, NEW f, NEW r, NEW c, NEW cc,
         Alternate(tc, f, r, c),
         e.kind \in Switch, e.feature = f,
         e.kind = "register" => f \notin c,
         e.kind = "register" <=> f \in cc
  PROVE  Alternate(Append(tc, e), f, r, cc)
<1> DEFINE n == Len(tc) + 1
           more == Append(tc, e)
<1>1. n \in Nat /\ \A i \in Switches(tc, f) : i \in Nat /\ i < n
  BY LenProperties DEF Switches
<1>2. /\ \A i \in Switches(more, f) :
           (i \in Switches(tc, f) /\ more[i] = tc[i]) \/ (i = n /\ more[i] = e)
      /\ \A i \in Switches(tc, f) : i \in Switches(more, f) /\ more[i] = tc[i]
      /\ n \in Switches(more, f) /\ more[n] = e
  <2>1. n \in DOMAIN more /\ more[n] = e
    BY LenProperties
  <2> QED
    BY <2>1, AppendElements DEF Switches
<1> HIDE DEF n, more
<1>3. ASSUME NEW i \in Switches(more, f)
      PROVE  i = n \/ (i \in Switches(tc, f) /\ i \in Nat /\ i < n)
  <2>1. i \in Switches(tc, f) \/ i = n
    BY <1>2
  <2> QED
    BY <1>1, <2>1
<1>4. ASSUME NEW i \in Switches(more, f), \A j \in Switches(more, f) : j <= i
      PROVE  more[i].kind = "register" <=> f \in cc
  <2>1. i = n
    <3>1. n <= i
      BY <1>2, <1>4
    <3> QED
      BY <1>1, <1>3, <3>1
  <2> QED
    BY <1>2, <2>1
<1>5. ASSUME NEW i \in Switches(more, f), \A j \in Switches(more, f) : i <= j, more[i].kind = "register"
      PROVE  f \notin r
  <2>1. CASE i = n
    <3>1. Switches(tc, f) = {}
      BY <1>1, <1>2, <1>5, <2>1
    <3> QED
      BY <1>2, <1>5, <2>1, <3>1 DEF Alternate
  <2>2. CASE i # n
    BY <1>2, <1>5, <2>2 DEF Alternate
  <2> QED
    BY <2>1, <2>2
<1>6. ASSUME NEW i \in Switches(more, f), NEW j \in Switches(more, f), j < i,
             \A l \in Switches(more, f) : l <= j \/ i <= l, more[i].kind = "register"
      PROVE  more[j].kind = "unregister"
  <2>1. j # n /\ j \in Switches(tc, f) /\ more[j] = tc[j]
    <3>1. i \in Nat /\ i <= n
      BY <1>1, <1>3
    <3>2. j # n
      BY <1>1, <1>6, <3>1
    <3> QED
      BY <1>2, <3>2
  <2>2. CASE i = n
    <3>1. \A l \in Switches(tc, f) : l <= j
      BY <1>1, <1>2, <1>6, <2>2
    <3>2. tc[j].kind # "register"
      BY <1>2, <1>6, <2>1, <2>2, <3>1 DEF Alternate
    <3> QED
      BY <2>1, <3>2 DEF Switches, Switch
  <2>3. CASE i # n
    BY <1>2, <1>6, <2>1, <2>3 DEF Alternate
  <2> QED
    BY <2>2, <2>3
<1>7. Switches(more, f) # {}
  BY <1>2
<1> QED
  BY <1>4, <1>5, <1>6, <1>7 DEF Alternate, more

\* The client takes the first message and does as it says.
LEMMA SwitchTaken ==
  ASSUME NEW tc \in Seq(ServerMessage), tc # << >>, NEW f, NEW r, NEW rr, NEW c, Alternate(tc, f, r, c),
         Head(tc).kind \in Switch /\ Head(tc).feature = f => (f \in rr <=> Head(tc).kind = "register"),
         ~(Head(tc).kind \in Switch /\ Head(tc).feature = f) => (f \in rr <=> f \in r)
  PROVE  Alternate(Tail(tc), f, rr, c)
<1> DEFINE rest == Tail(tc)
           old == Switches(tc, f)
           new == Switches(rest, f)
<1>1. /\ \A i \in new : i \in Nat /\ i + 1 \in old /\ i + 1 # 1 /\ rest[i] = tc[i + 1]
      /\ \A i \in old : i \in Nat /\ 1 <= i /\ (i # 1 => i - 1 \in new)
  <2>1. \A i \in new : i \in Nat /\ i + 1 \in old /\ i + 1 # 1 /\ rest[i] = tc[i + 1]
    BY TailElements DEF Switches
  <2>2. ASSUME NEW i \in old PROVE i \in Nat /\ 1 <= i /\ (i # 1 => i - 1 \in new)
    <3>1. /\ i \in 1..Len(tc) /\ Len(tc) \in Nat
          /\ DOMAIN rest = 1..(Len(tc) - 1)
          /\ \A k \in 1..(Len(tc) - 1) : rest[k] = tc[k + 1]
      <4>1. rest \in Seq(ServerMessage) /\ Len(rest) = Len(tc) - 1
            /\ \A k \in 1..Len(rest) : rest[k] = tc[k + 1]
        BY HeadTailProperties
      <4> QED
        BY <4>1, LenProperties DEF Switches
    <3>2. i # 1 => i - 1 \in DOMAIN rest /\ rest[i - 1] = tc[i]
      BY <3>1
    <3> QED
      BY <3>1, <3>2 DEF Switches
  <2> QED
    BY <2>1, <2>2
<1>2. /\ 1 \in old <=> Head(tc).kind \in Switch /\ Head(tc).feature = f
      /\ Head(tc) = tc[1]
  BY TailElements DEF Switches
<1>3. tc[1].kind \in Switch => (tc[1].kind = "unregister" <=> tc[1].kind # "register")
  BY DEF Switch
<1> HIDE DEF rest, old, new
<1>4. ASSUME new = {} PROVE f \in rr <=> f \in c
  <2>1. \A i \in old : i = 1
    BY <1>1, <1>4
  <2>2. CASE 1 \in old
    BY <1>2, <2>1, <2>2 DEF Alternate, old
  <2>3. CASE 1 \notin old
    BY <1>2, <2>1, <2>3 DEF Alternate, old
  <2> QED
    BY <2>2, <2>3
<1>5. ASSUME NEW i \in new, \A j \in new : j <= i PROVE rest[i].kind = "register" <=> f \in c
  <2>1. i + 1 \in old /\ \A j \in old : j <= i + 1
    <3>1. ASSUME NEW j \in old PROVE j <= i + 1
      <4>1. CASE j = 1
        BY <1>1, <4>1
      <4>2. CASE j # 1
        BY <1>1, <1>5, <4>2
      <4> QED
        BY <4>1, <4>2
    <3> QED
      BY <1>1, <3>1
  <2> QED
    BY <1>1, <2>1 DEF Alternate, old
<1>6. ASSUME NEW i \in new, \A j \in new : i <= j, rest[i].kind = "register" PROVE f \notin rr
  <2>1. i \in Nat /\ i + 1 \in old /\ tc[i + 1].kind = "register"
    BY <1>1, <1>6
  <2>2. \A j \in old : j = 1 \/ i + 1 <= j
    BY <1>1, <1>6
  <2>3. CASE 1 \in old
    <3>1. 1 < i + 1 /\ \A l \in old : l <= 1 \/ i + 1 <= l
      BY <1>1, <2>1, <2>2
    <3>2. tc[1].kind = "unregister"
      BY <2>1, <2>3, <3>1 DEF Alternate, old
    <3> QED
      BY <1>2, <2>3, <3>2
  <2>4. CASE 1 \notin old
    <3>1. \A j \in old : i + 1 <= j
      BY <2>2, <2>4
    <3> QED
      BY <1>2, <2>1, <2>4, <3>1 DEF Alternate, old
  <2> QED
    BY <2>3, <2>4
<1>7. ASSUME NEW i \in new, NEW j \in new, j < i, \A l \in new : l <= j \/ i <= l, rest[i].kind = "register"
      PROVE  rest[j].kind = "unregister"
  <2>1. i + 1 \in old /\ j + 1 \in old /\ j + 1 < i + 1 /\ tc[i + 1].kind = "register" /\ rest[j] = tc[j + 1]
    BY <1>1, <1>7
  <2>2. ASSUME NEW l \in old PROVE l <= j + 1 \/ i + 1 <= l
    <3>1. i \in Nat /\ j \in Nat /\ l \in Nat
      BY <1>1
    <3>2. CASE l = 1
      BY <3>1, <3>2
    <3>3. CASE l # 1
      <4>1. l - 1 <= j \/ i <= l - 1
        BY <1>1, <1>7, <3>3
      <4> QED
        BY <3>1, <4>1
    <3> QED
      BY <3>2, <3>3
  <2> QED
    BY <2>1, <2>2 DEF Alternate, old
<1> QED
  BY <1>4, <1>5, <1>6, <1>7 DEF Alternate, rest, new

\* A set of places in a channel has a last one.
LEMMA LastPlace ==
  ASSUME NEW n \in Nat, NEW S \in SUBSET (1..n), S # {}
  PROVE  \E k \in S : \A l \in S : l <= k
<1> DEFINE T == {n - s : s \in S}
<1>1. T \subseteq Nat /\ T # {}
  <2>1. \A s \in S : n - s \in Nat
    OBVIOUS
  <2>2. PICK s \in S : TRUE
    OBVIOUS
  <2> QED
    BY <2>1, <2>2
<1>2. PICK m \in T : \A y \in T : ~(<<y, m>> \in OpToRel(<, Nat))
  BY <1>1, NatLessThanWellFounded, WFMin, Zenon
<1>3. \A y \in T : ~(y < m)
  BY <1>1, <1>2 DEF OpToRel
<1>4. PICK k \in S : m = n - k
  BY <1>2
<1>5. ASSUME NEW l \in S PROVE l <= k
  <2>1. ~(n - l < n - k)
    BY <1>3, <1>4
  <2>2. n \in Int /\ k \in Int /\ l \in Int
    OBVIOUS
  <2> QED
    BY <2>1, <2>2
<1> QED
  BY <1>5

\* Registering and removing go on to alternate.
LEMMA InitSwitchInv == Init => SwitchInv
BY DEF Init, SwitchInv, Alternate, Switches

LEMMA NextSwitchInv == Inv /\ SwitchInv /\ [Next]_vars => SwitchInv'
<1> SUFFICES ASSUME Inv, SwitchInv, [Next]_vars PROVE SwitchInv'
  OBVIOUS
<1>0. toClient \in Seq(ServerMessage) /\ toServer \in Seq(ClientMessage) /\ registered \subseteq Feature
  BY DEF Inv, Typed
<1>1. CASE ClientReceives
  <2> DEFINE m == Head(toClient)
  <2>1. toClient # << >> /\ toClient' = Tail(toClient) /\ UNCHANGED <<config, writing>> /\ writing
    BY <1>1 DEF ClientReceives, lifeVars, SwitchInv
  <2>2. m \in ServerMessage
    BY <1>0, <2>1, TailElements
  <2>3. ASSUME NEW f \in Feature PROVE Alternate(toClient', f, registered', config')
    <3>1. m.kind \in Switch /\ m.feature = f => (f \in registered' <=> m.kind = "register")
      BY <1>1 DEF ClientReceives, Switch
    <3>2. ~(m.kind \in Switch /\ m.feature = f) => (f \in registered' <=> f \in registered)
      BY <1>1 DEF ClientReceives, Switch
    <3>3. Alternate(toClient, f, registered, config)
      BY <2>1 DEF SwitchInv
    <3> QED
      BY <1>0, <2>1, <3>1, <3>2, <3>3, SwitchTaken
  <2> QED
    BY <2>1, <2>3 DEF SwitchInv
<1>2. CASE Configure
  <2> DEFINE m == Head(toServer)
             e == [kind |-> IF m.enable THEN "register" ELSE "unregister", feature |-> m.feature]
  <2>1. m.feature \in Feature /\ m.enable \in BOOLEAN
    BY <1>0, <1>2, TailElements, ClientMessageKinds DEF Configure, Receiving
  <2>2. UNCHANGED <<registered, writing>>
    BY <1>2 DEF Configure
  <2>3. CASE StaysEnabled(m) \/ ~writing
    <3>1. UNCHANGED toClient /\ (writing => UNCHANGED config)
      BY <1>2, <2>3 DEF Configure
    <3> QED
      BY <2>2, <3>1 DEF SwitchInv
  <2>4. CASE ~StaysEnabled(m) /\ writing
    <3>1. /\ toClient' = Append(toClient, e)
          /\ config' = IF m.enable THEN config \cup {m.feature} ELSE config \ {m.feature}
      BY <1>2, <2>4 DEF Configure
    <3>2. e \in ServerMessage /\ e.kind \in Switch /\ e.feature = m.feature
      BY <2>1 DEF ServerMessage, Switch
    <3>3. e.kind = "register" <=> m.enable
      BY <2>1
    <3>4. m.enable => m.feature \notin config
      BY <2>4 DEF StaysEnabled
    <3>5. ASSUME NEW f \in Feature PROVE Alternate(Append(toClient, e), f, registered, config')
      <4>1. Alternate(toClient, f, registered, config)
        BY <2>4 DEF SwitchInv
      <4>2. CASE f = m.feature
        <5>1. f \in config' <=> m.enable
          BY <3>1, <4>2
        <5> QED
          BY <1>0, <3>2, <3>3, <3>4, <4>1, <4>2, <5>1, OneMoreSwitch
      <4>3. CASE f # m.feature
        <5>1. f \in config <=> f \in config'
          BY <3>1, <4>3
        <5> QED
          BY <1>0, <3>2, <4>1, <4>3, <5>1, OtherMessage
      <4> QED
        BY <4>2, <4>3
    <3> QED
      BY <2>2, <2>4, <3>1, <3>5 DEF SwitchInv
  <2> QED
    BY <2>3, <2>4
<1>3. CASE OnRequest
  <2> DEFINE m == Head(toServer)
  <2>1. m.kind \in Kind /\ m \in ClientMessage /\ m.id \in Id
    BY <1>0, <1>3, TailElements, ClientMessageKinds DEF OnRequest, Receiving
  <2>2. PICK reply \in Replies(m.kind) :
          toClient' = IF writing
            THEN toClient \o [i \in DOMAIN reply |-> [kind |-> reply[i], id |-> m.id]]
            ELSE toClient
    BY <1>3 DEF OnRequest
  <2>3. UNCHANGED <<config, registered, writing>>
    BY <1>3 DEF OnRequest
  <2>4. CASE reply = << >> \/ ~writing
    <3>1. toClient' = toClient
      BY <1>0, <2>2, <2>4
    <3> QED
      BY <2>3, <3>1 DEF SwitchInv
  <2>5. ASSUME NEW a \in Answer, reply = <<a>>, writing PROVE SwitchInv'
    <3> DEFINE e == [kind |-> a, id |-> m.id]
    <3>1. e \in ServerMessage /\ e.kind \notin Switch
      BY <2>1 DEF ServerMessage, Answer, Switch
    <3>2. [i \in DOMAIN reply |-> [kind |-> reply[i], id |-> m.id]] = <<e>>
      BY <2>5
    <3> HIDE DEF e, m
    <3>3. toClient' = Append(toClient, e)
      BY <1>0, <2>2, <2>5, <3>1, <3>2
    <3>4. ASSUME NEW f \in Feature PROVE Alternate(Append(toClient, e), f, registered, config)
      BY <1>0, <2>5, <3>1, OtherMessage DEF SwitchInv
    <3> QED
      BY <2>3, <2>5, <3>3, <3>4 DEF SwitchInv
  <2> QED
    BY <2>1, <2>2, <2>4, <2>5, RepliesShort
<1>4. CASE WriteFails
  BY <1>4 DEF WriteFails, SwitchInv
<1>5. ASSUME UNCHANGED <<toClient, registered, config, writing>> PROVE SwitchInv'
  BY <1>5 DEF SwitchInv
<1>6. CASE ChangeSettings \/ Leave \/ Close
  BY <1>5, <1>6 DEF ChangeSettings, Leave, Close, lifeVars
<1>7. ASSUME NEW kind \in Made, NEW id \in Id, Ask(kind, id) PROVE SwitchInv'
  BY <1>5, <1>7 DEF Ask, lifeVars
<1>8. ASSUME NEW id \in Id, Cancel(id) PROVE SwitchInv'
  BY <1>5, <1>8 DEF Cancel, lifeVars
<1>9. CASE Initialize \/ Ignore \/ Exit \/ Join
  BY <1>5, <1>9 DEF Initialize, Ignore, Exit, Join, lifeVars
<1>10. CASE RecvFails \/ UNCHANGED vars
  BY <1>5, <1>10 DEF RecvFails, vars, lifeVars
<1> QED
  BY <1>1, <1>2, <1>3, <1>4, <1>6, <1>7, <1>8, <1>9, <1>10 DEF Next, Server

\* However often the settings change while messages are under way, the client
\* is never told to register a feature that it has registered by then.
THEOREM NeverRegisteredTwiceAlways == Spec => []NeverRegisteredTwice
<1>1. Inv /\ SwitchInv => NeverRegisteredTwice
  <2> SUFFICES ASSUME Inv, SwitchInv, NEW i \in DOMAIN toClient
               PROVE  LET f == toClient[i].feature
                          earlier == {j \in 1..(i - 1) : toClient[j].kind \in {"register", "unregister"}
                                                          /\ toClient[j].feature = f}
                          last == CHOOSE j \in earlier : \A l \in earlier : l <= j
                      IN  toClient[i].kind = "register" =>
                            IF earlier = {} THEN f \notin registered ELSE toClient[last].kind = "unregister"
    BY Zenon DEF NeverRegisteredTwice
  <2> DEFINE f == toClient[i].feature
             earlier == {j \in 1..(i - 1) : toClient[j].kind \in {"register", "unregister"}
                                             /\ toClient[j].feature = f}
             last == CHOOSE j \in earlier : \A l \in earlier : l <= j
  <2> SUFFICES ASSUME toClient[i].kind = "register"
               PROVE  IF earlier = {} THEN f \notin registered ELSE toClient[last].kind = "unregister"
    OBVIOUS
  <2>1. i \in 1..Len(toClient) /\ Len(toClient) \in Nat /\ toClient[i] \in ServerMessage /\ writing
    BY LenProperties, ElementOfSeq DEF Inv, Typed, SwitchInv
  <2>2. f \in Feature /\ i \in Switches(toClient, f)
    BY <2>1, ServerMessageKinds DEF Switches, Switch
  <2>3. Alternate(toClient, f, registered, config)
    BY <2>1, <2>2 DEF SwitchInv
  <2>4. /\ \A j \in Switches(toClient, f) : j \in Nat /\ (j \in earlier \/ i <= j)
        /\ \A j \in earlier : j \in Switches(toClient, f) /\ j < i
    BY <2>1 DEF Switches, Switch
  <2> HIDE DEF f
  <2>5. CASE earlier = {}
    <3> HIDE DEF earlier
    <3> QED
      BY <2>2, <2>3, <2>4, <2>5 DEF Alternate
  <2>6. CASE earlier # {}
    <3>1. last \in earlier /\ \A l \in earlier : l <= last
      <4>1. earlier \in SUBSET (1..(i - 1)) /\ i - 1 \in Nat
        BY <2>1
      <4> HIDE DEF earlier
      <4>2. \E k \in earlier : \A l \in earlier : l <= k
        BY <2>6, <4>1, LastPlace
      <4> QED
        BY <4>2, Zenon DEF last
    <3> HIDE DEF last, earlier
    <3>2. last \in Switches(toClient, f) /\ last < i
          /\ \A l \in Switches(toClient, f) : l <= last \/ i <= l
      BY <2>4, <3>1
    <3>3. toClient[last].kind = "unregister"
      BY <2>2, <2>3, <3>2 DEF Alternate
    <3> QED
      BY <2>6, <3>3
  <2> QED
    BY <2>5, <2>6
<1> QED
  BY <1>1, InitInv, NextInv, InitSwitchInv, NextSwitchInv, PTL DEF Spec
====
