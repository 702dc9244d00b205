---- MODULE LspSession ----
(***************************************************************************)
(* One session of the editor and the server: on_request of                 *)
(* src/bin/aptos-move-analyzer.rs on one side of two ordered channels,     *)
(* reload_cfg of editors/code/src/main.ts and the language client on the   *)
(* other.  The settings decide which capabilities the server registers;    *)
(* the client asks for hints and for formatting only while they are        *)
(* registered, and waits for the answer to whatever it asks.  The session  *)
(* ends when the client sends exit or closes its ends of the streams,      *)
(* which main of the server's binary takes in its own ways.                *)
(*                                                                         *)
(* Whether get_project finds a project, whether the cursor is on a token   *)
(* and whether a file can be written are open: each handler is the set of  *)
(* the answers it may give.                                                *)
(***************************************************************************)
EXTENDS Naturals, Sequences, FiniteSets

CONSTANTS
  Id,        \* requests of the session
  Made,      \* kinds of requests that are made
  MaxChanges \* bound on the changes of the settings

Feature == {"inlay", "fmt"}

Kind == {"definition", "references", "hover", "completion", "inlay", "symbols", "fmt",
         "specFile", "specSel", "other"}

ASSUME ConstantsAssumption == MaxChanges \in Nat /\ Made \subseteq Kind

VARIABLES
  settings,   \* the features enabled in the editor
  changes,    \* how often they have changed
  toServer,   \* what the client has sent and the server not yet received
  toClient,   \* what the server has sent and the client not yet received
  config,     \* the features enabled in AnalyzerConfig
  registered, \* the dynamic capabilities of the client
  asked,      \* ids used so far
  waiting,    \* requests without an answer
  client,     \* what the client is about
  process,    \* where main of the server is
  writing     \* whether the I/O thread that writes to the client runs

lifeVars == <<client, process, writing>>
vars == <<settings, changes, toServer, toClient, config, registered, asked, waiting, lifeVars>>

\* Requests for the configuration, responses to the server's own requests,
\* $/cancelRequest and exit, all without an answer; and requests with an id,
\* shutdown being one that on_request does not know.
ConfigMessage == [kind : {"config"}, feature : Feature, enable : BOOLEAN]
AskMessage == [kind : Kind, id : Id]
SilentMessage == [kind : {"response", "cancel", "exit"}]
ClientMessage == ConfigMessage \cup AskMessage \cup SilentMessage

ServerMessage ==
  [kind : {"register", "unregister"}, feature : Feature]
    \cup [kind : {"result", "error"}, id : Id]

----------------------------------------------------------------------------
(* The editor and the language client. *)

Configuration(f, s) == [kind |-> "config", feature |-> f, enable |-> f \in s]
ConfigMessages(s) == <<Configuration("inlay", s), Configuration("fmt", s)>>

\* The language client sends nothing before the server is initialized.
Talking == client = "up" /\ process # "starting"

\* reload_cfg: any change of any setting sends both configurations.
ChangeSettings ==
  /\ Talking
  /\ changes < MaxChanges
  /\ changes' = changes + 1
  /\ settings' \in SUBSET Feature
  /\ toServer' = toServer \o ConfigMessages(settings')
  /\ UNCHANGED <<toClient, config, registered, asked, waiting, lifeVars>>

Available(kind) == kind \in Feature => kind \in registered

\* A request of the editor.
Ask(kind, id) ==
  /\ Talking
  /\ Available(kind)
  /\ id \notin asked
  /\ asked' = asked \cup {id}
  /\ waiting' = waiting \cup {id}
  /\ toServer' = Append(toServer, [kind |-> kind, id |-> id])
  /\ UNCHANGED <<settings, changes, toClient, config, registered, lifeVars>>

\* The user has moved on; the client still waits for the answer.
Cancel(id) ==
  /\ Talking
  /\ id \in waiting
  /\ ~ \E i \in DOMAIN toServer : toServer[i].kind = "cancel"
  /\ toServer' = Append(toServer, [kind |-> "cancel"])
  /\ UNCHANGED <<settings, changes, toClient, config, registered, asked, waiting, lifeVars>>

\* The client answers client/(un)registerCapability and takes answers.
ClientReceives ==
  /\ client # "gone"
  /\ toClient # << >>
  /\ toClient' = Tail(toClient)
  /\ LET m == Head(toClient) IN
     IF m.kind \in {"register", "unregister"}
     THEN /\ registered' = IF m.kind = "register"
                           THEN registered \cup {m.feature}
                           ELSE registered \ {m.feature}
          /\ toServer' = Append(toServer, [kind |-> "response"])
          /\ UNCHANGED waiting
     ELSE /\ waiting' = waiting \ {m.id}
          /\ UNCHANGED <<registered, toServer>>
  /\ UNCHANGED <<settings, changes, config, asked, lifeVars>>

\* The client asks the server to exit, and asks nothing more.
Leave ==
  /\ Talking
  /\ client' = "leaving"
  /\ toServer' = Append(toServer, [kind |-> "exit"])
  /\ UNCHANGED <<settings, changes, toClient, config, registered, asked, waiting, process, writing>>

\* The client closes its ends of both streams, or dies; what it has sent is
\* still received.
Close ==
  /\ client # "gone"
  /\ client' = "gone"
  /\ UNCHANGED <<settings, changes, toServer, toClient, config, registered, asked, waiting,
                 process, writing>>

----------------------------------------------------------------------------
(* The server. *)

\* initialize_start and initialize_finish; main expects them to succeed.
Initialize ==
  /\ process = "starting"
  /\ process' = IF client = "gone" THEN "ended" ELSE "loop"
  /\ UNCHANGED <<settings, changes, toServer, toClient, config, registered, asked, waiting,
                 client, writing>>

Receiving(kinds) ==
  /\ process = "loop"
  /\ toServer # << >>
  /\ Head(toServer).kind \in kinds
  /\ toServer' = Tail(toServer)

\* The configuration handlers: nothing happens when the feature stays
\* enabled; else the configuration is taken and the capability switched, on
\* or off, even when it was off before.  A send that fails is unwrapped.
StaysEnabledNever(m) == FALSE
StaysEnabledAlways(m) == m.feature \in config
StaysEnabled(m) == m.feature \in config /\ m.enable

Configure ==
  LET m == Head(toServer) IN
  /\ Receiving({"config"})
  /\ IF StaysEnabled(m)
     THEN UNCHANGED <<config, toClient, process>>
     ELSE /\ config' = IF m.enable THEN config \cup {m.feature} ELSE config \ {m.feature}
          /\ IF writing
             THEN /\ toClient' = Append(toClient,
                       [kind |-> IF m.enable THEN "register" ELSE "unregister",
                        feature |-> m.feature])
                  /\ UNCHANGED process
             ELSE process' = "ended" /\ UNCHANGED toClient
  /\ UNCHANGED <<settings, changes, registered, asked, waiting, client, writing>>

\* What each handler may send, as sequences of kinds of answers.  A handler
\* that finds no project makes up a response and drops it.
Unanswered == << >>
on_go_to_def_request == {<<"result">>, Unanswered}
on_references_request == {<<"result">>, Unanswered}
on_hover_request == {<<"result">>, Unanswered}
on_inlay_hints == {<<"result">>, Unanswered}
\* No project, or none of its modules lies in the file.
on_document_symbol_request == {<<"result">>, Unanswered}
\* No project, or no token before the cursor.
on_completion_request == {<<"result">>, Unanswered}
OnMovefmtOfProject == {<<"result">>, Unanswered}
on_movefmt_request == {<<"result">>}
\* The file exists or cannot be written: an error; no project: nothing.
OnSpecFileGoingOn == {<<"result">>, <<"error">>, <<"error", "result">>, Unanswered}
on_generate_spec_file == {<<"result">>, <<"error">>, Unanswered}
\* No such path or nothing to specify: an error; no project: nothing.
on_generate_spec_sel == {<<"result">>, <<"error">>, Unanswered}

\* A method that on_request does not know is logged.
Replies(kind) ==
  CASE kind = "definition" -> on_go_to_def_request
    [] kind = "references" -> on_references_request
    [] kind = "hover" -> on_hover_request
    [] kind = "completion" -> on_completion_request
    [] kind = "inlay" -> on_inlay_hints
    [] kind = "symbols" -> on_document_symbol_request
    [] kind = "fmt" -> on_movefmt_request
    [] kind = "specFile" -> on_generate_spec_file
    [] kind = "specSel" -> on_generate_spec_sel
    [] kind = "other" -> {Unanswered}

\* Two handlers log an answer that cannot be sent; the others unwrap it, and
\* main with them.
LogsFailedSend == {"completion", "symbols"}

OnRequest ==
  LET m == Head(toServer) IN
  /\ Receiving(Kind)
  /\ \E reply \in Replies(m.kind) :
       IF writing
       THEN /\ toClient' = toClient \o [i \in DOMAIN reply |-> [kind |-> reply[i], id |-> m.id]]
            /\ UNCHANGED process
       ELSE /\ process' = IF reply = Unanswered \/ m.kind \in LogsFailedSend
                          THEN process ELSE "ended"
            /\ UNCHANGED toClient
  /\ UNCHANGED <<settings, changes, config, registered, asked, waiting, client, writing>>

\* on_response logs; cancellation is not implemented.
Ignore ==
  /\ Receiving({"response", "cancel"})
  /\ UNCHANGED <<settings, changes, toClient, config, registered, asked, waiting, lifeVars>>

\* exit breaks the loop.  The reading thread ends with it (external).
Exit ==
  /\ Receiving({"exit"})
  /\ process' = "joining"
  /\ UNCHANGED <<settings, changes, toClient, config, registered, asked, waiting, client, writing>>

\* On a closed channel recv fails at once; that is logged, and tried again.
RecvFails ==
  /\ process = "loop"
  /\ client = "gone"
  /\ toServer = << >>
  /\ UNCHANGED vars

\* The writing thread ends when a write fails, or when nobody can send any
\* more: but the context of main holds the channel until main returns.
WriteFails ==
  /\ writing
  /\ client = "gone"
  /\ toClient # << >>
  /\ writing' = FALSE
  /\ toClient' = << >>
  /\ UNCHANGED <<settings, changes, toServer, config, registered, asked, waiting, client, process>>

\* io_threads.join returns, and with it main.
Join ==
  /\ process = "joining"
  /\ ~writing
  /\ process' = "ended"
  /\ UNCHANGED <<settings, changes, toServer, toClient, config, registered, asked, waiting,
                 client, writing>>

Server == Initialize \/ Configure \/ OnRequest \/ Ignore \/ Exit \/ RecvFails \/ WriteFails \/ Join

Next ==
  \/ ChangeSettings
  \/ \E kind \in Made, id \in Id : Ask(kind, id)
  \/ \E id \in Id : Cancel(id)
  \/ ClientReceives
  \/ Leave
  \/ Close
  \/ Server

\* activate calls reload_cfg once the client has started.
Init ==
  /\ settings \in SUBSET Feature
  /\ changes = 0
  /\ toServer = ConfigMessages(settings)
  /\ toClient = << >>
  /\ config = {}
  /\ registered = {}
  /\ asked = {}
  /\ waiting = {}
  /\ client = "up"
  /\ process = "starting"
  /\ writing = TRUE

Spec == Init /\ [][Next]_vars

\* Either side takes what it is sent; nobody has to ask or change anything.
FairSpec == Spec /\ WF_vars(Server) /\ WF_vars(ClientReceives)

----------------------------------------------------------------------------
(* Properties. *)

\* Types, and that the client waits for whatever is on its way to the server.
TypeOK ==
  /\ settings \subseteq Feature /\ config \subseteq Feature
  /\ changes \in 0..MaxChanges
  /\ toServer \in Seq(ClientMessage)
  /\ toClient \in Seq(ServerMessage)
  /\ registered \subseteq Feature
  /\ waiting \subseteq asked /\ asked \subseteq Id
  /\ client \in {"up", "leaving", "gone"}
  /\ process \in {"starting", "loop", "joining", "ended"}
  /\ writing \in BOOLEAN
  /\ \A i \in DOMAIN toServer : toServer[i].kind \in Kind => toServer[i].id \in waiting

\* However the settings flap while messages are under way, the client is never
\* told to register what it has registered: a feature has one registration id,
\* and a second registration under it would leave a provider that nothing
\* removes any more.
NeverRegisteredTwice ==
  \A i \in DOMAIN toClient :
    LET f == toClient[i].feature
        earlier == {j \in 1..(i - 1) : toClient[j].kind \in {"register", "unregister"}
                                        /\ toClient[j].feature = f}
        last == CHOOSE j \in earlier : \A l \in earlier : l <= j
    IN  toClient[i].kind = "register" =>
          IF earlier = {} THEN f \notin registered ELSE toClient[last].kind = "unregister"

\* A request gets one answer at most, and the client still waits for it.
OneAnswer ==
  /\ \A i \in DOMAIN toClient :
       toClient[i].kind \in {"result", "error"} => toClient[i].id \in waiting
  /\ \A i, j \in DOMAIN toClient :
       /\ {toClient[i].kind, toClient[j].kind} \subseteq {"result", "error"}
       /\ toClient[i].id = toClient[j].id
       => i = j

\* bin/aptos-move-analyzer.rs, 197: the formatting handler is kept so that the
\* client does not wait for ever for an answer; it must not, whether a project
\* is found or not, whether formatting is still enabled or not, and even when
\* it sends exit behind the request: what was answered is still written.
FormattingAnswered ==
  \A id \in Id :
    (\E i \in DOMAIN toServer : toServer[i] = [kind |-> "fmt", id |-> id])
      ~> (id \notin waiting \/ client = "gone")

\* While the client stays, and once the settings rest, the features that are
\* on are the ones registered.
FeaturesFollow ==
  [](client = "up") =>
    \A f \in Feature :
      /\ <>[](f \in settings) => <>[](f \in registered \cap config)
      /\ <>[](f \notin settings) => <>[](f \notin registered \cup config)

\* bin/aptos-move-analyzer.rs, 172: after exit the I/O threads finish, which
\* main expects, and the process ends.
ExitEnds ==
  (\E i \in DOMAIN toServer : toServer[i].kind = "exit") ~> (process = "ended")
====
