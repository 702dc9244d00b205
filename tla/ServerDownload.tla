---- MODULE ServerDownload ----
(***************************************************************************)
(* How the extension finds the server it starts: activate, in main.ts,     *)
(* download.ts, util.ts and utils/download.ts.                             *)
(*                                                                         *)
(* Every window of the editor activates the extension in a process of its  *)
(* own; they share ~/.cargo/bin, where lsp-metadata.json names the version *)
(* installed last, each version has an asset file of its own, and the      *)
(* server is started from one binary, the destination.  An activation      *)
(* reads the metadata, asks for the latest release, downloads it unless    *)
(* metadata and asset show it installed, copies the asset over the         *)
(* destination and starts that, whatever happened before.                  *)
(*                                                                         *)
(* A download writes the asset in place, at its own offset: a stream that  *)
(* is opened truncates what others have written of the same asset          *)
(* ("spoilt"), and one whose file is unlinked writes nowhere ("orphan").   *)
(* The server's path is the default one; one that the user sets is started *)
(* as it is.  Releases are numbered; 0 is the empty version string, which  *)
(* is also what metadata that cannot be parsed is read as.                 *)
(***************************************************************************)
EXTENDS Integers, FiniteSets

CONSTANTS
  Window,      \* windows of the editor
  MaxVersion   \* bound on the releases

ASSUME VersionAssumption == MaxVersion \in Nat \ {0}

VARIABLES
  released,   \* the latest release
  meta,       \* the version in lsp-metadata.json, 0 if there is none to be read
  asset,      \* the asset file of each version
  dest,       \* the destination: the version it comes from, and whether all of it
  pc,         \* where the activation of each window is
  installed,  \* the version each window read from the metadata
  target,     \* the version each window works with
  stream,     \* the write stream of each window
  server,     \* what each window has started
  disturbed   \* two activations have overlapped, an asset was removed, or a copy broken or cut off

netVars == <<released>>
diskVars == <<meta, asset, dest>>
windowVars == <<pc, installed, target, stream, server>>
vars == <<netVars, diskVars, windowVars, disturbed>>

Version == 1..MaxVersion
NoVersion == 0
Nothing == [version |-> NoVersion, whole |-> FALSE]
UsersOwn == [version |-> NoVersion, whole |-> TRUE]

Waiting == {"asking", "connecting", "streaming", "finishing", "copying", "starting", "hung"}
Ended == {"off", "running", "dead"}

\* a partial binary does not run
Running(v) == server[v].whole

\* the streams of other windows into the asset of w, once it is truncated or
\* unlinked
OthersBecome(w, new, s) ==
  [v \in Window |-> IF v # w /\ target[v] = target[w] /\ stream[v] \notin {"none", "orphan"}
                    THEN new ELSE s[v]]

Goto(w, place) == pc' = [pc EXCEPT ![w] = place]

----------------------------------------------------------------------------
(* Activation. *)

\* ensureServerDownloaded: getVersionFromMetaFile
Activate(w) ==
  /\ pc[w] = "off"
  /\ installed' = [installed EXCEPT ![w] = meta]
  /\ Goto(w, "asking")
  /\ disturbed' = (disturbed \/ \E v \in Window \ {w} : pc[v] \notin Ended \/ stream[v] # "none")
  /\ UNCHANGED <<netVars, diskVars, target, stream, server>>

\* getLspPath: is the file of an installed version still there?
OnDisk(v) == v # NoVersion /\ asset[v] # "absent"

\* the decision of ensureServerDownloaded
DecideByFile(w, latest) == IF OnDisk(installed[w]) THEN "copying" ELSE "connecting"
Decide(w, latest) ==
  IF latest # installed[w] \/ ~OnDisk(installed[w]) THEN "connecting" ELSE "copying"

\* getLatestVersion: the latest release, or the empty string whatever went wrong
Answers == {released, NoVersion}

\* fetchFromUrl settles; it has no time-out and may never do so
LatestAnswered(w, latest) ==
  /\ pc[w] = "asking"
  /\ target' = [target EXCEPT ![w] = IF Decide(w, latest) = "copying" THEN installed[w] ELSE latest]
  /\ Goto(w, Decide(w, latest))
  /\ UNCHANGED <<netVars, diskVars, installed, stream, server, disturbed>>

----------------------------------------------------------------------------
(* downloadFromUrl_v2. *)

\* no connection in time, or a status other than 200: nothing is written.
\* There is no release with an empty name.
Refused(w) ==
  /\ pc[w] = "connecting"
  /\ Goto(w, "starting")
  /\ UNCHANGED <<netVars, diskVars, installed, target, stream, server, disturbed>>

\* status 200: createWriteStream creates the file or truncates it
AcceptedWithMeta(w) ==
  /\ pc[w] = "connecting"
  /\ target[w] # NoVersion
  /\ asset' = [asset EXCEPT ![target[w]] = "partial"]
  /\ meta' = target[w]
  /\ stream' = OthersBecome(w, "spoilt", [stream EXCEPT ![w] = "whole"])
  /\ Goto(w, "streaming")
  /\ UNCHANGED <<netVars, dest, installed, target, server, disturbed>>
Accepted(w) ==
  /\ pc[w] = "connecting"
  /\ target[w] # NoVersion
  /\ asset' = [asset EXCEPT ![target[w]] = "partial"]
  /\ stream' = OthersBecome(w, "spoilt", [stream EXCEPT ![w] = "whole"])
  /\ Goto(w, "streaming")
  /\ UNCHANGED <<netVars, meta, dest, installed, target, server, disturbed>>

\* the stream of w is at its end: its file is complete if all of it is there
Flushed(w) ==
  /\ asset' = IF stream[w] = "whole" THEN [asset EXCEPT ![target[w]] = "whole"] ELSE asset
  /\ stream' = [stream EXCEPT ![w] = "none"]

\* an error of the stream: the file is unlinked
Unlinked(w) ==
  /\ asset' = [asset EXCEPT ![target[w]] = "absent"]
  /\ stream' = OthersBecome(w, "orphan", [stream EXCEPT ![w] = "none"])

\* "finish" of the write stream
Received(w) ==
  /\ pc[w] = "streaming"
  /\ Flushed(w)
  /\ Goto(w, "finishing")
  /\ UNCHANGED <<netVars, meta, dest, installed, target, server, disturbed>>

\* "error" of the write stream
WriteFailed(w) ==
  /\ pc[w] = "streaming"
  /\ Unlinked(w)
  /\ Goto(w, "starting")
  /\ UNCHANGED <<netVars, meta, dest, installed, target, server, disturbed>>

\* 9 seconds without data: the request is aborted, the partial file stays
TimedOutResolving(w) ==
  /\ pc[w] = "streaming"
  /\ stream' = [stream EXCEPT ![w] = "none"]
  /\ Goto(w, "finishing")
  /\ UNCHANGED <<netVars, diskVars, installed, target, server, disturbed>>
TimedOut(w) ==
  /\ pc[w] = "streaming"
  /\ stream' = [stream EXCEPT ![w] = "none"]
  /\ Goto(w, "starting")
  /\ UNCHANGED <<netVars, diskVars, installed, target, server, disturbed>>

\* the request that was redirected is idle while the one it led to downloads;
\* its own time-out rejects the promise and leaves the other one running
RedirectTimedOut(w) ==
  /\ pc[w] = "streaming"
  /\ Goto(w, "starting")
  /\ UNCHANGED <<netVars, diskVars, installed, target, stream, server, disturbed>>

\* the connection breaks in the middle of the body: nobody listens, and the
\* promise is never settled
Dropped(w) ==
  /\ pc[w] = "streaming"
  /\ stream' = [stream EXCEPT ![w] = "none"]
  /\ Goto(w, "hung")
  /\ UNCHANGED <<netVars, diskVars, installed, target, server, disturbed>>

\* a download that nobody waits for any more ends, one way or the other
EndsInBackground(w) ==
  /\ pc[w] \in {"starting", "running"}
  /\ stream[w] # "none"
  /\ \/ Flushed(w)
     \/ Unlinked(w)
     \/ stream' = [stream EXCEPT ![w] = "none"] /\ UNCHANGED asset
  /\ UNCHANGED <<netVars, meta, dest, pc, installed, target, server, disturbed>>

----------------------------------------------------------------------------
(* downloadLsp, maybeDownloadLspServer and startClient. *)

\* downloadLsp after the download: chmodSync throws if the file is gone;
\* writeLspMetadata swallows its errors, which may come before or after the
\* file is truncated
Finish(w) ==
  /\ pc[w] = "finishing"
  /\ IF asset[target[w]] = "absent"
     THEN Goto(w, "starting") /\ UNCHANGED meta
     ELSE Goto(w, "copying") /\ meta' \in {target[w], meta, NoVersion}
  /\ UNCHANGED <<netVars, asset, dest, installed, target, stream, server, disturbed>>

\* copyFileSync to the destination, which on some systems works while it runs
Copied(w) ==
  /\ pc[w] = "copying"
  /\ asset[target[w]] # "absent"
  /\ dest' = [version |-> target[w], whole |-> asset[target[w]] = "whole"]
  /\ Goto(w, "starting")
  /\ UNCHANGED <<netVars, meta, asset, installed, target, stream, server, disturbed>>

\* copyFileSync throws, for a binary that is running cannot be written (ETXTBSY
\* on Linux, EBUSY on Windows) or because the asset is gone; nothing catches
\* it, and the activation ends
CopyThrew(w) ==
  /\ pc[w] = "copying"
  /\ asset[target[w]] = "absent" \/ \E v \in Window : Running(v)
  /\ Goto(w, "dead")
  /\ UNCHANGED <<netVars, diskVars, installed, target, stream, server, disturbed>>

\* copyFileSync throws half-way, say on a full disk: the destination is partly
\* written, or removed by Node (external)
CopyBroke(w) ==
  /\ pc[w] = "copying"
  /\ asset[target[w]] # "absent"
  /\ dest' \in {Nothing, [version |-> target[w], whole |-> FALSE]}
  /\ Goto(w, "dead")
  /\ disturbed' = TRUE
  /\ UNCHANGED <<netVars, meta, asset, installed, target, stream, server>>

\* startClient: the destination, after a copy or a failed download
Start(w) ==
  /\ pc[w] = "starting"
  /\ server' = [server EXCEPT ![w] = dest]
  /\ Goto(w, "running")
  /\ UNCHANGED <<netVars, diskVars, installed, target, stream, disturbed>>

----------------------------------------------------------------------------
(* The world. *)

Close(w) ==
  /\ Goto(w, "off")
  /\ installed' = [installed EXCEPT ![w] = NoVersion]
  /\ target' = [target EXCEPT ![w] = NoVersion]
  /\ stream' = [stream EXCEPT ![w] = "none"]
  /\ server' = [server EXCEPT ![w] = Nothing]
  /\ UNCHANGED <<netVars, asset>>

\* the window is closed, or its process killed, at any moment
Quit(w) == pc[w] # "off" /\ Close(w) /\ UNCHANGED <<meta, dest, disturbed>>

\* ... and in the middle of the copy
QuitCopying(w) ==
  /\ pc[w] = "copying"
  /\ Close(w)
  /\ dest' = [version |-> target[w], whole |-> FALSE]
  /\ disturbed' = TRUE
  /\ UNCHANGED meta

\* ... or while the metadata is written, which truncates the file first
QuitWriting(w) ==
  /\ pc[w] = "finishing"
  /\ asset[target[w]] # "absent"
  /\ Close(w)
  /\ meta' = NoVersion
  /\ UNCHANGED <<dest, disturbed>>

\* somebody tidies up ~/.cargo/bin
RemoveAsset(v) ==
  /\ asset[v] # "absent"
  /\ asset' = [asset EXCEPT ![v] = "absent"]
  /\ stream' = [w \in Window |-> IF target[w] = v /\ stream[w] # "none" THEN "orphan" ELSE stream[w]]
  /\ disturbed' = TRUE
  /\ UNCHANGED <<netVars, meta, dest, pc, installed, target, server>>

Release ==
  /\ released < MaxVersion
  /\ released' = released + 1
  /\ UNCHANGED <<diskVars, windowVars, disturbed>>

----------------------------------------------------------------------------

Init ==
  /\ released = 1
  /\ meta = NoVersion
  /\ asset = [v \in Version |-> "absent"]
  /\ dest \in {Nothing, UsersOwn}
  /\ pc = [w \in Window |-> "off"]
  /\ installed = [w \in Window |-> NoVersion]
  /\ target = [w \in Window |-> NoVersion]
  /\ stream = [w \in Window |-> "none"]
  /\ server = [w \in Window |-> Nothing]
  /\ disturbed = FALSE

Download(w) == Refused(w) \/ Accepted(w) \/ Received(w) \/ WriteFailed(w) \/ TimedOut(w)
               \/ RedirectTimedOut(w) \/ Dropped(w) \/ EndsInBackground(w)
Settle(w) == Finish(w) \/ Copied(w) \/ CopyThrew(w) \/ CopyBroke(w) \/ Start(w)

Next ==
  \/ \E w \in Window : Activate(w)
  \/ \E w \in Window : \E v \in Answers : LatestAnswered(w, v)
  \/ \E w \in Window : Download(w)
  \/ \E w \in Window : Settle(w)
  \/ \E w \in Window : Quit(w)
  \/ \E w \in Window : QuitCopying(w)
  \/ \E w \in Window : QuitWriting(w)
  \/ \E v \in Version : RemoveAsset(v)
  \/ Release

Spec == Init /\ [][Next]_vars

\* The extension's own steps are taken.  Of the network: a user who tries again
\* and again gets an answer, a connection and a complete download again and
\* again, and can copy and write the metadata.
FairSpec ==
  /\ Spec
  /\ \A w \in Window :
       /\ SF_vars(LatestAnswered(w, released))
       /\ SF_vars(Accepted(w))
       /\ SF_vars(Received(w))
       /\ SF_vars(Finish(w) /\ meta' = target[w])
       /\ SF_vars(Copied(w))
       /\ WF_vars(Start(w))

----------------------------------------------------------------------------
(* Properties. *)

\* The variables have their types, and an activation works on an actual
\* release whenever it writes or copies an asset: the empty version that
\* stands for "not known" and "nothing installed" never becomes a file.
TypeOK ==
  /\ released \in Version
  /\ meta \in 0..MaxVersion
  /\ asset \in [Version -> {"absent", "partial", "whole"}]
  /\ dest \in [version : 0..MaxVersion, whole : BOOLEAN]
  /\ pc \in [Window -> Waiting \union Ended]
  /\ installed \in [Window -> 0..MaxVersion]
  /\ target \in [Window -> 0..MaxVersion]
  /\ stream \in [Window -> {"none", "whole", "spoilt", "orphan"}]
  /\ server \in [Window -> [version : 0..MaxVersion, whole : BOOLEAN]]
  /\ disturbed \in BOOLEAN
  /\ \A w \in Window :
       pc[w] \in {"streaming", "finishing", "copying"} \/ stream[w] # "none" => target[w] # NoVersion

\* The version the metadata names is there in full, through downloads that
\* fail, time out, break or are cut off, and through every restart: the
\* metadata is written last, and a later download goes to another file.
MetaIsWhole == ~disturbed /\ meta # NoVersion => asset[meta] = "whole"

\* The destination changes only to all of a newer release, so that whatever
\* an activation comes to, a server that could be started before can be
\* started after it.
OnlyUpgrades ==
  [][~disturbed' /\ dest' # dest => dest'.whole /\ dest'.version > dest.version]_vars

\* A user who works in one window and opens it again and again ends up with
\* the latest release, however often the download has failed.
Converges ==
  \A w \in Window :
    /\ []~disturbed
    /\ <>[](\A v \in Window \ {w} : pc[v] = "off")
    /\ []<>(pc[w] = "off") /\ []<>(pc[w] # "off")
    => <>[](dest = [version |-> released, whole |-> TRUE])
====
