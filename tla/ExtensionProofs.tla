---- MODULE ExtensionProofs ----
(***************************************************************************)
(* Proofs about what the editor's extension does, and what the server      *)
(* builds on it: ServerDownload, for any windows and releases, and         *)
(* EditorSync with Completion, for any documents, delays, numbers of       *)
(* edits, texts and modules.                                               *)
(***************************************************************************)
EXTENDS ServerDownload, Completion, TLAPS

----------------------------------------------------------------------------
(* ServerDownload. *)

Active(w) == pc[w] \notin Ended \/ stream[w] # "none"

\* One activation at a time, with a download of its own ...
OneAtATime ==
  /\ \A v, w \in Window : Active(v) /\ Active(w) => v = w
  /\ \A w \in Window : stream[w] \in {"none", "whole"}
  /\ \A w \in Window : stream[w] = "whole" => pc[w] \in {"streaming", "starting", "running"}
  /\ \A w \in Window : pc[w] = "streaming" => stream[w] = "whole"

\* ... of another asset than the metadata's ...
OtherAsset ==
  /\ meta # NoVersion => asset[meta] = "whole"
  /\ \A w \in Window : pc[w] = "asking" => installed[w] = meta
  /\ \A w \in Window : pc[w] = "connecting" /\ target[w] # NoVersion => target[w] # meta
  /\ \A w \in Window : stream[w] # "none" => target[w] # meta
  /\ \A w \in Window : pc[w] \in {"finishing", "copying"} => asset[target[w]] = "whole"

\* ... that is as new as the destination.
Newer ==
  /\ dest.version <= released /\ (dest.version # NoVersion => dest.whole)
  /\ \A w \in Window :
       pc[w] \in {"connecting", "streaming", "finishing", "copying"} /\ target[w] # NoVersion
         => dest.version <= target[w] /\ target[w] <= released

Undisturbed == OneAtATime /\ OtherAsset /\ Newer

\* A stream is open while its activation waits for it, or after it gave up.
Streams == \A w \in Window : stream[w] # "none" => pc[w] \in {"streaming", "starting", "running"}

TypeInv == TypeOK /\ Streams

Inv == TypeInv /\ (~disturbed => Undisturbed)

\* At first nothing is installed and no window is open.
LEMMA InitInv == Init => Inv
<1> SUFFICES ASSUME Init PROVE Inv
  OBVIOUS
<1> USE VersionAssumption DEF Init
<1>1. released \in Version /\ meta \in 0..MaxVersion /\ NoVersion \in 0..MaxVersion
  BY DEF Version, NoVersion
<1>2. {Nothing, UsersOwn} \subseteq [version : 0..MaxVersion, whole : BOOLEAN]
  BY <1>1 DEF Nothing, UsersOwn
<1>3. dest \in [version : 0..MaxVersion, whole : BOOLEAN] /\ dest.version = NoVersion
  <2>1. dest = Nothing \/ dest = UsersOwn
    OBVIOUS
  <2>2. Nothing.version = NoVersion /\ UsersOwn.version = NoVersion
    BY DEF Nothing, UsersOwn
  <2> QED
    BY <1>2, <2>1, <2>2
<1>4. server \in [Window -> [version : 0..MaxVersion, whole : BOOLEAN]]
  BY <1>2
<1>5. TypeInv
  BY <1>1, <1>3, <1>4 DEF TypeInv, Streams, TypeOK, Ended, Waiting
<1>6. OneAtATime /\ OtherAsset
  BY DEF OneAtATime, OtherAsset, Active, Ended
<1>7. Newer
  BY <1>1, <1>3 DEF Newer, NoVersion, Version
<1> QED
  BY <1>5, <1>6, <1>7 DEF Inv, Undisturbed

----------------------------------------------------------------------------
(* Types. *)

\* The value of a stream that others have truncated or unlinked.
LEMMA OthersType ==
  ASSUME NEW s \in [Window -> {"none", "whole", "spoilt", "orphan"}], NEW new \in {"spoilt", "orphan"}, NEW w
  PROVE  /\ OthersBecome(w, new, s) \in [Window -> {"none", "whole", "spoilt", "orphan"}]
         /\ \A u \in Window : OthersBecome(w, new, s)[u] = s[u] \/ (u # w /\ stream[u] # "none")
BY DEF OthersBecome

\* Unlinking a file that is written keeps the types of assets and streams, and
\* opens no stream.
LEMMA UnlinkedType ==
  ASSUME TypeOK, NEW w \in Window, target[w] # NoVersion, Unlinked(w)
  PROVE  /\ asset' \in [Version -> {"absent", "partial", "whole"}]
         /\ stream' \in [Window -> {"none", "whole", "spoilt", "orphan"}]
         /\ \A u \in Window : stream'[u] # "none" => stream[u] # "none" /\ u # w
<1> DEFINE s == [stream EXCEPT ![w] = "none"]
<1>1. s \in [Window -> {"none", "whole", "spoilt", "orphan"}]
  BY DEF TypeOK
<1>2. \A u \in Window : s[u] = IF u = w THEN "none" ELSE stream[u]
  BY DEF TypeOK
<1>3. stream' = OthersBecome(w, "orphan", s)
  BY DEF Unlinked
<1> HIDE DEF s
<1>4. /\ stream' \in [Window -> {"none", "whole", "spoilt", "orphan"}]
      /\ \A u \in Window : stream'[u] = s[u] \/ (u # w /\ stream[u] # "none")
  BY <1>1, <1>3, OthersType
<1>5. asset' \in [Version -> {"absent", "partial", "whole"}]
  BY DEF TypeOK, Unlinked
<1> QED
  BY <1>2, <1>4, <1>5

\* Every step keeps the types.
LEMMA NextType == TypeInv /\ [Next]_vars => TypeInv'
<1> SUFFICES ASSUME TypeInv, [Next]_vars PROVE TypeInv'
  OBVIOUS
<1> USE VersionAssumption DEF TypeInv, Streams, TypeOK, Goto, netVars, diskVars, windowVars, Ended, Waiting, NoVersion, Version
<1>1. ASSUME NEW w \in Window, Activate(w) PROVE TypeInv'
  BY <1>1 DEF Activate
<1>2. ASSUME NEW w \in Window, NEW v \in Answers, LatestAnswered(w, v) PROVE TypeInv'
  <2>1. v \in 0..MaxVersion /\ installed[w] \in 0..MaxVersion
    BY DEF Answers
  <2>2. /\ target' = [target EXCEPT ![w] = IF Decide(w, v) = "copying" THEN installed[w] ELSE v]
        /\ pc' = [pc EXCEPT ![w] = Decide(w, v)]
        /\ pc[w] = "asking"
        /\ UNCHANGED <<released, meta, asset, dest, installed, stream, server, disturbed>>
        /\ stream[w] = "none"
    BY <1>2 DEF LatestAnswered
  <2>3. Decide(w, v) \in {"connecting", "copying"} /\ (Decide(w, v) = "copying" => installed[w] # 0)
    BY DEF Decide, OnDisk
  <2>4. target' \in [Window -> 0..MaxVersion] /\ pc' \in [Window -> Waiting \union Ended]
    BY <2>1, <2>2, <2>3
  <2>5. ASSUME NEW u \in Window, pc'[u] \in {"streaming", "finishing", "copying"} \/ stream'[u] # "none"
        PROVE  target'[u] # 0
    <3>1. CASE u = w
      BY <2>1, <2>2, <2>3, <2>5, <3>1
    <3>2. CASE u # w
      BY <2>2, <2>5, <3>2
    <3> QED
      BY <3>1, <3>2
  <2> QED
    BY <2>2, <2>4, <2>5
<1>3. ASSUME NEW w \in Window, Refused(w) PROVE TypeInv'
  BY <1>3 DEF Refused
<1>4. ASSUME NEW w \in Window, Accepted(w) PROVE TypeInv'
  <2> DEFINE s == [stream EXCEPT ![w] = "whole"]
  <2>1. target[w] \in Version /\ pc' = [pc EXCEPT ![w] = "streaming"] /\ pc[w] = "connecting"
    BY <1>4 DEF Accepted
  <2>2. asset' \in [Version -> {"absent", "partial", "whole"}]
    BY <1>4 DEF Accepted
  <2>3. s \in [Window -> {"none", "whole", "spoilt", "orphan"}]
    OBVIOUS
  <2>4. stream' = OthersBecome(w, "spoilt", s)
    BY <1>4 DEF Accepted
  <2>5. \A u \in Window : s[u] = IF u = w THEN "whole" ELSE stream[u]
    OBVIOUS
  <2> HIDE DEF s
  <2>6. /\ stream' \in [Window -> {"none", "whole", "spoilt", "orphan"}]
        /\ \A u \in Window : stream'[u] = s[u] \/ (u # w /\ stream[u] # "none")
    BY <2>3, <2>4, OthersType
  <2>7. \A u \in Window : u # w /\ stream'[u] # "none" => stream[u] # "none"
    BY <2>5, <2>6
  <2>8. UNCHANGED <<released, meta, dest, installed, target, server, disturbed>>
    BY <1>4 DEF Accepted
  <2>9. Streams'
    BY <2>1, <2>7
  <2>10. \A u \in Window : pc'[u] \in {"streaming", "finishing", "copying"} \/ stream'[u] # "none" => target'[u] # 0
    BY <2>1, <2>7, <2>8
  <2> QED
    BY <2>1, <2>2, <2>6, <2>8, <2>9, <2>10
<1>5. ASSUME NEW w \in Window, Received(w) PROVE TypeInv'
  <2>1. pc' = [pc EXCEPT ![w] = "finishing"] /\ pc[w] = "streaming" /\ stream' = [stream EXCEPT ![w] = "none"]
    BY <1>5 DEF Received, Flushed
  <2>2. asset' \in [Version -> {"absent", "partial", "whole"}]
    BY <1>5 DEF Received, Flushed
  <2>3. UNCHANGED <<released, meta, dest, installed, target, server, disturbed>>
    BY <1>5 DEF Received
  <2> QED
    BY <2>1, <2>2, <2>3
<1>6. ASSUME NEW w \in Window, WriteFailed(w) PROVE TypeInv'
  <2>1. pc' = [pc EXCEPT ![w] = "starting"] /\ pc[w] = "streaming"
    BY <1>6 DEF WriteFailed
  <2>2. Unlinked(w)
    BY <1>6 DEF WriteFailed
  <2>3. UNCHANGED <<released, meta, dest, installed, target, server, disturbed>>
    BY <1>6 DEF WriteFailed
  <2> QED
    BY <2>1, <2>2, <2>3, UnlinkedType
<1>7. ASSUME NEW w \in Window, TimedOut(w) \/ RedirectTimedOut(w) \/ Dropped(w) PROVE TypeInv'
  BY <1>7 DEF TimedOut, RedirectTimedOut, Dropped
<1>8. ASSUME NEW w \in Window, EndsInBackground(w) PROVE TypeInv'
  <2>1. UNCHANGED <<released, meta, dest, pc, installed, target, server, disturbed>> /\ stream[w] # "none"
    BY <1>8 DEF EndsInBackground
  <2>2. CASE Unlinked(w)
    BY <2>1, <2>2, UnlinkedType
  <2>3. CASE Flushed(w)
    BY <2>1, <2>3 DEF Flushed
  <2>4. CASE stream' = [stream EXCEPT ![w] = "none"] /\ asset' = asset
    BY <2>1, <2>4
  <2> QED
    BY <1>8, <2>2, <2>3, <2>4 DEF EndsInBackground
<1>9. ASSUME NEW w \in Window, Finish(w) PROVE TypeInv'
  <2>1. pc' \in {[pc EXCEPT ![w] = "starting"], [pc EXCEPT ![w] = "copying"]} /\ pc[w] = "finishing" /\ target[w] # 0
    BY <1>9 DEF Finish
  <2>2. meta' \in 0..MaxVersion
    BY <1>9 DEF Finish
  <2>3. UNCHANGED <<released, asset, dest, installed, target, stream, server, disturbed>> /\ stream[w] = "none"
    BY <1>9 DEF Finish
  <2> QED
    BY <2>1, <2>2, <2>3
<1>10. ASSUME NEW w \in Window, Copied(w) PROVE TypeInv'
  BY <1>10 DEF Copied
<1>11. ASSUME NEW w \in Window, CopyThrew(w) PROVE TypeInv'
  BY <1>11 DEF CopyThrew
<1>12. ASSUME NEW w \in Window, Start(w) PROVE TypeInv'
  BY <1>12 DEF Start
<1>13. ASSUME NEW w \in Window, Quit(w) PROVE TypeInv'
  BY <1>13 DEF Quit, Close, Nothing
<1>14. ASSUME NEW w \in Window, QuitCopying(w) PROVE TypeInv'
  BY <1>14 DEF QuitCopying, Close, Nothing
<1>15. ASSUME NEW v \in Version, RemoveAsset(v) PROVE TypeInv'
  BY <1>15 DEF RemoveAsset
<1>16. CASE Release
  BY <1>16 DEF Release
<1>17. CASE UNCHANGED vars
  BY <1>17 DEF vars
<1>18. ASSUME NEW w \in Window, QuitWriting(w) PROVE TypeInv'
  BY <1>18 DEF QuitWriting, Close, Nothing
<1>19. ASSUME NEW w \in Window, CopyBroke(w) PROVE TypeInv'
  <2>1. dest' \in [version : 0..MaxVersion, whole : BOOLEAN]
    <3>1. CASE dest' = Nothing
      BY <3>1 DEF Nothing
    <3>2. CASE dest' = [version |-> target[w], whole |-> FALSE]
      BY <3>2
    <3> QED
      BY <1>19, <3>1, <3>2 DEF CopyBroke
  <2> QED
    BY <1>19, <2>1 DEF CopyBroke
<1> QED
  BY <1>1, <1>2, <1>3, <1>4, <1>5, <1>6, <1>7, <1>8, <1>9, <1>10, <1>11, <1>12, <1>13, <1>14,
     <1>15, <1>16, <1>17, <1>18, <1>19 DEF Next, Download, Settle

----------------------------------------------------------------------------
(* One activation at a time. *)

\* What Undisturbed says while w is the window that may be active.
Lone(w) ==
  /\ \A u \in Window \ {w} : pc[u] \in Ended /\ stream[u] = "none"
  /\ stream[w] \in {"none", "whole"}
  /\ stream[w] = "whole" => pc[w] \in {"streaming", "starting", "running"} /\ target[w] # meta
  /\ pc[w] = "streaming" => stream[w] = "whole"
  /\ meta # NoVersion => asset[meta] = "whole"
  /\ pc[w] = "asking" => installed[w] = meta
  /\ pc[w] = "connecting" /\ target[w] # NoVersion => target[w] # meta
  /\ pc[w] \in {"finishing", "copying"} => asset[target[w]] = "whole"
  /\ dest.version <= released /\ (dest.version # NoVersion => dest.whole)
  /\ pc[w] \in {"connecting", "streaming", "finishing", "copying"} /\ target[w] # NoVersion
       => dest.version <= target[w] /\ target[w] <= released

\* An active window is the only one ...
LEMMA ActiveIsLone ==
  ASSUME Undisturbed, NEW w \in Window, Active(w)
  PROVE  Lone(w)
<1>1. \A u \in Window \ {w} : ~Active(u)
  BY DEF Undisturbed, OneAtATime
<1>2. \A u \in Window \ {w} : pc[u] \in Ended /\ stream[u] = "none"
  BY <1>1 DEF Active
<1> QED
  BY <1>2 DEF Lone, Undisturbed, OneAtATime, OtherAsset, Newer

\* ... and that is enough.
LEMMA LoneIsUndisturbed == \A w \in Window : Lone(w) => Undisturbed
<1> SUFFICES ASSUME NEW w \in Window, Lone(w) PROVE Undisturbed
  OBVIOUS
<1>1. \A u \in Window : Active(u) => u = w
  BY DEF Lone, Active
<1>2. OneAtATime
  BY <1>1 DEF Lone, OneAtATime, Ended
<1>3. OtherAsset
  BY DEF Lone, OtherAsset, Ended
<1>4. Newer
  BY DEF Lone, Newer, Ended
<1> QED
  BY <1>2, <1>3, <1>4 DEF Undisturbed

\* Then nobody else writes to the asset.
LEMMA NoOthers ==
  ASSUME NEW w \in Window, Lone(w), NEW s, NEW new, s \in [Window -> {"none", "whole", "spoilt", "orphan"}]
  PROVE  OthersBecome(w, new, s) = s
BY DEF OthersBecome, Lone

\* Unlinking a file ends one stream only.
LEMMA UnlinkedAlone ==
  ASSUME TypeOK, NEW w \in Window, Lone(w), Unlinked(w)
  PROVE  stream' = [stream EXCEPT ![w] = "none"]
<1> DEFINE s == [stream EXCEPT ![w] = "none"]
<1>1. s \in [Window -> {"none", "whole", "spoilt", "orphan"}] /\ stream' = OthersBecome(w, "orphan", s)
  BY DEF TypeOK, Unlinked
<1> HIDE DEF s
<1>2. stream' = s
  BY <1>1, NoOthers
<1> QED
  BY <1>2 DEF s

\* Nothing an activation does, and nothing that happens to it, leads it to
\* write the metadata's asset, or the destination with an older one.
LEMMA NextUndisturbed == TypeInv /\ Undisturbed /\ [Next]_vars /\ ~disturbed' => Undisturbed'
<1> SUFFICES ASSUME TypeInv, Undisturbed, [Next]_vars, ~disturbed' PROVE Undisturbed'
  OBVIOUS
<1>p. (\A w \in Window : Lone(w) => Undisturbed)'
  BY LoneIsUndisturbed, PTL
<1>0. \A w \in Window : (Active(w) => Lone(w)) /\ (Lone(w)' => Undisturbed')
  BY <1>p, ActiveIsLone
<1> USE VersionAssumption DEF TypeInv, Streams, TypeOK, Goto, netVars, diskVars, windowVars, NoVersion, Version
<1>1. ASSUME NEW w \in Window, Activate(w) PROVE Undisturbed'
  <2>1. \A u \in Window \ {w} : pc[u] \in Ended /\ stream[u] = "none"
    BY <1>1 DEF Activate
  <2>2. pc' = [pc EXCEPT ![w] = "asking"] /\ installed' = [installed EXCEPT ![w] = meta] /\ pc[w] = "off"
    BY <1>1 DEF Activate
  <2>3. UNCHANGED <<released, meta, asset, dest, target, stream, server>> /\ stream[w] = "none"
    BY <1>1 DEF Activate
  <2>4. Lone(w)'
    BY <2>1, <2>2, <2>3 DEF Lone, Undisturbed, OtherAsset, Newer
  <2> QED
    BY <1>0, <2>4
<1>2. ASSUME NEW w \in Window, NEW v \in Answers, LatestAnswered(w, v) PROVE Undisturbed'
  <2>1. Lone(w) /\ pc[w] = "asking" /\ stream[w] = "none"
    BY <1>0, <1>2 DEF LatestAnswered, Active, Ended
  <2>2. /\ target' = [target EXCEPT ![w] = IF Decide(w, v) = "copying" THEN installed[w] ELSE v]
        /\ pc' = [pc EXCEPT ![w] = Decide(w, v)]
        /\ UNCHANGED <<released, meta, asset, dest, installed, stream, server, disturbed>>
    BY <1>2 DEF LatestAnswered
  <2>3. installed[w] = meta /\ v \in {released, 0}
    BY <2>1 DEF Lone, Answers
  <2>4. CASE Decide(w, v) = "copying"
    <3>1. v = meta /\ meta # 0
      BY <2>3, <2>4 DEF Decide, OnDisk
    <3>2. target'[w] = meta /\ pc'[w] = "copying" /\ asset[meta] = "whole" /\ meta = released
      BY <2>1, <2>2, <2>3, <2>4, <3>1 DEF Lone
    <3>3. Lone(w)'
      BY <2>1, <2>2, <3>2 DEF Lone
    <3> QED
      BY <1>0, <3>3
  <2>5. CASE Decide(w, v) # "copying"
    <3>1. Decide(w, v) = "connecting" /\ (v # 0 => v # meta)
      BY <2>1, <2>3, <2>5 DEF Decide, OnDisk, Lone
    <3>2. target'[w] = v /\ pc'[w] = "connecting"
      BY <2>2, <3>1
    <3>3. Lone(w)'
      BY <2>1, <2>2, <2>3, <3>1, <3>2 DEF Lone
    <3> QED
      BY <1>0, <3>3
  <2> QED
    BY <2>4, <2>5
<1>3. ASSUME NEW w \in Window, Refused(w) PROVE Undisturbed'
  <2>1. Lone(w)
    BY <1>0, <1>3 DEF Refused, Active, Ended
  <2>2. Lone(w)'
    BY <1>3, <2>1 DEF Refused, Lone
  <2> QED
    BY <1>0, <2>2
<1>4. ASSUME NEW w \in Window, Accepted(w) PROVE Undisturbed'
  <2>1. Lone(w)
    BY <1>0, <1>4 DEF Accepted, Active, Ended
  <2>2. stream' = [stream EXCEPT ![w] = "whole"]
    <3> DEFINE s == [stream EXCEPT ![w] = "whole"]
    <3>1. s \in [Window -> {"none", "whole", "spoilt", "orphan"}] /\ stream' = OthersBecome(w, "spoilt", s)
      BY <1>4 DEF Accepted
    <3> HIDE DEF s
    <3>2. stream' = s
      BY <2>1, <3>1, NoOthers
    <3> QED
      BY <3>2 DEF s
  <2>3. /\ asset' = [asset EXCEPT ![target[w]] = "partial"] /\ pc' = [pc EXCEPT ![w] = "streaming"]
        /\ UNCHANGED <<released, meta, dest, installed, target, server>>
        /\ target[w] # 0 /\ pc[w] = "connecting"
    BY <1>4 DEF Accepted
  <2>4. target[w] # meta /\ dest.version <= target[w] /\ target[w] <= released
    BY <2>1, <2>3 DEF Lone
  <2>5. meta # 0 => asset'[meta] = asset[meta]
    BY <2>3, <2>4
  <2>6. Lone(w)'
    BY <2>1, <2>2, <2>3, <2>4, <2>5 DEF Lone
  <2> QED
    BY <1>0, <2>6
<1>5. ASSUME NEW w \in Window, Received(w) PROVE Undisturbed'
  <2>1. Lone(w) /\ stream[w] = "whole" /\ target[w] # meta /\ target[w] # 0
    <3>1. Lone(w) /\ pc[w] = "streaming"
      BY <1>0, <1>5 DEF Received, Active, Ended
    <3> QED
      BY <3>1 DEF Lone
  <2>2. Lone(w)'
    BY <1>5, <2>1 DEF Received, Flushed, Lone
  <2> QED
    BY <1>0, <2>2
<1>6. ASSUME NEW w \in Window, WriteFailed(w) PROVE Undisturbed'
  <2>1. Lone(w) /\ stream[w] = "whole" /\ target[w] # meta
    <3>1. Lone(w) /\ pc[w] = "streaming"
      BY <1>0, <1>6 DEF WriteFailed, Active, Ended
    <3> QED
      BY <3>1 DEF Lone
  <2>2. stream' = [stream EXCEPT ![w] = "none"]
    BY <1>6, <2>1, UnlinkedAlone DEF WriteFailed
  <2>3. /\ asset' = [asset EXCEPT ![target[w]] = "absent"] /\ pc' = [pc EXCEPT ![w] = "starting"]
        /\ UNCHANGED <<released, meta, dest, installed, target, server>>
    BY <1>6 DEF WriteFailed, Unlinked
  <2>4. meta # 0 => asset'[meta] = asset[meta]
    BY <2>1, <2>3
  <2>5. Lone(w)'
    BY <2>1, <2>2, <2>3, <2>4 DEF Lone
  <2> QED
    BY <1>0, <2>5
<1>7. ASSUME NEW w \in Window, TimedOut(w) \/ RedirectTimedOut(w) \/ Dropped(w) PROVE Undisturbed'
  <2>1. Lone(w)
    BY <1>0, <1>7 DEF TimedOut, RedirectTimedOut, Dropped, Active, Ended
  <2>2. Lone(w)'
    BY <1>7, <2>1 DEF TimedOut, RedirectTimedOut, Dropped, Lone
  <2> QED
    BY <1>0, <2>2
<1>8. ASSUME NEW w \in Window, EndsInBackground(w) PROVE Undisturbed'
  <2>1. Lone(w) /\ stream[w] = "whole" /\ target[w] # meta /\ target[w] # 0
    <3>1. Lone(w) /\ stream[w] # "none"
      BY <1>0, <1>8 DEF EndsInBackground, Active
    <3> QED
      BY <3>1 DEF Lone
  <2>2. UNCHANGED <<released, meta, dest, pc, installed, target, server, disturbed>> /\ pc[w] \in {"starting", "running"}
    BY <1>8 DEF EndsInBackground
  <2>3. stream' = [stream EXCEPT ![w] = "none"]
    BY <1>8, <2>1, UnlinkedAlone DEF EndsInBackground, Flushed
  <2>4. meta # 0 => asset'[meta] = asset[meta]
    BY <1>8, <2>1 DEF EndsInBackground, Flushed, Unlinked
  <2>5. Lone(w)'
    BY <2>1, <2>2, <2>3, <2>4 DEF Lone
  <2> QED
    BY <1>0, <2>5
<1>9. ASSUME NEW w \in Window, Finish(w) PROVE Undisturbed'
  <2>1. Lone(w) /\ pc[w] = "finishing" /\ stream[w] = "none" /\ asset[target[w]] = "whole"
    <3>1. Lone(w) /\ pc[w] = "finishing"
      BY <1>0, <1>9 DEF Finish, Active, Ended
    <3> QED
      BY <3>1 DEF Lone
  <2>2. Lone(w)'
    BY <1>9, <2>1 DEF Finish, Lone
  <2> QED
    BY <1>0, <2>2
<1>10. ASSUME NEW w \in Window, Copied(w) PROVE Undisturbed'
  <2>1. Lone(w) /\ pc[w] = "copying" /\ stream[w] = "none" /\ asset[target[w]] = "whole" /\ target[w] # 0
    <3>1. Lone(w) /\ pc[w] = "copying"
      BY <1>0, <1>10 DEF Copied, Active, Ended
    <3> QED
      BY <3>1 DEF Lone
  <2>2. dest'.version = target[w] /\ dest'.whole
    BY <1>10, <2>1 DEF Copied
  <2>3. target[w] <= released
    BY <2>1 DEF Lone
  <2>4. Lone(w)'
    BY <1>10, <2>1, <2>2, <2>3 DEF Copied, Lone
  <2> QED
    BY <1>0, <2>4
<1>11. ASSUME NEW w \in Window, CopyThrew(w) PROVE Undisturbed'
  <2>1. Lone(w) /\ pc[w] = "copying" /\ stream[w] = "none"
    BY <1>0, <1>11 DEF CopyThrew, Active, Ended
  <2>2. Lone(w)'
    BY <1>11, <2>1 DEF CopyThrew, Lone
  <2> QED
    BY <1>0, <2>2
<1>12. ASSUME NEW w \in Window, Start(w) PROVE Undisturbed'
  <2>1. Lone(w)
    BY <1>0, <1>12 DEF Start, Active, Ended
  <2>2. Lone(w)'
    BY <1>12, <2>1 DEF Start, Lone
  <2> QED
    BY <1>0, <2>2
<1>13. ASSUME NEW w \in Window, Quit(w) PROVE Undisturbed'
  <2>1. pc' = [pc EXCEPT ![w] = "off"] /\ stream' = [stream EXCEPT ![w] = "none"]
    BY <1>13 DEF Quit, Close
  <2>2. /\ installed' = [installed EXCEPT ![w] = 0] /\ target' = [target EXCEPT ![w] = 0]
        /\ UNCHANGED <<released, meta, asset, dest>>
    BY <1>13 DEF Quit, Close
  <2>3. /\ pc'[w] = "off" /\ stream'[w] = "none"
        /\ \A u \in Window \ {w} : /\ pc'[u] = pc[u] /\ stream'[u] = stream[u]
                                   /\ installed'[u] = installed[u] /\ target'[u] = target[u]
    BY <2>1, <2>2
  <2>4. \A u \in Window : Active(u)' => Active(u) /\ u # w
    BY <2>3 DEF Active, Ended
  <2>5. OneAtATime'
    BY <2>3, <2>4 DEF Undisturbed, OneAtATime
  <2>6. OtherAsset'
    BY <2>2, <2>3 DEF Undisturbed, OtherAsset
  <2>7. Newer'
    BY <2>2, <2>3 DEF Undisturbed, Newer
  <2> QED
    BY <2>5, <2>6, <2>7 DEF Undisturbed
<1>14. ASSUME NEW w \in Window, QuitCopying(w) PROVE FALSE
  BY <1>14 DEF QuitCopying
<1>15. ASSUME NEW v \in Version, RemoveAsset(v) PROVE FALSE
  BY <1>15 DEF RemoveAsset
<1>16. CASE Release
  BY <1>16 DEF Release, Undisturbed, OneAtATime, OtherAsset, Newer, Active
<1>17. CASE UNCHANGED vars
  BY <1>17 DEF vars, Undisturbed, OneAtATime, OtherAsset, Newer, Active
<1>18. ASSUME NEW w \in Window, QuitWriting(w) PROVE Undisturbed'
  <2>1. Lone(w)
    BY <1>0, <1>18 DEF QuitWriting, Active, Ended
  <2>2. Lone(w)'
    BY <1>18, <2>1 DEF QuitWriting, Close, Lone
  <2> QED
    BY <1>0, <2>2
<1>19. ASSUME NEW w \in Window, CopyBroke(w) PROVE FALSE
  BY <1>19 DEF CopyBroke
<1> QED
  BY <1>1, <1>2, <1>3, <1>4, <1>5, <1>6, <1>7, <1>8, <1>9, <1>10, <1>11, <1>12, <1>13, <1>14,
     <1>15, <1>16, <1>17, <1>18, <1>19 DEF Next, Download, Settle

\* What once has been disturbed stays so.
LEMMA DisturbedStays == [Next]_vars => (~disturbed' => ~disturbed)
BY DEF Next, Download, Settle, Activate, LatestAnswered, Refused, Accepted, Received, WriteFailed, TimedOut,
       RedirectTimedOut, Dropped, EndsInBackground, Finish, Copied, CopyThrew, CopyBroke, Start, Quit, QuitCopying,
       QuitWriting, RemoveAsset, Release, vars

\* The invariant.
LEMMA InvAlways == Spec => []Inv
<1>1. Inv /\ [Next]_vars => Inv'
  BY NextType, NextUndisturbed, DisturbedStays DEF Inv
<1> QED
  BY <1>1, InitInv, PTL DEF Spec

\* The variables keep their types, and an activation writes or copies assets of
\* actual releases only.
THEOREM TypeCorrect == Spec => []TypeOK
<1>1. Inv => TypeOK
  BY DEF Inv, TypeInv
<1> QED
  BY <1>1, InvAlways, PTL

\* Without overlapping activations, and if nobody removes an asset, the version
\* that the metadata names is there in full, however downloads end.
THEOREM MetaIsWholeAlways == Spec => []MetaIsWhole
<1>1. Inv => MetaIsWhole
  BY DEF Inv, Undisturbed, OtherAsset, MetaIsWhole
<1> QED
  BY <1>1, InvAlways, PTL

\* And the destination changes to all of a newer release only.
THEOREM OnlyUpgradesAlways == Spec => OnlyUpgrades
<1>1. Inv /\ [Next]_vars => [~disturbed' /\ dest' # dest => dest'.whole /\ dest'.version > dest.version]_vars
  <2> SUFFICES ASSUME Inv, Next, ~disturbed', dest' # dest
               PROVE  dest'.whole /\ dest'.version > dest.version
    BY DEF vars
  <2> USE VersionAssumption DEF Inv, TypeInv, TypeOK, NoVersion, Version
  <2>1. Undisturbed
    BY DisturbedStays DEF vars
  <2>2. PICK w \in Window : Copied(w) \/ QuitCopying(w) \/ CopyBroke(w)
    BY DEF Next, Download, Settle, Activate, LatestAnswered, Refused, Accepted, Received, WriteFailed, TimedOut,
           RedirectTimedOut, Dropped, EndsInBackground, Finish, CopyThrew, Start, Quit,
           QuitWriting, RemoveAsset, Release, netVars, diskVars, windowVars
  <2>3. Copied(w)
    BY <2>2 DEF QuitCopying, CopyBroke
  <2>4. pc[w] = "copying" /\ dest' = [version |-> target[w], whole |-> asset[target[w]] = "whole"]
    BY <2>3 DEF Copied
  <2>5. asset[target[w]] = "whole" /\ target[w] # 0
    BY <2>1, <2>4 DEF Undisturbed, OtherAsset
  <2>6. dest.version <= target[w] /\ (dest.version # 0 => dest.whole)
    BY <2>1, <2>4, <2>5 DEF Undisturbed, Newer
  <2>7. dest = [version |-> dest.version, whole |-> dest.whole] /\ dest.version \in Nat /\ target[w] \in Nat
    OBVIOUS
  <2>8. dest.version # target[w]
    BY <2>4, <2>5, <2>6, <2>7
  <2>9. dest'.version = target[w] /\ dest'.whole
    BY <2>4, <2>5
  <2> QED
    BY <2>6, <2>7, <2>8, <2>9
<1> QED
  BY <1>1, InvAlways, PTL DEF Spec, OnlyUpgrades

----------------------------------------------------------------------------
(* EditorSync. *)

\* What the server knows of a document was its text once.
Behind == \A d \in Doc : known[d] <= text[d]

SyncInv == SyncTypeOK /\ Behind

LEMMA InitSyncInv == SyncInit => SyncInv
<1> SUFFICES ASSUME SyncInit PROVE SyncInv
  OBVIOUS
<1> USE DEF SyncInit
<1>1. text \in [Doc -> 0..MaxEdits] /\ known \in [Doc -> 0..MaxEdits]
  BY ConstantsAssumption
<1>2. age \in 0..Quiet /\ left \in 0..Delay
  BY ConstantsAssumption
<1>3. timer \in Doc \cup {NoDoc} /\ pending \in SUBSET Doc /\ pending = {}
  OBVIOUS
<1>4. didchange \in BOOLEAN
  OBVIOUS
<1>5. Behind
  BY DEF Behind
<1> QED
  BY <1>1, <1>2, <1>3, <1>4, <1>5 DEF SyncInv, SyncTypeOK

LEMMA NextSyncInv == SyncInv /\ [SyncNext]_syncVars => SyncInv'
<1> SUFFICES ASSUME SyncInv, [SyncNext]_syncVars PROVE SyncInv'
  OBVIOUS
<1> USE ConstantsAssumption DEF SyncInv, SyncTypeOK, Behind
<1>1. ASSUME NEW d \in Doc, Type(d) PROVE SyncInv'
  <2>1. text' = [text EXCEPT ![d] = @ + 1] /\ text[d] + 1 \in 0..MaxEdits
    BY <1>1 DEF Type
  <2>2. age' = 0 /\ timer' \in Doc \cup {NoDoc} /\ left' \in 0..Delay
    BY <1>1 DEF Type
  <2>3. UNCHANGED <<known, pending, didchange>>
    BY <1>1 DEF Type
  <2> QED
    BY <2>1, <2>2, <2>3
<1>2. CASE Fire
  BY <1>2 DEF Fire
<1>3. ASSUME NEW d \in Doc, Send(d) PROVE SyncInv'
  BY <1>3 DEF Send, SentText
<1>4. ASSUME NEW d \in Doc, Save(d) PROVE SyncInv'
  BY <1>4 DEF Save
<1>5. CASE ProvideInlayHints
  BY <1>5 DEF ProvideInlayHints
<1>6. CASE Tick
  BY <1>6 DEF Tick
<1>7. CASE UNCHANGED syncVars
  BY <1>7 DEF syncVars
<1> QED
  BY <1>1, <1>2, <1>3, <1>4, <1>5, <1>6, <1>7 DEF SyncNext

\* The variables keep their types, and completion is never refused while a
\* change is on its way (the flag didchange of context.ts).
THEOREM SyncTypeCorrect == SyncSpec => []SyncTypeOK
<1>1. SyncInv => SyncTypeOK
  BY DEF SyncInv
<1> QED
  BY <1>1, InitSyncInv, NextSyncInv, PTL DEF SyncSpec

\* However edits, saves and the one timer interleave, a change that was held
\* back never takes the server back to an older text: it delivers the text the
\* document has when it is sent, which no text the server knows is ahead of.
THEOREM DelayedNeverOlder == SyncSpec => NeverOlder
<1>1. SyncInv /\ [SyncNext]_syncVars => [\A d \in Doc : known'[d] >= known[d]]_syncVars
  <2> SUFFICES ASSUME SyncInv, SyncNext, NEW d \in Doc PROVE known'[d] >= known[d]
    BY DEF syncVars
  <2> USE DEF SyncInv, SyncTypeOK, Behind
  <2>1. known[d] \in Nat /\ text[d] \in Nat /\ known[d] <= text[d]
    BY ConstantsAssumption
  <2>2. ASSUME NEW e \in Doc, Send(e) \/ Save(e) PROVE known'[d] \in {known[d], text[d]}
    BY <2>2 DEF Send, Save, SentText
  <2>3. CASE UNCHANGED known
    BY <2>1, <2>3
  <2> QED
    BY <2>1, <2>2, <2>3 DEF SyncNext, Type, Fire, ProvideInlayHints, Tick
<1> QED
  BY <1>1, InitSyncInv, NextSyncInv, PTL DEF SyncSpec, NeverOlder

----------------------------------------------------------------------------
(* Completion. *)

LEMMA CompletionStep == [CompletionNext]_completionVars => [SyncNext]_syncVars
BY DEF CompletionNext, completionVars, DidChange, DidSave, EditManifest, Elsewhere, SyncNext

\* Completion leaves the traffic of texts as it is: the composed specification
\* implements EditorSync, whose theorems therefore hold of it.
THEOREM CompletionImplementsSync == CompletionSpec => SyncSpec
BY CompletionStep, PTL DEF CompletionSpec, CompletionInit, SyncSpec

\* The text completion works on is none that the server has not been sent.
KeptIsKnown ==
  /\ modified \in [doc : Doc \cup {NoDoc}, text : Nat]
  /\ modified.doc # NoDoc => modified.text <= known[modified.doc]

\* However changes, saves and broken manifests interleave, completion works on
\* a text of one of the documents that is not newer than what the server was
\* sent of it (update_defs keeps the content it is given or leaves the old one).
THEOREM CompletionBehindSync == CompletionSpec => []KeptIsKnown
<1>1. CompletionInit => SyncInv /\ KeptIsKnown
  BY InitSyncInv DEF CompletionInit, KeptIsKnown, NoText
<1>2. SyncInv /\ KeptIsKnown /\ [CompletionNext]_completionVars => (SyncInv /\ KeptIsKnown)'
  <2> SUFFICES ASSUME SyncInv, KeptIsKnown, [CompletionNext]_completionVars
               PROVE SyncInv' /\ KeptIsKnown'
    OBVIOUS
  <2>1. SyncInv'
    BY CompletionStep, NextSyncInv
  <2>2. ASSUME NEW d \in Doc, UpdateDefs(d, known'[d]),
               known' = [known EXCEPT ![d] = text[d]]
        PROVE KeptIsKnown'
    <3>1. known \in [Doc -> Nat] /\ text[d] \in Nat /\ \A e \in Doc : known[e] <= known'[e]
      BY <2>2, ConstantsAssumption DEF SyncInv, SyncTypeOK, Behind
    <3>2. CASE modified' = [doc |-> d, text |-> known'[d]]
      BY <2>2, <3>1, <3>2 DEF KeptIsKnown
    <3>3. CASE modified' = modified
      BY <2>2, <3>1, <3>3 DEF KeptIsKnown
    <3> QED
      BY <2>2, <3>2, <3>3 DEF UpdateDefs
  <2>3. ASSUME NEW d \in Doc, DidChange(d) \/ DidSave(d) PROVE KeptIsKnown'
    <3>1. known' = [known EXCEPT ![d] = text[d]] /\ known'[d] = text[d]
      BY <2>3 DEF DidChange, DidSave, Send, Save, SentText, SyncInv, SyncTypeOK
    <3>2. UpdateDefs(d, known'[d])
      BY <2>3, <3>1 DEF DidChange, DidSave, UpdateDefs, SentText
    <3> QED
      BY <2>2, <3>1, <3>2
  <2>4. ASSUME known' = known, modified' = modified PROVE KeptIsKnown'
    BY <2>4 DEF KeptIsKnown
  <2>5. CASE EditManifest
    BY <2>1, <2>4, <2>5 DEF EditManifest, syncVars
  <2>6. CASE Elsewhere
    BY <2>1, <2>4, <2>6 DEF Elsewhere, Type, Fire, ProvideInlayHints, Tick
  <2>7. CASE UNCHANGED completionVars
    BY <2>1, <2>4, <2>7 DEF completionVars, syncVars
  <2> QED
    BY <2>1, <2>3, <2>5, <2>6, <2>7 DEF CompletionNext
<1> QED
  BY <1>1, <1>2, PTL DEF CompletionSpec
====
