---- MODULE ProjectTable ----
(***************************************************************************)
(* What the table of loaded projects promises to the handlers that look    *)
(* packages up in it: a package has no project or one, which is replaced   *)
(* as a whole by one that was loaded later, and never taken away.          *)
(***************************************************************************)
EXTENDS Naturals

CONSTANT Pkg       \* packages

VARIABLE loaded    \* package -> the versions of its project in the table

\* The manifests a project was loaded from and their times, 0 where none was read.
Version == [key : SUBSET Pkg, times : [Pkg -> Nat]]

\* A project of p has read p's manifest.
VersionOf(v, p) == v \in Version /\ p \in v.key /\ v.times[p] # 0

\* No manifest that both have read was older when w read it.
NotOlder(v, w) ==
  \A q \in Pkg : v.times[q] = 0 \/ w.times[q] = 0 \/ v.times[q] <= w.times[q]

\* p's project, the first or a newer one, enters the table.
Load(p) ==
  \E w \in loaded'[p] :
    /\ VersionOf(w, p)
    /\ \A v \in loaded[p] : NotOlder(v, w)
    /\ loaded' = [loaded EXCEPT ![p] = {w}]

Init == loaded = [p \in Pkg |-> {}]

Next == \E p \in Pkg : Load(p)

Spec == Init /\ [][Next]_loaded
====
