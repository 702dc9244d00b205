---- MODULE ProjectRegistryProofs ----
(***************************************************************************)
(* Proofs about ProjectRegistry, for every set of packages and every       *)
(* number of edits.                                                        *)
(***************************************************************************)
EXTENDS ProjectRegistry, SequenceTheorems, TLAPS

\* Project::new returns a project of the right type, rooted at the package it
\* was asked for, whose manifests contain that package.
LEMMA LoadType ==
  ASSUME TypeOK, NEW p \in Pkg
  PROVE  /\ Load(p) \in Project
         /\ Load(p) # NoProject
         /\ Load(p).root = p
         /\ Load(p).manifests = Closure(p)
         /\ p \in Closure(p)
         /\ Closure(p) \in SUBSET Pkg
<1>1. Closure(p) \in SUBSET Pkg /\ p \in Closure(p)
  BY DEF Closure, Reach
<1>2. SeenTimes(p) \in [Pkg -> Times \cup {Untracked}]
  BY DEF SeenTimes, TypeOK, Package
<1>3. Reach(p, ResolverEdges(p)) \in SUBSET Pkg
  BY DEF Reach
<1>4. Load(p) \in Project
  BY <1>1, <1>2, <1>3 DEF Load, Project
<1>5. Load(p).root = p /\ Load(p).manifests = Closure(p)
  BY DEF Load
<1> QED
  BY <1>1, <1>4, <1>5, NoProjectAssumption

\* Inserting a project changes one entry of the table.
LEMMA InsertType ==
  ASSUME NEW table \in [SUBSET Pkg -> Project \cup {NoProject}], NEW v \in Project
  PROVE  Insert(table, v) \in [SUBSET Pkg -> Project \cup {NoProject}]
BY DEF Insert, KeyOf, Project

LEMMA KeysType == TypeOK => Keys \in SUBSET SUBSET Pkg /\ \A k \in Keys : projects[k] \in Project
BY DEF Keys, TypeOK

\* An edit writes a package record.
LEMMA EditType ==
  ASSUME TypeOK, Edit
  PROVE  /\ disk' \in [Pkg -> Package]
         /\ broken' \in SUBSET Pkg
         /\ edits' \in 0..MaxEdits
         /\ UNCHANGED <<opened, projects, pc, msg, toMissing, toModified, all, toUpdate>>
<1>1. PICK p \in Pkg :
        \/ \E layout \in Layouts, deps \in SUBSET {q \in Pkg : <<p, q>> \in Declarable} :
             EditPackage(p, layout, deps)
        \/ ToggleBroken(p)
  BY DEF Edit
<1>2. CASE ToggleBroken(p)
  BY <1>2, ConstantsAssumption DEF ToggleBroken, TypeOK, reloadVars
<1>3. ASSUME NEW layout \in Layouts, NEW deps \in SUBSET {q \in Pkg : <<p, q>> \in Declarable},
             EditPackage(p, layout, deps)
      PROVE  /\ disk' \in [Pkg -> Package]
             /\ edits' \in 0..MaxEdits
             /\ UNCHANGED <<broken, opened, projects, pc, msg, toMissing, toModified,
                            all, toUpdate>>
  <2>1. edits \in 0..MaxEdits /\ edits < MaxEdits /\ MaxEdits \in Nat
    BY <1>3, ConstantsAssumption DEF TypeOK, EditPackage
  <2>2. edits + 2 \in Times /\ 0 \in Times /\ edits + 1 \in 0..MaxEdits
    BY <2>1 DEF Times
  <2>3. layout \in AllLayouts /\ deps \in SUBSET Pkg
    BY ConstantsAssumption
  <2> QED
    BY <1>3, <2>2, <2>3 DEF EditPackage, TypeOK, Package, reloadVars
<1> QED
  BY <1>1, <1>2, <1>3 DEF TypeOK

\* The keys a pass has still to load, and those an update has still to treat,
\* are keys of the table: the table changes after the last of them is loaded.
PendingInKeys == toMissing \cup toModified \cup toUpdate \subseteq Keys

TypeInv == TypeOK /\ PendingInKeys

LEMMA TypeInit == Init => TypeInv
<1> SUFFICES ASSUME Init PROVE TypeInv
  OBVIOUS
<1>1. disk \in [Pkg -> Package]
  <2>1. \A p \in Pkg : disk[p] \in InitialPackage
    BY DEF Init
  <2>2. InitialPackage \subseteq Package
    BY ConstantsAssumption DEF InitialPackage, Package, Times
  <2> QED
    BY <2>1, <2>2 DEF Init
<1>2. edits \in 0..MaxEdits
  BY ConstantsAssumption DEF Init
<1> QED
  BY <1>1, <1>2 DEF Init, TypeInv, TypeOK, PendingInKeys, Reloading

LEMMA TypeStep == TypeInv /\ [Next]_vars => TypeInv'
<1> SUFFICES ASSUME TypeInv, [Next]_vars PROVE TypeInv'
  OBVIOUS
<1> USE DEF TypeInv, PendingInKeys
<1>1. CASE Edit
  BY <1>1, EditType DEF TypeOK, Reloading, Keys
<1>2. ASSUME NEW m \in Message, Receive(m.kind, m.pkg) PROVE TypeInv'
  <2>1. NotFounds \subseteq Keys /\ Modifies \subseteq Keys /\ Keys \in SUBSET SUBSET Pkg
    BY DEF NotFounds, Modifies, Keys
  <2>2. opened' \in SUBSET Pkg /\ msg' \in Message
    BY <1>2 DEF Receive, TypeOK, Message
  <2> QED
    BY <1>2, <2>1, <2>2 DEF Receive, TypeOK, Reloading, diskVars, Keys
<1>3. ASSUME NEW k \in SUBSET Pkg, ReloadMissing(k) PROVE TypeInv'
  <2>1. projects[k] \in Project /\ projects[k].root \in Pkg
    BY <1>3, KeysType DEF ReloadMissing, Project
  <2>2. [key |-> k, project |-> Load(projects[k].root)] \in Reloaded
    BY <2>1, LoadType DEF Reloaded
  <2> DEFINE loaded == [key |-> k, project |-> Load(projects[k].root)]
  <2>5. Append(all, loaded) \in Seq(Reloaded) /\ << >> \in Seq(Reloaded)
    <3> HIDE DEF loaded
    <3> QED BY <2>2, AppendProperties DEF TypeOK, loaded
  <2>3. all' \in Seq(Reloaded)
    BY <1>3, <2>5 DEF ReloadMissing, TypeOK
  <2>4. toMissing' \subseteq toMissing /\ toModified' \subseteq toModified /\ pc' = pc
        /\ pc = "reload" /\ UNCHANGED <<disk, broken, edits, opened, projects, msg, toUpdate>>
    BY <1>3 DEF ReloadMissing, diskVars
  <2> QED
    BY <2>3, <2>4 DEF TypeOK, Reloading, Keys
<1>4. ASSUME NEW k \in SUBSET Pkg, ReloadModified(k) PROVE TypeInv'
  <2>1. projects[k] \in Project /\ projects[k].root \in Pkg
    BY <1>4, KeysType DEF ReloadModified, Project
  <2>2. [key |-> k, project |-> Load(projects[k].root)] \in Reloaded
    BY <2>1, LoadType DEF Reloaded
  <2> DEFINE loaded == [key |-> k, project |-> Load(projects[k].root)]
  <2>5. Append(all, loaded) \in Seq(Reloaded)
    BY <2>2, AppendProperties DEF TypeOK
  <2>3. all' \in Seq(Reloaded)
    BY <1>4, <2>5 DEF ReloadModified, TypeOK
  <2> QED
    BY <1>4, <2>3 DEF ReloadModified, diskVars, TypeOK, Reloading, Keys
<1>5. CASE Swap
  <2>1. Head(all) \in Reloaded /\ Tail(all) \in Seq(Reloaded)
    BY <1>5 DEF Swap, TypeOK
  <2>2. SwapIn(projects, Head(all)) \in [SUBSET Pkg -> Project \cup {NoProject}]
    BY <2>1, InsertType DEF SwapIn, Reloaded, TypeOK
  <2>3. toUpdate = {}
    BY <1>5 DEF Swap, TypeOK
  <2> QED
    BY <1>5, <2>1, <2>2, <2>3 DEF Swap, diskVars, TypeOK, Reloading
<1>6. CASE DidOpen
  <2>1. msg.pkg \in Pkg
    BY <1>6 DEF DidOpen, Dispatching, TypeOK, Message, NoMessage
  <2>2. projects' \in [SUBSET Pkg -> Project \cup {NoProject}]
    BY <1>6, <2>1, LoadType, InsertType DEF DidOpen, TypeOK
  <2> QED
    BY <1>6, <2>2 DEF DidOpen, Dispatching, diskVars, reloadVars, TypeOK, Reloading
<1>7. CASE DidChange
  BY <1>7 DEF DidChange, Dispatching, KeysWith, Keys, diskVars, reloadVars, TypeOK, Reloading
<1>8. ASSUME NEW k \in SUBSET Pkg, UpdateDefs(k) PROVE TypeInv'
  <2>1. projects[k] \in Project
    BY <1>8, KeysType DEF UpdateDefs
  <2>2. msg.pkg \in Pkg
    BY <1>8 DEF UpdateDefs, TypeOK, Message
  <2>3. Load(msg.pkg).env \in SUBSET Pkg
    BY <2>2, LoadType DEF Project
  <2> DEFINE updated == [projects[k] EXCEPT !.env = Load(msg.pkg).env]
  <2>4. updated \in Project /\ updated # NoProject
    BY <2>1, <2>3, NoProjectAssumption DEF Project
  <2> HIDE DEF updated
  <2>5. projects' \in [SUBSET Pkg -> Project \cup {NoProject}] /\ Keys \subseteq Keys'
    BY <1>8, <2>4 DEF UpdateDefs, TypeOK, Keys, updated
  <2> QED
    BY <1>8, <2>5 DEF UpdateDefs, diskVars, reloadVars, TypeOK, Reloading
<1>9. CASE UpdateDone
  BY <1>9 DEF UpdateDone, diskVars, reloadVars, TypeOK, Reloading, Keys
<1>10. CASE OtherMessage
  BY <1>10 DEF OtherMessage, Dispatching, diskVars, reloadVars, TypeOK, Reloading, Keys
<1>11. CASE UNCHANGED vars
  BY <1>11 DEF vars, TypeOK, Reloading, Keys
<1> QED
  BY <1>1, <1>2, <1>3, <1>4, <1>5, <1>6, <1>7, <1>8, <1>9, <1>10, <1>11
  DEF Next, Arrival, Server

\* TypeOK holds in every state, for all constants.
THEOREM TypeCorrect == Spec => []TypeOK
<1>1. TypeInv => TypeOK
  BY DEF TypeInv
<1> QED
  BY <1>1, TypeInit, TypeStep, PTL DEF Spec

----------------------------------------------------------------------------
(* Keys and manifests. *)

\* What a swap leaves under each key.
LEMMA SwapEffect ==
  ASSUME TypeOK, NEW r \in Reloaded, NEW k \in SUBSET Pkg
  PROVE  SwapIn(projects, r)[k] =
           IF k = r.project.manifests THEN r.project
           ELSE IF k = r.key THEN NoProject ELSE projects[k]
BY DEF SwapIn, Insert, KeyOf, TypeOK, Reloaded, Project

\* What an insertion leaves under each key.
LEMMA InsertEffect ==
  ASSUME TypeOK, NEW v \in Project, NEW k \in SUBSET Pkg
  PROVE  Insert(projects, v)[k] = IF k = v.manifests THEN v ELSE projects[k]
BY DEF Insert, KeyOf, TypeOK, Project

\* What update_defs leaves under each key: it never touches manifests or root.
LEMMA UpdateEffect ==
  ASSUME TypeInv, NEW k \in SUBSET Pkg, UpdateDefs(k)
  PROVE  /\ Keys' = Keys
         /\ \A l \in Keys :
              /\ projects'[l].manifests = projects[l].manifests
              /\ projects'[l].root = projects[l].root
         /\ UNCHANGED <<disk, all, toMissing, toModified>>
<1>1. k \in Keys /\ projects[k] \in Project /\ msg.pkg \in Pkg
  BY KeysType DEF TypeInv, PendingInKeys, UpdateDefs, TypeOK, Message
<1>2. Load(msg.pkg).env \in SUBSET Pkg
  BY <1>1, LoadType DEF TypeInv, Project
<1> DEFINE updated == [projects[k] EXCEPT !.env = Load(msg.pkg).env]
<1>3. /\ updated \in Project
      /\ updated # NoProject
      /\ updated.manifests = projects[k].manifests
      /\ updated.root = projects[k].root
  BY <1>1, <1>2, NoProjectAssumption DEF Project
<1>4. projects' = projects \/ projects' = [projects EXCEPT ![k] = updated]
  BY DEF UpdateDefs
<1> HIDE DEF updated
<1> QED
  BY <1>1, <1>3, <1>4 DEF UpdateDefs, TypeInv, TypeOK, Keys, diskVars, reloadVars

BatchRooted == \A i \in DOMAIN all : all[i].project.root \in all[i].project.manifests

KeyInv == TypeInv /\ KeyIsManifests /\ BatchRooted

\* Every step that loads puts at most one project, of the right root, at the
\* end of the batch.
LEMMA BatchGrows ==
  ASSUME TypeInv, NEW k \in SUBSET Pkg, ReloadMissing(k) \/ ReloadModified(k)
  PROVE  /\ k \in Keys
         /\ projects[k].root \in Pkg
         /\ \/ all' = << >>
            \/ all' = all
            \/ /\ Builds(projects[k].root)
               /\ all' = Append(all, [key |-> k, project |-> Load(projects[k].root)])
         /\ UNCHANGED <<disk, projects, toUpdate>>
         /\ toMissing' \subseteq toMissing
         /\ toModified' \subseteq toModified
<1>1. k \in Keys
  BY DEF TypeInv, PendingInKeys, ReloadMissing, ReloadModified
<1>2. projects[k].root \in Pkg
  BY <1>1, KeysType DEF TypeInv, Project
<1> QED
  BY <1>1, <1>2 DEF ReloadMissing, ReloadModified, diskVars

\* The entries of a sequence that grows by one.
LEMMA AppendEntries ==
  ASSUME NEW S, NEW s \in Seq(S), NEW e \in S, NEW i \in DOMAIN Append(s, e)
  PROVE  \/ i \in DOMAIN s /\ Append(s, e)[i] = s[i]
         \/ i = Len(s) + 1 /\ Append(s, e)[i] = e
BY AppendProperties

\* The entries of a sequence that loses its head.
LEMMA TailEntries ==
  ASSUME NEW S, NEW s \in Seq(S), s # << >>, NEW i \in DOMAIN Tail(s)
  PROVE  /\ i + 1 \in DOMAIN s
         /\ i + 1 # 1
         /\ Tail(s)[i] = s[i + 1]
BY HeadTailProperties

LEMMA KeyStep == KeyInv /\ [Next]_vars => KeyInv'
<1> SUFFICES ASSUME KeyInv, [Next]_vars PROVE KeyIsManifests' /\ BatchRooted'
  BY TypeStep DEF KeyInv
<1> USE DEF KeyInv
<1>1. TypeOK /\ TypeInv'
  BY TypeStep DEF TypeInv
<1>2. ASSUME UNCHANGED <<projects, all>> PROVE KeyIsManifests' /\ BatchRooted'
  BY <1>2 DEF KeyIsManifests, BatchRooted, Keys
<1>3. CASE Edit
  BY <1>1, <1>2, <1>3, EditType
<1>4. ASSUME NEW m \in Message, Receive(m.kind, m.pkg)
      PROVE  KeyIsManifests' /\ BatchRooted'
  BY <1>2, <1>4 DEF Receive
<1>5. ASSUME NEW k \in SUBSET Pkg, ReloadMissing(k) \/ ReloadModified(k)
      PROVE  KeyIsManifests' /\ BatchRooted'
  <2> DEFINE e == [key |-> k, project |-> Load(projects[k].root)]
  <2>1. e \in Reloaded /\ e.project.root \in e.project.manifests
    BY <1>1, <1>5, BatchGrows, LoadType DEF Reloaded
  <2>2. all \in Seq(Reloaded)
    BY <1>1 DEF TypeOK
  <2>3. BatchRooted'
    <3>1. CASE all' = << >> \/ all' = all
      BY <3>1 DEF BatchRooted
    <3>2. CASE all' = Append(all, e)
      <4> HIDE DEF e
      <4> SUFFICES ASSUME NEW i \in DOMAIN Append(all, e)
                   PROVE  Append(all, e)[i].project.root \in Append(all, e)[i].project.manifests
        BY <3>2 DEF BatchRooted
      <4> QED
        BY <2>1, <2>2, AppendEntries DEF BatchRooted
    <3> QED
      BY <1>5, <3>1, <3>2, BatchGrows
  <2> QED
    BY <1>5, <2>3, BatchGrows DEF KeyIsManifests, Keys
<1>6. CASE Swap
  <2>1. all \in Seq(Reloaded) /\ all # << >>
    BY <1>1, <1>6 DEF Swap, TypeOK
  <2>2. Head(all) \in Reloaded /\ Head(all).project.root \in Head(all).project.manifests
    BY <2>1 DEF BatchRooted
  <2>3. ASSUME NEW k \in Keys'
        PROVE  projects'[k].manifests = k /\ projects'[k].root \in k
    BY <1>1, <1>6, <2>2, SwapEffect DEF Keys, Swap, KeyIsManifests
  <2>4. BatchRooted'
    BY <1>6, <2>1, TailEntries DEF Swap, BatchRooted
  <2> QED
    BY <2>3, <2>4 DEF KeyIsManifests
<1>7. CASE DidOpen
  <2>1. msg.pkg \in Pkg
    BY <1>1, <1>7 DEF DidOpen, Dispatching, TypeOK, Message
  <2>2. CASE projects' = Insert(projects, Load(msg.pkg))
    <3>1. ASSUME NEW k \in Keys'
          PROVE  projects'[k].manifests = k /\ projects'[k].root \in k
      BY <1>1, <2>1, <2>2, LoadType, InsertEffect DEF Keys, KeyIsManifests
    <3> QED
      BY <1>7, <3>1 DEF KeyIsManifests, BatchRooted, DidOpen, reloadVars
  <2> QED
    BY <1>2, <1>7, <2>2 DEF DidOpen, reloadVars
<1>8. CASE DidChange
  BY <1>2, <1>8 DEF DidChange, reloadVars
<1>9. ASSUME NEW k \in SUBSET Pkg, UpdateDefs(k) PROVE KeyIsManifests' /\ BatchRooted'
  BY <1>9, UpdateEffect DEF KeyIsManifests, BatchRooted
<1>10. CASE UpdateDone
  BY <1>2, <1>10 DEF UpdateDone, reloadVars
<1>11. CASE OtherMessage
  BY <1>2, <1>11 DEF OtherMessage, reloadVars
<1>12. CASE UNCHANGED vars
  BY <1>2, <1>12 DEF vars
<1> QED
  BY <1>3, <1>4, <1>5, <1>6, <1>7, <1>8, <1>9, <1>10, <1>11, <1>12
  DEF Next, Arrival, Server

\* The keys that get_project searches are the manifest sets of their projects,
\* whatever loads, reloads and updates came before.
THEOREM KeysCorrect == Spec => []KeyIsManifests
<1>1. Init => KeyInv
  <2> SUFFICES ASSUME Init PROVE KeyIsManifests /\ BatchRooted
    BY TypeInit DEF KeyInv
  <2>1. Keys = {} /\ all = << >>
    BY DEF Init, Keys
  <2> QED
    BY <2>1 DEF KeyIsManifests, BatchRooted
<1>2. KeyInv => KeyIsManifests
  BY DEF KeyInv
<1> QED
  BY <1>1, <1>2, KeyStep, PTL DEF Spec

----------------------------------------------------------------------------
(* Packages in layers: every manifest may only name packages of a lower    *)
(* rank.  Then a key has one package of highest rank, its project's root,  *)
(* so that projects of different roots never compete for a key.            *)

Ranks == {rank \in [Pkg -> Nat] : \A p, q \in Pkg : <<p, q>> \in Declarable => rank[q] < rank[p]}

Dominates(rank, r, k) == r \in k /\ \A q \in k : q = r \/ rank[q] < rank[r]

DeclaredInv == \A p \in Pkg : \A q \in disk[p].deps : <<p, q>> \in Declarable

DominatedKeys(rank) ==
  /\ \A k \in Keys : Dominates(rank, projects[k].root, k)
  /\ \A i \in DOMAIN all : Dominates(rank, all[i].project.root, all[i].project.manifests)

\* No project waits to be loaded for two reasons, or again once it is loaded.
PendingDistinct ==
  /\ \A k \in toMissing, l \in toModified : projects[k].root # projects[l].root
  /\ \A k \in toMissing \cup toModified : \A i \in DOMAIN all :
       projects[k].root # all[i].project.root

LayeredInv(rank) ==
  /\ KeyInv
  /\ DeclaredInv
  /\ DominatedKeys(rank)
  /\ OneProjectPerRoot
  /\ PendingKeysLive
  /\ BatchRootsDistinct
  /\ PendingDistinct

\* A set has at most one dominating package.
LEMMA DominatesUnique ==
  ASSUME NEW rank \in Ranks, NEW k \in SUBSET Pkg, NEW r \in Pkg, NEW s \in Pkg,
         Dominates(rank, r, k), Dominates(rank, s, k)
  PROVE  r = s
BY DEF Dominates, Ranks

\* The packages that a load reaches have a lower rank than its root.
LEMMA ClosureDominated ==
  ASSUME NEW rank \in Ranks, TypeOK, DeclaredInv, NEW p \in Pkg
  PROVE  Dominates(rank, p, Closure(p))
<1> DEFINE S == {q \in Pkg : q = p \/ rank[q] < rank[p]}
<1>1. p \in S /\ S \in SUBSET Pkg
  OBVIOUS
<1>2. ASSUME NEW s \in S PROVE DepsOf(s) \subseteq S
  <2>1. \A d \in DepsOf(s) : d \in Pkg /\ <<s, d>> \in Declarable
    BY DEF DepsOf, DeclaredInv, TypeOK, Package
  <2>2. \A d \in DepsOf(s) : d \in Pkg /\ rank[d] < rank[s]
    BY <2>1 DEF Ranks
  <2> QED
    BY <2>2 DEF Ranks
<1>3. Closure(p) \subseteq S
  BY <1>1, <1>2 DEF Closure, Reach
<1> QED
  BY <1>3, LoadType DEF Dominates

\* Edits keep to the dependencies that manifests may declare.
LEMMA EditDeclared == TypeOK /\ DeclaredInv /\ Edit => DeclaredInv'
<1> SUFFICES ASSUME TypeOK, DeclaredInv, Edit PROVE DeclaredInv'
  OBVIOUS
<1>1. PICK p \in Pkg :
        \/ \E layout \in Layouts, deps \in SUBSET {q \in Pkg : <<p, q>> \in Declarable} :
             EditPackage(p, layout, deps)
        \/ ToggleBroken(p)
  BY DEF Edit
<1>2. CASE ToggleBroken(p)
  BY <1>2 DEF ToggleBroken, DeclaredInv
<1>3. ASSUME NEW layout \in Layouts, NEW deps \in SUBSET {q \in Pkg : <<p, q>> \in Declarable},
             EditPackage(p, layout, deps)
      PROVE  DeclaredInv'
  <2>1. \A x \in Pkg : disk'[x].deps = IF x = p THEN deps ELSE disk[x].deps
    BY <1>3 DEF EditPackage, TypeOK
  <2> QED
    BY <2>1 DEF DeclaredInv
<1> QED
  BY <1>1, <1>2, <1>3

\* A step that leaves the table and the batch alone and only takes keys off
\* the lists preserves the layered invariant.
LEMMA LayeredFrame ==
  ASSUME NEW rank \in Ranks, LayeredInv(rank), KeyInv', DeclaredInv',
         UNCHANGED <<projects, all>>,
         toMissing' \subseteq toMissing, toModified' \subseteq toModified
  PROVE  LayeredInv(rank)'
<1>1. Keys' = Keys
  BY DEF Keys
<1>2. DominatedKeys(rank)' /\ OneProjectPerRoot' /\ BatchRootsDistinct'
  BY <1>1 DEF LayeredInv, DominatedKeys, OneProjectPerRoot, BatchRootsDistinct, Dominates
<1>3. PendingKeysLive'
  BY <1>1 DEF LayeredInv, PendingKeysLive, KeyInv, TypeInv, PendingInKeys
<1>4. PendingDistinct'
  BY DEF LayeredInv, PendingDistinct
<1> QED
  BY <1>2, <1>3, <1>4 DEF LayeredInv

\* Loading one more project of a pass preserves the layered invariant.
LEMMA LayeredReload ==
  ASSUME NEW rank \in Ranks, LayeredInv(rank), KeyInv', NEW k \in SUBSET Pkg,
         ReloadMissing(k) \/ ReloadModified(k)
  PROVE  LayeredInv(rank)'
<1> DEFINE e == [key |-> k, project |-> Load(projects[k].root)]
<1>0. TypeInv /\ TypeOK
  BY DEF LayeredInv, KeyInv, TypeInv
<1>1. /\ k \in Keys
      /\ projects[k].root \in Pkg
      /\ UNCHANGED <<disk, projects, toUpdate>>
      /\ toMissing' \subseteq toMissing
      /\ toModified' \subseteq toModified
      /\ Keys' = Keys
      /\ DeclaredInv'
  BY <1>0, BatchGrows DEF Keys, LayeredInv, DeclaredInv
<1>2. /\ e \in Reloaded /\ e.key = k
      /\ e.project.root = projects[k].root
      /\ Dominates(rank, e.project.root, e.project.manifests)
  BY <1>0, <1>1, LoadType, ClosureDominated DEF Reloaded, LayeredInv
<1> HIDE DEF e
<1>3. CASE all' = << >>
  BY <1>1, <1>3
  DEF LayeredInv, DominatedKeys, Dominates, OneProjectPerRoot, PendingKeysLive,
      BatchRootsDistinct, PendingDistinct, KeyInv, TypeInv, PendingInKeys
<1>4. CASE all' = all
  BY <1>1, <1>4, LayeredFrame
<1>5. CASE all' = Append(all, e) /\ all' # all /\ all' # << >>
  <2>1. all \in Seq(Reloaded)
    BY <1>0 DEF TypeOK
  <2>2. \A i \in DOMAIN all' :
          \/ i \in DOMAIN all /\ all'[i] = all[i]
          \/ i = Len(all) + 1 /\ all'[i] = e
    <3>1. ASSUME NEW i \in DOMAIN Append(all, e)
          PROVE  \/ i \in DOMAIN all /\ Append(all, e)[i] = all[i]
                 \/ i = Len(all) + 1 /\ Append(all, e)[i] = e
      BY <1>2, <2>1, AppendEntries
    <3> QED
      BY <1>5, <3>1
  <2>3. \A i \in DOMAIN all : all[i].project.root # projects[k].root
    BY DEF LayeredInv, PendingDistinct, ReloadMissing, ReloadModified
  <2>4. \A l \in toMissing' \cup toModified' : projects[l].root # projects[k].root
    <3>1. CASE ReloadMissing(k)
      <4>1. toMissing' \subseteq toMissing \ {k} /\ k \in toMissing
        BY <3>1 DEF ReloadMissing
      <4>2. toMissing \subseteq Keys
        BY <1>0 DEF TypeInv, PendingInKeys
      <4> QED
        BY <1>1, <4>1, <4>2 DEF LayeredInv, OneProjectPerRoot, PendingDistinct
    <3>2. CASE ReloadModified(k)
      <4>1. toMissing' = {} /\ toModified' \subseteq toModified \ {k}
        BY <3>2 DEF ReloadModified
      <4>2. toModified \subseteq Keys
        BY <1>0 DEF TypeInv, PendingInKeys
      <4> QED
        BY <1>1, <4>1, <4>2 DEF LayeredInv, OneProjectPerRoot
    <3> QED
      BY <3>1, <3>2
  <2>5. DominatedKeys(rank)'
    BY <1>1, <1>2, <2>2 DEF LayeredInv, DominatedKeys, Dominates
  <2>6. PendingKeysLive'
    BY <1>1, <1>2, <2>2 DEF LayeredInv, PendingKeysLive, KeyInv, TypeInv, PendingInKeys
  <2>7. BatchRootsDistinct'
    BY <1>2, <2>2, <2>3 DEF LayeredInv, BatchRootsDistinct
  <2>8. PendingDistinct'
    BY <1>1, <1>2, <2>2, <2>4 DEF LayeredInv, PendingDistinct
  <2> QED
    BY <1>1, <2>5, <2>6, <2>7, <2>8 DEF LayeredInv, OneProjectPerRoot
<1> QED
  BY <1>0, <1>3, <1>4, <1>5, BatchGrows DEF e

\* Swapping the head of the batch in preserves the layered invariant, and
\* every root that had a project still has one.
\* A swap files one project anew and leaves those of other roots where they are.
LEMMA SwapMoves ==
  ASSUME NEW rank \in Ranks, LayeredInv(rank), Swap
  PROVE  LET r == Head(all)
             root == r.project.root
             key == r.project.manifests
         IN  /\ 1 \in DOMAIN all /\ r = all[1] /\ r \in Reloaded
             /\ r.key \in Keys /\ projects[r.key].root = root
             /\ root \in Pkg /\ Dominates(rank, root, key)
             /\ key \in Keys' /\ projects'[key] = r.project
             /\ \A k \in Keys : projects[k].root # root =>
                  k # key /\ k \in Keys' /\ projects'[k] = projects[k]
             /\ \A k \in Keys' \ {key} :
                  k \in Keys /\ projects'[k] = projects[k] /\ projects[k].root # root
<1> DEFINE r == Head(all)
<1>1. /\ TypeOK
      /\ all \in Seq(Reloaded) /\ all # << >>
      /\ 1 \in DOMAIN all /\ r = all[1] /\ r \in Reloaded
  BY DEF Swap, LayeredInv, KeyInv, TypeInv, TypeOK
<1> DEFINE root == r.project.root
           key == r.project.manifests
<1>2. root \in Pkg /\ key \in SUBSET Pkg /\ r.project # NoProject
  BY <1>1, NoProjectAssumption DEF Reloaded, Project
<1>3. Dominates(rank, root, key)
  BY <1>1 DEF LayeredInv, DominatedKeys
<1>4. r.key \in Keys /\ projects[r.key].root = root
  BY <1>1 DEF LayeredInv, PendingKeysLive
<1>5. \A k \in SUBSET Pkg :
        projects'[k] = IF k = key THEN r.project
                       ELSE IF k = r.key THEN NoProject ELSE projects[k]
  BY <1>1, SwapEffect DEF Swap
<1> HIDE DEF r, root, key
<1>6. \A k \in Keys : k \in SUBSET Pkg /\ projects[k].root \in Pkg
                      /\ Dominates(rank, projects[k].root, k)
  BY <1>1, KeysType DEF LayeredInv, DominatedKeys, Project
<1>7. ASSUME NEW k \in Keys, projects[k].root # root
      PROVE  k # key /\ k \in Keys' /\ projects'[k] = projects[k]
  <2>1. k # r.key /\ k # key
    BY <1>2, <1>3, <1>4, <1>6, <1>7, DominatesUnique
  <2> QED
    BY <1>5, <1>6, <2>1 DEF Keys
<1>8. key \in Keys' /\ projects'[key] = r.project
  BY <1>2, <1>5 DEF Keys
<1>9. ASSUME NEW k \in Keys' \ {key}
      PROVE  k \in Keys /\ projects'[k] = projects[k] /\ projects[k].root # root
  <2>1. k \in Keys /\ k # r.key /\ projects'[k] = projects[k]
    BY <1>5, <1>9 DEF Keys
  <2> QED
    BY <1>4, <2>1 DEF LayeredInv, OneProjectPerRoot
<1> QED
  BY <1>1, <1>2, <1>3, <1>4, <1>7, <1>8, <1>9 DEF r, root, key

LEMMA LayeredSwap ==
  ASSUME NEW rank \in Ranks, LayeredInv(rank), KeyInv', Swap
  PROVE  LayeredInv(rank)'
<1> DEFINE r == Head(all)
           root == r.project.root
           key == r.project.manifests
<1>1. /\ all \in Seq(Reloaded) /\ all # << >>
      /\ all' = Tail(all)
      /\ UNCHANGED <<disk, toMissing, toModified>>
  BY DEF Swap, LayeredInv, KeyInv, TypeInv, TypeOK, diskVars
<1>2. /\ 1 \in DOMAIN all /\ r = all[1]
      /\ Dominates(rank, root, key)
      /\ key \in Keys' /\ projects'[key] = r.project
      /\ \A k \in Keys : projects[k].root # root =>
           k \in Keys' /\ projects'[k] = projects[k]
      /\ \A k \in Keys' \ {key} :
           k \in Keys /\ projects'[k] = projects[k] /\ projects[k].root # root
  BY SwapMoves
<1>3. r.project.root = root
  OBVIOUS
<1> HIDE DEF r, root, key
<1>4. OneProjectPerRoot'
  BY <1>2, <1>3 DEF LayeredInv, OneProjectPerRoot
<1>5. ASSUME NEW i \in DOMAIN all'
      PROVE  /\ i + 1 \in DOMAIN all /\ all'[i] = all[i + 1]
             /\ all[i + 1].project.root # root
  <2>1. i + 1 \in DOMAIN all /\ i + 1 # 1 /\ all'[i] = all[i + 1]
    BY <1>1, <1>5, TailEntries
  <2> QED
    BY <1>2, <1>3, <2>1 DEF LayeredInv, BatchRootsDistinct
<1>6. DominatedKeys(rank)'
  BY <1>2, <1>3, <1>5 DEF LayeredInv, DominatedKeys, Dominates
<1>7. PendingKeysLive'
  <2>1. ASSUME NEW i \in DOMAIN all'
        PROVE  all'[i].key \in Keys' /\ projects'[all'[i].key].root = all'[i].project.root
    BY <1>2, <1>5 DEF LayeredInv, PendingKeysLive
  <2> QED
    BY <2>1 DEF PendingKeysLive, KeyInv, TypeInv, PendingInKeys
<1>8. BatchRootsDistinct'
  <2>1. ASSUME NEW i \in DOMAIN all', NEW j \in DOMAIN all',
               all'[i].project.root = all'[j].project.root
        PROVE  i = j
    <3>1. i + 1 = j + 1
      BY <1>5, <2>1 DEF LayeredInv, BatchRootsDistinct
    <3>2. i \in Nat /\ j \in Nat
      BY <1>1
    <3> QED
      BY <3>1, <3>2
  <2> QED
    BY <2>1 DEF BatchRootsDistinct
<1>9. PendingDistinct' /\ DeclaredInv'
  <2>1. toMissing = {} /\ toModified = {}
    BY DEF Swap
  <2> QED
    BY <1>1, <2>1 DEF LayeredInv, PendingDistinct, DeclaredInv
<1> QED
  BY <1>4, <1>6, <1>7, <1>8, <1>9 DEF LayeredInv

\* Opening a package that no project contains adds a project and moves none.
LEMMA OpenAdds ==
  ASSUME NEW rank \in Ranks, LayeredInv(rank), DidOpen
  PROVE  LET p == msg.pkg
             key == Load(p).manifests
         IN  /\ p \in Pkg /\ Dominates(rank, p, key) /\ Load(p).root = p
             /\ \/ projects' = projects
                \/ /\ key \in Keys' /\ projects'[key] = Load(p)
                   /\ \A k \in Keys : /\ projects[k].root # p
                                      /\ k # key /\ k \in Keys' /\ projects'[k] = projects[k]
                   /\ Keys' \subseteq Keys \cup {key}
<1> DEFINE p == msg.pkg
<1>1. TypeOK /\ DeclaredInv /\ p \in Pkg
  BY DEF DidOpen, Dispatching, LayeredInv, KeyInv, TypeInv, TypeOK, Message
<1> DEFINE key == Load(p).manifests
<1>2. /\ key \in SUBSET Pkg /\ p \in key
      /\ Load(p) \in Project /\ Load(p) # NoProject /\ Load(p).root = p
      /\ Dominates(rank, p, key)
  BY <1>1, LoadType, ClosureDominated
<1> HIDE DEF p, key
<1>3. ASSUME KeysWith(p) = {}, projects' = Insert(projects, Load(p))
      PROVE  /\ key \in Keys' /\ projects'[key] = Load(p)
             /\ \A k \in Keys : /\ projects[k].root # p
                                /\ k # key /\ k \in Keys' /\ projects'[k] = projects[k]
             /\ Keys' \subseteq Keys \cup {key}
  <2>1. \A k \in SUBSET Pkg : projects'[k] = IF k = key THEN Load(p) ELSE projects[k]
    BY <1>1, <1>2, <1>3, InsertEffect DEF key
  <2>2. \A k \in Keys : p \notin k /\ projects[k].root \in k
    BY <1>3 DEF KeysWith, LayeredInv, KeyInv, KeyIsManifests
  <2> QED
    BY <1>2, <2>1, <2>2 DEF Keys
<1> QED
  BY <1>1, <1>2, <1>3 DEF DidOpen, p, key

LEMMA LayeredOpen ==
  ASSUME NEW rank \in Ranks, LayeredInv(rank), KeyInv', DidOpen
  PROVE  LayeredInv(rank)'
<1> DEFINE p == msg.pkg
           key == Load(p).manifests
<1>1. /\ DeclaredInv'
      /\ toMissing = {} /\ toModified = {} /\ all = << >>
      /\ UNCHANGED <<toMissing, toModified, all>>
  BY DEF DidOpen, Dispatching, Reloading, LayeredInv, DeclaredInv, diskVars, reloadVars
<1>2. /\ Dominates(rank, p, key) /\ Load(p).root = p
      /\ \/ projects' = projects
         \/ /\ key \in Keys' /\ projects'[key] = Load(p)
            /\ \A k \in Keys : /\ projects[k].root # p
                               /\ k \in Keys' /\ projects'[k] = projects[k]
            /\ Keys' \subseteq Keys \cup {key}
  BY OpenAdds
<1> HIDE DEF p, key
<1>3. CASE projects' = projects
  BY <1>1, <1>3, LayeredFrame
<1>4. CASE projects' # projects
  <2>1. OneProjectPerRoot'
    BY <1>2, <1>4 DEF LayeredInv, OneProjectPerRoot
  <2>2. DominatedKeys(rank)'
    BY <1>1, <1>2, <1>4 DEF LayeredInv, DominatedKeys, Dominates
  <2>3. PendingKeysLive' /\ BatchRootsDistinct' /\ PendingDistinct'
    BY <1>1 DEF PendingKeysLive, BatchRootsDistinct, PendingDistinct, KeyInv, TypeInv,
                PendingInKeys
  <2> QED
    BY <1>1, <2>1, <2>2, <2>3 DEF LayeredInv
<1> QED
  BY <1>3, <1>4

LEMMA LayeredStep ==
  ASSUME NEW rank \in Ranks, LayeredInv(rank), [Next]_vars
  PROVE  LayeredInv(rank)'
<1>1. KeyInv /\ KeyInv' /\ TypeInv /\ TypeOK
  BY KeyStep DEF LayeredInv, KeyInv, TypeInv
<1>2. ASSUME UNCHANGED <<projects, all, disk>>,
             toMissing' \subseteq toMissing, toModified' \subseteq toModified
      PROVE  LayeredInv(rank)'
  BY <1>1, <1>2, LayeredFrame DEF LayeredInv, DeclaredInv
<1>3. CASE Edit
  <2>1. UNCHANGED <<projects, all, toMissing, toModified>> /\ DeclaredInv'
    BY <1>1, <1>3, EditType, EditDeclared DEF LayeredInv
  <2> QED
    BY <1>1, <2>1, LayeredFrame DEF Keys
<1>4. ASSUME NEW m \in Message, Receive(m.kind, m.pkg)
      PROVE  LayeredInv(rank)'
  <2>1. all = << >> /\ UNCHANGED <<projects, all, disk>> /\ Keys' = Keys
    BY <1>1, <1>4 DEF Receive, TypeOK, Reloading, diskVars, Keys
  <2>2. toMissing' = NotFounds /\ toModified' = Modifies
    BY <1>4 DEF Receive
  <2>3. PendingDistinct' /\ PendingKeysLive'
    BY <1>1, <2>1, <2>2
    DEF PendingDistinct, PendingKeysLive, Modifies, KeyInv, TypeInv, PendingInKeys
  <2>4. DominatedKeys(rank)' /\ OneProjectPerRoot' /\ BatchRootsDistinct' /\ DeclaredInv'
    BY <2>1 DEF LayeredInv, DominatedKeys, Dominates, OneProjectPerRoot,
                BatchRootsDistinct, DeclaredInv
  <2> QED
    BY <1>1, <2>1, <2>3, <2>4 DEF LayeredInv
<1>5. ASSUME NEW k \in SUBSET Pkg, ReloadMissing(k) \/ ReloadModified(k)
      PROVE  LayeredInv(rank)'
  BY <1>1, <1>5, LayeredReload, BatchGrows DEF Keys
<1>6. CASE Swap
  BY <1>1, <1>6, LayeredSwap
<1>7. CASE DidOpen
  BY <1>1, <1>7, LayeredOpen
<1>8. CASE DidChange
  BY <1>2, <1>8 DEF DidChange, diskVars, reloadVars
<1>9. ASSUME NEW k \in SUBSET Pkg, UpdateDefs(k)
      PROVE  LayeredInv(rank)'
  <2>1. /\ Keys' = Keys
        /\ \A l \in Keys : projects'[l].root = projects[l].root
        /\ UNCHANGED <<disk, all, toMissing, toModified>>
    BY <1>1, <1>9, UpdateEffect
  <2>2. toMissing = {} /\ toModified = {} /\ all = << >>
    BY <1>1, <1>9 DEF UpdateDefs, TypeOK, Reloading
  <2>3. DominatedKeys(rank)' /\ OneProjectPerRoot'
    BY <2>1 DEF LayeredInv, DominatedKeys, Dominates, OneProjectPerRoot
  <2>4. PendingKeysLive' /\ BatchRootsDistinct' /\ PendingDistinct' /\ DeclaredInv'
    BY <1>1, <2>1, <2>2 DEF LayeredInv, PendingKeysLive, BatchRootsDistinct,
       PendingDistinct, DeclaredInv, KeyInv, TypeInv, PendingInKeys
  <2> QED
    BY <1>1, <2>1, <2>3, <2>4 DEF LayeredInv
<1>10. CASE UpdateDone
  BY <1>2, <1>10 DEF UpdateDone, diskVars, reloadVars
<1>11. CASE OtherMessage
  BY <1>2, <1>11 DEF OtherMessage, diskVars, reloadVars
<1>12. CASE UNCHANGED vars
  BY <1>2, <1>12 DEF vars
<1> QED
  BY <1>3, <1>4, <1>5, <1>6, <1>7, <1>8, <1>9, <1>10, <1>11, <1>12
  DEF Next, Arrival, Server

LEMMA LayeredInit ==
  ASSUME NEW rank \in Ranks, Init
  PROVE  LayeredInv(rank)
<1>1. Keys = {} /\ all = << >> /\ toMissing = {} /\ toModified = {} /\ toUpdate = {}
  BY DEF Init, Keys
<1>2. KeyInv
  BY <1>1, TypeInit DEF KeyInv, KeyIsManifests, BatchRooted
<1>3. DeclaredInv
  BY DEF Init, DeclaredInv
<1> QED
  BY <1>1, <1>2, <1>3 DEF LayeredInv, DominatedKeys, OneProjectPerRoot, PendingKeysLive,
                          BatchRootsDistinct, PendingDistinct

\* The invariant of such manifests.
LEMMA LayeredAlways ==
  ASSUME NEW rank \in Ranks
  PROVE  Spec => []LayeredInv(rank)
BY LayeredInit, LayeredStep, PTL DEF Spec

\* When manifests only ever depend downwards, a package roots at most one
\* project, and a pass of try_reload_projects loads no package twice, wherever
\* the edits fall between its steps.
THEOREM LayeredPass ==
  ASSUME NEW rank \in Ranks
  PROVE  Spec => [](OneProjectPerRoot /\ BatchRootsDistinct)
<1>1. LayeredInv(rank) => OneProjectPerRoot /\ BatchRootsDistinct
  BY DEF LayeredInv
<1> QED
  BY <1>1, LayeredAlways, PTL

\* With such manifests the keys that a reload pass or update_defs has copied out
\* of the table name, until it has used them, the projects they were copied from.
THEOREM LayeredKeysLive ==
  ASSUME NEW rank \in Ranks
  PROVE  Spec => []PendingKeysLive
<1>1. LayeredInv(rank) => PendingKeysLive
  BY DEF LayeredInv
<1> QED
  BY <1>1, LayeredAlways, PTL

----------------------------------------------------------------------------
(* Manifests that change after they were read. *)

\* What is recorded of a project's manifests is what was read: there are
\* dependencies, next, that led to its packages, and a manifest that is neither
\* missing nor of another time than recorded declares them still.
ReadAs(v, next) ==
  /\ v.manifests = Reach(v.root, next)
  /\ \A q \in v.manifests :
       /\ v.seen[q] = Untracked => q \in v.missing
       /\ q \in v.missing => next[q] = {}
       /\ v.seen[q] # Untracked =>
            /\ v.seen[q] <= edits + 1
            /\ v.seen[q] = 0 => next[q] = {}
            /\ v.seen[q] # 0 /\ v.seen[q] = disk[q].time => next[q] = DepsOf(q)

Recorded(v) == \E next \in [Pkg -> SUBSET Pkg] : ReadAs(v, next)

\* A time is that of one edit, and 0 where there is no manifest.
TimesTell ==
  \A p \in Pkg : disk[p].time <= edits + 1 /\ (disk[p].time = 0 <=> ~HasManifest(p))

NoticeInv ==
  /\ KeyInv /\ TimesTell
  /\ \A k \in Keys : Recorded(projects[k])
  /\ \A i \in DOMAIN all : Recorded(all[i].project)

\* What is reached depends on the dependencies of the packages reached only.
LEMMA ReachLocal ==
  ASSUME NEW p \in Pkg, NEW before \in [Pkg -> SUBSET Pkg], NEW after \in [Pkg -> SUBSET Pkg],
         \A q \in Reach(p, before) : after[q] = before[q]
  PROVE  Reach(p, after) = Reach(p, before)
<1> DEFINE R == Reach(p, before)
           Q == Reach(p, after)
<1>1. R \in SUBSET Pkg /\ p \in R /\ \A s \in R : before[s] \subseteq R
  BY DEF Reach
<1>2. Q \in SUBSET Pkg /\ p \in Q /\ \A s \in Q : after[s] \subseteq Q
  BY DEF Reach
<1>3. Q \subseteq R
  BY <1>1 DEF Reach
<1>4. \A s \in Q : before[s] \subseteq Q
  BY <1>2, <1>3
<1>5. R \subseteq Q
  BY <1>2, <1>4 DEF Reach
<1> QED
  BY <1>3, <1>5

\* A project is recorded as it is read.
LEMMA LoadRecorded ==
  ASSUME TypeOK, TimesTell, NEW p \in Pkg
  PROVE  Recorded(Load(p))
<1> DEFINE next == [q \in Pkg |-> DepsOf(q)]
<1>1. next \in [Pkg -> SUBSET Pkg]
  BY DEF DepsOf, TypeOK, Package
<1>2. Load(p).manifests = Reach(Load(p).root, next) /\ Load(p).manifests \in SUBSET Pkg
  BY LoadType DEF Closure
<1>3. ASSUME NEW q \in Load(p).manifests
      PROVE  /\ q \in Load(p).missing <=> disk[q].layout = "absent"
             /\ Load(p).seen[q] = IF disk[q].layout # "absent" THEN disk[q].time ELSE Untracked
             /\ disk[q].time \in Times /\ Untracked \notin Times
  BY <1>2, <1>3, ConstantsAssumption DEF Load, SeenTimes, TypeOK, Package, Times, Untracked
<1>4. ASSUME NEW q \in Pkg, ~HasManifest(q) PROVE DepsOf(q) = {}
  BY <1>4 DEF HasManifest, DepsOf
<1>5. \A q \in Pkg : disk[q].layout = "absent" \/ disk[q].time = 0 => DepsOf(q) = {}
  BY <1>4 DEF TimesTell, HasManifest
<1>6. ReadAs(Load(p), next)
  <2> SUFFICES ASSUME NEW q \in Load(p).manifests
               PROVE  /\ Load(p).seen[q] = Untracked => q \in Load(p).missing
                      /\ q \in Load(p).missing => next[q] = {}
                      /\ Load(p).seen[q] # Untracked =>
                           /\ Load(p).seen[q] <= edits + 1
                           /\ Load(p).seen[q] = 0 => next[q] = {}
                           /\ Load(p).seen[q] # 0 /\ Load(p).seen[q] = disk[q].time => next[q] = DepsOf(q)
    BY <1>2 DEF ReadAs
  <2>1. q \in Pkg /\ next[q] = DepsOf(q) /\ disk[q].time <= edits + 1
    BY <1>2 DEF TimesTell
  <2> HIDE DEF next
  <2> QED
    BY <1>3, <1>5, <2>1
<1> QED
  BY <1>1, <1>6 DEF Recorded

\* An edit gives a manifest a time that nothing has recorded.
LEMMA EditRecorded ==
  ASSUME TypeOK, TimesTell, Edit
  PROVE  /\ TimesTell'
         /\ \A v \in Project : Recorded(v) => Recorded(v)'
<1>1. PICK p \in Pkg :
        \/ \E layout \in Layouts, deps \in SUBSET {q \in Pkg : <<p, q>> \in Declarable} :
             EditPackage(p, layout, deps)
        \/ ToggleBroken(p)
  BY DEF Edit
<1>2. edits' = edits + 1 /\ edits \in Nat
  BY <1>1, ConstantsAssumption DEF EditPackage, ToggleBroken, TypeOK
<1>3. \A q \in Pkg : disk[q].time \in Nat
  BY DEF TypeOK, Package, Times
<1>4. /\ \A q \in Pkg \ {p} : disk'[q] = disk[q]
      /\ \/ disk'[p] = disk[p]
         \/ disk'[p].time = IF HasManifest(p)' THEN edits + 2 ELSE 0
  <2>1. CASE ToggleBroken(p)
    BY <2>1 DEF ToggleBroken
  <2>2. ASSUME NEW layout \in Layouts, NEW deps \in SUBSET {q \in Pkg : <<p, q>> \in Declarable},
               EditPackage(p, layout, deps)
        PROVE  /\ \A q \in Pkg \ {p} : disk'[q] = disk[q]
               /\ disk'[p].time = IF HasManifest(p)' THEN edits + 2 ELSE 0
    BY <2>2 DEF EditPackage, TypeOK, HasManifest
  <2> QED
    BY <1>1, <2>1, <2>2
<1>5. TimesTell'
  <2> SUFFICES ASSUME NEW q \in Pkg
               PROVE  disk'[q].time <= edits' + 1 /\ (disk'[q].time = 0 <=> ~HasManifest(q)')
    BY DEF TimesTell
  <2>1. disk[q].time <= edits + 1 /\ (disk[q].time = 0 <=> ~HasManifest(q)) /\ disk[q].time \in Nat
    BY <1>3 DEF TimesTell
  <2>2. CASE disk'[q] = disk[q]
    BY <1>2, <2>1, <2>2 DEF HasManifest
  <2>3. CASE q = p /\ disk'[p].time = IF HasManifest(p)' THEN edits + 2 ELSE 0
    BY <1>2, <2>3
  <2> QED
    BY <1>4, <2>2, <2>3
<1>6. ASSUME NEW v \in Project, NEW next \in [Pkg -> SUBSET Pkg], ReadAs(v, next) PROVE ReadAs(v, next)'
  <2>1. v.manifests \in SUBSET Pkg /\ v.seen \in [Pkg -> Times \cup {Untracked}]
        /\ Times \subseteq Nat /\ Untracked \in Nat
    BY ConstantsAssumption DEF Project, Times, Untracked
  <2>2. /\ v.manifests = Reach(v.root, next)
        /\ \A q \in v.manifests :
             /\ v.seen[q] = Untracked => q \in v.missing
             /\ q \in v.missing => next[q] = {}
             /\ v.seen[q] # Untracked => v.seen[q] <= edits + 1
             /\ v.seen[q] # Untracked => (v.seen[q] = 0 => next[q] = {})
             /\ v.seen[q] # Untracked =>
                  (v.seen[q] # 0 /\ v.seen[q] = disk[q].time => next[q] = DepsOf(q))
    BY <1>6 DEF ReadAs
  <2>3. ASSUME NEW q \in v.manifests, v.seen[q] # Untracked
        PROVE  /\ v.seen[q] <= edits' + 1
               /\ v.seen[q] # 0 /\ v.seen[q] = disk'[q].time => next[q] = DepsOf(q)'
    <3>1. q \in Pkg /\ v.seen[q] \in Nat /\ v.seen[q] <= edits + 1
      <4>1. q \in Pkg
        BY <2>1
      <4>2. v.seen[q] \in Nat
        BY <2>1, <4>1
      <4> QED
        BY <2>2, <2>3, <4>1, <4>2
    <3>2. v.seen[q] <= edits' + 1
      BY <1>2, <3>1
    <3>3. CASE disk'[q] = disk[q]
      <4>1. DepsOf(q)' = DepsOf(q)
        BY <3>3 DEF DepsOf
      <4> QED
        BY <2>2, <2>3, <3>2, <3>3, <4>1
    <3>4. CASE q = p /\ disk'[p].time = IF HasManifest(p)' THEN edits + 2 ELSE 0
      BY <1>2, <3>1, <3>2, <3>4
    <3> QED
      BY <1>4, <3>1, <3>3, <3>4
  <2> QED
    BY <2>2, <2>3 DEF ReadAs
<1> QED
  BY <1>5, <1>6 DEF Recorded

\* What update_defs replaces is not among what is recorded of manifests.
LEMMA UpdateRecorded ==
  ASSUME TypeInv, NEW k \in SUBSET Pkg, UpdateDefs(k), \A l \in Keys : Recorded(projects[l])
  PROVE  \A l \in Keys' : Recorded(projects'[l])
<1>1. Keys' = Keys
  BY UpdateEffect
<1>2. \A l \in Keys : /\ projects'[l].manifests = projects[l].manifests
                      /\ projects'[l].root = projects[l].root
                      /\ projects'[l].missing = projects[l].missing
                      /\ projects'[l].seen = projects[l].seen
  BY KeysType DEF UpdateDefs, TypeInv, TypeOK, Keys, Project
<1>3. ASSUME NEW l \in Keys PROVE Recorded(projects'[l])
  BY <1>2, <1>3 DEF Recorded, ReadAs
<1> QED
  BY <1>1, <1>3

\* Where the manifests stay as they are, so does what is recorded of them.
LEMMA RecordedFrame ==
  ASSUME UNCHANGED <<disk, edits>>
  PROVE  /\ TimesTell => TimesTell'
         /\ \A v : Recorded(v) => Recorded(v)'
BY DEF TimesTell, Recorded, ReadAs, HasManifest, DepsOf

LEMMA NoticeStep == NoticeInv /\ [Next]_vars => NoticeInv'
<1> SUFFICES ASSUME NoticeInv, [Next]_vars PROVE NoticeInv'
  OBVIOUS
<1>1. TypeInv /\ TypeOK /\ KeyInv' /\ TimesTell
  BY KeyStep DEF NoticeInv, KeyInv, TypeInv
<1>2. /\ \A k \in Keys : projects[k] \in Project /\ Recorded(projects[k])
      /\ all \in Seq(Reloaded)
      /\ \A i \in DOMAIN all : all[i].project \in Project /\ Recorded(all[i].project)
  <2>1. all \in Seq(Reloaded)
    BY <1>1 DEF TypeOK
  <2>2. \A i \in DOMAIN all : all[i] \in Reloaded
    BY <2>1
  <2> QED
    BY <1>1, <2>1, <2>2, KeysType DEF NoticeInv, Reloaded
<1>3. CASE Edit
  <2>1. Keys' = Keys /\ UNCHANGED <<projects, all>>
    BY <1>1, <1>3, EditType DEF Keys
  <2> QED
    BY <1>1, <1>2, <1>3, <2>1, EditRecorded DEF NoticeInv
<1>4. ASSUME UNCHANGED <<disk, edits>>,
             \A k \in Keys' : Recorded(projects'[k]),
             \A i \in DOMAIN all' : Recorded(all'[i].project)
      PROVE  NoticeInv'
  BY <1>1, <1>4, RecordedFrame DEF NoticeInv
<1>5. ASSUME UNCHANGED <<disk, edits, projects, all>> PROVE NoticeInv'
  BY <1>2, <1>4, <1>5 DEF Keys
<1>6. ASSUME NEW k \in SUBSET Pkg, ReloadMissing(k) \/ ReloadModified(k) PROVE NoticeInv'
  <2> DEFINE e == [key |-> k, project |-> Load(projects[k].root)]
  <2>1. e \in Reloaded /\ Recorded(e.project)
    BY <1>1, <1>6, BatchGrows, LoadType, LoadRecorded DEF Reloaded
  <2>2. all' = << >> \/ all' = all \/ all' = Append(all, e)
    BY <1>1, <1>6, BatchGrows
  <2> HIDE DEF e
  <2>3. ASSUME NEW i \in DOMAIN all' PROVE Recorded(all'[i].project)
    <3>1. CASE all' = << >> \/ all' = all
      BY <1>2, <3>1
    <3>2. CASE all' = Append(all, e)
      <4>1. (i \in DOMAIN all /\ all'[i] = all[i]) \/ all'[i] = e
        BY <1>2, <2>1, <3>2, AppendEntries
      <4> QED
        BY <1>2, <2>1, <4>1
    <3> QED
      BY <2>2, <3>1, <3>2
  <2>4. UNCHANGED <<disk, edits, projects>>
    BY <1>6 DEF ReloadMissing, ReloadModified, diskVars
  <2> QED
    BY <1>2, <1>4, <2>3, <2>4 DEF Keys
<1>7. CASE Swap
  <2>1. all # << >> /\ all' = Tail(all) /\ projects' = SwapIn(projects, Head(all)) /\ UNCHANGED <<disk, edits>>
    BY <1>7 DEF Swap, diskVars
  <2>2. Head(all) \in Reloaded /\ Recorded(Head(all).project)
    BY <1>2, <2>1
  <2>3. \A i \in DOMAIN all' : Recorded(all'[i].project)
    BY <1>2, <2>1, TailEntries
  <2>4. \A k \in Keys' : Recorded(projects'[k])
    BY <1>1, <1>2, <2>1, <2>2, SwapEffect DEF Keys
  <2> QED
    BY <1>4, <2>1, <2>3, <2>4
<1>8. CASE DidOpen
  <2>1. msg.pkg \in Pkg
    BY <1>1, <1>8 DEF DidOpen, Dispatching, TypeOK, Message
  <2>2. UNCHANGED <<disk, edits, all>>
    BY <1>8 DEF DidOpen, diskVars, reloadVars
  <2>3. CASE projects' = Insert(projects, Load(msg.pkg))
    <3>1. \A k \in Keys' : Recorded(projects'[k])
      BY <1>1, <1>2, <2>1, <2>3, LoadType, LoadRecorded, InsertEffect DEF Keys
    <3> QED
      BY <1>2, <1>4, <2>2, <3>1
  <2>4. CASE projects' = projects
    BY <1>5, <2>2, <2>4
  <2> QED
    BY <1>8, <2>3, <2>4 DEF DidOpen
<1>9. ASSUME NEW k \in SUBSET Pkg, UpdateDefs(k) PROVE NoticeInv'
  <2>1. UNCHANGED <<disk, edits, all>>
    BY <1>9 DEF UpdateDefs, diskVars, reloadVars
  <2>2. \A l \in Keys' : Recorded(projects'[l])
    BY <1>1, <1>2, <1>9, UpdateRecorded
  <2> QED
    BY <1>2, <1>4, <2>1, <2>2
<1>10. ASSUME NEW m \in Message, Receive(m.kind, m.pkg) PROVE NoticeInv'
  BY <1>5, <1>10 DEF Receive, diskVars
<1>11. CASE DidChange \/ UpdateDone \/ OtherMessage
  BY <1>5, <1>11 DEF DidChange, UpdateDone, OtherMessage, diskVars, reloadVars
<1>12. CASE UNCHANGED vars
  BY <1>5, <1>12 DEF vars
<1> QED
  BY <1>3, <1>6, <1>7, <1>8, <1>9, <1>10, <1>11, <1>12 DEF Next, Arrival, Server

LEMMA NoticeInit == Init => NoticeInv
<1> SUFFICES ASSUME Init PROVE NoticeInv
  OBVIOUS
<1>1. Keys = {} /\ all = << >>
  BY DEF Init, Keys
<1>2. TypeInv /\ KeyIsManifests /\ BatchRooted
  BY <1>1, TypeInit DEF KeyIsManifests, BatchRooted
<1>3. TimesTell
  BY DEF Init, TimesTell
<1> QED
  BY <1>1, <1>2, <1>3 DEF NoticeInv, KeyInv

\* Whatever was edited between any two steps of the server, a project whose
\* manifests reach other packages than those it is filed under is one that the
\* next pass notices, by a time or by a package that has come back.
THEOREM StaleIsNoticedAlways == Spec => []StaleIsNoticed
<1>1. NoticeInv => StaleIsNoticed
  <2> SUFFICES ASSUME NoticeInv, NEW k \in Keys, ~ManifestBeedModified(projects[k]),
                      \A q \in projects[k].missing : ~HasManifest(q)
               PROVE  k = Closure(projects[k].root)
    BY DEF StaleIsNoticed
  <2> DEFINE v == projects[k]
             now == [q \in Pkg |-> DepsOf(q)]
  <2>1. v \in Project /\ v.root \in Pkg /\ v.manifests = k /\ k \in SUBSET Pkg /\ TimesTell /\ TypeOK
    BY KeysType DEF NoticeInv, KeyInv, TypeInv, KeyIsManifests, Project
  <2>2. PICK next \in [Pkg -> SUBSET Pkg] : ReadAs(v, next)
    BY DEF NoticeInv, Recorded
  <2>3. now \in [Pkg -> SUBSET Pkg]
    BY <2>1 DEF DepsOf, TypeOK, Package
  <2>4. ASSUME NEW q \in k PROVE DepsOf(q) = next[q]
    <3>1. q \in Pkg /\ q \in v.manifests
      BY <2>1
    <3>2. ~HasManifest(q) => DepsOf(q) = {}
      BY DEF HasManifest, DepsOf
    <3>3. CASE q \in v.missing
      BY <2>2, <3>1, <3>2, <3>3 DEF ReadAs
    <3>4. CASE v.seen[q] # Untracked
      <4>1. v.seen[q] = disk[q].time
        BY <3>1, <3>4 DEF ManifestBeedModified
      <4>2. CASE v.seen[q] = 0
        BY <2>1, <2>2, <3>1, <3>2, <3>4, <4>1, <4>2 DEF ReadAs, TimesTell
      <4>3. CASE v.seen[q] # 0
        BY <2>2, <3>1, <3>4, <4>1, <4>3 DEF ReadAs
      <4> QED
        BY <4>2, <4>3
    <3> QED
      BY <2>2, <3>1, <3>3, <3>4 DEF ReadAs
  <2>5. k = Reach(v.root, next)
    BY <2>1, <2>2 DEF ReadAs
  <2>6. \A q \in Reach(v.root, next) : now[q] = next[q]
    BY <2>1, <2>4, <2>5
  <2> HIDE DEF v, now
  <2>7. Reach(v.root, now) = k
    BY <2>1, <2>2, <2>3, <2>5, <2>6, ReachLocal
  <2> QED
    BY <2>7 DEF Closure, v, now
<1> QED
  BY <1>1, NoticeInit, NoticeStep, PTL DEF Spec
----------------------------------------------------------------------------
(* The table as ProjectTable specifies it. *)

\* A project has read its own manifest, and no manifest that is there now is
\* older than when the project read it.
Dated(v) ==
  /\ v.seen[v.root] \notin {0, Untracked}
  /\ \A q \in Pkg : v.seen[q] # Untracked =>
       /\ v.seen[q] <= edits + 1
       /\ disk[q].time # 0 => v.seen[q] <= disk[q].time

DatedInv ==
  /\ NoticeInv
  /\ \A k \in Keys : Dated(projects[k])
  /\ \A i \in DOMAIN all : Dated(all[i].project)

\* A project that waits for the swap is newer than the one it will replace.
WaitsNewer ==
  \A i \in DOMAIN all :
    Table!NotOlder(Version(projects[all[i].key]), Version(all[i].project))

TableInv(rank) == LayeredInv(rank) /\ DatedInv /\ WaitsNewer

\* A package that builds is dated as it is read.
LEMMA LoadDated ==
  ASSUME TypeOK, TimesTell, NEW p \in Pkg, Builds(p)
  PROVE  Dated(Load(p))
<1>1. /\ Load(p).root = p
      /\ Load(p).seen = SeenTimes(p)
      /\ p \in Closure(p)
  BY LoadType DEF Load
<1>2. ASSUME NEW q \in Pkg
      PROVE  /\ SeenTimes(p)[q] = disk[q].time \/ SeenTimes(p)[q] = Untracked
             /\ disk[q].time <= edits + 1 /\ disk[q].time \in Nat
             /\ disk[q].time # Untracked
  BY <1>2, ConstantsAssumption DEF SeenTimes, TimesTell, TypeOK, Package, Times, Untracked
<1>3. SeenTimes(p)[p] = disk[p].time /\ disk[p].time # 0
  BY <1>1 DEF SeenTimes, Builds, TimesTell, HasManifest
<1> QED
  BY <1>1, <1>2, <1>3 DEF Dated

\* What is loaded now is not older than what was loaded before.
LEMMA LoadNotOlder ==
  ASSUME TypeOK, NEW p \in Pkg, NEW v \in Project, Dated(v)
  PROVE  Table!NotOlder(Version(v), Version(Load(p)))
<1> SUFFICES ASSUME NEW q \in Pkg, Version(v).times[q] # 0, Version(Load(p)).times[q] # 0
             PROVE  Version(v).times[q] <= Version(Load(p)).times[q]
  BY DEF Table!NotOlder
<1>1. v.seen[q] # Untracked /\ Version(v).times[q] = v.seen[q]
  BY DEF Version
<1>2. Load(p).seen[q] # Untracked /\ Version(Load(p)).times[q] = Load(p).seen[q]
  BY DEF Version
<1>3. Load(p).seen[q] = disk[q].time
  BY <1>2 DEF Load, SeenTimes
<1> QED
  BY <1>1, <1>2, <1>3 DEF Dated

\* An edit gives a manifest a time beyond all that was read.
LEMMA EditDated ==
  ASSUME TypeOK, Edit, NEW v \in Project, Dated(v)
  PROVE  Dated(v)'
<1>1. PICK p \in Pkg :
        \/ \E layout \in Layouts, deps \in SUBSET {q \in Pkg : <<p, q>> \in Declarable} :
             EditPackage(p, layout, deps)
        \/ ToggleBroken(p)
  BY DEF Edit
<1>2. edits' = edits + 1 /\ edits \in Nat
  BY <1>1, ConstantsAssumption DEF EditPackage, ToggleBroken, TypeOK
<1>3. ASSUME NEW q \in Pkg PROVE disk'[q] = disk[q] \/ disk'[q].time \in {0, edits + 2}
  BY <1>1 DEF EditPackage, ToggleBroken, TypeOK
<1>4. ASSUME NEW q \in Pkg, v.seen[q] # Untracked
      PROVE  /\ v.seen[q] <= edits' + 1
             /\ disk'[q].time # 0 => v.seen[q] <= disk'[q].time
  <2>1. v.seen[q] \in Nat
    BY <1>4, ConstantsAssumption DEF Project, Times
  <2>2. v.seen[q] <= edits + 1 /\ (disk[q].time # 0 => v.seen[q] <= disk[q].time)
    BY <1>4 DEF Dated
  <2> QED
    BY <1>2, <1>3, <2>1, <2>2
<1> QED
  BY <1>4 DEF Dated

\* Where the manifests stay as they are, so do the dates.
LEMMA DatedFrame ==
  ASSUME UNCHANGED <<disk, edits>>
  PROVE  \A v : Dated(v) => Dated(v)'
BY DEF Dated

LEMMA DatedStep == DatedInv /\ [Next]_vars => DatedInv'
<1> SUFFICES ASSUME DatedInv, [Next]_vars PROVE DatedInv'
  OBVIOUS
<1>1. TypeInv /\ TypeOK /\ TimesTell /\ NoticeInv /\ NoticeInv'
  BY NoticeStep DEF DatedInv, NoticeInv, KeyInv, TypeInv
<1>2. /\ \A k \in Keys : projects[k] \in Project /\ Dated(projects[k])
      /\ all \in Seq(Reloaded)
      /\ \A i \in DOMAIN all : all[i].project \in Project /\ Dated(all[i].project)
  <2>1. all \in Seq(Reloaded)
    BY <1>1 DEF TypeOK
  <2>2. \A i \in DOMAIN all : all[i] \in Reloaded
    BY <2>1
  <2> QED
    BY <1>1, <2>1, <2>2, KeysType DEF DatedInv, Reloaded
<1>3. CASE Edit
  <2>1. Keys' = Keys /\ UNCHANGED <<projects, all>>
    BY <1>1, <1>3, EditType DEF Keys
  <2> QED
    BY <1>1, <1>2, <1>3, <2>1, EditDated DEF DatedInv
<1>4. ASSUME UNCHANGED <<disk, edits>>,
             \A k \in Keys' : Dated(projects'[k]),
             \A i \in DOMAIN all' : Dated(all'[i].project)
      PROVE  DatedInv'
  BY <1>1, <1>4, DatedFrame DEF DatedInv
<1>5. ASSUME UNCHANGED <<disk, edits, projects, all>> PROVE DatedInv'
  BY <1>2, <1>4, <1>5 DEF Keys
<1>6. ASSUME NEW k \in SUBSET Pkg, ReloadMissing(k) \/ ReloadModified(k) PROVE DatedInv'
  <2> DEFINE root == projects[k].root
             e == [key |-> k, project |-> Load(root)]
  <2>1. /\ root \in Pkg
        /\ \/ all' = << >>
           \/ all' = all
           \/ Builds(root) /\ all' = Append(all, e)
    BY <1>1, <1>6, BatchGrows
  <2>2. e \in Reloaded /\ e.project = Load(root)
    BY <1>1, <2>1, LoadType DEF Reloaded
  <2>3. Builds(root) => Dated(e.project)
    BY <1>1, <2>1, <2>2, LoadDated
  <2> HIDE DEF root, e
  <2>4. ASSUME NEW i \in DOMAIN all' PROVE Dated(all'[i].project)
    <3>1. CASE all' = << >> \/ all' = all
      BY <1>2, <3>1
    <3>2. CASE Builds(root) /\ all' = Append(all, e)
      <4>1. (i \in DOMAIN all /\ all'[i] = all[i]) \/ all'[i] = e
        BY <1>2, <2>2, <3>2, AppendEntries
      <4> QED
        BY <1>2, <2>3, <3>2, <4>1
    <3> QED
      BY <2>1, <3>1, <3>2
  <2>5. UNCHANGED <<disk, edits, projects>>
    BY <1>6 DEF ReloadMissing, ReloadModified, diskVars
  <2> QED
    BY <1>2, <1>4, <2>4, <2>5 DEF Keys
<1>7. CASE Swap
  <2>1. all # << >> /\ all' = Tail(all) /\ projects' = SwapIn(projects, Head(all)) /\ UNCHANGED <<disk, edits>>
    BY <1>7 DEF Swap, diskVars
  <2>2. Head(all) \in Reloaded /\ Dated(Head(all).project)
    BY <1>2, <2>1
  <2>3. \A i \in DOMAIN all' : Dated(all'[i].project)
    BY <1>2, <2>1, TailEntries
  <2>4. \A k \in Keys' : Dated(projects'[k])
    BY <1>1, <1>2, <2>1, <2>2, SwapEffect DEF Keys
  <2> QED
    BY <1>4, <2>1, <2>3, <2>4
<1>8. CASE DidOpen
  <2>1. msg.pkg \in Pkg
    BY <1>1, <1>8 DEF DidOpen, Dispatching, TypeOK, Message
  <2>2. UNCHANGED <<disk, edits, all>>
    BY <1>8 DEF DidOpen, diskVars, reloadVars
  <2>3. CASE Builds(msg.pkg) /\ projects' = Insert(projects, Load(msg.pkg))
    <3>1. \A k \in Keys' : Dated(projects'[k])
      BY <1>1, <1>2, <2>1, <2>3, LoadType, LoadDated, InsertEffect DEF Keys
    <3> QED
      BY <1>2, <1>4, <2>2, <3>1
  <2>4. CASE projects' = projects
    BY <1>5, <2>2, <2>4
  <2> QED
    BY <1>8, <2>3, <2>4 DEF DidOpen
<1>9. ASSUME NEW k \in SUBSET Pkg, UpdateDefs(k) PROVE DatedInv'
  <2>1. UNCHANGED <<disk, edits, all>> /\ Keys' = Keys
    BY <1>1, <1>9, UpdateEffect DEF UpdateDefs, diskVars, reloadVars
  <2>2. ASSUME NEW l \in Keys PROVE Dated(projects'[l])
    <3>1. projects'[l].root = projects[l].root /\ projects'[l].seen = projects[l].seen
      BY <1>1, <1>2, <1>9 DEF UpdateDefs, TypeOK, Keys, Project
    <3> QED
      BY <1>2, <3>1 DEF Dated
  <2> QED
    BY <1>2, <1>4, <2>1, <2>2
<1>10. ASSUME NEW m \in Message, Receive(m.kind, m.pkg) PROVE DatedInv'
  BY <1>5, <1>10 DEF Receive, diskVars
<1>11. CASE DidChange \/ UpdateDone \/ OtherMessage
  BY <1>5, <1>11 DEF DidChange, UpdateDone, OtherMessage, diskVars, reloadVars
<1>12. CASE UNCHANGED vars
  BY <1>5, <1>12 DEF vars
<1> QED
  BY <1>3, <1>6, <1>7, <1>8, <1>9, <1>10, <1>11, <1>12 DEF Next, Arrival, Server

\* What ProjectTable sees of a project is a version of its root's.
LEMMA VersionType ==
  ASSUME NEW v \in Project, v.root \in v.manifests, Dated(v)
  PROVE  Table!VersionOf(Version(v), v.root)
<1>1. v.manifests \in SUBSET Pkg /\ v.root \in Pkg /\ \A q \in Pkg : v.seen[q] \in Nat
  BY ConstantsAssumption DEF Project, Times, Untracked
<1>2. Version(v) \in Table!Version
  BY <1>1 DEF Version, Table!Version
<1> QED
  BY <1>1, <1>2 DEF Version, Table!VersionOf, Dated

\* A step that leaves roots and versions alone does not show in ProjectTable.
LEMMA LoadedFrame ==
  ASSUME Keys' = Keys,
         \A k \in Keys : /\ projects'[k].root = projects[k].root
                         /\ Version(projects'[k]) = Version(projects[k])
  PROVE  Loaded' = Loaded
<1>1. ASSUME NEW p \in Pkg PROVE Loaded'[p] = Loaded[p]
  BY DEF Loaded
<1> QED
  BY <1>1 DEF Loaded

\* A project w that enters the table under key and leaves those of other roots
\* alone is a step of ProjectTable when none of its root's is newer.
LEMMA LoadedReplaced ==
  ASSUME NEW w \in Project, NEW key \in Keys', projects'[key] = w,
         w.root \in w.manifests, Dated(w),
         \A k \in Keys : projects[k].root # w.root =>
           k # key /\ k \in Keys' /\ projects'[k] = projects[k],
         \A k \in Keys' \ {key} :
           k \in Keys /\ projects'[k] = projects[k] /\ projects[k].root # w.root,
         \A k \in Keys : projects[k].root = w.root =>
           Table!NotOlder(Version(projects[k]), Version(w))
  PROVE  Table!Next
<1> DEFINE r == w.root
<1>1. r \in Pkg
  BY DEF Project
<1>2. Loaded'[r] = {Version(w)}
  BY <1>1 DEF Loaded
<1>3. ASSUME NEW p \in Pkg, p # r PROVE Loaded'[p] = Loaded[p]
  <2>1. {l \in Keys' : projects'[l].root = p} = {l \in Keys : projects[l].root = p}
    BY <1>3
  <2>2. \A l \in {l \in Keys : projects[l].root = p} : projects'[l] = projects[l]
    BY <1>3
  <2> QED
    BY <2>1, <2>2 DEF Loaded
<1>4. Loaded' = [Loaded EXCEPT ![r] = {Version(w)}]
  BY <1>1, <1>2, <1>3 DEF Loaded
<1>5. Table!VersionOf(Version(w), r)
  BY VersionType
<1>6. \A v \in Loaded[r] : Table!NotOlder(v, Version(w))
  BY <1>1 DEF Loaded
<1> HIDE DEF r
<1>7. Table!Load(r)
  BY <1>2, <1>4, <1>5, <1>6 DEF Table!Load
<1> QED
  BY <1>1, <1>7 DEF Table!Next

\* A swap replaces a project by the newer one that waited.
LEMMA TableSwap ==
  ASSUME NEW rank \in Ranks, TableInv(rank), Swap
  PROVE  Table!Next /\ WaitsNewer'
<1> DEFINE r == Head(all)
           w == r.project
<1>1. /\ 1 \in DOMAIN all /\ r = all[1] /\ r \in Reloaded
      /\ r.key \in Keys /\ projects[r.key].root = w.root
      /\ Dominates(rank, w.root, w.manifests)
      /\ w.manifests \in Keys' /\ projects'[w.manifests] = w
      /\ \A k \in Keys : projects[k].root # w.root =>
           k # w.manifests /\ k \in Keys' /\ projects'[k] = projects[k]
      /\ \A k \in Keys' \ {w.manifests} :
           k \in Keys /\ projects'[k] = projects[k] /\ projects[k].root # w.root
  BY SwapMoves DEF TableInv
<1>2. w \in Project /\ Dated(w)
  BY <1>1 DEF TableInv, DatedInv, Reloaded
<1>3. Table!NotOlder(Version(projects[r.key]), Version(w))
  BY <1>1 DEF TableInv, WaitsNewer
<1> HIDE DEF r
<1>4. Table!Next
  <2>1. \A k \in Keys : projects[k].root = w.root => k = r.key
    BY <1>1 DEF TableInv, LayeredInv, OneProjectPerRoot
  <2>2. w.root \in w.manifests
    BY <1>1 DEF Dominates
  <2> HIDE DEF w
  <2> QED
    BY <1>1, <1>2, <1>3, <2>1, <2>2, LoadedReplaced
<1>5. ASSUME NEW i \in DOMAIN all'
      PROVE  Table!NotOlder(Version(projects'[all'[i].key]), Version(all'[i].project))
  <2>1. all \in Seq(Reloaded) /\ all # << >> /\ all' = Tail(all)
    BY DEF Swap, TableInv, LayeredInv, KeyInv, TypeInv, TypeOK
  <2>2. i + 1 \in DOMAIN all /\ i + 1 # 1 /\ all'[i] = all[i + 1]
    BY <1>5, <2>1, TailEntries
  <2>3. all[i + 1].project.root # w.root
    BY <1>1, <2>2 DEF TableInv, LayeredInv, BatchRootsDistinct
  <2>4. all[i + 1].key \in Keys /\ projects[all[i + 1].key].root = all[i + 1].project.root
    BY <2>2 DEF TableInv, LayeredInv, PendingKeysLive
  <2>5. projects'[all[i + 1].key] = projects[all[i + 1].key]
    BY <1>1, <2>3, <2>4
  <2> QED
    BY <2>2, <2>5 DEF TableInv, WaitsNewer
<1> QED
  BY <1>4, <1>5 DEF WaitsNewer

\* An open adds the first project of a package, if any.
LEMMA TableOpen ==
  ASSUME NEW rank \in Ranks, TableInv(rank), DidOpen
  PROVE  Table!Next \/ Loaded' = Loaded
<1> DEFINE p == msg.pkg
           w == Load(p)
<1>1. /\ p \in Pkg /\ Dominates(rank, p, w.manifests) /\ w.root = p
      /\ \/ projects' = projects
         \/ /\ w.manifests \in Keys' /\ projects'[w.manifests] = w
            /\ \A k \in Keys : /\ projects[k].root # p /\ k # w.manifests
                               /\ k \in Keys' /\ projects'[k] = projects[k]
            /\ Keys' \subseteq Keys \cup {w.manifests}
  BY OpenAdds DEF TableInv
<1>2. CASE projects' = projects
  BY <1>2, LoadedFrame DEF Keys
<1>3. CASE projects' # projects
  <2>1. w \in Project /\ w.root \in w.manifests
    BY <1>1, LoadType DEF TableInv, LayeredInv, KeyInv, TypeInv, Dominates
  <2>2. Dated(w)
    BY <1>1, <1>3, LoadDated
    DEF DidOpen, TableInv, DatedInv, NoticeInv, KeyInv, TypeInv
  <2> HIDE DEF w
  <2> QED
    BY <1>1, <1>3, <2>1, <2>2, LoadedReplaced
<1> QED
  BY <1>2, <1>3

\* What a step of the reload puts at the end of the batch is newer than what it
\* was read to replace.
LEMMA TableReload ==
  ASSUME NEW rank \in Ranks, TableInv(rank), NEW k \in SUBSET Pkg,
         ReloadMissing(k) \/ ReloadModified(k)
  PROVE  WaitsNewer' /\ UNCHANGED projects
<1> DEFINE root == projects[k].root
           e == [key |-> k, project |-> Load(root)]
<1>1. TypeInv /\ TypeOK /\ all \in Seq(Reloaded)
  BY DEF TableInv, LayeredInv, KeyInv, TypeInv, TypeOK
<1>2. /\ k \in Keys /\ root \in Pkg
      /\ all' = << >> \/ all' = all \/ all' = Append(all, e)
      /\ projects' = projects
  BY <1>1, BatchGrows
<1>3. e \in Reloaded /\ e.key = k /\ e.project = Load(root)
  BY <1>1, <1>2, LoadType DEF Reloaded
<1>4. projects[k] \in Project /\ Dated(projects[k])
  BY <1>1, <1>2, KeysType DEF TableInv, DatedInv
<1>5. Table!NotOlder(Version(projects[e.key]), Version(e.project))
  BY <1>1, <1>2, <1>3, <1>4, LoadNotOlder
<1> HIDE DEF root, e
<1>6. ASSUME NEW i \in DOMAIN all'
      PROVE  Table!NotOlder(Version(projects[all'[i].key]), Version(all'[i].project))
  <2>1. CASE all' = << >>
    BY <1>6, <2>1
  <2>2. CASE all' = all
    BY <1>6, <2>2 DEF TableInv, WaitsNewer
  <2>3. CASE all' = Append(all, e)
    <3>1. (i \in DOMAIN all /\ all'[i] = all[i]) \/ all'[i] = e
      BY <1>1, <1>3, <1>6, <2>3, AppendEntries
    <3> QED
      BY <1>5, <3>1 DEF TableInv, WaitsNewer
  <2> QED
    BY <1>2, <2>1, <2>2, <2>3
<1> QED
  BY <1>2, <1>6 DEF WaitsNewer

\* Every step of the server or the user is one of the table, or does not show.
LEMMA TableStep ==
  ASSUME NEW rank \in Ranks, TableInv(rank), [Next]_vars
  PROVE  TableInv(rank)' /\ [Table!Next]_Loaded
<1>1. /\ LayeredInv(rank)' /\ DatedInv'
      /\ TypeInv /\ TypeOK
  BY LayeredStep, DatedStep DEF TableInv, LayeredInv, KeyInv, TypeInv
<1>2. ASSUME UNCHANGED <<projects, all>> PROVE WaitsNewer' /\ Loaded' = Loaded
  BY <1>2, LoadedFrame DEF TableInv, WaitsNewer, Keys
<1>3. CASE Edit
  BY <1>1, <1>2, <1>3, EditType DEF TableInv
<1>4. ASSUME NEW k \in SUBSET Pkg, ReloadMissing(k) \/ ReloadModified(k)
      PROVE  WaitsNewer' /\ Loaded' = Loaded
  BY <1>4, TableReload, LoadedFrame DEF Keys
<1>5. CASE Swap
  BY <1>1, <1>5, TableSwap DEF TableInv
<1>6. CASE DidOpen
  <2>1. all' = << >>
    BY <1>6 DEF DidOpen, Dispatching, Reloading, reloadVars
  <2> QED
    BY <1>1, <1>6, <2>1, TableOpen DEF TableInv, WaitsNewer
<1>7. ASSUME NEW k \in SUBSET Pkg, UpdateDefs(k) PROVE WaitsNewer' /\ Loaded' = Loaded
  <2>1. all' = << >> /\ Keys' = Keys
    BY <1>1, <1>7, UpdateEffect DEF UpdateDefs, TypeOK, Reloading
  <2>2. ASSUME NEW l \in Keys
        PROVE  /\ projects'[l].root = projects[l].root
               /\ projects'[l].manifests = projects[l].manifests
               /\ projects'[l].seen = projects[l].seen
    BY <1>1, <1>7, KeysType DEF UpdateDefs, TypeOK, Keys, Project
  <2>3. \A l \in Keys : Version(projects'[l]) = Version(projects[l])
    BY <2>2 DEF Version
  <2> QED
    BY <2>1, <2>2, <2>3, LoadedFrame DEF WaitsNewer
<1>8. ASSUME NEW m \in Message, Receive(m.kind, m.pkg) PROVE WaitsNewer' /\ Loaded' = Loaded
  BY <1>2, <1>8 DEF Receive
<1>9. CASE DidChange \/ UpdateDone \/ OtherMessage
  BY <1>1, <1>2, <1>9 DEF DidChange, UpdateDone, OtherMessage, reloadVars, TableInv
<1>10. CASE UNCHANGED vars
  BY <1>1, <1>2, <1>10 DEF vars, TableInv
<1> QED
  BY <1>1, <1>3, <1>4, <1>5, <1>6, <1>7, <1>8, <1>9, <1>10
  DEF Next, Arrival, Server, TableInv

\* When manifests only ever depend downwards, the table is what ProjectTable
\* says, whatever is edited between the steps of the server: each package has
\* one project or none, no project is dropped or replaced by an older one.
THEOREM LayeredImplementsTable ==
  ASSUME NEW rank \in Ranks
  PROVE  Spec => ImplementsTable
<1>1. Init => TableInv(rank) /\ Table!Init
  <2> SUFFICES ASSUME Init PROVE TableInv(rank) /\ Table!Init
    OBVIOUS
  <2>1. Keys = {} /\ all = << >> /\ LayeredInv(rank) /\ NoticeInv
    BY LayeredInit, NoticeInit DEF Init, Keys
  <2> QED
    BY <2>1 DEF TableInv, DatedInv, WaitsNewer, Table!Init, Loaded
<1>2. TableInv(rank) /\ [Next]_vars => TableInv(rank)' /\ [Table!Next]_Loaded
  BY TableStep
<1> QED
  BY <1>1, <1>2, PTL DEF Spec, ImplementsTable, Table!Spec

====
