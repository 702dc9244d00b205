---- MODULE ProjectRegistry ----
(***************************************************************************)
(* The table of loaded Move packages, MultiProject.projects of             *)
(* src/multiproject.rs, and the loop that keeps it in step with the        *)
(* manifests on disk.  Before it looks at a message the server runs        *)
(* try_reload_projects: it collects the projects that miss a dependency    *)
(* and those whose manifests changed, loads each of them again from disk,  *)
(* and only then swaps the results into the table.  The user goes on       *)
(* editing manifests while it does so, hence one step per project loaded.  *)
(*                                                                         *)
(* A package stands for its directory, its Move.toml and its Move files.   *)
(* Times number the edits, 1 being the state the server starts in; 0 is    *)
(* file_modify_time's None.                                                *)
(***************************************************************************)
EXTENDS Naturals, Sequences, FiniteSets

CONSTANTS
  Pkg,        \* packages on disk
  Declarable, \* pairs <<p, q>> such that p's manifest may name q a dependency
  Dev,        \* those of them that it can name under dev-dependencies only
  Git,        \* packages that the resolver downloads when they are absent
  Visited,    \* packages whose documents the user opens
  Layouts,    \* the states of a package directory that edits produce
  MaxEdits,   \* bound on the edits of the environment
  NoProject   \* an unused key of the table

AllLayouts == {"absent", "nomanifest", "bad", "ok"}

ASSUME ConstantsAssumption ==
  /\ Declarable \in SUBSET (Pkg \X Pkg)
  /\ Dev \in SUBSET Declarable
  /\ Git \in SUBSET Pkg
  /\ Visited \in SUBSET Pkg
  /\ Layouts \in SUBSET AllLayouts
  /\ MaxEdits \in Nat

VARIABLES
  disk,       \* package -> layout, declared dependencies, manifest time
  broken,     \* packages the Move package system refuses to resolve
  edits,      \* number of edits so far
  opened,     \* packages with a document open in the editor
  projects,   \* MultiProject.projects: set of manifest paths -> project
  pc,         \* what the event loop is doing
  msg,        \* the message it received last
  toMissing,  \* keys left in not_founds of try_reload_projects
  toModified, \* keys left in modifies of try_reload_projects
  all,        \* reloaded projects that wait for the swap
  toUpdate    \* keys left in the loop of MultiProject::update_defs

diskVars == <<disk, broken, edits>>
reloadVars == <<toMissing, toModified, all>>
vars == <<disk, broken, edits, opened, projects, pc, msg, toMissing,
          toModified, all, toUpdate>>

Times == 0..(MaxEdits + 1)
Untracked == MaxEdits + 2   \* a manifest that is no key of manifest_mod_time

Package == [layout : AllLayouts, deps : SUBSET Pkg, time : Times]
Project == [root : Pkg, manifests : SUBSET Pkg, missing : SUBSET Pkg,
            failures : SUBSET Pkg, seen : [Pkg -> Times \cup {Untracked}],
            env : SUBSET Pkg]
Message == [kind : {"open", "close", "change", "request"}, pkg : Pkg]
NoMessage == [kind |-> "none"]

ASSUME NoProjectAssumption == NoProject \notin Project

Reloaded == [key : SUBSET Pkg, project : Project]

----------------------------------------------------------------------------
(* The packages on disk. *)

HasManifest(p) == disk[p].layout \in {"bad", "ok"}

\* Dependencies that parsing p's manifest yields.
DepsOf(p) == IF disk[p].layout = "ok" THEN disk[p].deps ELSE {}

\* The packages reachable from p along the edges of the function next.
Reach(p, next) ==
  {q \in Pkg : \A S \in SUBSET Pkg :
                 (p \in S /\ \A s \in S : next[s] \subseteq S) => q \in S}

\* Every package that load_project visits: it follows dependencies and
\* dev-dependencies, of the root and of every dependency alike.
Closure(p) == Reach(p, [q \in Pkg |-> DepsOf(q)])

\* The package resolver takes dev-dependencies from the root only.
ResolverEdges(p) ==
  [q \in Pkg |-> IF q = p THEN DepsOf(q) ELSE {d \in DepsOf(q) : <<q, d>> \notin Dev}]

\* get_global_env_by_move_package_v2 succeeds: the resolver finds or downloads
\* every package it needs, meets no cycle, and has no other reason to refuse.
Builds(p) ==
  LET next == ResolverEdges(p) IN
  /\ disk[p].layout = "ok"
  /\ p \notin broken
  /\ \A q \in Reach(p, next) :
       /\ disk[q].layout = "ok" \/ (disk[q].layout = "absent" /\ q \in Git)
       /\ \A d \in next[q] : q \notin Reach(d, next)

\* manifest_mod_time: a manifest is recorded once its directory is there.
SeenRootOnly(p) ==
  [q \in Pkg |-> IF q = p THEN disk[q].time ELSE Untracked]
SeenTimes(p) ==
  [q \in Pkg |-> IF q \in Closure(p) /\ disk[q].layout # "absent"
                 THEN disk[q].time ELSE Untracked]

\* Project::new on a root that builds.  The environment holds what the
\* resolver reached, which may be less than load_project did.
Load(p) ==
  LET reached == Closure(p) IN
  [root |-> p,
   manifests |-> reached,
   missing |-> {q \in reached : disk[q].layout = "absent"},
   failures |-> {q \in reached : disk[q].layout \in {"nomanifest", "bad"}},
   seen |-> SeenTimes(p),
   env |-> Reach(p, ResolverEdges(p))]

\* mk_multi_project_key
KeyOf(v) == v.manifests

\* insert_project
Insert(table, v) == [table EXCEPT ![KeyOf(v)] = v]

\* The body of the last loop of try_reload_projects.
SwapKeepingOld(table, r) == Insert(table, r.project)
SwapRemoveLast(table, r) == [Insert(table, r.project) EXCEPT ![r.key] = NoProject]
SwapRemoveUsers(table, r) ==
  Insert([k \in SUBSET Pkg |-> IF r.project.root \in k THEN NoProject ELSE table[k]],
         r.project)
SwapIn(table, r) == Insert([table EXCEPT ![r.key] = NoProject], r.project)

Keys == {k \in SUBSET Pkg : projects[k] # NoProject}

KeysWith(p) == {k \in Keys : p \in k}

ManifestBeedModified(v) ==
  \E q \in Pkg : v.seen[q] # Untracked /\ v.seen[q] # disk[q].time

\* not_founds and modifies, the first two loops of try_reload_projects.
NotFounds == {k \in Keys : projects[k].missing # {}}
Modifies ==
  {k \in Keys :
     /\ ManifestBeedModified(projects[k])
     /\ \A l \in NotFounds : projects[l].root # projects[k].root}

----------------------------------------------------------------------------
(* The environment: the user, a checkout or a fetch rewrites a package. *)

EditPackage(p, layout, deps) ==
  /\ edits < MaxEdits
  /\ edits' = edits + 1
  /\ disk' = [disk EXCEPT ![p] =
       [layout |-> layout, deps |-> deps,
        time |-> IF layout \in {"bad", "ok"} THEN edits + 2 ELSE 0]]
  /\ UNCHANGED <<broken, opened, projects, pc, msg, reloadVars, toUpdate>>

\* Something the resolver needs besides the manifests comes or goes.
ToggleBroken(p) ==
  /\ edits < MaxEdits
  /\ edits' = edits + 1
  /\ broken' = IF p \in broken THEN broken \ {p} ELSE broken \cup {p}
  /\ UNCHANGED <<disk, opened, projects, pc, msg, reloadVars, toUpdate>>

Edit ==
  \E p \in Pkg :
    \/ \E layout \in Layouts, deps \in SUBSET {q \in Pkg : <<p, q>> \in Declarable} :
         /\ layout = "ok" \/ deps = {}
         /\ EditPackage(p, layout, deps)
    \/ ToggleBroken(p)

----------------------------------------------------------------------------
(* The event loop. *)

\* What the editor may send about a document of package p.  A request reads
\* the table whichever document it names, if any; one p stands for them all.
Sendable(kind, p) ==
  \/ kind = "open" /\ p \in Visited \ opened /\ disk[p].layout # "absent"
  \/ kind \in {"close", "change"} /\ p \in opened
  \/ kind = "request" /\ p = CHOOSE q \in Pkg : TRUE

\* A message arrives; try_reload_projects collects its work first.
Receive(kind, p) ==
  /\ pc = "idle"
  /\ Sendable(kind, p)
  /\ msg' = [kind |-> kind, pkg |-> p]
  /\ opened' = CASE kind = "open" -> opened \cup {p}
                 [] kind = "close" -> opened \ {p}
                 [] OTHER -> opened
  /\ toMissing' = NotFounds
  /\ toModified' = Modifies
  /\ pc' = "reload"
  /\ UNCHANGED <<diskVars, projects, all, toUpdate>>

\* A project with missing dependencies is loaded again once one of them is
\* there; when that fails, the function returns and drops everything.
ReloadMissing(k) ==
  LET root == projects[k].root
      existsNow == \E q \in projects[k].missing : HasManifest(q)
  IN  /\ pc = "reload"
      /\ k \in toMissing
      /\ IF existsNow /\ ~Builds(root)
         THEN /\ toMissing' = {}
              /\ toModified' = {}
              /\ all' = << >>
         ELSE /\ toMissing' = toMissing \ {k}
              /\ UNCHANGED toModified
              /\ all' = IF existsNow
                        THEN Append(all, [key |-> k, project |-> Load(root)])
                        ELSE all
      /\ UNCHANGED <<diskVars, opened, projects, pc, msg, toUpdate>>

\* A project that fails to load here is left as it is.
ReloadModifiedOrReturn(k) ==
  LET root == projects[k].root IN
  /\ pc = "reload"
  /\ toMissing = {}
  /\ k \in toModified
  /\ toModified' = IF Builds(root) THEN toModified \ {k} ELSE {}
  /\ all' = IF Builds(root)
            THEN Append(all, [key |-> k, project |-> Load(root)])
            ELSE << >>
  /\ UNCHANGED <<diskVars, opened, projects, pc, msg, toMissing, toUpdate>>
ReloadModified(k) ==
  LET root == projects[k].root IN
  /\ pc = "reload"
  /\ toMissing = {}
  /\ k \in toModified
  /\ toModified' = toModified \ {k}
  /\ all' = IF Builds(root)
            THEN Append(all, [key |-> k, project |-> Load(root)])
            ELSE all
  /\ UNCHANGED <<diskVars, opened, projects, pc, msg, toMissing, toUpdate>>

\* The last loop: one project leaves its old key and enters its new one.
Swap ==
  /\ pc = "reload"
  /\ toMissing = {}
  /\ toModified = {}
  /\ all # << >>
  /\ projects' = SwapIn(projects, Head(all))
  /\ all' = Tail(all)
  /\ UNCHANGED <<diskVars, opened, pc, msg, toMissing, toModified, toUpdate>>

Reloading == toMissing # {} \/ toModified # {} \/ all # << >>

Dispatching(kinds) ==
  /\ pc = "reload"
  /\ ~Reloading
  /\ msg.kind \in kinds

\* DidOpenTextDocument: load the package unless some project contains it.
DidOpen ==
  LET p == msg.pkg IN
  /\ Dispatching({"open"})
  /\ projects' = IF HasManifest(p) /\ KeysWith(p) = {} /\ Builds(p)
                 THEN Insert(projects, Load(p))
                 ELSE projects
  /\ pc' = "idle"
  /\ msg' = NoMessage
  /\ UNCHANGED <<diskVars, opened, reloadVars, toUpdate>>

\* DidChangeTextDocument and DidSaveTextDocument: update_defs takes every
\* project whose key contains the file's manifest.
DidChange ==
  LET p == msg.pkg IN
  /\ Dispatching({"change"})
  /\ toUpdate' = IF HasManifest(p) THEN KeysWith(p) ELSE {}
  /\ pc' = "update"
  /\ UNCHANGED <<diskVars, opened, projects, msg, reloadVars>>

\* Project::update_defs: the environment of the FILE's package, loaded now,
\* replaces the project's; manifests, times and missing packages stay.
UpdateDefs(k) ==
  LET p == msg.pkg IN
  /\ pc = "update"
  /\ k \in toUpdate
  /\ toUpdate' = toUpdate \ {k}
  /\ projects' = IF Builds(p)
                 THEN [projects EXCEPT ![k] = [@ EXCEPT !.env = Load(p).env]]
                 ELSE projects
  /\ UNCHANGED <<diskVars, opened, pc, msg, reloadVars>>

UpdateDone ==
  /\ pc = "update"
  /\ toUpdate = {}
  /\ pc' = "idle"
  /\ msg' = NoMessage
  /\ UNCHANGED <<diskVars, opened, projects, reloadVars, toUpdate>>

\* Requests, responses and DidCloseTextDocument leave the table alone.
OtherMessage ==
  /\ Dispatching({"close", "request"})
  /\ pc' = "idle"
  /\ msg' = NoMessage
  /\ UNCHANGED <<diskVars, opened, projects, reloadVars, toUpdate>>

Arrival == \E m \in Message : Receive(m.kind, m.pkg)

Server ==
  \/ \E k \in SUBSET Pkg : ReloadMissing(k)
  \/ \E k \in SUBSET Pkg : ReloadModified(k)
  \/ Swap
  \/ DidOpen
  \/ DidChange
  \/ \E k \in SUBSET Pkg : UpdateDefs(k)
  \/ UpdateDone
  \/ OtherMessage

Next == Edit \/ Arrival \/ Server

InitialPackage == [layout : Layouts, deps : SUBSET Pkg, time : {0, 1}]

\* The server starts with an empty table; every package directory is in some
\* layout, and its manifest declares what the layout allows.
Init ==
  /\ disk \in [Pkg -> InitialPackage]
  /\ \A p \in Pkg :
       /\ \A q \in disk[p].deps : <<p, q>> \in Declarable
       /\ disk[p].layout = "ok" \/ disk[p].deps = {}
       /\ disk[p].time = IF HasManifest(p) THEN 1 ELSE 0
  /\ broken = {}
  /\ edits = 0
  /\ opened = {}
  /\ projects = [k \in SUBSET Pkg |-> NoProject]
  /\ pc = "idle"
  /\ msg = NoMessage
  /\ toMissing = {}
  /\ toModified = {}
  /\ all = << >>
  /\ toUpdate = {}

Spec == Init /\ [][Next]_vars

\* The server never stops on a message it has, and the editor keeps talking:
\* every keystroke, cursor move and scroll of the user is a message.
FairSpec == Spec /\ WF_vars(Server) /\ WF_vars(Arrival)

----------------------------------------------------------------------------
(* Properties. *)

\* Types, and that the event loop leaves nothing over between messages.
TypeOK ==
  /\ disk \in [Pkg -> Package]
  /\ broken \in SUBSET Pkg
  /\ edits \in 0..MaxEdits
  /\ opened \in SUBSET Pkg
  /\ projects \in [SUBSET Pkg -> Project \cup {NoProject}]
  /\ pc \in {"idle", "reload", "update"}
  /\ msg \in IF pc = "idle" THEN {NoMessage} ELSE Message
  /\ toMissing \in SUBSET SUBSET Pkg
  /\ toModified \in SUBSET SUBSET Pkg
  /\ all \in Seq(Reloaded)
  /\ toUpdate \in SUBSET SUBSET Pkg
  /\ Reloading => pc = "reload"
  /\ toUpdate # {} => pc = "update"

\* get_project looks a package up in the KEYS only: a key is the set of
\* manifests its project was loaded from, and the root is one of them.
KeyIsManifests ==
  \A k \in Keys : projects[k].manifests = k /\ projects[k].root \in k

\* However loads, reloads and key changes alternate, a package is the root
\* of at most one project: no file is analysed, or reported on, twice.
OneProjectPerRoot ==
  \A k, l \in Keys : projects[k].root = projects[l].root => k = l

\* One pass of try_reload_projects loads a project once, although both its
\* loops may have a reason to.
BatchRootsDistinct ==
  \A i, j \in DOMAIN all :
    all[i].project.root = all[j].project.root => i = j

\* The keys a pass has copied out of the table still name, when it comes to
\* use them, the projects they were copied from, though earlier swaps of the
\* pass have moved other projects to new keys.
PendingKeysLive ==
  /\ toMissing \cup toModified \cup toUpdate \subseteq Keys
  /\ \A i \in DOMAIN all :
       /\ all[i].key \in Keys
       /\ projects[all[i].key].root = all[i].project.root

\* Manifest times and missing directories are all the server watches, and
\* they are enough: a project whose manifests on disk now reach another set
\* of packages than its key is one that the next pass notices.
StaleIsNoticed ==
  \A k \in Keys :
    \/ k = Closure(projects[k].root)
    \/ ManifestBeedModified(projects[k])
    \/ \E q \in projects[k].missing : HasManifest(q)

\* What ProjectTable sees of a project.
Version(v) ==
  [key |-> v.manifests,
   times |-> [q \in Pkg |-> IF v.seen[q] = Untracked THEN 0 ELSE v.seen[q]]]

Loaded == [p \in Pkg |-> {Version(projects[k]) : k \in {l \in Keys : projects[l].root = p}}]

Table == INSTANCE ProjectTable WITH loaded <- Loaded

\* However a pass, an open and the edits interleave, the table holds a project
\* per package loaded and drops none: each swap touches one package, and what
\* it swaps in has waited in all without anything newer having arrived.
ImplementsTable == Table!Spec

\* Once manifests stop changing, every project that can be built ends up
\* under the key that its manifests on disk give it, unless some project goes
\* on missing a package and some package goes on failing to build: whatever
\* was fetched, removed or broken before, and however many projects a pass has
\* to load, one that fails does not keep the others from it.
ReloadConverges ==
  <>[](NotFounds = {} \/ \A p \in Pkg : Builds(p)) =>
    <>[](\A k \in Keys : Builds(projects[k].root) => k = Closure(projects[k].root))

\* editors/code/README.md, 21-26: go to definition and the rest work in an
\* opened file.  Whichever project get_project picks for it, the project's
\* environment knows the file's package.
EnvKnowsFile ==
  pc = "idle" => \A p \in opened : \A k \in KeysWith(p) : p \in projects[k].env
====
