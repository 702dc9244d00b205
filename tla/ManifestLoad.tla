---- MODULE ManifestLoad ----
(***************************************************************************)
(* Project::load_project of src/project_manager.rs, the depth-first walk   *)
(* over manifests that ProjectRegistry takes for one step.  It asks of     *)
(* each package, one after the other, whether its directory is there, when *)
(* its manifest was modified and what the manifest declares, and the user  *)
(* edits packages in between.                                              *)
(***************************************************************************)
EXTENDS Naturals, Sequences, FiniteSets

CONSTANTS
  Pkg,        \* packages on disk
  Root,       \* the package that is loaded
  Declarable, \* pairs <<p, q>> such that p's manifest may name q a dependency
  Layouts,    \* the states of a package directory
  MaxEdits    \* bound on the edits

AllLayouts == {"absent", "nomanifest", "bad", "ok"}

ASSUME ConstantsAssumption ==
  /\ Root \in Pkg
  /\ Declarable \in SUBSET (Pkg \X Pkg)
  /\ Layouts \in SUBSET AllLayouts
  /\ MaxEdits \in Nat

VARIABLES
  disk,       \* package -> layout, declared dependencies, manifest time
  edits,      \* number of edits so far
  stack,      \* calls of load_project, innermost first
  manifests,  \* manifest_paths
  missing,    \* manifest_not_exists
  failures,   \* manifest_load_failures
  seen        \* manifest_mod_time

vars == <<disk, edits, stack, manifests, missing, failures, seen>>

Times == 0..(MaxEdits + 1)
Untracked == MaxEdits + 2

Package == [layout : AllLayouts, deps : SUBSET Pkg, time : Times]
Step == {"exists", "time", "parse", "deps"}
Call == [pkg : Pkg, at : Step, todo : SUBSET Pkg]

HasManifest(p) == disk[p].layout \in {"bad", "ok"}

----------------------------------------------------------------------------
(* The user. *)

Edit ==
  /\ edits < MaxEdits
  /\ edits' = edits + 1
  /\ \E p \in Pkg, layout \in Layouts, deps \in SUBSET Pkg :
       /\ \A q \in deps : <<p, q>> \in Declarable
       /\ layout = "ok" \/ deps = {}
       /\ disk' = [disk EXCEPT ![p] =
            [layout |-> layout, deps |-> deps,
             time |-> IF layout \in {"bad", "ok"} THEN edits + 2 ELSE 0]]
  /\ UNCHANGED <<stack, manifests, missing, failures, seen>>

----------------------------------------------------------------------------
(* load_project. *)

Begin(p) == [pkg |-> p, at |-> "exists", todo |-> {}]

\* The order of the three questions.
AfterParsingFirst(step) ==
  CASE step = "exists" -> "parse" [] step = "parse" -> "time" [] step = "time" -> "deps"
After(step) ==
  CASE step = "exists" -> "time" [] step = "time" -> "parse" [] step = "parse" -> "deps"

At(step) == stack # << >> /\ Head(stack).at = step
Here == Head(stack).pkg

Continue(todo) ==
  stack' = <<[pkg |-> Here, at |-> After(Head(stack).at), todo |-> todo]>> \o Tail(stack)
Return == stack' = Tail(stack)

\* A package whose directory is absent is recorded, and watched for.
CheckExists ==
  /\ At("exists")
  /\ IF disk[Here].layout = "absent"
     THEN missing' = missing \cup {Here} /\ Return
     ELSE Continue({}) /\ UNCHANGED missing
  /\ UNCHANGED <<disk, edits, manifests, failures, seen>>

ReadTime ==
  /\ At("time")
  /\ seen' = [seen EXCEPT ![Here] = disk[Here].time]
  /\ Continue(Head(stack).todo)
  /\ UNCHANGED <<disk, edits, manifests, missing, failures>>

Parse ==
  /\ At("parse")
  /\ IF disk[Here].layout = "ok"
     THEN Continue(disk[Here].deps) /\ UNCHANGED failures
     ELSE failures' = failures \cup {Here} /\ Return
  /\ UNCHANGED <<disk, edits, manifests, missing, seen>>

\* The loop over dependencies and dev-dependencies; a manifest that was loaded
\* before is skipped.
DescendAlways(q) ==
  LET rest == [pkg |-> Here, at |-> "deps", todo |-> Head(stack).todo \ {q}] IN
  /\ At("deps")
  /\ q \in Head(stack).todo
  /\ stack' = <<Begin(q), rest>> \o Tail(stack)
  /\ manifests' = manifests \cup {q}
  /\ UNCHANGED <<disk, edits, missing, failures, seen>>
DescendKeepingTodo(q) ==
  /\ At("deps")
  /\ q \in Head(stack).todo
  /\ IF q \in manifests
     THEN UNCHANGED <<stack, manifests>>
     ELSE stack' = <<Begin(q)>> \o stack /\ manifests' = manifests \cup {q}
  /\ UNCHANGED <<disk, edits, missing, failures, seen>>
Descend(q) ==
  LET rest == [pkg |-> Here, at |-> "deps", todo |-> Head(stack).todo \ {q}] IN
  /\ At("deps")
  /\ q \in Head(stack).todo
  /\ IF q \in manifests
     THEN stack' = <<rest>> \o Tail(stack) /\ UNCHANGED manifests
     ELSE /\ stack' = <<Begin(q), rest>> \o Tail(stack)
          /\ manifests' = manifests \cup {q}
  /\ UNCHANGED <<disk, edits, missing, failures, seen>>

Ascend ==
  /\ At("deps")
  /\ Head(stack).todo = {}
  /\ Return
  /\ UNCHANGED <<disk, edits, manifests, missing, failures, seen>>

Load == CheckExists \/ ReadTime \/ Parse \/ (\E q \in Pkg : Descend(q)) \/ Ascend

Next == Edit \/ Load

Init ==
  /\ disk \in [Pkg -> [layout : Layouts, deps : SUBSET Pkg, time : {0, 1}]]
  /\ \A p \in Pkg :
       /\ \A q \in disk[p].deps : <<p, q>> \in Declarable
       /\ disk[p].layout = "ok" \/ disk[p].deps = {}
       /\ disk[p].time = IF HasManifest(p) THEN 1 ELSE 0
  /\ edits = 0
  /\ stack = <<Begin(Root)>>
  /\ manifests = {Root}
  /\ missing = {}
  /\ failures = {}
  /\ seen = [p \in Pkg |-> Untracked]

Spec == Init /\ [][Next]_vars
FairSpec == Spec /\ WF_vars(Load)

----------------------------------------------------------------------------
(* Properties. *)

\* Types, and that a manifest is recorded in one way only.
TypeOK ==
  /\ disk \in [Pkg -> Package]
  /\ edits \in 0..MaxEdits
  /\ stack \in Seq(Call)
  /\ manifests \subseteq Pkg
  /\ missing \subseteq manifests /\ failures \subseteq manifests
  /\ missing \cap failures = {}
  /\ seen \in [Pkg -> Times \cup {Untracked}]
  /\ \A p \in Pkg : seen[p] # Untracked => p \in manifests \ missing

\* Cycles and diamonds of dependencies, and manifests that change under the
\* walk, never make it enter a package again.
EachPackageOnce == \A i, j \in DOMAIN stack : stack[i].pkg = stack[j].pkg => i = j

\* The walk ends.
Terminates == <>(stack = << >>)

\* ProjectRegistry, with the variables that Load(p) does not read fixed.
Registry == INSTANCE ProjectRegistry WITH
  Dev <- {}, Git <- {}, Visited <- Pkg, NoProject <- "NoProject",
  broken <- {}, opened <- {}, projects <- << >>, pc <- "idle", msg <- << >>,
  toMissing <- {}, toModified <- {}, all <- << >>, toUpdate <- {}

Result ==
  [root |-> Root, manifests |-> manifests, missing |-> missing,
   failures |-> failures, seen |-> seen, env |-> {}]

\* When nothing is edited meanwhile, the walk computes what ProjectRegistry
\* says that a load yields, all of it.
LoadsTheClosure ==
  (stack = << >> /\ edits = 0) =>
    Result = [Registry!Load(Root) EXCEPT !.env = {}]

\* Whatever is edited while the walk is under way or later, a project that can
\* be built, and came out of the walk with other packages than its manifests
\* now reach, is noticed by the next pass of try_reload_projects: no edit slips
\* between the questions.
RacyLoadIsNoticed ==
  (stack = << >> /\ Registry!Builds(Root)) =>
    \/ manifests = Registry!Closure(Root)
    \/ Registry!ManifestBeedModified(Result)
    \/ \E q \in missing : HasManifest(q)
====
