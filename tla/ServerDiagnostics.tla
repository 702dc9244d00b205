---- MODULE ServerDiagnostics ----
(***************************************************************************)
(* How compiler errors reach the editor: clear_ui_diag, report_diag and    *)
(* the document notifications of src/bin/aptos-move-analyzer.rs.  The      *)
(* server keeps no record of what it has published; it takes the err_diags *)
(* that a project has NOW for what the editor shows.  Projects are those   *)
(* of ProjectRegistry with their dependencies fixed, so that a project is  *)
(* named by its root.                                                      *)
(*                                                                         *)
(* A compilation reads the files on disk, which change at any moment.      *)
(***************************************************************************)
EXTENDS Naturals, FiniteSets

CONSTANTS
  Pkg,     \* packages
  File,    \* Move files
  PkgOf,   \* the package each file lies in
  Uses,    \* package -> packages its project is loaded from, itself included
  Hidden,  \* files below a directory aptos-move, which report_diag skips
  Edited,  \* packages whose manifests change while the server runs
  NoFile   \* no document

ASSUME ConstantsAssumption ==
  /\ PkgOf \in [File -> Pkg]
  /\ Uses \in [Pkg -> SUBSET Pkg]
  /\ \A p \in Pkg : p \in Uses[p] /\ \A q \in Uses[p] : Uses[q] \subseteq Uses[p]
  /\ Hidden \subseteq File
  /\ Edited \subseteq Pkg
  /\ NoFile \notin File

VARIABLES
  bad,      \* files with an error on disk
  gone,     \* packages without a Move.toml
  refused,  \* packages whose build fails before the compiler reports anything
  loaded,   \* roots of the loaded projects
  stale,    \* roots that manifest_beed_modified would pick
  errs,     \* root -> files that err_diags names
  ui,       \* file -> what the editor shows for it
  pc,       \* step of the event loop
  kind,     \* the notification being handled
  file,     \* its document
  picked,   \* the root that get_project has returned for it, if any
  todo      \* roots left in the current loop over projects

diskVars == <<bad, gone, refused>>
vars == <<bad, gone, refused, loaded, stale, errs, ui, pc, kind, file, picked, todo>>

Shown == {"none", "errors", "notproject"}
Kinds == {"open", "change", "close"}

\* discover_manifest_and_kind finds a manifest above f.
InProject(f) == PkgOf[f] \notin gone

\* Roots whose key contains the manifest of f.
RootsWith(f) == IF InProject(f) THEN {r \in loaded : PkgOf[f] \in Uses[r]} ELSE {}

\* err_diags of a compilation of root p: errors of its dependencies included.
CompileAll(p) == bad
Compile(p) == {f \in bad : PkgOf[f] \in Uses[p]}

Builds(p) == p \notin gone \cup refused

\* Publishing for a file replaces what the editor shows for it.
Publish(files, what) == [f \in File |-> IF f \in files THEN what ELSE ui[f]]

----------------------------------------------------------------------------
(* The world outside the server. *)

Toggle(S, x) == IF x \in S THEN S \ {x} ELSE S \cup {x}

EditFile ==
  /\ \E f \in File : bad' = Toggle(bad, f)
  /\ UNCHANGED <<gone, refused, loaded, stale, errs, ui, pc, kind, file, picked, todo>>

\* A Move.toml is written or removed.
EditManifest ==
  /\ \E p \in Edited :
       /\ gone' \in {gone, Toggle(gone, p)}
       /\ refused' \in {refused, Toggle(refused, p)}
       /\ stale' = stale \cup {r \in loaded : p \in Uses[r]}
  /\ UNCHANGED <<bad, loaded, errs, ui, pc, kind, file, picked, todo>>

----------------------------------------------------------------------------
(* The event loop. *)

Receive(k, f) ==
  /\ pc = "idle"
  /\ kind' = k
  /\ file' = f
  /\ todo' = stale
  /\ pc' = "reload"
  /\ UNCHANGED <<diskVars, loaded, stale, errs, ui, picked>>

\* try_reload_projects: a modified project is compiled again, in silence; one
\* that does not build stays as it is.
Reload(r) ==
  /\ pc = "reload"
  /\ r \in todo
  /\ todo' = todo \ {r}
  /\ IF Builds(r)
     THEN errs' = [errs EXCEPT ![r] = Compile(r)] /\ stale' = stale \ {r}
     ELSE UNCHANGED <<errs, stale>>
  /\ UNCHANGED <<diskVars, loaded, ui, pc, kind, file, picked>>

Reloaded == pc = "reload" /\ todo = {}

Finish == pc' = "idle" /\ file' = NoFile /\ picked' = {}

\* DidOpenTextDocument of a file outside any project, and its close.
NotProject ==
  /\ Reloaded
  /\ kind \in {"open", "close"}
  /\ ~InProject(file)
  /\ ui' = Publish({file}, IF kind = "open" THEN "notproject" ELSE "none")
  /\ Finish
  /\ UNCHANGED <<diskVars, loaded, stale, errs, kind, todo>>

\* DidOpenTextDocument of a file of a project that is not loaded yet.
OpenLoads ==
  LET p == PkgOf[file] IN
  /\ Reloaded
  /\ kind = "open"
  /\ InProject(file)
  /\ RootsWith(file) = {}
  /\ Builds(p)
  /\ loaded' = loaded \cup {p}
  /\ stale' = stale \ {p}
  /\ errs' = [errs EXCEPT ![p] = Compile(p)]
  /\ picked' = {p}
  /\ pc' = "report"
  /\ UNCHANGED <<diskVars, ui, kind, file, todo>>

\* An open of a loaded project or of one that does not build, and a close.
OpenReturns ==
  /\ Reloaded
  /\ InProject(file)
  /\ \/ kind = "open" /\ (RootsWith(file) # {} \/ ~Builds(PkgOf[file]))
     \/ kind = "close"
  /\ Finish
  /\ UNCHANGED <<diskVars, loaded, stale, errs, ui, kind, todo>>

\* Empty diagnostics for every file that the project's err_diags names.
ClearedNone(r) == ui
Cleared(r) == Publish(errs[r], "none")

\* clear_ui_diag of one of the document's projects.  The order of the hash map
\* decides which, and get_project makes the same choice again in report_diag.
ClearUiDiag ==
  /\ Reloaded
  /\ kind = "change"
  /\ IF RootsWith(file) = {}
     THEN picked' = {} /\ UNCHANGED ui
     ELSE \E r \in RootsWith(file) :
            picked' = {r} /\ ui' = Cleared(r)
  /\ todo' = RootsWith(file)
  /\ pc' = "update"
  /\ UNCHANGED <<diskVars, loaded, stale, errs, kind, file>>

\* Project::update_defs of one project: err_diags of the FILE's package.
UpdateDefs(r) ==
  /\ pc = "update"
  /\ r \in todo
  /\ todo' = todo \ {r}
  /\ errs' = IF InProject(file) /\ Builds(PkgOf[file])
             THEN [errs EXCEPT ![r] = Compile(PkgOf[file])]
             ELSE errs
  /\ UNCHANGED <<diskVars, loaded, stale, ui, pc, kind, file, picked>>

UpdateDone ==
  /\ pc = "update"
  /\ todo = {}
  /\ pc' = "report"
  /\ UNCHANGED <<diskVars, loaded, stale, errs, ui, kind, file, picked, todo>>

\* report_diag publishes the errors, or empty diagnostics for the document
\* itself when there are none.
ReportDocument(reported) ==
  Publish({file}, IF file \in reported THEN "errors" ELSE "none")
Report(reported) ==
  IF reported = {} THEN Publish({file}, "none") ELSE Publish(reported, "errors")

ReportDiag ==
  LET found == IF picked = {} THEN RootsWith(file) ELSE picked \cap RootsWith(file) IN
  /\ pc = "report"
  /\ IF found = {}
     THEN UNCHANGED ui
     ELSE \E r \in found : ui' = Report(errs[r] \ Hidden)
  /\ Finish
  /\ UNCHANGED <<diskVars, loaded, stale, errs, kind, todo>>

Server ==
  \/ \E r \in Pkg : Reload(r)
  \/ NotProject
  \/ OpenLoads
  \/ OpenReturns
  \/ ClearUiDiag
  \/ \E r \in Pkg : UpdateDefs(r)
  \/ UpdateDone
  \/ ReportDiag

Next ==
  \/ EditFile
  \/ EditManifest
  \/ \E k \in Kinds, f \in File : Receive(k, f)
  \/ Server

Init ==
  /\ bad \in SUBSET File
  /\ gone = {}
  /\ refused = {}
  /\ loaded = {}
  /\ stale = {}
  /\ errs = [p \in Pkg |-> {}]
  /\ ui = [f \in File |-> "none"]
  /\ pc = "idle"
  /\ kind = "open"
  /\ file = NoFile
  /\ picked = {}
  /\ todo = {}

Spec == Init /\ [][Next]_vars

\* The server handles what it has received, and the user keeps working on
\* every document: DidChange and DidSave come again and again.
FairSpec ==
  /\ Spec
  /\ WF_vars(Server)
  /\ \A f \in File : SF_vars(Receive("change", f))

----------------------------------------------------------------------------
(* Properties. *)

\* Types, and that projects wait for work in the two loops over projects only.
TypeOK ==
  /\ bad \subseteq File /\ gone \subseteq Pkg /\ refused \subseteq Pkg
  /\ loaded \subseteq Pkg /\ stale \subseteq loaded
  /\ errs \in [Pkg -> SUBSET File]
  /\ ui \in [File -> Shown]
  /\ pc \in {"idle", "reload", "update", "report"}
  /\ kind \in Kinds
  /\ file \in IF pc = "idle" THEN {NoFile} ELSE File
  /\ picked \subseteq loaded /\ todo \subseteq loaded
  /\ todo # {} => pc \in {"reload", "update"}

Attributed(f) == ui[f] = "errors" => \E r \in loaded : f \in errs[r]

\* Every error on display is one that some project still has: the document
\* notifications withdraw what they replace.  Only the silent reload of a
\* project whose manifests were edited may leave an error behind.
OnlyReloadOrphans ==
  [][(pc' # "reload" \/ errs' = errs) =>
       \A f \in File : Attributed(f) => Attributed(f)']_vars

\* An error that is fixed for good disappears for good, as long as no manifest
\* of a loaded project is edited.
FixedIsCleared ==
  \A f \in File : ([](stale = {}) /\ <>[](f \notin bad)) => <>[](ui[f] # "errors")

\* editors/code/README.md, 21-23, compiler diagnostics of a buildable project:
\* an error that stays, in an open package that builds, is in the end on display
\* whenever the server rests.
BadIsShown ==
  \A f \in File \ Hidden :
    <>[](f \in bad /\ PkgOf[f] \in loaded /\ Builds(PkgOf[f]))
      => <>[](pc = "idle" => ui[f] = "errors")

\* Work on a document never withdraws the errors of packages that share no
\* project with it.
ForeignErrorsKept ==
  [][\A f \in File :
       (ui[f] = "errors" /\ ui'[f] # "errors") =>
         \/ f = file
         \/ \E r \in loaded : {PkgOf[f], PkgOf[file]} \subseteq Uses[r]]_vars
====
