---- MODULE ServerDiagnosticsProofs ----
(***************************************************************************)
(* Proofs about ServerDiagnostics, for any packages, files and             *)
(* dependencies, packages with common dependencies included.               *)
(***************************************************************************)
EXTENDS ServerDiagnostics, TLAPS

\* The errors that a project has are in packages that it is loaded from.
ErrsInside == \A r \in Pkg : \A f \in errs[r] : PkgOf[f] \in Uses[r]

\* The projects that still wait for update_defs contain the document.
WaitingContain == pc = "update" => \A r \in todo : PkgOf[file] \in Uses[r]

Inv == TypeOK /\ ErrsInside /\ WaitingContain

\* Publishing keeps the type of what the editor shows.
LEMMA PublishType ==
  ASSUME ui \in [File -> Shown], NEW files, NEW what \in Shown
  PROVE  Publish(files, what) \in [File -> Shown]
BY DEF Publish

\* A compilation of a package finds errors in files of the packages it uses.
LEMMA CompileInside ==
  ASSUME bad \subseteq File, NEW p
  PROVE  Compile(p) \subseteq File /\ \A f \in Compile(p) : PkgOf[f] \in Uses[p]
BY DEF Compile

\* What a publication leaves alone.
LEMMA PublishKeeps ==
  ASSUME NEW files, NEW what, NEW f \in File
  PROVE  Publish(files, what)[f] = IF f \in files THEN what ELSE ui[f]
BY DEF Publish

\* At first nothing is loaded.
LEMMA InitInv == Init => Inv
BY ConstantsAssumption DEF Init, Inv, TypeOK, ErrsInside, WaitingContain, Shown, Kinds

\* Every step keeps types and errors in place.
LEMMA NextInv == Inv /\ [Next]_vars => Inv'
<1> SUFFICES ASSUME Inv, [Next]_vars PROVE Inv'
  OBVIOUS
<1> USE ConstantsAssumption DEF Inv, TypeOK, ErrsInside, WaitingContain
<1>1. CASE EditFile
  <2>1. bad' \subseteq File
    BY <1>1 DEF EditFile, Toggle
  <2> QED
    BY <1>1, <2>1 DEF EditFile
<1>2. CASE EditManifest
  <2>1. gone' \subseteq Pkg /\ refused' \subseteq Pkg
    BY <1>2 DEF EditManifest, Toggle
  <2>2. stale' \subseteq loaded
    BY <1>2 DEF EditManifest
  <2> QED
    BY <1>2, <2>1, <2>2 DEF EditManifest
<1>3. ASSUME NEW k \in Kinds, NEW f \in File, Receive(k, f) PROVE Inv'
  BY <1>3 DEF Receive, diskVars
<1>4. ASSUME NEW r \in Pkg, Reload(r) PROVE Inv'
  <2>1. errs' \in [Pkg -> SUBSET File] /\ ErrsInside'
    <3>1. CASE errs' = errs
      BY <3>1
    <3>2. CASE errs' = [errs EXCEPT ![r] = Compile(r)]
      BY <3>2, CompileInside
    <3> QED
      BY <1>4, <3>1, <3>2 DEF Reload
  <2>2. UNCHANGED <<bad, gone, refused, loaded, ui, pc, kind, file, picked>>
    BY <1>4 DEF Reload, diskVars
  <2>3. pc = "reload" /\ todo' \subseteq todo /\ stale' \subseteq stale
    BY <1>4 DEF Reload
  <2> QED
    BY <2>1, <2>2, <2>3
<1>5. CASE NotProject
  <2>1. ui' \in [File -> Shown]
    BY <1>5, PublishType DEF NotProject, Shown
  <2> QED
    BY <1>5, <2>1 DEF NotProject, Reloaded, Finish, diskVars
<1>6. CASE OpenLoads
  <2> DEFINE p == PkgOf[file]
  <2>1. p \in Pkg
    BY <1>6 DEF OpenLoads, Reloaded
  <2>2. errs' \in [Pkg -> SUBSET File] /\ ErrsInside'
    BY <1>6, <2>1, CompileInside DEF OpenLoads
  <2>3. loaded' = loaded \cup {p} /\ stale' \subseteq stale /\ picked' = {p} /\ pc' = "report" /\ todo' = {} /\ pc = "reload"
    BY <1>6 DEF OpenLoads, Reloaded
  <2>4. UNCHANGED <<bad, gone, refused, ui, kind, file>>
    BY <1>6 DEF OpenLoads, diskVars
  <2> QED
    BY <2>1, <2>2, <2>3, <2>4
<1>7. CASE OpenReturns
  BY <1>7 DEF OpenReturns, Reloaded, Finish, diskVars
<1>8. CASE ClearUiDiag
  <2>1. ui' \in [File -> Shown]
    BY <1>8, PublishType DEF ClearUiDiag, Cleared, Shown
  <2>2. todo' = RootsWith(file) /\ picked' \subseteq RootsWith(file) /\ pc' = "update" /\ pc = "reload"
    BY <1>8 DEF ClearUiDiag, Reloaded
  <2>3. \A r \in RootsWith(file) : r \in loaded /\ PkgOf[file] \in Uses[r]
    BY DEF RootsWith
  <2>4. UNCHANGED <<bad, gone, refused, loaded, stale, errs, kind, file>>
    BY <1>8 DEF ClearUiDiag, diskVars
  <2> QED
    BY <2>1, <2>2, <2>3, <2>4
<1>9. ASSUME NEW r \in Pkg, UpdateDefs(r) PROVE Inv'
  <2> DEFINE p == PkgOf[file]
  <2>1. p \in Pkg /\ p \in Uses[r] /\ Uses[p] \subseteq Uses[r]
    BY <1>9 DEF UpdateDefs
  <2>2. errs' \in [Pkg -> SUBSET File] /\ ErrsInside'
    <3>1. CASE errs' = errs
      BY <3>1
    <3>2. CASE errs' = [errs EXCEPT ![r] = Compile(p)]
      BY <2>1, <3>2, CompileInside
    <3> QED
      BY <1>9, <3>1, <3>2 DEF UpdateDefs
  <2>3. UNCHANGED <<bad, gone, refused, loaded, stale, ui, pc, kind, file, picked>> /\ todo' \subseteq todo
    BY <1>9 DEF UpdateDefs, diskVars
  <2> QED
    BY <1>9, <2>2, <2>3 DEF UpdateDefs
<1>10. CASE UpdateDone
  BY <1>10 DEF UpdateDone, diskVars
<1>11. CASE ReportDiag
  <2>1. \A files : Report(files) \in [File -> Shown]
    BY PublishType DEF Report, Shown
  <2>2. ui' = ui \/ \E files : ui' = Report(files)
    BY <1>11 DEF ReportDiag
  <2> QED
    BY <1>11, <2>1, <2>2 DEF ReportDiag, Finish, diskVars
<1>12. CASE UNCHANGED vars
  BY <1>12 DEF vars
<1> QED
  BY <1>1, <1>2, <1>3, <1>4, <1>5, <1>6, <1>7, <1>8, <1>9, <1>10, <1>11, <1>12 DEF Next, Server

\* The variables keep their types.
THEOREM TypeCorrect == Spec => []TypeOK
<1>1. Inv => TypeOK
  BY DEF Inv
<1> QED
  BY <1>1, InitInv, NextInv, PTL DEF Spec

\* Work on a document never withdraws the errors of a package that shares no
\* project with it, whichever of the document's projects the hash map yields
\* and whatever its manifests have become in the meantime.
THEOREM ForeignErrorsKeptAlways == Spec => ForeignErrorsKept
<1>1. Inv /\ [Next]_vars =>
        [\A f \in File :
           (ui[f] = "errors" /\ ui'[f] # "errors") =>
             \/ f = file
             \/ \E r \in loaded : {PkgOf[f], PkgOf[file]} \subseteq Uses[r]]_vars
  <2> SUFFICES ASSUME Inv, Next, NEW f \in File, ui[f] = "errors", ui'[f] # "errors", f # file
               PROVE  \E r \in loaded : {PkgOf[f], PkgOf[file]} \subseteq Uses[r]
    OBVIOUS
  <2>1. ~ UNCHANGED ui
    OBVIOUS
  <2>2. NotProject \/ ClearUiDiag \/ ReportDiag
    BY <2>1 DEF Next, Server, EditFile, EditManifest, Receive, Reload, OpenLoads, OpenReturns,
                UpdateDefs, UpdateDone
  <2>3. CASE NotProject
    BY <2>3, PublishKeeps DEF NotProject
  <2>4. CASE ClearUiDiag
    <3>1. PICK r \in RootsWith(file) : ui' = Publish(errs[r], "none")
      BY <2>1, <2>4 DEF ClearUiDiag, Cleared
    <3>2. f \in errs[r]
      BY <3>1, PublishKeeps
    <3>3. r \in loaded /\ r \in Pkg /\ PkgOf[file] \in Uses[r]
      BY <3>1 DEF RootsWith, Inv, TypeOK
    <3>4. PkgOf[f] \in Uses[r]
      BY <3>2, <3>3 DEF Inv, ErrsInside
    <3> QED
      BY <3>3, <3>4
  <2>5. CASE ReportDiag
    <3>1. PICK files : ui' = Report(files)
      BY <2>1, <2>5 DEF ReportDiag
    <3> QED
      BY <3>1, PublishKeeps DEF Report
  <2> QED
    BY <2>2, <2>3, <2>4, <2>5
<1> QED
  BY <1>1, InitInv, NextInv, PTL DEF Spec, ForeignErrorsKept

----------------------------------------------------------------------------
(* Packages without common dependencies. *)

Apart == \A p \in Pkg : Uses[p] = {p}

\* Where such a package still waits for update_defs, its errors are off
\* display.
ClearedFirst ==
  pc = "update" => \A r \in todo : \A f \in errs[r] : ui[f] # "errors"

\* The one project of a document is the one that clear_ui_diag picks.
LEMMA NextClearedFirst == Apart /\ Inv /\ ClearedFirst /\ [Next]_vars => ClearedFirst'
<1> SUFFICES ASSUME Apart, Inv, ClearedFirst, [Next]_vars, pc' = "update",
                    NEW r \in todo', NEW f \in errs'[r]
             PROVE  ui'[f] # "errors"
  BY DEF ClearedFirst
<1> USE DEF ClearedFirst
<1>0. r \in Pkg /\ f \in File
  BY NextInv DEF Inv, TypeOK
<1>1. CASE ClearUiDiag
  <2>1. r \in RootsWith(file) /\ errs' = errs
    BY <1>1 DEF ClearUiDiag
  <2>2. \A q \in RootsWith(file) : q = r
    BY <2>1, ConstantsAssumption DEF Apart, RootsWith, Inv, TypeOK
  <2>3. ui' = Publish(errs[r], "none")
    BY <1>1, <2>1, <2>2 DEF ClearUiDiag, Cleared
  <2> QED
    BY <1>0, <2>1, <2>3, PublishKeeps
<1>2. ASSUME NEW q \in Pkg, UpdateDefs(q) PROVE ui'[f] # "errors"
  <2>1. r \in todo /\ r # q /\ ui' = ui /\ pc = "update"
    BY <1>2 DEF UpdateDefs
  <2>2. errs'[r] = errs[r]
    BY <1>0, <1>2, <2>1 DEF UpdateDefs, Inv, TypeOK
  <2> QED
    BY <2>1, <2>2
<1>3. CASE EditFile \/ EditManifest \/ UNCHANGED vars
  BY <1>3 DEF EditFile, EditManifest, vars
<1>4. CASE UpdateDone \/ ReportDiag \/ NotProject \/ OpenLoads \/ OpenReturns
  BY <1>4 DEF UpdateDone, ReportDiag, NotProject, OpenLoads, OpenReturns, Finish
<1>5. ASSUME NEW k \in Kinds, NEW g \in File, Receive(k, g) PROVE FALSE
  BY <1>5 DEF Receive
<1>6. ASSUME NEW q \in Pkg, Reload(q) PROVE FALSE
  BY <1>6 DEF Reload
<1> QED
  BY <1>1, <1>2, <1>3, <1>4, <1>5, <1>6 DEF Next, Server

\* With such packages, no handler but the silent reload leaves an error on
\* display that no project has.
THEOREM ApartOnlyReloadOrphans == Apart => (Spec => OnlyReloadOrphans)
<1> SUFFICES ASSUME Apart PROVE Spec => OnlyReloadOrphans
  OBVIOUS
<1>1. Inv /\ ClearedFirst /\ [Next]_vars =>
        [(pc' # "reload" \/ errs' = errs) =>
           \A f \in File : Attributed(f) => Attributed(f)']_vars
  <2> SUFFICES ASSUME Inv, ClearedFirst, Next, pc' # "reload" \/ errs' = errs,
                      NEW f \in File, Attributed(f), ui'[f] = "errors"
               PROVE  \E r \in loaded' : f \in errs'[r]
    BY DEF Attributed
  <2> USE DEF Attributed
  <2>0. loaded \subseteq loaded'
    BY DEF Next, Server, EditFile, EditManifest, Receive, Reload, NotProject, OpenLoads, OpenReturns,
           ClearUiDiag, UpdateDefs, UpdateDone, ReportDiag, diskVars
  <2>1. CASE errs' = errs /\ ui[f] = "errors"
    BY <2>0, <2>1
  <2>2. CASE errs' = errs /\ ui[f] # "errors"
    <3>1. NotProject \/ ClearUiDiag \/ ReportDiag
      BY <2>2 DEF Next, Server, EditFile, EditManifest, Receive, Reload, OpenLoads, OpenReturns,
                  UpdateDefs, UpdateDone
    <3>2. ~NotProject /\ ~ClearUiDiag
      BY <2>2, PublishKeeps DEF NotProject, ClearUiDiag, Cleared
    <3>3. ReportDiag
      BY <3>1, <3>2
    <3>4. PICK r \in RootsWith(file) : ui' = Report(errs[r] \ Hidden)
      BY <2>2, <3>3 DEF ReportDiag
    <3>5. f \in errs[r]
      BY <2>2, <3>4, PublishKeeps DEF Report
    <3>6. r \in loaded
      BY <3>4 DEF RootsWith
    <3> QED
      BY <2>0, <2>2, <3>5, <3>6
  <2>3. CASE errs' # errs
    <3>1. OpenLoads \/ \E r \in Pkg : UpdateDefs(r)
      BY <2>3 DEF Next, Server, EditFile, EditManifest, Receive, Reload, NotProject, OpenReturns,
                  ClearUiDiag, UpdateDone, ReportDiag
    <3>2. ui' = ui
      BY <3>1 DEF OpenLoads, UpdateDefs
    <3>3. PICK r \in loaded : f \in errs[r]
      BY <3>2
    <3>4. r \in Pkg
      BY DEF Inv, TypeOK
    <3>5. CASE OpenLoads
      <4>1. PkgOf[file] \notin loaded
        BY <3>5, ConstantsAssumption DEF OpenLoads, Reloaded, RootsWith, InProject, Inv, TypeOK
      <4>2. errs'[r] = errs[r]
        BY <3>3, <3>4, <3>5, <4>1 DEF OpenLoads, Inv, TypeOK
      <4> QED
        BY <2>0, <3>3, <4>2
    <3>6. ASSUME NEW q \in Pkg, UpdateDefs(q) PROVE \E s \in loaded' : f \in errs'[s]
      <4>1. r # q
        BY <3>2, <3>3, <3>6 DEF UpdateDefs, ClearedFirst
      <4>2. errs'[r] = errs[r]
        BY <3>4, <3>6, <4>1 DEF UpdateDefs, Inv, TypeOK
      <4> QED
        BY <2>0, <3>3, <4>2
    <3> QED
      BY <3>1, <3>5, <3>6
  <2> QED
    BY <2>1, <2>2, <2>3
<1>2. Init => ClearedFirst
  BY DEF Init, ClearedFirst
<1>3. Inv /\ ClearedFirst /\ [Next]_vars => ClearedFirst'
  BY NextClearedFirst
<1> QED
  BY <1>1, <1>2, <1>3, InitInv, NextInv, PTL DEF Spec, OnlyReloadOrphans
====
