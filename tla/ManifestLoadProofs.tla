---- MODULE ManifestLoadProofs ----
(***************************************************************************)
(* Proofs about ManifestLoad, for any packages, dependencies and edits,    *)
(* and about the paths of ManifestPaths, for any directories, spellings    *)
(* and source files.                                                       *)
(***************************************************************************)
EXTENDS ManifestPaths, SequenceTheorems, WellFoundedInduction, TLAPS

\* Every package on the stack s is recorded once, in manifest_paths, and not
\* counted as missing or failed; its time is not read before its directory is
\* looked for.
StackOK(s, recorded, bad, times) ==
  /\ \A i \in DOMAIN s : s[i].pkg \in recorded \ bad
  /\ \A i \in DOMAIN s : s[i].at = "exists" => times[s[i].pkg] = Untracked
  /\ \A i, j \in DOMAIN s : s[i].pkg = s[j].pkg => i = j

WalkInv == TypeOK /\ StackOK(stack, manifests, missing \cup failures, seen)

----------------------------------------------------------------------------
(* The stack. *)

\* The innermost call, and what is left when it returns.
LEMMA TakeTop ==
  ASSUME NEW s \in Seq(Call), s # << >>
  PROVE  /\ Head(s) \in Call /\ Head(s) = s[1] /\ 1 \in DOMAIN s
         /\ Tail(s) \in Seq(Call)
         /\ \A i \in DOMAIN Tail(s) :
              i \in Nat /\ i # 0 /\ i + 1 \in DOMAIN s /\ i + 1 # 1 /\ Tail(s)[i] = s[i + 1]
         /\ \A i \in DOMAIN s : i \in Nat
<1>1. Len(s) \in Nat /\ Len(s) # 0
  BY EmptySeq
<1>2. Tail(s) \in Seq(Call) /\ Head(s) \in Call /\ Len(Tail(s)) = Len(s) - 1
  BY HeadTailProperties
<1>3. \A i \in 1..Len(Tail(s)) : Tail(s)[i] = s[i + 1]
  BY HeadTailProperties
<1>4. DOMAIN Tail(s) = 1..Len(Tail(s)) /\ DOMAIN s = 1..Len(s)
  BY <1>2, LenProperties
<1> QED
  BY <1>1, <1>2, <1>3, <1>4

\* The innermost call goes on.
LEMMA ReplaceTop ==
  ASSUME NEW s \in Seq(Call), s # << >>, NEW c \in Call
  PROVE  /\ <<c>> \o Tail(s) \in Seq(Call)
         /\ \A i \in DOMAIN (<<c>> \o Tail(s)) :
              /\ i \in DOMAIN s
              /\ (<<c>> \o Tail(s))[i] = IF i = 1 THEN c ELSE s[i]
<1>1. Len(s) \in Nat /\ Len(s) # 0
  BY EmptySeq
<1>2. Tail(s) \in Seq(Call) /\ Len(Tail(s)) = Len(s) - 1
  BY HeadTailProperties
<1>3. \A i \in 1..Len(Tail(s)) : Tail(s)[i] = s[i + 1]
  BY HeadTailProperties
<1>4. <<c>> \in Seq(Call) /\ Len(<<c>>) = 1
  OBVIOUS
<1>5. /\ <<c>> \o Tail(s) \in Seq(Call)
      /\ Len(<<c>> \o Tail(s)) = Len(s)
      /\ \A i \in 1..Len(s) : (<<c>> \o Tail(s))[i] = IF i <= 1 THEN <<c>>[i] ELSE Tail(s)[i - 1]
  BY <1>1, <1>2, <1>4, ConcatProperties
<1>6. \A i \in 1..Len(s) : (<<c>> \o Tail(s))[i] = IF i = 1 THEN c ELSE s[i]
  BY <1>1, <1>2, <1>3, <1>5
<1>7. DOMAIN (<<c>> \o Tail(s)) = 1..Len(s) /\ DOMAIN s = 1..Len(s)
  BY <1>5, LenProperties
<1> QED
  BY <1>5, <1>6, <1>7

\* It calls for another package.
LEMMA PushTop ==
  ASSUME NEW s \in Seq(Call), s # << >>, NEW c \in Call, NEW d \in Call
  PROVE  /\ <<d, c>> \o Tail(s) \in Seq(Call)
         /\ \A i \in DOMAIN (<<d, c>> \o Tail(s)) :
              /\ i \in Nat
              /\ i # 1 => i - 1 \in DOMAIN s
              /\ (<<d, c>> \o Tail(s))[i] = IF i = 1 THEN d ELSE IF i = 2 THEN c ELSE s[i - 1]
<1>1. Len(s) \in Nat /\ Len(s) # 0
  BY EmptySeq
<1>2. Tail(s) \in Seq(Call) /\ Len(Tail(s)) = Len(s) - 1
  BY HeadTailProperties
<1>3. \A i \in 1..Len(Tail(s)) : Tail(s)[i] = s[i + 1]
  BY HeadTailProperties
<1>4. <<d, c>> \in Seq(Call) /\ Len(<<d, c>>) = 2
  OBVIOUS
<1>5. /\ <<d, c>> \o Tail(s) \in Seq(Call)
      /\ Len(<<d, c>> \o Tail(s)) = Len(s) + 1
      /\ \A i \in 1..(Len(s) + 1) :
           (<<d, c>> \o Tail(s))[i] = IF i <= 2 THEN <<d, c>>[i] ELSE Tail(s)[i - 2]
  BY <1>1, <1>2, <1>4, ConcatProperties
<1>6. \A i \in 1..(Len(s) + 1) :
        (<<d, c>> \o Tail(s))[i] = IF i = 1 THEN d ELSE IF i = 2 THEN c ELSE s[i - 1]
  BY <1>1, <1>2, <1>3, <1>5
<1>7. DOMAIN (<<d, c>> \o Tail(s)) = 1..(Len(s) + 1) /\ DOMAIN s = 1..Len(s)
  BY <1>5, LenProperties
<1> QED
  BY <1>1, <1>5, <1>6, <1>7

----------------------------------------------------------------------------
(* What the steps do to the packages on it. *)

\* The innermost call returns, and its package may be counted as missing or
\* failed.
LEMMA PopKeeps ==
  ASSUME NEW s, 1 \in DOMAIN s, NEW recorded, NEW bad, NEW times, StackOK(s, recorded, bad, times),
         NEW later, \A i \in DOMAIN later :
           i \in Nat /\ i + 1 \in DOMAIN s /\ i + 1 # 1 /\ later[i] = s[i + 1],
         NEW worse, worse \subseteq bad \cup {s[1].pkg}
  PROVE  StackOK(later, recorded, worse, times)
<1>1. \A i \in DOMAIN later : later[i].pkg # s[1].pkg
  BY DEF StackOK
<1>2. \A i \in DOMAIN later : later[i].pkg \in recorded \ bad
  BY DEF StackOK
<1>3. \A i \in DOMAIN later : later[i].at = "exists" => times[later[i].pkg] = Untracked
  BY DEF StackOK
<1>4. ASSUME NEW i \in DOMAIN later, NEW j \in DOMAIN later, later[i].pkg = later[j].pkg PROVE i = j
  <2>1. i \in Nat /\ j \in Nat /\ i + 1 = j + 1
    BY <1>4 DEF StackOK
  <2> QED
    BY <2>1
<1> QED
  BY <1>1, <1>2, <1>3, <1>4 DEF StackOK

\* It goes on to another question; only the time of its own package may be
\* read.
LEMMA ReplaceKeeps ==
  ASSUME NEW s, 1 \in DOMAIN s, NEW recorded, NEW bad, NEW times, StackOK(s, recorded, bad, times),
         NEW c, c.pkg = s[1].pkg, c.at # "exists",
         NEW later, \A i \in DOMAIN later : i \in DOMAIN s /\ later[i] = IF i = 1 THEN c ELSE s[i],
         NEW read, \A p \in recorded : p # s[1].pkg => read[p] = times[p]
  PROVE  StackOK(later, recorded, bad, read)
<1>1. \A i \in DOMAIN later : i \in DOMAIN s /\ later[i].pkg = s[i].pkg
  OBVIOUS
<1>2. \A i \in DOMAIN later : later[i].pkg \in recorded \ bad
  BY <1>1 DEF StackOK
<1>3. ASSUME NEW i \in DOMAIN later, later[i].at = "exists" PROVE read[later[i].pkg] = Untracked
  <2>1. i # 1 /\ later[i] = s[i]
    BY <1>3
  <2>2. s[i].pkg \in recorded /\ s[i].pkg # s[1].pkg /\ times[s[i].pkg] = Untracked
    BY <1>1, <1>3, <2>1 DEF StackOK
  <2> QED
    BY <2>1, <2>2
<1>4. \A i, j \in DOMAIN later : later[i].pkg = later[j].pkg => i = j
  BY <1>1 DEF StackOK
<1> QED
  BY <1>2, <1>3, <1>4 DEF StackOK

\* It calls for a package that is not recorded yet.
LEMMA PushKeeps ==
  ASSUME NEW s, 1 \in DOMAIN s, NEW recorded, NEW bad, NEW times, StackOK(s, recorded, bad, times),
         NEW c, c.pkg = s[1].pkg, c.at # "exists",
         NEW d, d.pkg \notin recorded, d.pkg \notin bad, times[d.pkg] = Untracked,
         NEW later, \A i \in DOMAIN later :
           /\ i \in Nat
           /\ i # 1 => i - 1 \in DOMAIN s
           /\ later[i] = IF i = 1 THEN d ELSE IF i = 2 THEN c ELSE s[i - 1]
  PROVE  StackOK(later, recorded \cup {d.pkg}, bad, times)
<1>1. ASSUME NEW i \in DOMAIN later, i # 1
      PROVE  /\ i - 1 \in DOMAIN s /\ later[i].pkg = s[i - 1].pkg
             /\ later[i].at = "exists" => later[i] = s[i - 1]
  BY <1>1
<1>2. \A i \in DOMAIN later : i = 1 => later[i] = d
  OBVIOUS
<1>3. \A i \in DOMAIN later : later[i].pkg \in (recorded \cup {d.pkg}) \ bad
  BY <1>1, <1>2 DEF StackOK
<1>4. \A i \in DOMAIN later : later[i].at = "exists" => times[later[i].pkg] = Untracked
  BY <1>1, <1>2 DEF StackOK
<1>5. ASSUME NEW i \in DOMAIN later, NEW j \in DOMAIN later, later[i].pkg = later[j].pkg PROVE i = j
  <2>1. \A k \in DOMAIN later : k # 1 => later[k].pkg \in recorded
    BY <1>1 DEF StackOK
  <2>2. i = 1 <=> j = 1
    BY <1>2, <1>5, <2>1
  <2>3. ASSUME i # 1, j # 1 PROVE i = j
    <3>1. i \in Nat /\ j \in Nat /\ i - 1 = j - 1
      BY <1>1, <1>5, <2>3 DEF StackOK
    <3> QED
      BY <3>1
  <2> QED
    BY <2>2, <2>3
<1> QED
  BY <1>3, <1>4, <1>5 DEF StackOK

----------------------------------------------------------------------------
(* The invariant. *)

\* At first there is the call for the root.
LEMMA InitWalk == Init => WalkInv
<1> SUFFICES ASSUME Init PROVE WalkInv
  OBVIOUS
<1> USE ConstantsAssumption DEF Init
<1>1. disk \in [Pkg -> Package]
  <2>1. [layout : Layouts, deps : SUBSET Pkg, time : {0, 1}] \subseteq Package
    BY DEF Package, Times
  <2> QED
    BY <2>1
<1>2. Begin(Root) \in Call
  BY DEF Begin, Call, Step
<1>3. stack \in Seq(Call) /\ DOMAIN stack = {1} /\ stack[1] = Begin(Root)
  BY <1>2
<1>4. seen \in [Pkg -> Times \cup {Untracked}] /\ \A p \in Pkg : seen[p] = Untracked
  OBVIOUS
<1>5. TypeOK
  BY <1>1, <1>3, <1>4 DEF TypeOK
<1>6. StackOK(stack, manifests, missing \cup failures, seen)
  BY <1>3, <1>4 DEF StackOK, Begin
<1> QED
  BY <1>5, <1>6 DEF WalkInv

\* Every step of the walk, and every edit, keeps it.
LEMMA NextWalk == WalkInv /\ [Next]_vars => WalkInv'
<1> SUFFICES ASSUME WalkInv, [Next]_vars PROVE WalkInv'
  OBVIOUS
<1> USE ConstantsAssumption
<1> DEFINE OK == StackOK(stack, manifests, missing \cup failures, seen)
<1>0. TypeOK /\ OK
  BY DEF WalkInv
<1>1. CASE Edit
  <2>1. edits \in Nat /\ edits < MaxEdits /\ edits' = edits + 1
    BY <1>0, <1>1 DEF Edit, TypeOK
  <2>2. PICK p \in Pkg, layout \in Layouts, deps \in SUBSET Pkg :
          disk' = [disk EXCEPT ![p] =
            [layout |-> layout, deps |-> deps,
             time |-> IF layout \in {"bad", "ok"} THEN edits + 2 ELSE 0]]
    BY <1>1 DEF Edit
  <2>3. [layout |-> layout, deps |-> deps,
         time |-> IF layout \in {"bad", "ok"} THEN edits + 2 ELSE 0] \in Package
    <3>1. (IF layout \in {"bad", "ok"} THEN edits + 2 ELSE 0) \in Times
      BY <2>1 DEF Times
    <3>2. layout \in AllLayouts
      OBVIOUS
    <3> QED
      BY <3>1, <3>2 DEF Package
  <2>4. disk' \in [Pkg -> Package]
    BY <1>0, <2>2, <2>3 DEF TypeOK
  <2>5. UNCHANGED <<stack, manifests, missing, failures, seen>> /\ edits' \in 0..MaxEdits
    BY <1>1, <2>1 DEF Edit
  <2> QED
    BY <1>0, <2>4, <2>5 DEF WalkInv, TypeOK
<1>2. CASE Load
  <2> DEFINE here == Head(stack).pkg
             todo == Head(stack).todo
             rest(q) == [pkg |-> here, at |-> "deps", todo |-> todo \ {q}]
  <2>1. stack # << >> /\ stack \in Seq(Call)
    BY <1>0, <1>2 DEF Load, CheckExists, ReadTime, Parse, Descend, Ascend, At, TypeOK
  <2>2. Head(stack) \in Call /\ Head(stack) = stack[1] /\ 1 \in DOMAIN stack
    BY <2>1, TakeTop
  <2>3. here = stack[1].pkg /\ here \in Pkg /\ todo \in SUBSET Pkg
    BY <2>2 DEF Call
  <2>4. here \in manifests \ (missing \cup failures)
    BY <1>0, <2>2, <2>3 DEF StackOK
  <2>5. Head(stack).at = "exists" => seen[here] = Untracked
    BY <1>0, <2>2, <2>3 DEF StackOK
  <2> USE DEF Here
  <2>6. CASE CheckExists
    <3>1. UNCHANGED <<disk, edits, manifests, failures, seen>> /\ Head(stack).at = "exists"
      BY <2>6 DEF CheckExists, At
    <3>2. CASE missing' = missing \cup {here} /\ stack' = Tail(stack)
      <4>1. stack' \in Seq(Call)
        BY <2>1, <3>2, TakeTop
      <4> DEFINE worse == missing' \cup failures
      <4>w. worse \subseteq (missing \cup failures) \cup {stack[1].pkg}
        BY <2>3, <3>2
      <4> HIDE DEF worse
      <4>2. StackOK(stack', manifests, worse, seen)
        BY <1>0, <2>1, <2>2, <2>3, <3>2, <4>w, TakeTop, PopKeeps
      <4>3. TypeOK'
        BY <1>0, <2>3, <2>4, <2>5, <3>1, <3>2, <4>1 DEF TypeOK
      <4> QED
        BY <3>1, <4>2, <4>3 DEF WalkInv, worse
    <3>3. CASE missing' = missing /\ Continue({})
      <4>1. stack' = <<[pkg |-> here, at |-> "time", todo |-> {}]>> \o Tail(stack)
        BY <3>1, <3>3 DEF Continue, After
      <4> DEFINE c == [pkg |-> here, at |-> "time", todo |-> {}]
      <4>2. c \in Call /\ c.pkg = here /\ c.at # "exists"
        BY <2>3 DEF Call, Step
      <4> HIDE DEF c
      <4>3. /\ stack' \in Seq(Call)
            /\ \A i \in DOMAIN stack' : i \in DOMAIN stack /\ stack'[i] = IF i = 1 THEN c ELSE stack[i]
        BY <2>1, <4>1, <4>2, ReplaceTop DEF c
      <4>4. StackOK(stack', manifests, missing \cup failures, seen)
        BY <1>0, <2>2, <2>3, <4>2, <4>3, ReplaceKeeps
      <4> QED
        BY <1>0, <3>1, <3>3, <4>3, <4>4 DEF WalkInv, TypeOK
    <3> QED
      BY <2>6, <3>2, <3>3 DEF CheckExists, Return
  <2>7. CASE ReadTime
    <3>1. /\ UNCHANGED <<disk, edits, manifests, missing, failures>>
          /\ seen' = [seen EXCEPT ![here] = disk[here].time]
      BY <2>7 DEF ReadTime
    <3> DEFINE c == [pkg |-> here, at |-> "parse", todo |-> todo]
    <3>2. stack' = <<c>> \o Tail(stack)
      BY <2>7 DEF ReadTime, At, Continue, After
    <3>3. c \in Call /\ c.pkg = here /\ c.at # "exists"
      BY <2>3 DEF Call, Step
    <3>4. disk[here].time \in Times
      BY <1>0, <2>3 DEF TypeOK, Package
    <3>5. seen' \in [Pkg -> Times \cup {Untracked}] /\ \A p \in manifests : p # here => seen'[p] = seen[p]
      BY <1>0, <3>1, <3>4 DEF TypeOK
    <3> HIDE DEF c
    <3>6. /\ stack' \in Seq(Call)
          /\ \A i \in DOMAIN stack' : i \in DOMAIN stack /\ stack'[i] = IF i = 1 THEN c ELSE stack[i]
      BY <2>1, <3>2, <3>3, ReplaceTop
    <3> DEFINE read == seen'
    <3>r. \A p \in manifests : p # stack[1].pkg => read[p] = seen[p]
      BY <2>3, <3>5
    <3> HIDE DEF read
    <3>7. StackOK(stack', manifests, missing \cup failures, read)
      BY <1>0, <2>2, <2>3, <3>3, <3>6, <3>r, ReplaceKeeps
    <3>8. TypeOK'
      BY <1>0, <2>4, <3>1, <3>5, <3>6 DEF TypeOK
    <3> QED
      BY <3>1, <3>7, <3>8 DEF WalkInv, read
  <2>8. CASE Parse
    <3>1. UNCHANGED <<disk, edits, manifests, missing, seen>> /\ Head(stack).at = "parse"
      BY <2>8 DEF Parse, At
    <3>2. CASE failures' = failures \cup {here} /\ stack' = Tail(stack)
      <4>1. stack' \in Seq(Call)
        BY <2>1, <3>2, TakeTop
      <4> DEFINE worse == missing \cup failures'
      <4>w. worse \subseteq (missing \cup failures) \cup {stack[1].pkg}
        BY <2>3, <3>2
      <4> HIDE DEF worse
      <4>2. StackOK(stack', manifests, worse, seen)
        BY <1>0, <2>1, <2>2, <2>3, <3>2, <4>w, TakeTop, PopKeeps
      <4>3. TypeOK'
        BY <1>0, <2>3, <2>4, <3>1, <3>2, <4>1 DEF TypeOK
      <4> QED
        BY <3>1, <4>2, <4>3 DEF WalkInv, worse
    <3>3. CASE failures' = failures /\ Continue(disk[here].deps)
      <4> DEFINE c == [pkg |-> here, at |-> "deps", todo |-> disk[here].deps]
      <4>1. stack' = <<c>> \o Tail(stack)
        BY <3>1, <3>3 DEF Continue, After
      <4>2. c \in Call /\ c.pkg = here /\ c.at # "exists"
        BY <1>0, <2>3 DEF Call, Step, TypeOK, Package
      <4> HIDE DEF c
      <4>3. /\ stack' \in Seq(Call)
            /\ \A i \in DOMAIN stack' : i \in DOMAIN stack /\ stack'[i] = IF i = 1 THEN c ELSE stack[i]
        BY <2>1, <4>1, <4>2, ReplaceTop
      <4>4. StackOK(stack', manifests, missing \cup failures, seen)
        BY <1>0, <2>2, <2>3, <4>2, <4>3, ReplaceKeeps
      <4> QED
        BY <1>0, <3>1, <3>3, <4>3, <4>4 DEF WalkInv, TypeOK
    <3> QED
      BY <2>8, <3>2, <3>3 DEF Parse, Return
  <2>9. ASSUME NEW q \in Pkg, Descend(q) PROVE WalkInv'
    <3> DEFINE c == rest(q)
    <3>1. UNCHANGED <<disk, edits, missing, failures, seen>> /\ Head(stack).at = "deps"
      BY <2>9 DEF Descend, At
    <3>2. c \in Call /\ c.pkg = here /\ c.at # "exists"
      BY <2>3 DEF Call, Step
    <3>3. CASE q \in manifests
      <4>1. stack' = <<c>> \o Tail(stack) /\ manifests' = manifests
        BY <2>9, <3>3 DEF Descend
      <4> HIDE DEF c
      <4>2. /\ stack' \in Seq(Call)
            /\ \A i \in DOMAIN stack' : i \in DOMAIN stack /\ stack'[i] = IF i = 1 THEN c ELSE stack[i]
        BY <2>1, <3>2, <4>1, ReplaceTop
      <4>3. StackOK(stack', manifests, missing \cup failures, seen)
        BY <1>0, <2>2, <2>3, <3>2, <4>2, ReplaceKeeps
      <4> QED
        BY <1>0, <3>1, <4>1, <4>2, <4>3 DEF WalkInv, TypeOK
    <3>4. CASE q \notin manifests
      <4> DEFINE d == Begin(q)
      <4>1. stack' = <<d, c>> \o Tail(stack) /\ manifests' = manifests \cup {q}
        BY <2>9, <3>4 DEF Descend
      <4>2. d \in Call /\ d.pkg = q
        BY DEF Begin, Call, Step
      <4>3. q \notin missing \cup failures /\ seen[q] = Untracked
        BY <1>0, <3>4 DEF TypeOK
      <4> HIDE DEF c, d
      <4>4. /\ stack' \in Seq(Call)
            /\ \A i \in DOMAIN stack' :
                 /\ i \in Nat
                 /\ i # 1 => i - 1 \in DOMAIN stack
                 /\ stack'[i] = IF i = 1 THEN d ELSE IF i = 2 THEN c ELSE stack[i - 1]
        BY <2>1, <3>2, <4>1, <4>2, PushTop
      <4>5. StackOK(stack', manifests \cup {d.pkg}, missing \cup failures, seen)
        BY <1>0, <2>2, <2>3, <3>2, <3>4, <4>2, <4>3, <4>4, PushKeeps
      <4>6. StackOK(stack', manifests', missing \cup failures, seen)
        BY <4>1, <4>2, <4>5
      <4> QED
        BY <1>0, <3>1, <4>1, <4>4, <4>6 DEF WalkInv, TypeOK
    <3> QED
      BY <3>3, <3>4
  <2>10. CASE Ascend
    <3>1. UNCHANGED <<disk, edits, manifests, missing, failures, seen>> /\ stack' = Tail(stack)
      BY <2>10 DEF Ascend, Return
    <3>2. stack' \in Seq(Call)
      BY <2>1, <3>1, TakeTop
    <3>3. StackOK(stack', manifests, missing \cup failures, seen)
      BY <1>0, <2>1, <2>2, <2>3, <3>1, TakeTop, PopKeeps
    <3> QED
      BY <1>0, <3>1, <3>2, <3>3 DEF WalkInv, TypeOK
  <2> QED
    BY <1>2, <2>6, <2>7, <2>8, <2>9, <2>10 DEF Load
<1>3. CASE UNCHANGED vars
  BY <1>0, <1>3 DEF vars, WalkInv, TypeOK
<1> QED
  BY <1>1, <1>2, <1>3 DEF Next

\* It is an invariant.
LEMMA WalkInvAlways == Spec => []WalkInv
BY InitWalk, NextWalk, PTL DEF Spec

\* The variables keep their types, and no package is both missing and failed.
THEOREM TypeCorrect == Spec => []TypeOK
<1>1. WalkInv => TypeOK
  BY DEF WalkInv
<1> QED
  BY <1>1, WalkInvAlways, PTL

\* Cycles and diamonds of dependencies, and manifests that change under the
\* walk, never make load_project enter a package that it is in already.
THEOREM EachPackageOnceAlways == Spec => []EachPackageOnce
<1>1. WalkInv => EachPackageOnce
  BY DEF WalkInv, StackOK, EachPackageOnce
<1> QED
  BY <1>1, WalkInvAlways, PTL

----------------------------------------------------------------------------
(* What the walk has found.  Of the stack only the set of calls matters.   *)

Calls(s) == {s[i] : i \in DOMAIN s}

LEMMA CallsOfStack ==
  ASSUME NEW s \in Seq(Call), s # << >>, \A i, j \in DOMAIN s : s[i].pkg = s[j].pkg => i = j
  PROVE  /\ Head(s) \in Calls(s)
         /\ Calls(Tail(s)) = Calls(s) \ {Head(s)}
         /\ \A c \in Calls(s) \ {Head(s)} : c.pkg # Head(s).pkg
         /\ Calls(s) \subseteq Call
<1>1. Len(s) \in Nat /\ Len(s) # 0
  BY EmptySeq
<1>2. Tail(s) \in Seq(Call) /\ Len(Tail(s)) = Len(s) - 1 /\ Head(s) = s[1]
      /\ \A i \in 1..Len(Tail(s)) : Tail(s)[i] = s[i + 1]
  BY HeadTailProperties
<1>3. DOMAIN Tail(s) = 1..(Len(s) - 1) /\ DOMAIN s = 1..Len(s)
  BY <1>2, LenProperties
<1>4. \A i \in DOMAIN Tail(s) : i + 1 \in DOMAIN s /\ i + 1 # 1 /\ Tail(s)[i] = s[i + 1]
  BY <1>1, <1>2, <1>3
<1>5. 1 \in DOMAIN s /\ \A i \in DOMAIN s : s[i] \in Call /\ (i # 1 => s[i].pkg # s[1].pkg)
  BY <1>1, <1>3
<1>6. ASSUME NEW i \in DOMAIN s, i # 1 PROVE s[i] \in Calls(Tail(s))
  <2>1. i - 1 \in DOMAIN Tail(s) /\ Tail(s)[i - 1] = s[i]
    BY <1>1, <1>2, <1>3, <1>6
  <2> QED
    BY <2>1 DEF Calls
<1>7. \A c \in Calls(Tail(s)) : \E i \in DOMAIN s : i # 1 /\ c = s[i]
  BY <1>4 DEF Calls
<1>8. \A c \in Calls(s) : \E i \in DOMAIN s : c = s[i]
  BY DEF Calls
<1> QED
  BY <1>2, <1>5, <1>6, <1>7, <1>8 DEF Calls

LEMMA CallsWithOne ==
  ASSUME NEW t \in Seq(Call), NEW c \in Call
  PROVE  Calls(<<c>> \o t) = Calls(t) \cup {c}
<1>1. Len(t) \in Nat /\ DOMAIN t = 1..Len(t) /\ <<c>> \in Seq(Call) /\ Len(<<c>>) = 1
  BY LenProperties
<1>2. /\ <<c>> \o t \in Seq(Call) /\ Len(<<c>> \o t) = 1 + Len(t)
      /\ \A i \in 1..(1 + Len(t)) : (<<c>> \o t)[i] = IF i <= 1 THEN <<c>>[i] ELSE t[i - 1]
  BY <1>1, ConcatProperties
<1> DEFINE u == <<c>> \o t
<1>3. DOMAIN u = 1..(1 + Len(t)) /\ u[1] = c /\ \A i \in 1..Len(t) : u[i + 1] = t[i]
  BY <1>1, <1>2, LenProperties
<1> HIDE DEF u
<1>4. ASSUME NEW x \in Calls(u) PROVE x \in Calls(t) \cup {c}
  <2>1. PICK i \in DOMAIN u : x = u[i]
    BY DEF Calls
  <2>2. CASE i = 1
    BY <1>3, <2>1, <2>2
  <2>3. CASE i # 1
    <3>1. i - 1 \in DOMAIN t /\ u[i] = t[i - 1]
      BY <1>1, <1>3, <2>3
    <3> QED
      BY <2>1, <3>1 DEF Calls
  <2> QED
    BY <2>2, <2>3
<1>5. c \in Calls(u)
  BY <1>1, <1>3 DEF Calls
<1>6. ASSUME NEW x \in Calls(t) PROVE x \in Calls(u)
  <2>1. PICK i \in DOMAIN t : x = t[i]
    BY DEF Calls
  <2>2. i + 1 \in DOMAIN u /\ u[i + 1] = x
    BY <1>1, <1>3, <2>1
  <2> QED
    BY <2>2 DEF Calls
<1> QED
  BY <1>4, <1>5, <1>6 DEF u

LEMMA CallsWithTwo ==
  ASSUME NEW t \in Seq(Call), NEW c \in Call, NEW d \in Call
  PROVE  Calls(<<d, c>> \o t) = Calls(t) \cup {c, d}
<1> DEFINE u == <<c>> \o t
<1>1. u \in Seq(Call)
  OBVIOUS
<1>2. <<d, c>> \o t = <<d>> \o u
  OBVIOUS
<1>3. Calls(u) = Calls(t) \cup {c}
  BY CallsWithOne
<1> HIDE DEF u
<1>4. Calls(<<d>> \o u) = Calls(u) \cup {d}
  BY <1>1, CallsWithOne
<1> QED
  BY <1>2, <1>3, <1>4

\* What Reach is: the least set that contains p and what next leads to.
LEMMA ReachClosed ==
  ASSUME NEW p \in Pkg, NEW next
  PROVE  /\ Registry!Reach(p, next) \subseteq Pkg /\ p \in Registry!Reach(p, next)
         /\ \A q \in Registry!Reach(p, next) :
              next[q] \in SUBSET Pkg => next[q] \subseteq Registry!Reach(p, next)
BY DEF Registry!Reach

LEMMA ReachLeast ==
  ASSUME NEW p \in Pkg, NEW next, NEW S \in SUBSET Pkg, p \in S, \A q \in S : next[q] \subseteq S
  PROVE  Registry!Reach(p, next) \subseteq S
BY DEF Registry!Reach

\* The packages recorded are those that dependencies read so far, next, lead to
\* from the root, and of the packages done with all of them are recorded.
Followed(next, C) ==
  /\ Root \in manifests /\ manifests \subseteq Registry!Reach(Root, next)
  /\ \A p \in manifests : (\A c \in C : c.pkg # p) => next[p] \subseteq manifests
  /\ \A c \in C : IF c.at = "deps"
                  THEN c.todo \subseteq next[c.pkg] /\ next[c.pkg] \subseteq manifests \cup c.todo
                  ELSE next[c.pkg] = {}
  /\ \A p \in Pkg : p \in missing \/ p \notin manifests => next[p] = {}

\* What was read of a manifest is what it declares, as long as it has the time
\* that was read before.
Timed(next, C) ==
  /\ \A p \in Pkg : disk[p].time = 0 <=> ~HasManifest(p)
  /\ \A p \in Pkg : disk[p].time <= edits + 1 /\ (seen[p] # Untracked => seen[p] <= edits + 1)
  /\ \A p \in manifests :
       seen[p] = Untracked => p \in missing \/ \E c \in C : c.pkg = p /\ c.at \in {"exists", "time"}
  /\ \A p \in manifests :
       seen[p] \notin {0, Untracked} /\ seen[p] = disk[p].time /\ (\A c \in C : c.pkg = p => c.at = "deps") =>
         next[p] = Registry!DepsOf(p)

\* Without edits it is what a load yields.
Fresh(next, C) ==
  edits = 0 =>
    /\ \A p \in manifests : (\A c \in C : c.pkg # p) =>
         /\ next[p] = Registry!DepsOf(p)
         /\ p \in missing <=> disk[p].layout = "absent"
         /\ p \in failures <=> disk[p].layout \in {"nomanifest", "bad"}
         /\ seen[p] = IF disk[p].layout = "absent" THEN Untracked ELSE disk[p].time
    /\ \A c \in C :
         /\ c.at # "exists" => disk[c.pkg].layout # "absent"
         /\ c.at \in {"parse", "deps"} => seen[c.pkg] = disk[c.pkg].time
         /\ c.at = "deps" => disk[c.pkg].layout = "ok" /\ next[c.pkg] = Registry!DepsOf(c.pkg)

Found(next) ==
  Followed(next, Calls(stack)) /\ Timed(next, Calls(stack)) /\ Fresh(next, Calls(stack))
FoundInv == \E next \in [Pkg -> SUBSET Pkg] : Found(next)

LEMMA InitFound == Init => FoundInv
<1> SUFFICES ASSUME Init PROVE FoundInv
  OBVIOUS
<1> DEFINE next == [p \in Pkg |-> {}]
<1>1. Calls(stack) = {Begin(Root)} /\ Begin(Root).pkg = Root /\ Begin(Root).at = "exists"
  <2>1. stack = <<Begin(Root)>>
    BY DEF Init
  <2> DEFINE b == Begin(Root)
  <2>2. DOMAIN <<b>> = {1} /\ <<b>>[1] = b
    OBVIOUS
  <2>3. Calls(<<b>>) = {b}
    BY <2>2 DEF Calls
  <2> QED
    BY <2>1, <2>3 DEF Begin
<1>2. Root \in Pkg /\ Root \in Registry!Reach(Root, next)
  BY ConstantsAssumption, ReachClosed
<1>3. edits = 0 /\ manifests = {Root} /\ missing = {} /\ \A p \in Pkg : seen[p] = Untracked
  BY DEF Init
<1>4. \A p \in Pkg : disk[p].time <= 0 + 1 /\ (disk[p].time = 0 <=> ~HasManifest(p))
  BY DEF Init
<1>5. next \in [Pkg -> SUBSET Pkg] /\ \A p \in Pkg : next[p] = {}
  OBVIOUS
<1> HIDE DEF next
<1>6. Followed(next, Calls(stack))
  BY <1>1, <1>2, <1>3, <1>5 DEF Followed
<1>7. Timed(next, Calls(stack))
  BY <1>1, <1>2, <1>3, <1>4 DEF Timed
<1>8. Fresh(next, Calls(stack))
  BY <1>1, <1>2, <1>3 DEF Fresh
<1> QED
  BY <1>5, <1>6, <1>7, <1>8 DEF FoundInv, Found

\* An edit gives a manifest a time that was not read before.
LEMMA EditFound ==
  ASSUME WalkInv, Edit, NEW next \in [Pkg -> SUBSET Pkg], Found(next)
  PROVE  Found(next)'
<1> DEFINE C == Calls(stack)
<1>1. /\ UNCHANGED <<stack, manifests, missing, failures, seen>>
      /\ edits \in Nat /\ edits' = edits + 1
  BY ConstantsAssumption DEF Edit, WalkInv, TypeOK
<1>2. /\ \A q \in Pkg : disk[q].time \in Nat /\ seen[q] \in Nat
      /\ manifests \subseteq Pkg
  BY ConstantsAssumption DEF WalkInv, TypeOK, Package, Times, Untracked
<1>3. PICK p \in Pkg : /\ \A q \in Pkg \ {p} : disk'[q] = disk[q]
                       /\ disk'[p].time = IF HasManifest(p)' THEN edits + 2 ELSE 0
  BY DEF Edit, WalkInv, TypeOK, HasManifest
<1>4. \A q \in Pkg \ {p} : Registry!DepsOf(q)' = Registry!DepsOf(q)
  BY <1>3 DEF Registry!DepsOf
<1>5. Followed(next, C)'
  BY <1>1 DEF Found, Followed
<1>6. Timed(next, C)'
  <2>1. Timed(next, C)
    BY DEF Found
  <2>2. ASSUME NEW q \in Pkg
        PROVE  disk'[q].time <= edits' + 1 /\ (seen[q] # Untracked => seen[q] <= edits' + 1)
    BY <1>1, <1>2, <1>3, <2>1 DEF Timed
  <2>t. \A q \in Pkg : disk'[q].time = 0 <=> ~HasManifest(q)'
    BY <1>1, <1>3, <2>1 DEF Timed, HasManifest
  <2>3. ASSUME NEW q \in manifests, seen[q] \notin {0, Untracked}, seen[q] = disk'[q].time,
               \A c \in C : c.pkg = q => c.at = "deps"
        PROVE  next[q] = Registry!DepsOf(q)'
    <3>1. q # p
      BY <1>1, <1>2, <1>3, <2>1, <2>3 DEF Timed
    <3>2. disk'[q] = disk[q] /\ q \in Pkg
      BY <1>2, <1>3, <3>1
    <3> QED
      BY <1>4, <2>1, <2>3, <3>1, <3>2 DEF Timed
  <2> QED
    BY <1>1, <2>1, <2>2, <2>3, <2>t DEF Timed
<1>7. Fresh(next, C)'
  BY <1>1 DEF Fresh
<1> QED
  BY <1>5, <1>6, <1>7 DEF Found

\* The facts about the innermost call that each step starts from.
LEMMA InnermostCall ==
  ASSUME WalkInv, stack # << >>
  PROVE  LET h == Head(stack)
             C == Calls(stack)
         IN /\ h \in C /\ Here = h.pkg /\ Here \in Pkg /\ h.todo \in SUBSET Pkg
            /\ Here \in manifests /\ Here \notin missing /\ Here \notin failures
            /\ h.at = "exists" => seen[Here] = Untracked
            /\ Tail(stack) \in Seq(Call) /\ Calls(Tail(stack)) = C \ {h}
            /\ \A c \in C \ {h} : c.pkg # Here
            /\ \A c \in C : c \in Call /\ c.pkg \in manifests /\ c.pkg \notin missing
<1>1. stack \in Seq(Call) /\ StackOK(stack, manifests, missing \cup failures, seen)
  BY DEF WalkInv, TypeOK
<1>2. Head(stack) = stack[1] /\ 1 \in DOMAIN stack /\ Tail(stack) \in Seq(Call) /\ Head(stack) \in Call
  BY <1>1, TakeTop
<1>3. /\ Head(stack) \in Calls(stack)
      /\ Calls(Tail(stack)) = Calls(stack) \ {Head(stack)}
      /\ \A c \in Calls(stack) \ {Head(stack)} : c.pkg # Head(stack).pkg
      /\ Calls(stack) \subseteq Call
  BY <1>1, CallsOfStack DEF StackOK
<1>4. \A c \in Calls(stack) : c.pkg \in manifests \ (missing \cup failures)
  BY <1>1 DEF StackOK, Calls
<1>5. Head(stack).at = "exists" => seen[Head(stack).pkg] = Untracked
  BY <1>1, <1>2 DEF StackOK
<1> QED
  BY <1>2, <1>3, <1>4, <1>5 DEF Here, Call

\* The dependencies of a manifest that is parsed add to what is reached.
LEMMA ReachGrows ==
  ASSUME NEW p \in Pkg, NEW next \in [Pkg -> SUBSET Pkg], NEW more \in [Pkg -> SUBSET Pkg],
         \A q \in Pkg : next[q] \subseteq more[q]
  PROVE  Registry!Reach(p, next) \subseteq Registry!Reach(p, more)
<1> DEFINE S == Registry!Reach(p, more)
<1>1. S \in SUBSET Pkg /\ p \in S /\ \A q \in S : more[q] \subseteq S
  BY ReachClosed
<1>2. \A q \in S : next[q] \subseteq S
  BY <1>1
<1> HIDE DEF S
<1>3. Registry!Reach(p, next) \subseteq S
  BY <1>1, <1>2, ReachLeast
<1> QED
  BY <1>3 DEF S

\* Every step of the walk keeps what was found.
LEMMA LoadFound ==
  ASSUME WalkInv, WalkInv', Load, NEW next \in [Pkg -> SUBSET Pkg], Found(next)
  PROVE  FoundInv'
<1> DEFINE C == Calls(stack)
           h == Head(stack)
           D == C \ {h}
<1>1. stack # << >>
  BY DEF Load, CheckExists, ReadTime, Parse, Descend, Ascend, At
<1>2. /\ h \in C /\ Here = h.pkg /\ Here \in Pkg /\ h.todo \in SUBSET Pkg
      /\ Here \in manifests /\ Here \notin missing /\ Here \notin failures
      /\ h.at = "exists" => seen[Here] = Untracked
      /\ Tail(stack) \in Seq(Call) /\ Calls(Tail(stack)) = D
      /\ \A c \in D : c.pkg # Here
      /\ \A c \in C : c \in Call /\ c.pkg \in manifests /\ c.pkg \notin missing
  BY <1>1, InnermostCall
<1>3. C = D \cup {h}
  BY <1>2
<1>4. /\ manifests \subseteq Pkg
      /\ \A p \in Pkg : /\ disk[p].layout \in AllLayouts /\ disk[p].deps \in SUBSET Pkg
                        /\ disk[p].time \in Times
                        /\ seen[p] \in Nat /\ (seen[p] # Untracked => p \in manifests)
      /\ edits \in Nat
  BY ConstantsAssumption DEF WalkInv, TypeOK, Package, Times, Untracked
<1>5. Followed(next, C) /\ Timed(next, C) /\ Fresh(next, C)
  BY DEF Found
<1>6. ASSUME NEW more \in [Pkg -> SUBSET Pkg], Followed(more, Calls(stack))',
             Timed(more, Calls(stack))', Fresh(more, Calls(stack))'
      PROVE  FoundInv'
  BY <1>6 DEF FoundInv, Found
<1>7. ASSUME NEW c \in Call, stack' = <<c>> \o Tail(stack) PROVE Calls(stack)' = D \cup {c}
  BY <1>2, <1>7, CallsWithOne
<1>8. disk' = disk /\ edits' = edits
  BY DEF Load, CheckExists, ReadTime, Parse, Descend, Ascend
<1>9. \A p \in Pkg : Registry!DepsOf(p)' = Registry!DepsOf(p) /\ HasManifest(p)' = HasManifest(p)
  BY <1>8 DEF Registry!DepsOf, HasManifest
<1>10. CASE CheckExists
  <2>1. h.at = "exists" /\ UNCHANGED <<manifests, failures, seen>>
    BY <1>10 DEF CheckExists, At
  <2>2. next[Here] = {}
    BY <1>2, <2>1, <1>5 DEF Followed
  <2>3. CASE disk[Here].layout = "absent"
    <3>1. missing' = missing \cup {Here} /\ Calls(stack)' = D
      BY <1>2, <1>10, <2>3 DEF CheckExists, Return
    <3>2. Followed(next, Calls(stack))'
      BY <1>2, <1>3, <1>5, <2>1, <2>2, <3>1 DEF Followed
    <3>3. Timed(next, Calls(stack))'
      BY <1>2, <1>3, <1>4, <1>5, <1>8, <1>9, <2>1, <2>2, <3>1 DEF Timed
    <3>4. Fresh(next, Calls(stack))'
      <4>1. Registry!DepsOf(Here) = {}
        BY <2>3 DEF Registry!DepsOf
      <4>2. seen[Here] = Untracked /\ Here \in missing' /\ Here \notin failures'
        BY <1>2, <2>1, <3>1
      <4>5. ASSUME edits = 0, NEW p \in manifests', \A c \in D : c.pkg # p
            PROVE  /\ next[p] = Registry!DepsOf(p)
                   /\ p \in missing' <=> disk[p].layout = "absent"
                   /\ p \in failures' <=> disk[p].layout \in {"nomanifest", "bad"}
                   /\ seen[p] = IF disk[p].layout = "absent" THEN Untracked ELSE disk[p].time
        <5>1. CASE p = Here
          BY <2>1, <2>2, <2>3, <4>1, <4>2, <5>1
        <5>2. CASE p # Here
          <6>1. \A c \in C : c.pkg # p
            BY <1>2, <1>3, <4>5, <5>2
          <6> QED
            BY <1>5, <2>1, <3>1, <4>5, <5>2, <6>1 DEF Fresh
        <5> QED
          BY <5>1, <5>2
      <4>6. ASSUME edits = 0, NEW c \in D
            PROVE  /\ c.at # "exists" => disk[c.pkg].layout # "absent"
                   /\ c.at \in {"parse", "deps"} => seen[c.pkg] = disk[c.pkg].time
                   /\ c.at = "deps" => disk[c.pkg].layout = "ok" /\ next[c.pkg] = Registry!DepsOf(c.pkg)
        BY <1>2, <1>3, <1>5, <2>1, <2>2, <2>3, <3>1, <4>1, <4>2, <4>6 DEF Fresh
      <4> QED
        BY <1>2, <1>3, <1>4, <1>8, <1>9, <2>1, <3>1, <4>5, <4>6 DEF Fresh
    <3> QED
      BY <1>6, <3>2, <3>3, <3>4
  <2>4. CASE disk[Here].layout # "absent"
    <3> DEFINE c == [pkg |-> Here, at |-> "time", todo |-> {}]
    <3>1. missing' = missing /\ c \in Call /\ stack' = <<c>> \o Tail(stack)
      BY <1>2, <1>10, <2>1, <2>4 DEF CheckExists, Continue, After, Call, Step
    <3>2. c.pkg = Here /\ c.at = "time"
      OBVIOUS
    <3> HIDE DEF c
    <3>3. Calls(stack)' = D \cup {c}
      BY <1>7, <3>1
    <3>4. Followed(next, Calls(stack))'
      BY <1>2, <1>3, <1>5, <2>1, <2>2, <3>1, <3>2, <3>3 DEF Followed
    <3>5. Timed(next, Calls(stack))'
      BY <1>2, <1>3, <1>4, <1>5, <1>8, <1>9, <2>1, <2>2, <3>1, <3>2, <3>3 DEF Timed
    <3>6. Fresh(next, Calls(stack))'
      BY <1>2, <1>3, <1>4, <1>5, <1>8, <1>9, <2>1, <2>2, <2>4, <3>1, <3>2, <3>3 DEF Fresh
    <3> QED
      BY <1>6, <3>4, <3>5, <3>6
  <2> QED
    BY <2>3, <2>4
<1>11. CASE ReadTime
  <2>1. h.at = "time" /\ UNCHANGED <<manifests, failures, missing>>
        /\ seen' = [seen EXCEPT ![Here] = disk[Here].time]
    BY <1>11 DEF ReadTime, At
  <2>2. next[Here] = {} /\ \A p \in Pkg : seen'[p] = IF p = Here THEN disk[Here].time ELSE seen[p]
    <3>1. seen \in [Pkg -> Times \cup {Untracked}]
      BY DEF WalkInv, TypeOK
    <3> QED
      BY <1>2, <2>1, <1>5, <3>1 DEF Followed
  <2> DEFINE c == [pkg |-> Here, at |-> "parse", todo |-> h.todo]
  <2>3. c \in Call /\ stack' = <<c>> \o Tail(stack)
    BY <1>2, <1>11, <2>1 DEF ReadTime, Continue, After, Call, Step
  <2>4. c.pkg = Here /\ c.at = "parse"
    OBVIOUS
  <2> HIDE DEF c
  <2>5. Calls(stack)' = D \cup {c}
    BY <1>7, <2>3
  <2>6. Followed(next, Calls(stack))'
    BY <1>2, <1>3, <1>5, <2>1, <2>2, <2>4, <2>5 DEF Followed
  <2>7. Timed(next, Calls(stack))'
    <3>1. disk[Here].time \in Nat /\ disk[Here].time # Untracked /\ Untracked \in Nat
      BY ConstantsAssumption, <1>2, <1>4 DEF Times, Untracked
    <3>2. Timed(next, C)
      BY <1>5
    <3>3. \A p \in Pkg : disk'[p].time <= edits' + 1 /\ (seen'[p] # Untracked => seen'[p] <= edits' + 1)
      BY <1>2, <1>8, <2>2, <3>2 DEF Timed
    <3>4. ASSUME NEW p \in manifests, seen'[p] = Untracked
          PROVE  p \in missing \/ \E e \in D \cup {c} : e.pkg = p /\ e.at \in {"exists", "time"}
      BY <1>2, <1>3, <1>4, <2>2, <3>1, <3>2, <3>4 DEF Timed
    <3>5. ASSUME NEW p \in manifests, seen'[p] \notin {0, Untracked}, seen'[p] = disk[p].time,
                 \A e \in D \cup {c} : e.pkg = p => e.at = "deps"
          PROVE  next[p] = Registry!DepsOf(p)
      BY <1>2, <1>3, <1>4, <2>2, <2>4, <3>2, <3>5 DEF Timed
    <3> QED
      BY <1>4, <1>8, <1>9, <2>1, <2>5, <3>2, <3>3, <3>4, <3>5 DEF Timed
  <2>8. Fresh(next, Calls(stack))'
    BY <1>2, <1>3, <1>4, <1>5, <1>8, <1>9, <2>1, <2>2, <2>4, <2>5 DEF Fresh
  <2> QED
    BY <1>6, <2>6, <2>7, <2>8
<1>12. CASE Parse
  <2>1. h.at = "parse" /\ UNCHANGED <<manifests, missing, seen>>
    BY <1>12 DEF Parse, At
  <2>2. next[Here] = {}
    BY <1>2, <2>1, <1>5 DEF Followed
  <2>t. seen[Here] # Untracked
    BY <1>2, <1>3, <1>5, <2>1 DEF Timed
  <2>3. CASE disk[Here].layout = "ok"
    <3> DEFINE c == [pkg |-> Here, at |-> "deps", todo |-> disk[Here].deps]
    <3>1. failures' = failures /\ c \in Call /\ stack' = <<c>> \o Tail(stack)
      BY <1>2, <1>4, <1>12, <2>1, <2>3 DEF Parse, Continue, After, Call, Step
    <3>2. c.pkg = Here /\ c.at = "deps" /\ c.todo = disk[Here].deps
      OBVIOUS
    <3>3. PICK more \in [Pkg -> SUBSET Pkg] :
            \A p \in Pkg : more[p] = IF p = Here THEN disk[Here].deps ELSE next[p]
      <4> DEFINE m == [next EXCEPT ![Here] = disk[Here].deps]
      <4>1. m \in [Pkg -> SUBSET Pkg] /\ \A p \in Pkg : m[p] = IF p = Here THEN disk[Here].deps ELSE next[p]
        BY <1>2, <1>4
      <4> QED
        BY <4>1
    <3>4. Registry!DepsOf(Here) = disk[Here].deps
      BY <2>3 DEF Registry!DepsOf
    <3> HIDE DEF c
    <3>5. Calls(stack)' = D \cup {c}
      BY <1>7, <3>1
    <3>r. Registry!Reach(Root, next) \subseteq Registry!Reach(Root, more)
      BY ConstantsAssumption, <2>2, <3>3, ReachGrows
    <3>6. Followed(more, Calls(stack))'
      BY <1>2, <1>3, <1>4, <1>5, <2>1, <3>r, <3>2, <3>3, <3>5 DEF Followed, Registry!Reach
    <3>7. Timed(more, Calls(stack))'
      BY <1>2, <1>3, <1>4, <1>5, <1>8, <1>9, <2>1, <2>t, <3>2, <3>3, <3>4, <3>5 DEF Timed
    <3>8. Fresh(more, Calls(stack))'
      BY <1>2, <1>3, <1>4, <1>5, <1>8, <1>9, <2>1, <2>3, <3>1, <3>2, <3>3, <3>4, <3>5 DEF Fresh
    <3> QED
      BY <1>6, <3>3, <3>6, <3>7, <3>8
  <2>4. CASE disk[Here].layout # "ok"
    <3>1. failures' = failures \cup {Here} /\ Calls(stack)' = D
      BY <1>2, <1>12, <2>4 DEF Parse, Return
    <3>2. Registry!DepsOf(Here) = {}
      BY <2>4 DEF Registry!DepsOf
    <3>3. Followed(next, Calls(stack))'
      BY <1>2, <1>3, <1>5, <2>1, <2>2, <3>1 DEF Followed
    <3>4. Timed(next, Calls(stack))'
      <4>1. ASSUME NEW p \in manifests, seen[p] = Untracked
            PROVE  p \in missing \/ \E c \in D : c.pkg = p /\ c.at \in {"exists", "time"}
        BY <1>3, <1>5, <2>1, <4>1 DEF Timed
      <4>2. ASSUME NEW p \in manifests, seen[p] \notin {0, Untracked}, seen[p] = disk[p].time,
                   \A c \in D : c.pkg = p => c.at = "deps"
            PROVE  next[p] = Registry!DepsOf(p)
        BY <1>2, <1>3, <1>5, <2>2, <3>2, <4>2 DEF Timed
      <4> QED
        BY <1>4, <1>5, <1>8, <1>9, <2>1, <3>1, <4>1, <4>2 DEF Timed
    <3>5. Fresh(next, Calls(stack))'
      <4>5. ASSUME edits = 0, NEW p \in manifests', \A c \in D : c.pkg # p
            PROVE  /\ next[p] = Registry!DepsOf(p)
                   /\ p \in missing' <=> disk[p].layout = "absent"
                   /\ p \in failures' <=> disk[p].layout \in {"nomanifest", "bad"}
                   /\ seen[p] = IF disk[p].layout = "absent" THEN Untracked ELSE disk[p].time
        <5>1. CASE p = Here
          BY <1>2, <1>3, <1>4, <1>5, <2>1, <2>2, <2>4, <3>1, <3>2, <4>5, <5>1 DEF Fresh, AllLayouts
        <5>2. CASE p # Here
          <6>1. \A c \in C : c.pkg # p
            BY <1>2, <1>3, <4>5, <5>2
          <6> QED
            BY <1>5, <2>1, <3>1, <4>5, <5>2, <6>1 DEF Fresh
        <5> QED
          BY <5>1, <5>2
      <4>6. ASSUME edits = 0, NEW c \in D
            PROVE  /\ c.at # "exists" => disk[c.pkg].layout # "absent"
                   /\ c.at \in {"parse", "deps"} => seen[c.pkg] = disk[c.pkg].time
                   /\ c.at = "deps" => disk[c.pkg].layout = "ok" /\ next[c.pkg] = Registry!DepsOf(c.pkg)
        BY <1>2, <1>3, <1>5, <2>1, <2>2, <2>4, <3>1, <3>2, <4>6 DEF Fresh
      <4> QED
        BY <1>2, <1>3, <1>4, <1>8, <1>9, <2>1, <3>1, <4>5, <4>6 DEF Fresh
    <3> QED
      BY <1>6, <3>3, <3>4, <3>5
  <2> QED
    BY <2>3, <2>4
<1>13. ASSUME NEW q \in Pkg, Descend(q) PROVE FoundInv'
  <2> DEFINE c == [pkg |-> Here, at |-> "deps", todo |-> h.todo \ {q}]
  <2>1. h.at = "deps" /\ q \in h.todo /\ UNCHANGED <<missing, failures, seen>> /\ c \in Call
    BY <1>2, <1>13 DEF Descend, At, Call, Step
  <2>2. c.pkg = Here /\ c.at = "deps" /\ c.todo = h.todo \ {q}
    OBVIOUS
  <2>3. h.todo \subseteq next[Here] /\ next[Here] \subseteq manifests \cup h.todo /\ seen[Here] # Untracked
    BY <1>2, <1>3, <1>5, <2>1 DEF Followed, Timed
  <2>4. CASE q \in manifests
    <3>1. stack' = <<c>> \o Tail(stack) /\ manifests' = manifests
      BY <1>13, <2>4 DEF Descend
    <3> HIDE DEF c
    <3>2. Calls(stack)' = D \cup {c}
      BY <1>7, <2>1, <3>1
    <3>3. Followed(next, Calls(stack))'
      BY <1>2, <1>3, <1>5, <2>1, <2>2, <2>3, <2>4, <3>1, <3>2 DEF Followed
    <3>4. Timed(next, Calls(stack))'
      BY <1>2, <1>3, <1>4, <1>5, <1>8, <1>9, <2>1, <2>2, <2>3, <3>1, <3>2 DEF Timed
    <3>5. Fresh(next, Calls(stack))'
      BY <1>2, <1>3, <1>4, <1>5, <1>8, <1>9, <2>1, <2>2, <3>1, <3>2 DEF Fresh
    <3> QED
      BY <1>6, <3>3, <3>4, <3>5
  <2>5. CASE q \notin manifests
    <3> DEFINE d == Begin(q)
    <3>1. stack' = <<d, c>> \o Tail(stack) /\ manifests' = manifests \cup {q}
      BY <1>13, <2>5 DEF Descend
    <3>2. d \in Call /\ d.pkg = q /\ d.at = "exists"
      BY DEF Begin, Call, Step
    <3> HIDE DEF c, d
    <3>3. Calls(stack)' = D \cup {c, d}
      <4>1. Calls(<<d, c>> \o Tail(stack)) = Calls(Tail(stack)) \cup {c, d}
        BY <1>2, <2>1, <3>2, CallsWithTwo
      <4>2. Calls(stack)' = Calls(<<d, c>> \o Tail(stack))
        BY <3>1
      <4> QED
        BY <1>2, <4>1, <4>2
    <3>4. next[q] = {} /\ seen[q] = Untracked /\ q # Here /\ \A e \in D : e.pkg # q
      BY <1>2, <1>3, <1>4, <1>5, <2>5 DEF Followed
    <3>5. q \in Registry!Reach(Root, next)
      <4>1. Here \in Registry!Reach(Root, next)
        BY <1>2, <1>5 DEF Followed
      <4>2. next[Here] \subseteq Registry!Reach(Root, next)
        BY ConstantsAssumption, <1>2, <4>1, ReachClosed
      <4> QED
        BY <2>1, <2>3, <4>2
    <3>6. Followed(next, Calls(stack))'
      BY <1>2, <1>3, <1>5, <2>1, <2>2, <2>3, <3>1, <3>2, <3>3, <3>4, <3>5 DEF Followed, Registry!Reach
    <3>7. Timed(next, Calls(stack))'
      <4>1. ASSUME NEW p \in manifests', seen[p] = Untracked
            PROVE  p \in missing \/ \E e \in D \cup {c, d} : e.pkg = p /\ e.at \in {"exists", "time"}
        BY <1>3, <1>5, <2>1, <3>1, <3>2, <4>1 DEF Timed
      <4>2. ASSUME NEW p \in manifests', seen[p] \notin {0, Untracked}, seen[p] = disk[p].time,
                   \A e \in D \cup {c, d} : e.pkg = p => e.at = "deps"
            PROVE  next[p] = Registry!DepsOf(p)
        BY <1>2, <1>3, <1>5, <2>1, <3>1, <3>2, <3>4, <4>2 DEF Timed
      <4>3. ASSUME NEW p \in Pkg
            PROVE  /\ disk[p].time = 0 <=> ~HasManifest(p)
                   /\ disk[p].time <= edits + 1
                   /\ seen[p] # Untracked => seen[p] <= edits + 1
        BY <1>5 DEF Timed
      <4>4. manifests' \subseteq Pkg
        BY <1>4, <3>1
      <4> QED
        BY <1>8, <1>9, <2>1, <3>3, <4>1, <4>2, <4>3, <4>4 DEF Timed
    <3>8. Fresh(next, Calls(stack))'
      <4>5. ASSUME edits = 0, NEW p \in manifests', \A e \in D \cup {c, d} : e.pkg # p
            PROVE  /\ next[p] = Registry!DepsOf(p)
                   /\ p \in missing' <=> disk[p].layout = "absent"
                   /\ p \in failures' <=> disk[p].layout \in {"nomanifest", "bad"}
                   /\ seen[p] = IF disk[p].layout = "absent" THEN Untracked ELSE disk[p].time
        BY <1>2, <1>3, <1>4, <1>5, <2>1, <2>2, <3>1, <3>2, <3>4, <4>5 DEF Fresh, AllLayouts
      <4>6. ASSUME edits = 0, NEW e \in D \cup {c, d}
            PROVE  /\ e.at # "exists" => disk[e.pkg].layout # "absent"
                   /\ e.at \in {"parse", "deps"} => seen[e.pkg] = disk[e.pkg].time
                   /\ e.at = "deps" => disk[e.pkg].layout = "ok" /\ next[e.pkg] = Registry!DepsOf(e.pkg)
        BY <1>2, <1>3, <1>5, <2>1, <2>2, <3>1, <3>2, <3>4, <4>6 DEF Fresh
      <4>7. manifests' \subseteq Pkg /\ \A e \in D \cup {c, d} : e.pkg \in Pkg
        BY <1>2, <1>3, <1>4, <2>2, <3>1, <3>2
      <4> QED
        BY <1>8, <1>9, <2>1, <3>3, <4>5, <4>6, <4>7 DEF Fresh
    <3> QED
      BY <1>6, <3>6, <3>7, <3>8
  <2> QED
    BY <2>4, <2>5
<1>14. CASE Ascend
  <2>1. h.at = "deps" /\ h.todo = {} /\ UNCHANGED <<manifests, missing, failures, seen>> /\ Calls(stack)' = D
    BY <1>2, <1>14 DEF Ascend, At, Return
  <2>2. next[Here] \subseteq manifests /\ seen[Here] # Untracked
    BY <1>2, <1>3, <1>5, <2>1 DEF Followed, Timed
  <2>3. Followed(next, Calls(stack))'
    BY <1>2, <1>3, <1>5, <2>1, <2>2 DEF Followed
  <2>4. Timed(next, Calls(stack))'
    BY <1>2, <1>3, <1>4, <1>5, <1>8, <1>9, <2>1, <2>2 DEF Timed
  <2>5. Fresh(next, Calls(stack))'
    BY <1>2, <1>3, <1>4, <1>5, <1>8, <1>9, <2>1, <2>2 DEF Fresh
  <2> QED
    BY <1>6, <2>3, <2>4, <2>5
<1> QED
  BY <1>10, <1>11, <1>12, <1>13, <1>14 DEF Load

\* It is an invariant that there are such dependencies.
LEMMA FoundAlways == Spec => []FoundInv
<1>1. WalkInv /\ WalkInv' /\ FoundInv /\ [Next]_vars => FoundInv'
  <2> SUFFICES ASSUME WalkInv, WalkInv', FoundInv, [Next]_vars PROVE FoundInv'
    OBVIOUS
  <2>1. PICK next \in [Pkg -> SUBSET Pkg] : Found(next)
    BY DEF FoundInv
  <2>2. CASE Edit
    BY <2>1, <2>2, EditFound DEF FoundInv
  <2>3. CASE Load
    BY <2>1, <2>3, LoadFound
  <2>4. CASE UNCHANGED vars
    <3>1. UNCHANGED <<Found(next)>>
      BY <2>4 DEF vars, Found, Followed, Timed, Fresh, Calls, HasManifest, Registry!DepsOf, Registry!Reach
    <3> QED
      BY <2>1, <3>1 DEF FoundInv
  <2> QED
    BY <2>2, <2>3, <2>4 DEF Next
<1> QED
  BY <1>1, InitFound, WalkInvAlways, PTL DEF Spec

\* When nothing is edited meanwhile, load_project yields all that
\* ProjectRegistry says of a load: every package that the manifests lead to,
\* the missing ones, those whose manifest is bad, and the times.
THEOREM LoadsTheClosureAlways == Spec => []LoadsTheClosure
<1>1. ASSUME WalkInv, FoundInv PROVE LoadsTheClosure
  <2> SUFFICES ASSUME stack = << >>, edits = 0
               PROVE  Result = [Registry!Load(Root) EXCEPT !.env = {}]
    BY DEF LoadsTheClosure
  <2>1. PICK next \in [Pkg -> SUBSET Pkg] : Found(next)
    BY <1>1 DEF FoundInv
  <2>2. Calls(stack) = {}
    BY DEF Calls
  <2>3. /\ Root \in manifests /\ manifests \subseteq Registry!Reach(Root, next)
        /\ \A p \in manifests : next[p] \subseteq manifests
        /\ \A p \in Pkg : p \notin manifests => next[p] = {}
    BY <2>1, <2>2 DEF Found, Followed
  <2>4. \A p \in manifests :
          /\ next[p] = Registry!DepsOf(p)
          /\ p \in missing <=> disk[p].layout = "absent"
          /\ p \in failures <=> disk[p].layout \in {"nomanifest", "bad"}
          /\ seen[p] = IF disk[p].layout = "absent" THEN Untracked ELSE disk[p].time
    BY <2>1, <2>2 DEF Found, Fresh
  <2>5. /\ manifests \subseteq Pkg /\ missing \subseteq manifests /\ failures \subseteq manifests
        /\ seen \in [Pkg -> Times \cup {Untracked}]
        /\ \A p \in Pkg : seen[p] # Untracked => p \in manifests
    BY <1>1 DEF WalkInv, TypeOK
  <2> DEFINE deps == [q \in Pkg |-> Registry!DepsOf(q)]
             S == Registry!Reach(Root, deps)
  <2>6. manifests = S
    <3>1. Root \in Pkg /\ S \in SUBSET Pkg /\ Root \in S
      BY ConstantsAssumption, ReachClosed
    <3>2. \A q \in S : deps[q] \subseteq S
      <4>1. \A q \in Pkg : deps[q] = Registry!DepsOf(q)
        OBVIOUS
      <4>2. \A q \in Pkg : deps[q] \in SUBSET Pkg
        BY <1>1, <4>1 DEF WalkInv, TypeOK, Package, Registry!DepsOf
      <4> QED
        BY <3>1, <4>2, ReachClosed
    <3>3. \A q \in manifests : deps[q] \subseteq manifests
      BY <2>3, <2>4, <2>5
    <3>4. \A q \in S : next[q] \subseteq S
      BY <2>3, <2>4, <2>5, <3>1, <3>2
    <3> HIDE DEF deps
    <3>5. S \subseteq manifests
      BY <2>3, <2>5, <3>1, <3>3, ReachLeast
    <3> DEFINE T == S
    <3>6. T \in SUBSET Pkg /\ Root \in T /\ \A q \in T : next[q] \subseteq T
      BY <3>1, <3>4
    <3> HIDE DEF T
    <3>7. Registry!Reach(Root, next) \subseteq T
      BY <3>1, <3>6, ReachLeast
    <3> QED
      BY <2>3, <3>5, <3>7 DEF T
  <2>7. Registry!Closure(Root) = manifests
    BY <2>6 DEF Registry!Closure
  <2>8. missing = {q \in manifests : disk[q].layout = "absent"}
        /\ failures = {q \in manifests : disk[q].layout \in {"nomanifest", "bad"}}
    BY <2>4, <2>5
  <2>9. seen = Registry!SeenTimes(Root)
    <3>1. \A q \in Pkg : seen[q] = IF q \in manifests /\ disk[q].layout # "absent" THEN disk[q].time
                                   ELSE Registry!Untracked
      BY <2>4, <2>5 DEF Registry!Untracked, Untracked
    <3>2. seen = [q \in Pkg |-> seen[q]]
      BY <2>5
    <3> QED
      BY <2>7, <3>1, <3>2 DEF Registry!SeenTimes
  <2> DEFINE env == Registry!Reach(Root, Registry!ResolverEdges(Root))
             With(e) == [root |-> Root, manifests |-> manifests, missing |-> missing,
                         failures |-> failures, seen |-> seen, env |-> e]
  <2>10. Registry!Load(Root) = With(env) /\ Result = With({})
    BY <2>7, <2>8, <2>9 DEF Registry!Load, Result
  <2>11. ASSUME NEW e, NEW f PROVE [With(e) EXCEPT !.env = f] = With(f)
    OBVIOUS
  <2> HIDE DEF env, With
  <2>12. [With(env) EXCEPT !.env = {}] = With({})
    BY <2>11
  <2> QED
    BY <2>10, <2>12
<1> QED
  BY <1>1, WalkInvAlways, FoundAlways, PTL

\* Whatever is edited while the walk is under way or later, a project that
\* builds and came out of it with other packages than the manifests now lead to
\* has a manifest of another time than the one read, or misses a package that
\* is there.
THEOREM RacyLoadIsNoticedAlways == Spec => []RacyLoadIsNoticed
<1>1. ASSUME WalkInv, FoundInv PROVE RacyLoadIsNoticed
  <2> SUFFICES ASSUME stack = << >>, Registry!Builds(Root), ~Registry!ManifestBeedModified(Result),
                      \A q \in missing : ~HasManifest(q)
               PROVE  manifests = Registry!Closure(Root)
    BY DEF RacyLoadIsNoticed
  <2>1. PICK next \in [Pkg -> SUBSET Pkg] : Found(next)
    BY <1>1 DEF FoundInv
  <2>2. Calls(stack) = {}
    BY DEF Calls
  <2>3. /\ Root \in manifests /\ manifests \subseteq Registry!Reach(Root, next)
        /\ \A p \in manifests : next[p] \subseteq manifests
        /\ \A p \in Pkg : p \notin manifests => next[p] = {}
    BY <2>1, <2>2 DEF Found, Followed
  <2>4. manifests \subseteq Pkg
    BY <1>1 DEF WalkInv, TypeOK
  <2> DEFINE deps == [q \in Pkg |-> Registry!DepsOf(q)]
             S == Registry!Reach(Root, deps)
  <2>5. \A q \in S : disk[q].layout = "ok"
    <3>1. Registry!ResolverEdges(Root) = deps
      BY DEF Registry!ResolverEdges
    <3> QED
      BY <3>1 DEF Registry!Builds
  <2>6. \A q \in manifests \cap S : next[q] = deps[q]
    <3>1. ASSUME NEW q \in manifests \cap S PROVE next[q] = Registry!DepsOf(q)
      <4>1. HasManifest(q) /\ q \in Pkg /\ q \notin missing
        BY <2>4, <2>5, <3>1 DEF HasManifest
      <4>2. seen[q] # Untracked
        BY <2>1, <2>2, <3>1, <4>1 DEF Found, Timed
      <4>3. seen[q] = disk[q].time
        BY <4>1, <4>2 DEF Registry!ManifestBeedModified, Result, Registry!Untracked, Untracked
      <4>4. disk[q].time # 0
        BY <2>1, <4>1 DEF Found, Timed
      <4> QED
        BY <2>1, <2>2, <3>1, <4>2, <4>3, <4>4 DEF Found, Timed
    <3> QED
      BY <2>4, <3>1
  <2>7. Root \in Pkg /\ S \in SUBSET Pkg /\ Root \in S
    BY ConstantsAssumption, ReachClosed
  <2>8. \A q \in S : deps[q] \subseteq S
    <3>1. \A q \in Pkg : deps[q] \in SUBSET Pkg
      BY <1>1 DEF WalkInv, TypeOK, Package, Registry!DepsOf
    <3> QED
      BY <2>7, <3>1, ReachClosed
  <2>9. \A q \in S : next[q] \subseteq S
    BY <2>3, <2>6, <2>7, <2>8
  <2>10. \A q \in manifests \cap S : deps[q] \subseteq manifests \cap S
    BY <2>3, <2>6, <2>8
  <2> HIDE DEF deps
  <2> DEFINE T == S
             M == manifests \cap S
  <2>11. M \in SUBSET Pkg /\ Root \in M /\ (\A q \in M : deps[q] \subseteq M)
         /\ T \in SUBSET Pkg /\ Root \in T /\ (\A q \in T : next[q] \subseteq T)
    BY <2>3, <2>4, <2>7, <2>9, <2>10
  <2> HIDE DEF T, M
  <2>12. Registry!Reach(Root, deps) \subseteq M /\ Registry!Reach(Root, next) \subseteq T
    BY <2>7, <2>11, ReachLeast
  <2>13. manifests = S
    BY <2>3, <2>12 DEF T, M
  <2> QED
    BY <2>13 DEF Registry!Closure, deps
<1> QED
  BY <1>1, WalkInvAlways, FoundAlways, PTL

----------------------------------------------------------------------------
(* Loops. *)

\* A set that has 0, and each number's successor up to n, has all up to n.
LEMMA RangeInduction ==
  ASSUME NEW n \in Nat, NEW S, 0 \in S, \A i \in 0..n : i \in S /\ i < n => i + 1 \in S
  PROVE  0..n \subseteq S
<1> SUFFICES ASSUME NEW x \in 0..n, x \notin S PROVE FALSE
  OBVIOUS
<1> DEFINE T == (0..n) \ S
<1>1. T \subseteq Nat /\ T # {}
  OBVIOUS
<1>2. PICK least \in T : \A y \in T : ~(<<y, least>> \in OpToRel(<, Nat))
  BY <1>1, NatLessThanWellFounded, WFMin, Zenon
<1>3. least \in Nat /\ least # 0 /\ least \in 0..n /\ least \notin S
  BY <1>1, <1>2
<1>4. least - 1 \in 0..n /\ least - 1 < n /\ (least - 1) + 1 = least
  BY <1>3
<1>5. least - 1 \in S
  <2>1. least - 1 \in T => <<least - 1, least>> \in OpToRel(<, Nat)
    BY <1>1, <1>3, <1>4 DEF OpToRel
  <2> QED
    BY <1>2, <1>4, <2>1
<1> QED
  BY <1>3, <1>4, <1>5

\* The results that a loop over 1..n may have after each of its rounds.
Runs(n, V, b, step) ==
  {g \in [0..n -> V] : g[0] = b /\ \A i \in 1..n : g[i] = step[i][g[i - 1]]}

\* There are some.
LEMMA Loop ==
  ASSUME NEW n \in Nat, NEW V, NEW b \in V, NEW step \in [1..n -> [V -> V]]
  PROVE  Runs(n, V, b, step) # {}
<1> DEFINE S == {k \in 0..n : Runs(k, V, b, step) # {}}
<1>1. 0 \in S
  <2>1. [i \in 0..0 |-> b] \in Runs(0, V, b, step)
    BY DEF Runs
  <2> QED
    BY <2>1
<1>2. ASSUME NEW k \in 0..n, k \in S, k < n PROVE k + 1 \in S
  <2>1. PICK g \in [0..k -> V] : g[0] = b /\ \A i \in 1..k : g[i] = step[i][g[i - 1]]
    BY <1>2 DEF Runs
  <2> DEFINE h == [i \in 0..(k + 1) |-> IF i = k + 1 THEN step[i][g[k]] ELSE g[i]]
  <2>2. g[k] \in V /\ k + 1 \in 1..n /\ step[k + 1][g[k]] \in V
    BY <1>2, <2>1
  <2>3. h \in [0..(k + 1) -> V] /\ h[0] = b
    BY <2>1, <2>2
  <2>4. ASSUME NEW i \in 1..(k + 1) PROVE h[i] = step[i][h[i - 1]]
    <3>1. CASE i = k + 1
      BY <3>1
    <3>2. CASE i # k + 1
      <4>1. i \in 1..k /\ i - 1 \in 0..(k + 1) /\ i - 1 # k + 1
        BY <3>2
      <4>2. h[i] = g[i] /\ h[i - 1] = g[i - 1]
        BY <3>2, <4>1
      <4> QED
        BY <2>1, <4>1, <4>2
    <3> QED
      BY <3>1, <3>2
  <2> HIDE DEF h
  <2>5. h \in Runs(k + 1, V, b, step)
    BY <2>3, <2>4 DEF Runs
  <2>6. k + 1 \in 0..n
    BY <1>2
  <2> QED
    BY <2>5, <2>6
<1> HIDE DEF S
<1>3. 0..n \subseteq S
  BY <1>1, <1>2, RangeInduction
<1>4. n \in S
  BY <1>3
<1> QED
  BY <1>4 DEF S

\* What follows the rounds is one of them.
LEMMA FollowsLoop ==
  ASSUME NEW n \in Nat, NEW V, NEW b \in V, NEW step \in [1..n -> [V -> V]],
         NEW f, f = [i \in 0..n |-> f[i]], f[0] = b,
         \A i \in 1..n : f[i - 1] \in V => f[i] = step[i][f[i - 1]]
  PROVE  f \in Runs(n, V, b, step)
<1> DEFINE S == {i \in 0..n : f[i] \in V}
<1>1. 0 \in S
  OBVIOUS
<1>2. ASSUME NEW i \in 0..n, i \in S, i < n PROVE i + 1 \in S
  <2>1. i + 1 \in 1..n /\ (i + 1) - 1 = i /\ i + 1 \in 0..n
    BY <1>2
  <2>2. f[i + 1] = step[i + 1][f[i]]
    BY <1>2, <2>1
  <2> QED
    BY <1>2, <2>1, <2>2
<1> HIDE DEF S
<1>3. 0..n \subseteq S
  BY <1>1, <1>2, RangeInduction
<1>4. \A i \in 0..n : f[i] \in V
  BY <1>3 DEF S
<1>5. \A i \in 1..n : f[i] = step[i][f[i - 1]]
  <2>1. \A i \in 1..n : i - 1 \in 0..n
    OBVIOUS
  <2> QED
    BY <1>4, <2>1
<1> QED
  BY <1>4, <1>5 DEF Runs

----------------------------------------------------------------------------
(* Paths. *)

\* What paths and spellings are made of.
Component == Name \cup {"/", ".", "..", "m.move"}

\* Absolute paths without `.` and `..`: what a directory is recorded under.
Absolute ==
  {path \in Seq(Component) :
     Len(path) >= 1 /\ path[1] = "/" /\ \A k \in 2..Len(path) : path[k] \notin {"/", ".", ".."}}

LEMMA RootIsAbsolute == <<"/">> \in Absolute
<1> DEFINE root == <<"/">>
<1>1. root \in Seq(Component) /\ Len(root) = 1 /\ Len(root) >= 1 /\ root[1] = "/"
  BY DEF Component
<1> HIDE DEF root
<1>2. \A k \in 2..Len(root) : root[k] \notin {"/", ".", ".."}
  BY <1>1
<1>3. root \in Absolute
  BY <1>1, <1>2, Zenon DEF Absolute
<1> QED
  BY <1>3 DEF root

\* One component on: an absolute path stays one, and the server and the
\* operating system agree on which.
LEMMA OneComponentOn ==
  ASSUME NEW dir \in Absolute, NEW c \in Component
  PROVE  Push(dir, c) = Enter(dir, c) /\ Push(dir, c) \in Absolute
<1>1. dir \in Seq(Component) /\ Len(dir) \in Nat /\ Len(dir) >= 1 /\ dir # << >> /\ dir[1] = "/"
  BY DEF Absolute
<1>2. CASE c = "/"
  BY <1>2, RootIsAbsolute DEF Push, Enter
<1>3. CASE c = "."
  BY <1>3 DEF Push, Enter
<1>4. CASE c = ".."
  <2>1. Push(dir, c) = Pop(dir) /\ Enter(dir, c) = Parent(dir)
    BY <1>4 DEF Push, Enter
  <2>2. CASE dir = <<"/">>
    BY <2>1, <2>2 DEF Pop, Parent
  <2>3. CASE dir # <<"/">>
    <3> DEFINE up == SubSeq(dir, 1, Len(dir) - 1)
    <3>1. Push(dir, c) = up /\ Enter(dir, c) = up
      BY <1>1, <2>1, <2>3 DEF Pop, Parent, Front
    <3>2. Len(dir) # 1
      <4>1. Len(dir) = 1 => dir = <<"/">>
        BY <1>1
      <4> QED
        BY <2>3, <4>1
    <3>3. up \in Seq(Component) /\ Len(up) = Len(dir) - 1 /\ \A k \in 1..Len(up) : up[k] = dir[k]
      BY <1>1, <3>2, SubSeqProperties
    <3> HIDE DEF up
    <3>4. Len(up) >= 1 /\ \A k \in 2..Len(up) : k \in 1..Len(up) /\ k \in 2..Len(dir)
      BY <1>1, <3>2, <3>3
    <3>5. up[1] = "/" /\ \A k \in 2..Len(up) : up[k] \notin {"/", ".", ".."}
      BY <1>1, <3>3, <3>4 DEF Absolute
    <3> QED
      BY <3>1, <3>3, <3>4, <3>5 DEF Absolute
  <2> QED
    BY <2>2, <2>3
<1>5. CASE c \notin {"/", ".", ".."}
  <2> DEFINE on == Append(dir, c)
  <2>1. Push(dir, c) = on /\ Enter(dir, c) = dir \o <<c>>
    BY <1>5 DEF Push, Enter
  <2>2. on = dir \o <<c>>
    BY <1>1
  <2>3. on \in Seq(Component) /\ Len(on) = Len(dir) + 1 /\ on[Len(on)] = c
        /\ \A k \in 1..Len(dir) : on[k] = dir[k]
    BY <1>1
  <2> HIDE DEF on
  <2>4. \A k \in 2..Len(on) : (k \in 2..Len(dir) /\ k \in 1..Len(dir)) \/ k = Len(on)
    BY <1>1, <2>3
  <2>5. on[1] = "/" /\ \A k \in 2..Len(on) : on[k] \notin {"/", ".", ".."}
    BY <1>1, <1>5, <2>3, <2>4 DEF Absolute
  <2>6. on \in Absolute
    BY <1>1, <2>3, <2>5 DEF Absolute
  <2> QED
    BY <2>1, <2>2, <2>6
<1> QED
  BY <1>2, <1>3, <1>4, <1>5

\* What normal_path_components may have after each of its rounds.
NormalRounds(path) ==
  {done \in [0..Len(path) -> Seq(Component)] :
     /\ done[0] = << >>
     /\ \A i \in 1..Len(path) : done[i] = Push(done[i - 1], path[i])}

LEMMA PushKeepsType ==
  ASSUME NEW done \in Seq(Component), NEW c \in Component
  PROVE  Push(done, c) \in Seq(Component)
<1>1. CASE c = ".."
  <2>1. CASE done \in {<< >>, <<"/">>}
    BY <1>1, <2>1 DEF Push, Pop
  <2>2. CASE done \notin {<< >>, <<"/">>}
    <3>1. Push(done, c) = SubSeq(done, 1, Len(done) - 1)
      BY <1>1, <2>2 DEF Push, Pop, Front
    <3>2. Len(done) \in Nat /\ Len(done) # 0
      BY <2>2, EmptySeq
    <3> QED
      BY <3>1, <3>2, SubSeqProperties
  <2> QED
    BY <2>1, <2>2
<1>2. CASE c # ".."
  <2>1. <<"/">> \in Seq(Component)
    BY DEF Component
  <2> QED
    BY <1>2, <2>1 DEF Push
<1> QED
  BY <1>1, <1>2

\* What it has after the last is the result.
LEMMA NormalizedByRounds ==
  ASSUME NEW path \in Seq(Component)
  PROVE  \E done \in NormalRounds(path) :
           Normalized(path) = IF done[Len(path)] = << >> THEN <<".">> ELSE done[Len(path)]
<1> DEFINE n == Len(path)
           V == Seq(Component)
           step == [i \in 1..n |-> [v \in V |-> Push(v, path[i])]]
           done == CHOOSE f : f = [i \in 0..n |-> IF i = 0 THEN << >> ELSE Push(f[i - 1], path[i])]
<1>1. n \in Nat /\ << >> \in V /\ \A i \in 1..n : path[i] \in Component
  OBVIOUS
<1>2. \A i \in 1..n : \A v \in V : Push(v, path[i]) \in V
  BY <1>1, PushKeepsType
<1> HIDE DEF n, V
<1>3. /\ step \in [1..n -> [V -> V]]
      /\ \A i \in 1..n : \A v \in V : step[i][v] = Push(v, path[i])
  BY <1>2
<1> HIDE DEF step
<1>4. PICK g \in [0..n -> V] : g[0] = << >> /\ \A i \in 1..n : g[i] = step[i][g[i - 1]]
  <2>1. Runs(n, V, << >>, step) # {}
    BY <1>1, <1>3, Loop
  <2> QED
    BY <2>1 DEF Runs
<1>5. \A i \in 1..n : g[i] = Push(g[i - 1], path[i])
  <2>1. \A i \in 1..n : i - 1 \in 0..n /\ g[i - 1] \in V
    BY <1>1, <1>4
  <2> QED
    BY <1>3, <1>4, <2>1
<1>6. g = [i \in 0..n |-> IF i = 0 THEN << >> ELSE Push(g[i - 1], path[i])]
  <2>1. \A i \in 0..n : i = 0 \/ i \in 1..n
    BY <1>1
  <2> QED
    BY <1>4, <1>5, <2>1
<1>7. done = [i \in 0..n |-> IF i = 0 THEN << >> ELSE Push(done[i - 1], path[i])]
  BY <1>6
<1>8. Normalized(path) = IF done[n] = << >> THEN <<".">> ELSE done[n]
  BY DEF Normalized, n
<1> HIDE DEF done
<1>9. done[0] = << >> /\ \A i \in 1..n : done[i] = Push(done[i - 1], path[i])
  <2>1. 0 \in 0..n /\ \A i \in 1..n : i \in 0..n /\ i # 0
    BY <1>1
  <2> QED
    BY <1>7, <2>1
<1>10. done \in Runs(n, V, << >>, step)
  <2>1. done = [i \in 0..n |-> done[i]]
    BY <1>7
  <2>2. \A i \in 1..n : done[i - 1] \in V => done[i] = step[i][done[i - 1]]
    BY <1>3, <1>9
  <2> QED
    BY <1>1, <1>3, <1>9, <2>1, <2>2, FollowsLoop
<1>11. done \in NormalRounds(path)
  BY <1>9, <1>10 DEF NormalRounds, Runs, n, V
<1> QED
  BY <1>8, <1>11 DEF n

\* Where the operating system may be after each component of a spelling.
ReachRounds(dir, spelling) ==
  {at \in [0..Len(spelling) -> Absolute] :
     /\ at[0] = dir
     /\ \A i \in 1..Len(spelling) : at[i] = Enter(at[i - 1], spelling[i])}

LEMMA ReachedByRounds ==
  ASSUME NEW dir \in Absolute, NEW spelling \in Seq(Component)
  PROVE  \E at \in ReachRounds(dir, spelling) : Reached(dir, spelling) = at[Len(spelling)]
<1> DEFINE n == Len(spelling)
           V == Absolute
           step == [i \in 1..n |-> [v \in V |-> Enter(v, spelling[i])]]
           at == CHOOSE f : f = [i \in 0..n |-> IF i = 0 THEN dir ELSE Enter(f[i - 1], spelling[i])]
<1>1. n \in Nat /\ dir \in V /\ \A i \in 1..n : spelling[i] \in Component
  OBVIOUS
<1>2. \A i \in 1..n : \A v \in V : Enter(v, spelling[i]) \in V
  BY <1>1, OneComponentOn
<1> HIDE DEF n, V
<1>3. /\ step \in [1..n -> [V -> V]]
      /\ \A i \in 1..n : \A v \in V : step[i][v] = Enter(v, spelling[i])
  BY <1>2
<1> HIDE DEF step
<1>4. PICK g \in [0..n -> V] : g[0] = dir /\ \A i \in 1..n : g[i] = step[i][g[i - 1]]
  <2>1. Runs(n, V, dir, step) # {}
    BY <1>1, <1>3, Loop
  <2> QED
    BY <2>1 DEF Runs
<1>5. \A i \in 1..n : g[i] = Enter(g[i - 1], spelling[i])
  <2>1. \A i \in 1..n : i - 1 \in 0..n /\ g[i - 1] \in V
    BY <1>1, <1>4
  <2> QED
    BY <1>3, <1>4, <2>1
<1>6. g = [i \in 0..n |-> IF i = 0 THEN dir ELSE Enter(g[i - 1], spelling[i])]
  <2>1. \A i \in 0..n : i = 0 \/ i \in 1..n
    BY <1>1
  <2> QED
    BY <1>4, <1>5, <2>1
<1>7. at = [i \in 0..n |-> IF i = 0 THEN dir ELSE Enter(at[i - 1], spelling[i])]
  BY <1>6
<1>8. Reached(dir, spelling) = at[n]
  BY DEF Reached, n
<1> HIDE DEF at
<1>9. at[0] = dir /\ \A i \in 1..n : at[i] = Enter(at[i - 1], spelling[i])
  <2>1. 0 \in 0..n /\ \A i \in 1..n : i \in 0..n /\ i # 0
    BY <1>1
  <2> QED
    BY <1>7, <2>1
<1>10. at \in Runs(n, V, dir, step)
  <2>1. at = [i \in 0..n |-> at[i]]
    BY <1>7
  <2>2. \A i \in 1..n : at[i - 1] \in V => at[i] = step[i][at[i - 1]]
    BY <1>3, <1>9
  <2> QED
    BY <1>1, <1>3, <1>9, <2>1, <2>2, FollowsLoop
<1>11. at \in ReachRounds(dir, spelling)
  BY <1>9, <1>10 DEF ReachRounds, Runs, n, V
<1> QED
  BY <1>8, <1>11 DEF n

\* The rounds over an absolute path have, after each component, the path up to
\* there.
LEMMA AbsoluteIsKept ==
  ASSUME NEW path \in Seq(Component), NEW done \in NormalRounds(path),
         NEW dir \in Absolute, Len(dir) <= Len(path), \A k \in 1..Len(dir) : path[k] = dir[k]
  PROVE  done[Len(dir)] = dir
<1> DEFINE n == Len(dir)
           S == {i \in 0..n : Len(done[i]) = i /\ \A k \in 1..i : done[i][k] = dir[k]}
<1>1. /\ n \in Nat /\ n >= 1 /\ dir[1] = "/" /\ dir \in Seq(Component)
      /\ \A k \in 2..n : dir[k] \notin {"/", ".", ".."}
      /\ Len(path) \in Nat
  BY DEF Absolute
<1>2. /\ done[0] = << >>
      /\ \A i \in 1..Len(path) : done[i] = Push(done[i - 1], path[i])
      /\ \A i \in 0..Len(path) : done[i] \in Seq(Component)
  BY DEF NormalRounds
<1>3. 0 \in S
  BY <1>1, <1>2
<1>4. ASSUME NEW i \in 0..n, i \in S, i < n PROVE i + 1 \in S
  <2> DEFINE v == done[i]
             w == done[i + 1]
  <2>1. /\ i \in Nat /\ i + 1 \in 1..n /\ i + 1 \in 0..n /\ i + 1 \in 1..Len(path) /\ (i + 1) - 1 = i
        /\ i \in 0..Len(path)
    BY <1>1, <1>4
  <2>2. v \in Seq(Component) /\ Len(v) = i /\ \A k \in 1..i : v[k] = dir[k]
    BY <1>2, <1>4, <2>1
  <2>3. w = Push(v, dir[i + 1])
    BY <1>2, <2>1
  <2> HIDE DEF v, w
  <2>4. Len(w) = i + 1 /\ \A k \in 1..(i + 1) : w[k] = dir[k]
    <3>1. CASE i = 0
      <4>1. w = <<"/">>
        BY <1>1, <2>3, <3>1 DEF Push
      <4> QED
        BY <1>1, <3>1, <4>1
    <3>2. CASE i # 0
      <4>1. dir[i + 1] \notin {"/", ".", ".."}
        BY <1>1, <2>1, <3>2
      <4>2. w = Append(v, dir[i + 1])
        BY <2>3, <4>1 DEF Push
      <4>3. \A k \in 1..(i + 1) : k \in 1..i \/ k = i + 1
        BY <2>1
      <4>4. Len(w) = i + 1 /\ w[i + 1] = dir[i + 1] /\ \A k \in 1..i : w[k] = v[k]
        BY <1>1, <2>1, <2>2, <4>2
      <4> QED
        BY <2>2, <4>3, <4>4
    <3> QED
      BY <3>1, <3>2
  <2> QED
    BY <2>1, <2>4 DEF w
<1> HIDE DEF S
<1>5. 0..n \subseteq S
  BY <1>1, <1>3, <1>4, RangeInduction
<1>6. Len(done[n]) = n /\ \A k \in 1..n : done[n][k] = dir[k]
  BY <1>1, <1>5 DEF S
<1>7. done[n] \in Seq(Component)
  BY <1>1, <1>2
<1> QED
  BY <1>1, <1>6, <1>7, SeqEqual

\* An absolute path is its own normal form.
LEMMA AbsoluteIsNormal ==
  ASSUME NEW dir \in Absolute
  PROVE  Normalized(dir) = dir
<1>1. dir \in Seq(Component) /\ Len(dir) \in Nat /\ Len(dir) >= 1 /\ dir # << >>
  BY DEF Absolute
<1>2. PICK done \in NormalRounds(dir) :
        Normalized(dir) = IF done[Len(dir)] = << >> THEN <<".">> ELSE done[Len(dir)]
  BY <1>1, NormalizedByRounds
<1>3. done[Len(dir)] = dir
  BY <1>1, AbsoluteIsKept
<1> QED
  BY <1>1, <1>2, <1>3

\* From the point on where both are in the same directory, the server's rounds
\* and the operating system stay together.
LEMMA StayTogether ==
  ASSUME NEW path \in Seq(Component), NEW done \in NormalRounds(path),
         NEW dir \in Absolute, NEW spelling \in Seq(Component), NEW at \in ReachRounds(dir, spelling),
         NEW j \in 0..Len(spelling), NEW before \in Nat,
         before + Len(spelling) = Len(path),
         \A i \in 1..Len(spelling) : path[before + i] = spelling[i],
         done[before + j] = at[j]
  PROVE  done[Len(path)] = at[Len(spelling)]
<1> DEFINE n == Len(spelling)
           S == {i \in 0..n : j <= i => done[before + i] = at[i]}
<1>1. n \in Nat /\ j \in Nat /\ j <= n
  OBVIOUS
<1>2. 0 \in S
  <2>1. 0 \in 0..n /\ (j <= 0 => j = 0)
    BY <1>1
  <2> QED
    BY <2>1
<1>3. ASSUME NEW i \in 0..n, i \in S, i < n PROVE i + 1 \in S
  <2>1. i \in Nat /\ i + 1 \in 1..n /\ i + 1 \in 0..n /\ (i + 1) - 1 = i
    BY <1>1, <1>3
  <2>2. CASE i + 1 < j
    BY <1>1, <2>1, <2>2
  <2>3. CASE i + 1 = j
    BY <2>1, <2>3
  <2>4. CASE j <= i
    <3>1. done[before + i] = at[i]
      BY <1>3, <2>4
    <3>2. before + (i + 1) \in 1..Len(path) /\ (before + (i + 1)) - 1 = before + i
      BY <1>1, <2>1
    <3>3. done[before + (i + 1)] = Push(at[i], spelling[i + 1])
      BY <2>1, <3>1, <3>2 DEF NormalRounds
    <3>4. at[i + 1] = Enter(at[i], spelling[i + 1]) /\ at[i] \in Absolute /\ spelling[i + 1] \in Component
      BY <2>1 DEF ReachRounds
    <3> QED
      BY <2>1, <3>3, <3>4, OneComponentOn
  <2> QED
    BY <1>1, <2>1, <2>2, <2>3, <2>4
<1> HIDE DEF S
<1>4. 0..n \subseteq S
  BY <1>1, <1>2, <1>3, RangeInduction
<1>5. n \in S
  BY <1>1, <1>4
<1>6. done[before + n] = at[n]
  BY <1>1, <1>5 DEF S
<1> QED
  BY <1>6

\* Names go below a directory, in any number.
LEMMA BoundedSequences ==
  ASSUME NEW T, NEW n \in Nat, NEW s
  PROVE  s \in BoundedSeq(T, n) <=> s \in Seq(T) /\ Len(s) <= n
<1>1. BoundedSeq(T, n) = UNION {[1..k -> T] : k \in 0..n}
  BY DEF BoundedSeq, SeqOf
<1>2. ASSUME s \in Seq(T), Len(s) <= n PROVE s \in BoundedSeq(T, n)
  <2>1. s \in [1..Len(s) -> T] /\ Len(s) \in 0..n
    BY <1>2, LenProperties
  <2> QED
    BY <1>1, <2>1
<1>3. ASSUME s \in BoundedSeq(T, n) PROVE s \in Seq(T) /\ Len(s) <= n
  <2>1. PICK k \in 0..n : s \in [1..k -> T]
    BY <1>1, <1>3
  <2>2. s \in Seq(T) /\ Len(s) = k
    BY <2>1, IsASeq, LenProperties
  <2> QED
    BY <2>1, <2>2
<1> QED
  BY <1>2, <1>3

\* Names mean nothing else.
LEMMA NamesAreComponents ==
  /\ Name \subseteq Component
  /\ Name \cap {"/", ".", ".."} = {}
  /\ LayoutDir \subseteq Name
  BY PathsAssumption DEF Name, LayoutDir, Component

LEMMA DirectoriesAreAbsolute ==
  ASSUME NEW dir \in Directory
  PROVE  dir \in Absolute
<1>1. PICK s \in BoundedSeq(Name, Depth) : dir = <<"/">> \o s
  BY DEF Directory, Below
<1>2. s \in Seq(Name)
  BY BoundedSequences, PathsAssumption
<1>3. s \in Seq(Component) /\ Len(s) \in Nat /\ \A k \in 1..Len(s) : s[k] \in Name
  BY <1>2, NamesAreComponents, SeqMonotonic
<1>4. /\ <<"/">> \in Seq(Component) /\ Len(<<"/">>) = 1 /\ <<"/">>[1] = "/"
  BY DEF Component
<1>5. /\ dir \in Seq(Component) /\ Len(dir) = 1 + Len(s) /\ dir[1] = "/"
      /\ \A k \in 2..Len(dir) : dir[k] = s[k - 1]
  <2> DEFINE root == <<"/">>
  <2>1. root \in Seq(Component) /\ Len(root) = 1 /\ root[1] = "/" /\ dir = root \o s
    BY <1>1, <1>4
  <2> HIDE DEF root
  <2>2. /\ dir \in Seq(Component) /\ Len(dir) = 1 + Len(s)
        /\ \A k \in 1..(1 + Len(s)) : dir[k] = IF k <= 1 THEN root[k] ELSE s[k - 1]
    <3>1. /\ root \o s \in Seq(Component) /\ Len(root \o s) = Len(root) + Len(s)
          /\ \A k \in 1..(Len(root) + Len(s)) :
               (root \o s)[k] = IF k <= Len(root) THEN root[k] ELSE s[k - Len(root)]
      BY <1>3, <2>1, ConcatProperties, Zenon
    <3> QED
      BY <2>1, <3>1
  <2>3. 1 \in 1..(1 + Len(s)) /\ \A k \in 2..Len(dir) : k \in 1..(1 + Len(s)) /\ ~(k <= 1)
    BY <1>3, <2>2
  <2> QED
    BY <2>1, <2>2, <2>3
<1>6. \A k \in 2..Len(dir) : dir[k] \notin {"/", ".", ".."}
  <2>1. \A k \in 2..Len(dir) : k - 1 \in 1..Len(s)
    BY <1>3, <1>5
  <2> QED
    BY <1>3, <1>5, <2>1, NamesAreComponents
<1>7. Len(dir) >= 1
  BY <1>3, <1>5
<1> QED
  BY <1>5, <1>6, <1>7 DEF Absolute

\* A spelling is made of components and is not empty.
LEMMA SpellingsAreComponents ==
  ASSUME NEW spelling \in Spelling
  PROVE  spelling \in Seq(Component) /\ spelling # << >>
<1> DEFINE relative == BoundedSeq(Name \cup {".", ".."}, Components)
<1>1. \A s \in relative : s \in Seq(Component)
  <2>1. \A s \in relative : s \in Seq(Name \cup {".", ".."})
    BY BoundedSequences, PathsAssumption
  <2>2. Name \cup {".", ".."} \subseteq Component
    BY NamesAreComponents DEF Component
  <2> QED
    BY <2>1, <2>2, SeqMonotonic
<1> HIDE DEF relative
<1>2. CASE spelling \in relative \ {<< >>}
  BY <1>1, <1>2
<1>3. CASE spelling \in {<<"/">> \o s : s \in relative}
  <2>1. PICK s \in relative : spelling = <<"/">> \o s
    BY <1>3
  <2>2. s \in Seq(Component) /\ Len(s) \in Nat
    BY <1>1, <2>1
  <2>3. <<"/">> \in Seq(Component) /\ Len(<<"/">>) = 1
    BY DEF Component
  <2>4. spelling \in Seq(Component) /\ Len(spelling) = 1 + Len(s)
    BY <2>1, <2>2, <2>3, ConcatProperties
  <2> QED
    BY <2>2, <2>4
<1> QED
  BY <1>2, <1>3 DEF Spelling, relative

\* Normalising the directory and the spelling together leads to where the
\* operating system gets.
LEMMA ConcatenationReaches ==
  ASSUME NEW dir \in Absolute, NEW spelling \in Seq(Component), spelling # << >>
  PROVE  PathConcat(dir, spelling) = Reached(dir, spelling) /\ Reached(dir, spelling) \in Absolute
<1> DEFINE n == Len(spelling)
<1>1. n \in Nat /\ n >= 1 /\ Head(spelling) = spelling[1] /\ 1 \in 1..n
  <2>1. Len(spelling) \in Nat /\ Len(spelling) # 0
    BY EmptySeq
  <2> QED
    BY <2>1, HeadTailProperties
<1>2. PICK at \in ReachRounds(dir, spelling) : Reached(dir, spelling) = at[n]
  BY ReachedByRounds
<1>3. at[0] = dir /\ at[1] = Enter(dir, spelling[1]) /\ at[n] \in Absolute
  BY <1>1 DEF ReachRounds
<1>4. \A path \in Absolute : path # << >>
  BY DEF Absolute
<1>5. CASE Head(spelling) = "/"
  <2>1. PathConcat(dir, spelling) = Normalized(spelling)
    BY <1>5 DEF PathConcat
  <2>2. PICK done \in NormalRounds(spelling) :
          Normalized(spelling) = IF done[n] = << >> THEN <<".">> ELSE done[n]
    BY NormalizedByRounds
  <2>3. done[1] = Push(<< >>, spelling[1])
    BY <1>1 DEF NormalRounds
  <2>4. done[0 + 1] = at[1]
    BY <1>1, <1>3, <1>5, <2>3 DEF Push, Enter
  <2>5. done[n] = at[n]
    <3>1. /\ 1 \in 0..Len(spelling) /\ 0 \in Nat /\ 0 + Len(spelling) = Len(spelling)
          /\ \A i \in 1..Len(spelling) : spelling[0 + i] = spelling[i]
      BY <1>1
    <3> QED
      BY <2>4, <3>1, StayTogether
  <2> QED
    BY <1>2, <1>3, <1>4, <2>1, <2>2, <2>5
<1>6. CASE Head(spelling) # "/"
  <2> DEFINE path == dir \o spelling
             k == Len(dir)
  <2>1. dir \in Seq(Component) /\ k \in Nat
    BY DEF Absolute
  <2>2. /\ path \in Seq(Component) /\ Len(path) = k + n
        /\ \A i \in 1..(k + n) : path[i] = IF i <= k THEN dir[i] ELSE spelling[i - k]
    BY <2>1, ConcatProperties
  <2>3. PathConcat(dir, spelling) = Normalized(path)
    BY <1>6 DEF PathConcat
  <2> HIDE DEF path
  <2>4. PICK done \in NormalRounds(path) :
          Normalized(path) = IF done[Len(path)] = << >> THEN <<".">> ELSE done[Len(path)]
    BY <2>2, NormalizedByRounds
  <2>5. done[k] = dir
    <3>1. k <= Len(path) /\ \A i \in 1..k : path[i] = dir[i]
      BY <1>1, <2>1, <2>2
    <3> QED
      BY <2>2, <3>1, AbsoluteIsKept
  <2>6. done[Len(path)] = at[n]
    <3>1. 0 \in 0..n /\ done[k + 0] = at[0]
      BY <1>1, <1>3, <2>1, <2>5
    <3>2. ASSUME NEW i \in 1..n PROVE path[k + i] = spelling[i]
      <4>1. k + i \in 1..(k + n) /\ ~(k + i <= k) /\ (k + i) - k = i
        BY <1>1, <2>1
      <4> QED
        BY <2>2, <4>1
    <3> QED
      BY <1>1, <2>1, <2>2, <3>1, <3>2, StayTogether
  <2> QED
    BY <1>2, <1>3, <1>4, <2>3, <2>4, <2>6
<1> QED
  BY <1>5, <1>6

\* However manifests spell it, a directory is recorded under one name: the path
\* where the operating system finds it.
LEMMA NamedOnceHolds == NamedOnce
<1> SUFFICES ASSUME NEW dir \in Directory, NEW spelling \in Spelling
             PROVE  Recorded(dir, spelling) = Reached(dir, spelling)
  BY DEF NamedOnce
<1>1. dir \in Absolute /\ spelling \in Seq(Component) /\ spelling # << >>
  BY DirectoriesAreAbsolute, SpellingsAreComponents
<1>2. PathConcat(dir, spelling) = Reached(dir, spelling) /\ Reached(dir, spelling) \in Absolute
  BY <1>1, ConcatenationReaches
<1> QED
  BY <1>2, AbsoluteIsNormal DEF Recorded

----------------------------------------------------------------------------
(* The package of a file. *)

\* A set of positions that is not empty has a last one.
LEMMA LastPosition ==
  ASSUME NEW n \in Nat, NEW T \in SUBSET (1..n), T # {}
  PROVE  Max(T) \in T /\ \A k \in T : k <= Max(T)
<1>1. \E x \in T : \A y \in T : x >= y
  <2> SUFFICES ASSUME \A x \in T : \E y \in T : ~(x >= y)
               PROVE  FALSE
    OBVIOUS
  <2> DEFINE S == {i \in 0..n : \E x \in T : x >= i}
  <2>1. 0 \in S
    <3>1. PICK x \in T : TRUE
      OBVIOUS
    <3>2. x \in Nat /\ x >= 0
      BY <3>1
    <3> QED
      BY <3>1, <3>2
  <2>2. ASSUME NEW i \in 0..n, i \in S, i < n PROVE i + 1 \in S
    <3>1. PICK x \in T : x >= i
      BY <2>2
    <3>2. PICK y \in T : ~(x >= y)
      OBVIOUS
    <3>3. x \in Nat /\ y \in Nat /\ i \in Nat /\ i + 1 \in 0..n
      BY <2>2
    <3>4. y >= i + 1
      BY <3>1, <3>2, <3>3
    <3> QED
      BY <3>3, <3>4
  <2> HIDE DEF S
  <2>3. 0..n \subseteq S
    BY <2>1, <2>2, RangeInduction
  <2>4. PICK x \in T : x >= n
    BY <2>3 DEF S
  <2>5. PICK y \in T : ~(x >= y)
    OBVIOUS
  <2> QED
    BY <2>4, <2>5
<1>2. Max(T) \in T /\ \A y \in T : Max(T) >= y
  BY <1>1 DEF Max
<1>3. \A y \in T : Max(T) >= y => y <= Max(T)
  BY <1>2
<1> QED
  BY <1>2, <1>3

\* What a sequence of characters is made of when it is put together.
LEMMA FunctionsAreSequences ==
  ASSUME NEW T, NEW k \in Nat, NEW s \in [1..k -> T]
  PROVE  s \in Seq(T) /\ Len(s) = k
BY LenProperties

\* The path of a file below a layout directory, component by component.
LEMMA FileBelow ==
  ASSUME NEW dir \in Seq(Component), NEW l \in LayoutDir, NEW s \in Seq(Name)
  PROVE  LET n == Len(dir)
             f == Append(Append(dir, l) \o s, "m.move")
         IN  /\ f \in Seq(Component) /\ Len(f) = n + Len(s) + 2
             /\ \A k \in 1..n : f[k] = dir[k]
             /\ f[n + 1] = l
             /\ \A k \in (n + 2)..(n + Len(s) + 1) : f[k] = s[k - (n + 1)]
             /\ f[n + Len(s) + 2] = "m.move"
<1> DEFINE n == Len(dir)
           inLayout == Append(dir, l)
           above == inLayout \o s
           f == Append(above, "m.move")
<1>1. l \in Component /\ s \in Seq(Component) /\ "m.move" \in Component /\ Len(s) \in Nat /\ n \in Nat
  BY NamesAreComponents, SeqMonotonic DEF Component
<1>2. /\ inLayout \in Seq(Component) /\ Len(inLayout) = n + 1 /\ inLayout[n + 1] = l
      /\ \A k \in 1..n : inLayout[k] = dir[k]
  BY <1>1, AppendProperties
<1> HIDE DEF inLayout
<1>3. /\ above \in Seq(Component) /\ Len(above) = (n + 1) + Len(s)
      /\ \A k \in 1..((n + 1) + Len(s)) : above[k] = IF k <= n + 1 THEN inLayout[k] ELSE s[k - (n + 1)]
  <2>1. /\ above \in Seq(Component) /\ Len(above) = Len(inLayout) + Len(s)
        /\ \A k \in 1..(Len(inLayout) + Len(s)) :
             above[k] = IF k <= Len(inLayout) THEN inLayout[k] ELSE s[k - Len(inLayout)]
    BY <1>1, <1>2, ConcatProperties, Zenon
  <2> QED
    BY <1>2, <2>1
<1> HIDE DEF above
<1>4. /\ f \in Seq(Component) /\ Len(f) = Len(above) + 1 /\ f[Len(above) + 1] = "m.move"
      /\ \A k \in 1..Len(above) : f[k] = above[k]
  BY <1>1, <1>3, AppendProperties
<1> HIDE DEF f, n
<1>5. Len(f) = n + Len(s) + 2 /\ f[n + Len(s) + 2] = "m.move"
  <2>1. Len(above) + 1 = n + Len(s) + 2
    BY <1>1, <1>3
  <2> QED
    BY <1>4, <2>1
<1>6. \A k \in 1..n : f[k] = dir[k]
  <2>1. \A k \in 1..n : k \in 1..((n + 1) + Len(s)) /\ k <= n + 1
    BY <1>1
  <2> QED
    BY <1>2, <1>3, <1>4, <2>1
<1>7. f[n + 1] = l
  <2>1. n + 1 \in 1..((n + 1) + Len(s)) /\ n + 1 <= n + 1
    BY <1>1
  <2> QED
    BY <1>2, <1>3, <1>4, <2>1
<1>8. \A k \in (n + 2)..(n + Len(s) + 1) : f[k] = s[k - (n + 1)]
  <2>1. \A k \in (n + 2)..(n + Len(s) + 1) : k \in 1..((n + 1) + Len(s)) /\ ~(k <= n + 1)
    BY <1>1
  <2> QED
    BY <1>3, <1>4, <2>1
<1> QED
  BY <1>4, <1>5, <1>6, <1>7, <1>8 DEF f, above, inLayout, n

\* A source file lies below a layout directory of its package, under names.
LEMMA SourceFiles ==
  ASSUME NEW dir \in Absolute, NEW file
  PROVE  file \in SourcesOf(dir) <=>
           /\ file \in Seq(Component)
           /\ Len(file) > Len(dir) + 1
           /\ Len(file) <= Len(dir) + Nesting + 2
           /\ \A k \in 1..Len(dir) : file[k] = dir[k]
           /\ file[Len(dir) + 1] \in LayoutDir
           /\ \A k \in (Len(dir) + 2)..(Len(file) - 1) : file[k] \in Name
           /\ file[Len(file)] = "m.move"
<1> DEFINE n == Len(dir)
<1>1. dir \in Seq(Component) /\ n \in Nat /\ n >= 1 /\ Nesting \in Nat
  BY PathsAssumption DEF Absolute
<1>3. file \in SourcesOf(dir) <=>
        \E l \in LayoutDir, s \in BoundedSeq(Name, Nesting) : file = Append(Append(dir, l) \o s, "m.move")
  <2>1. file \in SourcesOf(dir) <=>
          \E l \in LayoutDir : \E d \in Below(Append(dir, l), Name, Nesting) : file = Append(d, "m.move")
    BY DEF SourcesOf
  <2>2. ASSUME NEW l
        PROVE  (\E d \in Below(Append(dir, l), Name, Nesting) : file = Append(d, "m.move")) <=>
               \E s \in BoundedSeq(Name, Nesting) : file = Append(Append(dir, l) \o s, "m.move")
    BY DEF Below
  <2> QED
    BY <2>1, <2>2
<1>4. ASSUME file \in SourcesOf(dir)
      PROVE  /\ file \in Seq(Component)
             /\ Len(file) > n + 1
             /\ Len(file) <= n + Nesting + 2
             /\ \A k \in 1..n : file[k] = dir[k]
             /\ file[n + 1] \in LayoutDir
             /\ \A k \in (n + 2)..(Len(file) - 1) : file[k] \in Name
             /\ file[Len(file)] = "m.move"
  <2>1. PICK l \in LayoutDir, s \in BoundedSeq(Name, Nesting) : file = Append(Append(dir, l) \o s, "m.move")
    BY <1>3, <1>4
  <2>2. s \in Seq(Name) /\ Len(s) <= Nesting /\ Len(s) \in Nat /\ \A k \in 1..Len(s) : s[k] \in Name
    BY <1>1, BoundedSequences
  <2>3. /\ file \in Seq(Component) /\ Len(file) = n + Len(s) + 2
        /\ \A k \in 1..n : file[k] = dir[k]
        /\ file[n + 1] = l
        /\ \A k \in (n + 2)..(n + Len(s) + 1) : file[k] = s[k - (n + 1)]
        /\ file[n + Len(s) + 2] = "m.move"
    BY <1>1, <2>1, <2>2, FileBelow
  <2>4. \A k \in (n + 2)..(Len(file) - 1) : k \in (n + 2)..(n + Len(s) + 1) /\ k - (n + 1) \in 1..Len(s)
    BY <1>1, <2>2, <2>3
  <2> QED
    BY <1>1, <2>2, <2>3, <2>4
<1>5. ASSUME /\ file \in Seq(Component)
             /\ Len(file) > n + 1
             /\ Len(file) <= n + Nesting + 2
             /\ \A k \in 1..n : file[k] = dir[k]
             /\ file[n + 1] \in LayoutDir
             /\ \A k \in (n + 2)..(Len(file) - 1) : file[k] \in Name
             /\ file[Len(file)] = "m.move"
      PROVE  file \in SourcesOf(dir)
  <2> DEFINE len == Len(file) - (n + 2)
             s == [i \in 1..len |-> file[i + (n + 1)]]
             f == Append(Append(dir, file[n + 1]) \o s, "m.move")
  <2>1. Len(file) \in Nat /\ len \in Nat /\ len <= Nesting
    BY <1>1, <1>5
  <2>2. \A i \in 1..len : i + (n + 1) \in (n + 2)..(Len(file) - 1)
    BY <1>1, <2>1
  <2>3. s \in [1..len -> Name]
    BY <1>5, <2>2
  <2>4. s \in Seq(Name) /\ Len(s) = len
    BY <2>1, <2>3, FunctionsAreSequences, Zenon
  <2>5. s \in BoundedSeq(Name, Nesting)
    BY <1>1, <2>1, <2>4, BoundedSequences
  <2>6. /\ f \in Seq(Component) /\ Len(f) = n + len + 2
        /\ \A k \in 1..n : f[k] = dir[k]
        /\ f[n + 1] = file[n + 1]
        /\ \A k \in (n + 2)..(n + len + 1) : f[k] = s[k - (n + 1)]
        /\ f[n + len + 2] = "m.move"
    <3> HIDE DEF s
    <3> QED
      BY <1>1, <1>5, <2>4, FileBelow
  <2>7. \A k \in (n + 2)..(n + len + 1) : s[k - (n + 1)] = file[k]
    <3>1. \A k \in (n + 2)..(n + len + 1) : k - (n + 1) \in 1..len /\ (k - (n + 1)) + (n + 1) = k
      BY <1>1, <2>1
    <3> QED
      BY <3>1
  <2> HIDE DEF s, f
  <2>8. Len(f) = Len(file) /\ n + len + 2 = Len(file)
    BY <1>1, <2>1, <2>6
  <2>9. \A k \in 1..Len(file) :
          k \in 1..n \/ k = n + 1 \/ k \in (n + 2)..(n + len + 1) \/ k = n + len + 2
    BY <1>1, <2>1
  <2>10. \A k \in 1..Len(file) : f[k] = file[k]
    BY <1>5, <2>6, <2>7, <2>8, <2>9
  <2>11. f = file
    BY <1>5, <2>6, <2>8, <2>10, SeqEqual
  <2> QED
    BY <1>3, <1>5, <2>5, <2>11 DEF f
<1> QED
  BY <1>4, <1>5

\* The path of a source file, as a handler gets it from the URI, is its own
\* normal form.
LEMMA OpenedAsRecorded ==
  ASSUME NEW dir \in Absolute, NEW file \in SourcesOf(dir)
  PROVE  file \in Absolute /\ Opened(file) = file
<1> DEFINE n == Len(dir)
<1>1. n \in Nat /\ n >= 1 /\ dir[1] = "/" /\ \A k \in 2..n : dir[k] \notin {"/", ".", ".."}
  BY DEF Absolute
<1>2. /\ file \in Seq(Component) /\ Len(file) > n + 1 /\ Len(file) \in Nat
      /\ \A k \in 1..n : file[k] = dir[k]
      /\ file[n + 1] \in LayoutDir
      /\ \A k \in (n + 2)..(Len(file) - 1) : file[k] \in Name
      /\ file[Len(file)] = "m.move"
  BY SourceFiles
<1>3. \A k \in 2..Len(file) :
        \/ k \in 2..n /\ k \in 1..n
        \/ k = n + 1
        \/ k \in (n + 2)..(Len(file) - 1)
        \/ k = Len(file)
  BY <1>1, <1>2
<1>4. \A k \in 2..Len(file) : file[k] \notin {"/", ".", ".."}
  BY <1>1, <1>2, <1>3, NamesAreComponents
<1>5. Len(file) >= 1 /\ file[1] = "/"
  BY <1>1, <1>2
<1>6. file \in Absolute
  BY <1>2, <1>4, <1>5 DEF Absolute
<1>7. Head(file) = "/"
  BY <1>2, <1>5, EmptySeq, HeadTailProperties
<1>8. Opened(file) = Normalized(file)
  BY <1>7 DEF Opened, PathConcat
<1> QED
  BY <1>6, <1>8, AbsoluteIsNormal

\* The loops find a package with a manifest, the file's own or one inside of it
\* that has the file among its sources as well.
LEMMA FoundPackage ==
  ASSUME NEW M \in SUBSET Directory, NEW dir \in M, NEW file \in SourcesOf(dir)
  PROVE  LET found == Discover(M, Opened(file)) IN
         found \in M /\ IsPrefix(dir, found) /\ file \in SourcesOf(found)
<1> DEFINE n == Len(dir)
           beside == {k \in LayoutPlaces(file) : SubSeq(file, 1, k - 1) \in M}
           K == Max(beside)
           found == SubSeq(file, 1, K - 1)
<1>1. dir \in Absolute /\ dir \in Seq(Component) /\ n \in Nat /\ n >= 1
  BY DirectoriesAreAbsolute DEF Absolute
<1>2. Opened(file) = file
  BY <1>1, OpenedAsRecorded
<1>3. /\ file \in Seq(Component) /\ Len(file) > n + 1 /\ Len(file) \in Nat
      /\ Len(file) <= n + Nesting + 2
      /\ \A k \in 1..n : file[k] = dir[k]
      /\ file[n + 1] \in LayoutDir
      /\ \A k \in (n + 2)..(Len(file) - 1) : file[k] \in Name
      /\ file[Len(file)] = "m.move"
      /\ DOMAIN file = 1..Len(file)
  BY <1>1, SourceFiles
<1>4. \A j \in 1..Len(file) :
        /\ SubSeq(file, 1, j - 1) \in Seq(Component) /\ Len(SubSeq(file, 1, j - 1)) = j - 1
        /\ \A k \in 1..(j - 1) : SubSeq(file, 1, j - 1)[k] = file[k]
  BY <1>3, SubSeqProperties
<1>5. SubSeq(file, 1, n) = dir
  <2>1. n + 1 \in 1..Len(file) /\ (n + 1) - 1 = n
    BY <1>1, <1>3
  <2>2. /\ SubSeq(file, 1, n) \in Seq(Component) /\ Len(SubSeq(file, 1, n)) = n
        /\ \A k \in 1..n : SubSeq(file, 1, n)[k] = file[k]
    BY <1>4, <2>1
  <2> QED
    BY <1>1, <1>3, <2>2, SeqEqual
<1>6. n + 1 \in beside
  <2>1. n + 1 \in 1..Len(file) /\ n + 1 < Len(file) /\ (n + 1) - 1 = n
    BY <1>1, <1>3
  <2> QED
    BY <1>3, <1>5, <2>1 DEF LayoutPlaces
<1>7. beside \in SUBSET (1..Len(file))
  BY <1>3 DEF LayoutPlaces
<1>8. Discover(M, Opened(file)) = found
  BY <1>2, <1>6 DEF Discover
<1> HIDE DEF beside
<1>9. K \in beside /\ n + 1 <= K
  BY <1>3, <1>6, <1>7, LastPosition
<1> HIDE DEF K
<1>10. K \in 1..Len(file) /\ K < Len(file) /\ file[K] \in LayoutDir /\ found \in M
  BY <1>3, <1>9 DEF beside, LayoutPlaces
<1>11. /\ found \in Seq(Component) /\ Len(found) = K - 1
       /\ \A k \in 1..(K - 1) : found[k] = file[k]
  BY <1>4, <1>10
<1>12. found \in Absolute
  BY <1>10, DirectoriesAreAbsolute
<1> HIDE DEF found
<1>13. IsPrefix(dir, found)
  <2>1. n <= Len(found) /\ K \in Nat
    BY <1>1, <1>9, <1>10, <1>11
  <2>2. SubSeq(found, 1, n) \in Seq(Component) /\ Len(SubSeq(found, 1, n)) = n
        /\ \A k \in 1..n : SubSeq(found, 1, n)[k] = found[k]
    BY <1>1, <1>11, <2>1, SubSeqProperties
  <2>3. \A k \in 1..n : found[k] = dir[k]
    <3>1. \A k \in 1..n : k \in 1..(K - 1)
      BY <1>1, <1>9, <2>1
    <3> QED
      BY <1>3, <1>11, <3>1
  <2>4. SubSeq(found, 1, n) = dir
    BY <1>1, <2>2, <2>3, SeqEqual
  <2>5. SubSeq(dir, 1, n) = dir
    BY <1>1, SubSeqFull
  <2> QED
    BY <2>1, <2>4, <2>5 DEF IsPrefix
<1>14. file \in SourcesOf(found)
  <2>1. /\ Len(found) + 1 = K /\ Len(found) + 2 = K + 1 /\ K \in Nat
        /\ Len(file) > K /\ Nesting \in Nat /\ Len(file) <= (K - 1) + Nesting + 2
    BY <1>1, <1>3, <1>9, <1>10, <1>11, PathsAssumption
  <2>2. \A k \in (K + 1)..(Len(file) - 1) : k \in (n + 2)..(Len(file) - 1)
    BY <1>1, <1>3, <1>9, <2>1
  <2>3. \A k \in 1..Len(found) : file[k] = found[k]
    BY <1>11
  <2> QED
    BY <1>3, <1>10, <1>11, <1>12, <2>1, <2>2, <2>3, SourceFiles
<1> QED
  BY <1>8, <1>10, <1>13, <1>14

\* That is so for all packages, wherever they lie.
LEMMA AllSourcesFound ==
  ASSUME NEW present \in SUBSET Pkg
  PROVE  SourcesFound(present)
<1> SUFFICES ASSUME NEW at \in Places, NEW p \in present, NEW file \in SourcesOf(at[p])
             PROVE  LET found == Discover({at[q] : q \in present}, Opened(file)) IN
                    \E q \in present :
                      /\ found = at[q]
                      /\ IsPrefix(at[p], found)
                      /\ file \in SourcesOf(found)
  BY DEF SourcesFound
<1> DEFINE M == {at[q] : q \in present}
           found == Discover(M, Opened(file))
<1>1. M \in SUBSET Directory /\ at[p] \in M
  BY DEF Places
<1>2. found \in M /\ IsPrefix(at[p], found) /\ file \in SourcesOf(found)
  <2> HIDE DEF M
  <2> QED
    BY <1>1, FoundPackage
<1>3. PICK q \in present : found = at[q]
  BY <1>2
<1> QED
  BY <1>2, <1>3

\* Whatever the manifests spell and wherever the packages lie, a directory is
\* recorded under the one name by which the handlers look for it, and they find
\* it from every source file of a package that has a manifest
\* (normal_path_components, discover_manifest_and_kind).
THEOREM FilesFindTheirPackageAlways == Spec => []FilesFindTheirPackage
<1>1. FilesFindTheirPackage
  <2> DEFINE present == {p \in Pkg : HasManifest(p)}
  <2>1. SourcesFound(present) = TRUE
    <3>1. SourcesFound(present)
      BY AllSourcesFound
    <3>2. SourcesFound(present) \in BOOLEAN
      BY DEF SourcesFound
    <3> QED
      BY <3>1, <3>2
  <2>2. <<present, TRUE>> \in Findings
    BY <2>1 DEF Findings
  <2> QED
    BY <2>2, NamedOnceHolds DEF FilesFindTheirPackage
<1> QED
  BY <1>1, PTL
====
