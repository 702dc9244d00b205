---- MODULE ComputationProofs ----
(***************************************************************************)
(* Proofs about the two modules whose matter is what a program computes:   *)
(* SourceLocations and SpecGenerator.                                      *)
(*                                                                         *)
(* SourceLocations, for any files and any texts: the backward map is never *)
(* stale, the list of line starts that is kept for a file is that of its   *)
(* text, and ranges are translated to the lines and columns they cover.    *)
(* The loop that finds the line starts and the bisection that looks them   *)
(* up are the two parts of the argument about texts.                       *)
(*                                                                         *)
(* SpecGenerator, for any statements over any expressions and any width of *)
(* the integers: the generated lines claim no abort that does not happen,  *)
(* cover every abort of what they can express, show declared names only,   *)
(* and hold no idle let.                                                   *)
(*                                                                         *)
(* A loop is a function on the numbers of its rounds, and an expression a  *)
(* tree.  Induction over rounds is by the first round that goes wrong, and *)
(* over trees by their height; that a recursive function has the values    *)
(* its definition gives it is shown from a loop that computes them.        *)
(***************************************************************************)
EXTENDS SourceLocations, SpecGenerator, FiniteSetTheorems, WellFoundedInduction, TLAPS

----------------------------------------------------------------------------
(* Loops. *)

\* A set that has 0, and each number's successor up to n, has all up to n.
LEMMA RangeInduction ==
  ASSUME NEW n \in Nat, NEW S, 0 \in S, \A i \in 0..n : i \in S /\ i < n => i + 1 \in S
  PROVE  0..n \subseteq S
<1> SUFFICES ASSUME NEW x \in 0..n, x \notin S PROVE FALSE
  OBVIOUS
<1> DEFINE T == (0..n) \ S
<1>1. T \subseteq Nat /\ T # {}
  OBVIOUS
<1>2. PICK least \in T : \A y \in T : ~(<<y, least>> \in OpToRel(<, Nat))
  BY <1>1, NatLessThanWellFounded, WFMin, Zenon
<1>3. least \in Nat /\ least # 0 /\ least \in 0..n /\ least \notin S
  BY <1>1, <1>2
<1>4. least - 1 \in 0..n /\ least - 1 < n /\ (least - 1) + 1 = least
  BY <1>3
<1>5. least - 1 \in S
  <2>1. least - 1 \in T => <<least - 1, least>> \in OpToRel(<, Nat)
    BY <1>1, <1>3, <1>4 DEF OpToRel
  <2> QED
    BY <1>2, <1>4, <2>1
<1> QED
  BY <1>3, <1>4, <1>5

\* The results that a loop over 1..n may have after each of its rounds.
Runs(n, V, b, step) ==
  {g \in [0..n -> V] : g[0] = b /\ \A i \in 1..n : g[i] = step[i][g[i - 1]]}

\* There are some.
LEMMA Loop ==
  ASSUME NEW n \in Nat, NEW V, NEW b \in V, NEW step \in [1..n -> [V -> V]]
  PROVE  Runs(n, V, b, step) # {}
<1> DEFINE S == {k \in 0..n : Runs(k, V, b, step) # {}}
<1>1. 0 \in S
  <2>1. [i \in 0..0 |-> b] \in Runs(0, V, b, step)
    BY DEF Runs
  <2> QED
    BY <2>1
<1>2. ASSUME NEW k \in 0..n, k \in S, k < n PROVE k + 1 \in S
  <2>1. PICK g \in [0..k -> V] : g[0] = b /\ \A i \in 1..k : g[i] = step[i][g[i - 1]]
    BY <1>2 DEF Runs
  <2> DEFINE h == [i \in 0..(k + 1) |-> IF i = k + 1 THEN step[i][g[k]] ELSE g[i]]
  <2>2. g[k] \in V /\ k + 1 \in 1..n /\ step[k + 1][g[k]] \in V
    BY <1>2, <2>1
  <2>3. h \in [0..(k + 1) -> V] /\ h[0] = b
    BY <2>1, <2>2
  <2>4. ASSUME NEW i \in 1..(k + 1) PROVE h[i] = step[i][h[i - 1]]
    <3>1. CASE i = k + 1
      BY <3>1
    <3>2. CASE i # k + 1
      <4>1. i \in 1..k /\ i - 1 \in 0..(k + 1) /\ i - 1 # k + 1
        BY <3>2
      <4>2. h[i] = g[i] /\ h[i - 1] = g[i - 1]
        BY <3>2, <4>1
      <4> QED
        BY <2>1, <4>1, <4>2
    <3> QED
      BY <3>1, <3>2
  <2> HIDE DEF h
  <2>5. h \in Runs(k + 1, V, b, step)
    BY <2>3, <2>4 DEF Runs
  <2>6. k + 1 \in 0..n
    BY <1>2
  <2> QED
    BY <2>5, <2>6
<1> HIDE DEF S
<1>3. 0..n \subseteq S
  BY <1>1, <1>2, RangeInduction
<1>4. n \in S
  BY <1>3
<1> QED
  BY <1>4 DEF S

\* What follows the rounds is one of them.
LEMMA FollowsLoop ==
  ASSUME NEW n \in Nat, NEW V, NEW b \in V, NEW step \in [1..n -> [V -> V]],
         NEW f, f = [i \in 0..n |-> f[i]], f[0] = b,
         \A i \in 1..n : f[i - 1] \in V => f[i] = step[i][f[i - 1]]
  PROVE  f \in Runs(n, V, b, step)
<1> DEFINE S == {i \in 0..n : f[i] \in V}
<1>1. 0 \in S
  OBVIOUS
<1>2. ASSUME NEW i \in 0..n, i \in S, i < n PROVE i + 1 \in S
  <2>1. i + 1 \in 1..n /\ (i + 1) - 1 = i /\ i + 1 \in 0..n
    BY <1>2
  <2>2. f[i + 1] = step[i + 1][f[i]]
    BY <1>2, <2>1
  <2> QED
    BY <1>2, <2>1, <2>2
<1> HIDE DEF S
<1>3. 0..n \subseteq S
  BY <1>1, <1>2, RangeInduction
<1>4. \A i \in 0..n : f[i] \in V
  BY <1>3 DEF S
<1>5. \A i \in 1..n : f[i] = step[i][f[i - 1]]
  <2>1. \A i \in 1..n : i - 1 \in 0..n
    OBVIOUS
  <2> QED
    BY <1>4, <2>1
<1> QED
  BY <1>4, <1>5 DEF Runs

----------------------------------------------------------------------------
(* The lines of a text. *)

\* What the loop of FileLineMapping::update does in each round.
LEMMA StartsLoop ==
  ASSUME NEW text \in Seq({"c", NL})
  PROVE  /\ StartsUpTo(text)[0] = <<0>>
         /\ \A i \in 0..Len(text) : StartsUpTo(text)[i] \in Seq(Nat)
         /\ \A i \in 1..Len(text) :
              StartsUpTo(text)[i] = IF text[i] = NL THEN Append(StartsUpTo(text)[i - 1], i)
                                    ELSE StartsUpTo(text)[i - 1]
<1> DEFINE n == Len(text)
           V == Seq(Nat)
           step == [i \in 1..n |-> [v \in V |-> IF text[i] = NL THEN Append(v, i) ELSE v]]
<1>1. n \in Nat /\ <<0>> \in V /\ \A v \in V, i \in Nat : Append(v, i) \in V
  OBVIOUS
<1>2. step \in [1..n -> [V -> V]]
  <2> HIDE DEF n, V
  <2>1. \A i \in 1..n : i \in Nat
    BY <1>1
  <2>2. ASSUME NEW i \in 1..n, NEW v \in V PROVE (IF text[i] = NL THEN Append(v, i) ELSE v) \in V
    BY <1>1, <2>1
  <2> QED
    BY <2>2
<1>3. \A i \in 1..n : \A v \in V : step[i][v] = IF text[i] = NL THEN Append(v, i) ELSE v
  <2> HIDE DEF n, V
  <2> QED
    OBVIOUS
<1> HIDE DEF step, n, V
<1>4. PICK g \in [0..n -> V] : g[0] = <<0>> /\ \A i \in 1..n : g[i] = step[i][g[i - 1]]
  <2>1. Runs(n, V, <<0>>, step) # {}
    BY <1>1, <1>2, Loop
  <2> QED
    BY <2>1 DEF Runs
<1>5. ASSUME NEW i \in 0..n
      PROVE  g[i] = IF i = 0 THEN <<0>> ELSE IF text[i] = NL THEN Append(g[i - 1], i) ELSE g[i - 1]
  <2>1. i # 0 => i \in 1..n /\ i - 1 \in 0..n /\ g[i - 1] \in V
    BY <1>1, <1>4
  <2> QED
    BY <1>3, <1>4, <2>1
<1>6. g = [i \in 0..n |-> IF i = 0 THEN <<0>> ELSE IF text[i] = NL THEN Append(g[i - 1], i) ELSE g[i - 1]]
  BY <1>4, <1>5
<1> DEFINE u == StartsUpTo(text)
<1>7. u = [i \in 0..n |-> IF i = 0 THEN <<0>> ELSE IF text[i] = NL THEN Append(u[i - 1], i) ELSE u[i - 1]]
  BY <1>6 DEF StartsUpTo, n
<1> HIDE DEF u
<1>8. /\ u[0] = <<0>>
      /\ \A i \in 1..n : u[i] = IF text[i] = NL THEN Append(u[i - 1], i) ELSE u[i - 1]
  <2>1. 0 \in 0..n /\ \A i \in 1..n : i \in 0..n /\ i # 0
    BY <1>1
  <2> QED
    BY <1>7, <2>1
<1>9. u \in Runs(n, V, <<0>>, step)
  <2>1. u = [i \in 0..n |-> u[i]]
    BY <1>7
  <2>2. \A i \in 1..n : u[i - 1] \in V => u[i] = step[i][u[i - 1]]
    BY <1>3, <1>8
  <2> QED
    BY <1>1, <1>2, <1>8, <2>1, <2>2, FollowsLoop
<1>10. \A i \in 0..n : u[i] \in V
  BY <1>9 DEF Runs
<1> QED
  BY <1>8, <1>10 DEF u, n, V

\* The newlines among the first i characters of a text.
NewlinesUpTo(text, i) == {j \in 1..i : text[j] = NL}

\* What a list of line starts v has to do with the first i characters: it has
\* the start of the text and the byte after each newline, in order.
StartsOf(v, text, i) ==
  /\ v \in Seq(Nat)
  /\ Len(v) = 1 + Cardinality(NewlinesUpTo(text, i))
  /\ v[1] = 0
  /\ \A k \in 1..Len(v) : v[k] <= i
  /\ \A k, l \in 1..Len(v) : k < l => v[k] < v[l]
  /\ \A k \in 2..Len(v) : v[k] \in NewlinesUpTo(text, i)
  /\ \A j \in NewlinesUpTo(text, i) : j <= v[Len(v)]

\* Reading one more character adds it to the newlines, or does not.
LEMMA OneMoreNewline ==
  ASSUME NEW text, NEW i \in Nat
  PROVE  /\ IsFiniteSet(NewlinesUpTo(text, i))
         /\ Cardinality(NewlinesUpTo(text, i)) \in Nat
         /\ text[i + 1] = NL =>
              /\ NewlinesUpTo(text, i + 1) = NewlinesUpTo(text, i) \cup {i + 1}
              /\ Cardinality(NewlinesUpTo(text, i + 1)) = Cardinality(NewlinesUpTo(text, i)) + 1
         /\ text[i + 1] # NL => NewlinesUpTo(text, i + 1) = NewlinesUpTo(text, i)
<1>1. IsFiniteSet(NewlinesUpTo(text, i)) /\ Cardinality(NewlinesUpTo(text, i)) \in Nat
  <2>1. NewlinesUpTo(text, i) \subseteq 1..i
    BY DEF NewlinesUpTo
  <2>2. IsFiniteSet(1..i)
    BY FS_Interval
  <2> QED
    BY <2>1, <2>2, FS_Subset, FS_CardinalityType
<1>2. i + 1 \notin NewlinesUpTo(text, i)
  BY DEF NewlinesUpTo
<1>3. 1..(i + 1) = (1..i) \cup {i + 1}
  OBVIOUS
<1>4. text[i + 1] = NL => NewlinesUpTo(text, i + 1) = NewlinesUpTo(text, i) \cup {i + 1}
  BY <1>3 DEF NewlinesUpTo
<1>5. text[i + 1] # NL => NewlinesUpTo(text, i + 1) = NewlinesUpTo(text, i)
  BY <1>3 DEF NewlinesUpTo
<1> QED
  BY <1>1, <1>2, <1>4, <1>5, FS_AddElement

\* The loop has found the line starts of what it has read.
LEMMA LoopFindsStarts ==
  ASSUME NEW text \in Seq({"c", NL})
  PROVE  \A i \in 0..Len(text) : StartsOf(StartsUpTo(text)[i], text, i)
<1> DEFINE n == Len(text)
           u == StartsUpTo(text)
           S == {i \in 0..n : StartsOf(u[i], text, i)}
<1>1. n \in Nat /\ 0 \in 0..n
  OBVIOUS
<1>2. 0 \in S
  <2>1. NewlinesUpTo(text, 0) = {}
    BY DEF NewlinesUpTo
  <2>2. u[0] = <<0>>
    BY StartsLoop
  <2>3. StartsOf(<<0>>, text, 0)
    <3> DEFINE v == <<0>>
    <3>1. v \in Seq(Nat) /\ Len(v) = 1 /\ v[1] = 0
      OBVIOUS
    <3> HIDE DEF v
    <3>2. Len(v) = 1 + Cardinality(NewlinesUpTo(text, 0))
      <4>1. Cardinality(NewlinesUpTo(text, 0)) = 0
        BY <2>1, FS_EmptySet, Zenon
      <4> QED
        BY <3>1, <4>1
    <3>3. StartsOf(v, text, 0)
      BY <2>1, <3>1, <3>2 DEF StartsOf
    <3> QED
      BY <3>3 DEF v
  <2> QED
    BY <1>1, <2>2, <2>3
<1>3. ASSUME NEW i \in 0..n, i \in S, i < n PROVE i + 1 \in S
  <2> DEFINE v == u[i]
             w == u[i + 1]
  <2>1. i \in Nat /\ i + 1 \in 1..n /\ (i + 1) - 1 = i /\ i + 1 \in 0..n
    BY <1>1, <1>3
  <2>2. StartsOf(v, text, i)
    BY <1>3
  <2>3. w = IF text[i + 1] = NL THEN Append(v, i + 1) ELSE v
    BY <2>1, StartsLoop
  <2> HIDE DEF v, w
  <2>4. StartsOf(w, text, i + 1)
    <3>1. CASE text[i + 1] # NL
      BY <2>1, <2>2, <2>3, <3>1, OneMoreNewline DEF StartsOf
    <3>2. CASE text[i + 1] = NL
      <4>1. /\ v \in Seq(Nat) /\ Len(v) \in Nat /\ Len(v) >= 1
            /\ NewlinesUpTo(text, i + 1) = NewlinesUpTo(text, i) \cup {i + 1}
        BY <2>1, <2>2, <3>2, OneMoreNewline DEF StartsOf
      <4>2. /\ w \in Seq(Nat) /\ Len(w) = Len(v) + 1 /\ w[Len(w)] = i + 1
            /\ \A k \in 1..Len(v) : w[k] = v[k] /\ v[k] \in Nat
        BY <2>1, <2>3, <3>2, <4>1
      <4>3. Len(w) = 1 + Cardinality(NewlinesUpTo(text, i + 1))
        BY <2>1, <2>2, <3>2, <4>2, OneMoreNewline DEF StartsOf
      <4>4. \A k \in 1..Len(w) : k \in 1..Len(v) \/ k = Len(w)
        BY <4>1, <4>2
      <4>5. w[1] = 0 /\ \A k \in 1..Len(w) : w[k] <= i + 1
        BY <2>1, <2>2, <4>1, <4>2, <4>4 DEF StartsOf
      <4>6. ASSUME NEW k \in 1..Len(w), NEW l \in 1..Len(w), k < l PROVE w[k] < w[l]
        <5>1. k \in 1..Len(v)
          BY <4>1, <4>2, <4>6
        <5>2. w[k] = v[k] /\ v[k] <= i /\ v[k] \in Nat
          BY <2>2, <4>2, <5>1 DEF StartsOf
        <5>3. CASE l = Len(w)
          BY <2>1, <4>2, <5>2, <5>3
        <5>4. CASE l \in 1..Len(v)
          BY <2>2, <4>2, <4>6, <5>1, <5>4 DEF StartsOf
        <5> QED
          BY <4>4, <5>3, <5>4
      <4>7. \A k \in 2..Len(w) : w[k] \in NewlinesUpTo(text, i + 1)
        <5>1. \A k \in 2..Len(w) : k \in 2..Len(v) \/ k = Len(w)
          BY <4>1, <4>2
        <5>2. \A k \in 2..Len(v) : w[k] \in NewlinesUpTo(text, i)
          BY <2>2, <4>2 DEF StartsOf
        <5> QED
          BY <4>1, <4>2, <5>1, <5>2
      <4>8. \A j \in NewlinesUpTo(text, i + 1) : j <= w[Len(w)]
        BY <2>1, <4>2 DEF NewlinesUpTo
      <4> QED
        BY <4>2, <4>3, <4>5, <4>6, <4>7, <4>8 DEF StartsOf
    <3> QED
      BY <3>1, <3>2
  <2> QED
    BY <2>1, <2>4 DEF w
<1> HIDE DEF n, S
<1>4. 0..n \subseteq S
  BY <1>1, <1>2, <1>3, RangeInduction
<1> QED
  BY <1>4 DEF n, S

\* What is read later only adds starts that lie behind.
LEMMA LaterStartsLieBehind ==
  ASSUME NEW text \in Seq({"c", NL}), NEW i \in 0..Len(text), NEW j \in i..Len(text)
  PROVE  LET v == StartsUpTo(text)[i]
             w == StartsUpTo(text)[j]
         IN  /\ Len(v) <= Len(w)
             /\ \A k \in 1..Len(v) : w[k] = v[k]
             /\ \A k \in (Len(v) + 1)..Len(w) : w[k] > i
<1> DEFINE n == Len(text)
           u == StartsUpTo(text)
           v == u[i]
           Good(w) == /\ w \in Seq(Nat) /\ Len(v) <= Len(w)
                      /\ \A k \in 1..Len(v) : w[k] = v[k]
                      /\ \A k \in (Len(v) + 1)..Len(w) : w[k] > i
           S == {l \in 0..n : i <= l => Good(u[l])}
<1>1. n \in Nat /\ i \in Nat /\ v \in Seq(Nat)
  BY StartsLoop
<1>2. Good(v)
  BY <1>1
<1>3. 0 \in S
  <2>1. 0 \in 0..n /\ (i <= 0 => i = 0)
    BY <1>1
  <2> QED
    BY <1>2, <2>1
<1>4. ASSUME NEW l \in 0..n, l \in S, l < n PROVE l + 1 \in S
  <2> DEFINE x == u[l]
             y == u[l + 1]
  <2>1. l \in Nat /\ l + 1 \in 1..n /\ (l + 1) - 1 = l /\ l + 1 \in 0..n
    BY <1>1, <1>4
  <2>2. y = IF text[l + 1] = NL THEN Append(x, l + 1) ELSE x
    BY <2>1, StartsLoop
  <2> HIDE DEF v
  <2>3. CASE i <= l
    <3>1. Good(x)
      BY <1>4, <2>3
    <3> HIDE DEF x, y
    <3>2. Good(y)
      <4>1. CASE text[l + 1] = NL
        <5>1. Len(x) \in Nat /\ y \in Seq(Nat) /\ Len(y) = Len(x) + 1 /\ y[Len(y)] = l + 1
              /\ \A k \in 1..Len(x) : y[k] = x[k]
          BY <2>1, <2>2, <3>1, <4>1
        <5>2. Len(v) \in Nat
          BY <1>1
        <5>3. \A k \in 1..Len(v) : y[k] = v[k]
          BY <3>1, <5>1, <5>2
        <5>4. \A k \in (Len(v) + 1)..Len(y) : y[k] > i
          <6>1. \A k \in (Len(v) + 1)..Len(y) : k \in (Len(v) + 1)..Len(x) \/ k = Len(y)
            BY <5>1, <5>2
          <6>2. \A k \in (Len(v) + 1)..Len(x) : k \in 1..Len(x)
            BY <5>1, <5>2
          <6>3. \A k \in (Len(v) + 1)..Len(x) : y[k] > i
            BY <3>1, <5>1, <6>2
          <6>4. y[Len(y)] > i
            BY <1>1, <2>1, <2>3, <5>1
          <6> QED
            BY <6>1, <6>3, <6>4
        <5> QED
          BY <3>1, <5>1, <5>2, <5>3, <5>4
      <4>2. CASE text[l + 1] # NL
        BY <2>2, <3>1, <4>2
      <4> QED
        BY <4>1, <4>2
    <3> QED
      BY <2>1, <3>2 DEF y
  <2>4. CASE i = l + 1
    BY <1>2, <2>1, <2>4 DEF v
  <2>5. CASE i > l + 1
    BY <1>1, <2>1, <2>5
  <2> QED
    BY <1>1, <2>1, <2>3, <2>4, <2>5
<1> HIDE DEF S
<1>5. 0..n \subseteq S
  BY <1>1, <1>3, <1>4, RangeInduction
<1>6. Good(u[j])
  BY <1>1, <1>5 DEF S
<1> QED
  BY <1>6

\* The list that is kept for a text: up to any byte of the text it has the
\* starts up to there, then some that lie behind, up to the end of the text.
LEMMA LineStartsExtend ==
  ASSUME NEW text \in Seq({"c", NL})
  PROVE  /\ LineStarts(text) \in Seq(Nat)
         /\ LineStarts(text) # << >>
         /\ Last(LineStarts(text)) = Len(text)
         /\ \A b \in 0..Len(text) :
              LET v == StartsUpTo(text)[b]
                  vec == LineStarts(text)
              IN  b < Len(text) =>
                    /\ Len(v) < Len(vec)
                    /\ \A k \in 1..Len(v) : vec[k] = v[k]
                    /\ \A k \in (Len(v) + 1)..Len(vec) : vec[k] > b
<1> DEFINE n == Len(text)
           u == StartsUpTo(text)
           starts == u[n]
           vec == LineStarts(text)
           open == text # << >> /\ Last(text) # NL
<1>1. n \in Nat /\ n \in 0..n /\ (text = << >> <=> n = 0) /\ Last(text) = text[n]
  BY DEF Last
<1>2. starts \in Seq(Nat) /\ Len(starts) \in Nat /\ Len(starts) >= 1 /\ StartsOf(starts, text, n)
  <2>1. starts \in Seq(Nat) /\ StartsOf(starts, text, n)
    BY <1>1, StartsLoop, LoopFindsStarts
  <2>2. Len(starts) = 1 + Cardinality(NewlinesUpTo(text, n))
    BY <2>1 DEF StartsOf
  <2> QED
    BY <1>1, <2>1, <2>2, OneMoreNewline
<1>3. vec = IF open THEN Append(starts, n) ELSE starts
  BY DEF LineStarts
<1>4. ~open => starts[Len(starts)] = n
  <2>1. CASE n = 0
    <3>1. starts[Len(starts)] <= 0 /\ starts[Len(starts)] \in Nat
      BY <1>2, <2>1 DEF StartsOf
    <3> QED
      BY <2>1, <3>1
  <2>2. CASE n # 0 /\ text[n] = NL
    <3>1. n \in NewlinesUpTo(text, n)
      BY <1>1, <2>2 DEF NewlinesUpTo
    <3>2. n <= starts[Len(starts)] /\ starts[Len(starts)] <= n /\ starts[Len(starts)] \in Nat
      BY <1>2, <3>1 DEF StartsOf
    <3> QED
      BY <1>1, <3>2
  <2> QED
    BY <1>1, <2>1, <2>2
<1> HIDE DEF starts, vec, open, n, u
<1>5. /\ vec \in Seq(Nat) /\ Len(vec) \in Nat /\ Len(vec) >= Len(starts) /\ vec[Len(vec)] = n
      /\ \A k \in 1..Len(starts) : vec[k] = starts[k]
      /\ \A k \in (Len(starts) + 1)..Len(vec) : vec[k] = n
  BY <1>1, <1>2, <1>3, <1>4
<1>6. vec # << >> /\ Last(vec) = n
  BY <1>2, <1>5 DEF Last
<1>7. ASSUME NEW b \in 0..n, b < n
      PROVE  /\ Len(u[b]) < Len(vec)
             /\ \A k \in 1..Len(u[b]) : vec[k] = u[b][k]
             /\ \A k \in (Len(u[b]) + 1)..Len(vec) : vec[k] > b
  <2> DEFINE v == u[b]
  <2>1. Len(v) <= Len(starts) /\ (\A k \in 1..Len(v) : starts[k] = v[k])
        /\ \A k \in (Len(v) + 1)..Len(starts) : starts[k] > b
    <3>1. n \in b..n
      BY <1>1, <1>7
    <3> QED
      BY <1>7, <3>1, LaterStartsLieBehind DEF n, u, starts
  <2>2. StartsOf(v, text, b) /\ v \in Seq(Nat)
    BY <1>7, StartsLoop, LoopFindsStarts DEF n, u
  <2> HIDE DEF v
  <2>3. Len(v) \in Nat /\ b \in Nat
    BY <1>1, <2>2
  <2>4. \A k \in 1..Len(v) : vec[k] = v[k]
    BY <1>2, <1>5, <2>1, <2>3
  <2>5. \A k \in (Len(v) + 1)..Len(vec) : vec[k] > b
    <3>1. ASSUME NEW k \in (Len(v) + 1)..Len(vec) PROVE vec[k] > b
      <4>1. (k \in (Len(v) + 1)..Len(starts) /\ k \in 1..Len(starts))
            \/ k \in (Len(starts) + 1)..Len(vec)
        BY <1>2, <1>5, <2>3, <3>1
      <4> QED
        BY <1>1, <1>5, <1>7, <2>1, <2>3, <4>1
    <3> QED
      BY <3>1
  <2>6. Len(v) # Len(vec)
    <3>1. Len(v) \in 1..Len(v) => v[Len(v)] <= b
      BY <2>2 DEF StartsOf
    <3> QED
      BY <1>1, <1>2, <1>5, <1>7, <2>3, <2>4, <3>1
  <2> QED
    BY <1>2, <1>5, <2>1, <2>3, <2>4, <2>5, <2>6 DEF v
<1> QED
  BY <1>5, <1>6, <1>7 DEF vec, n, u

----------------------------------------------------------------------------
(* Looking up a byte. *)

\* The place of a byte, by the starts up to it.
LEMMA PlaceByStarts ==
  ASSUME NEW text, NEW b \in Nat, NEW v, StartsOf(v, text, b)
  PROVE  PlaceOf(text, b) = [line |-> Len(v) - 1, col |-> b - v[Len(v)]]
<1> DEFINE before == NewlinesUpTo(text, b)
<1>1. Cardinality(before) \in Nat /\ Len(v) = 1 + Cardinality(before) /\ v \in Seq(Nat)
  BY OneMoreNewline DEF StartsOf
<1>2. Len(v) \in Nat /\ Len(v) >= 1 /\ Cardinality(before) = Len(v) - 1
  BY <1>1
<1>3. PlaceOf(text, b) =
        [line |-> Cardinality(before),
         col |-> IF before = {} THEN b ELSE b - CHOOSE j \in before : \A l \in before : l <= j]
  BY DEF PlaceOf, NewlinesUpTo
<1>4. CASE before = {}
  <2>1. Cardinality(before) = 0
    BY <1>4, FS_EmptySet, Zenon
  <2>2. Len(v) = 1 /\ v[Len(v)] = 0
    BY <1>1, <2>1 DEF StartsOf
  <2> QED
    BY <1>2, <1>3, <1>4, <2>2
<1>5. CASE before # {}
  <2>1. Len(v) # 1
    <3>1. Cardinality(before) # 0
      BY <1>5, OneMoreNewline, FS_EmptySet
    <3> QED
      BY <1>1, <3>1
  <2>2. v[Len(v)] \in before /\ \A l \in before : l <= v[Len(v)]
    <3>1. Len(v) \in 2..Len(v)
      <4>1. \A k \in Nat : k >= 1 /\ k # 1 => k \in 2..k
        OBVIOUS
      <4> QED
        BY <1>2, <2>1, <4>1, Zenon
    <3> QED
      BY <3>1 DEF StartsOf
  <2>3. before \subseteq Nat
    BY DEF NewlinesUpTo
  <2> DEFINE latest == CHOOSE j \in before : \A l \in before : l <= j
  <2>4. latest \in before /\ \A l \in before : l <= latest
    BY <2>2
  <2>5. latest = v[Len(v)]
    BY <2>2, <2>3, <2>4
  <2> QED
    BY <1>2, <1>3, <1>5, <2>5
<1> QED
  BY <1>4, <1>5

\* Bisection finds the place of each byte before the end of the text.
LEMMA SearchFindsPlace ==
  ASSUME NEW text \in Seq({"c", NL}), NEW b \in 0..Len(text), b < Len(text)
  PROVE  search(LineStarts(text), b) = PlaceOf(text, b)
<1> DEFINE vec == LineStarts(text)
           v == StartsUpTo(text)[b]
           K == Len(v)
           smaller == {i \in DOMAIN vec : vec[i] < b}
<1>1. StartsOf(v, text, b)
  BY LoopFindsStarts
<1>2. /\ vec \in Seq(Nat) /\ K < Len(vec)
      /\ \A k \in 1..K : vec[k] = v[k]
      /\ \A k \in (K + 1)..Len(vec) : vec[k] > b
  BY LineStartsExtend
<1>3. K \in Nat /\ K >= 1 /\ Len(vec) \in Nat /\ b \in Nat /\ DOMAIN vec = 1..Len(vec)
  <2>1. Cardinality(NewlinesUpTo(text, b)) \in Nat /\ K = 1 + Cardinality(NewlinesUpTo(text, b))
    BY <1>1, OneMoreNewline DEF StartsOf
  <2> QED
    BY <1>2, <2>1
<1>4. PlaceOf(text, b) = [line |-> K - 1, col |-> b - v[K]]
  BY <1>1, <1>3, PlaceByStarts
<1> HIDE DEF vec, v, K
<1>5. /\ \A k \in 1..Len(vec) : k \in 1..K \/ k \in (K + 1)..Len(vec)
      /\ \A k \in 1..K : k \in 1..Len(vec) /\ vec[k] \in Nat
      /\ K \in 1..K /\ K + 1 \in (K + 1)..Len(vec)
      /\ \A k \in (K + 1)..Len(vec) : vec[k] \in Nat
  BY <1>2, <1>3
<1>6. vec[K] <= b /\ vec[K] = v[K] /\ vec[K] \in Nat
  BY <1>1, <1>2, <1>5 DEF StartsOf, K
<1>7. \A k \in 1..(K - 1) : vec[k] < vec[K]
  <2>1. \A k \in 1..(K - 1) : k \in 1..K /\ k < K
    BY <1>3
  <2> QED
    BY <1>1, <1>2, <1>5, <2>1 DEF StartsOf, K
<1>8. search(vec, b) = [line |-> K - 1, col |-> b - vec[K]]
  <2>1. CASE vec[K] = b
    <3>1. smaller = 1..(K - 1)
      <4>1. \A k \in 1..K : k \in 1..(K - 1) \/ k = K
        BY <1>3
      <4>2. \A k \in 1..(K - 1) : k \in 1..K /\ vec[k] < b
        BY <1>3, <1>7, <2>1
      <4>3. \A k \in 1..Len(vec) : vec[k] < b => k \in 1..(K - 1)
        BY <1>2, <1>3, <1>5, <2>1, <4>1
      <4> QED
        BY <1>3, <1>5, <4>2, <4>3
    <3>2. Cardinality(1..(K - 1)) = K - 1
      BY <1>3, FS_Interval
    <3>3. bisect_left(vec, b) = K
      <4>1. bisect_left(vec, b) = 1 + Cardinality(1..(K - 1))
        BY <3>1 DEF bisect_left
      <4> QED
        BY <1>3, <3>2, <4>1
    <3> QED
      BY <2>1, <3>3 DEF search
  <2>2. CASE vec[K] < b
    <3>1. smaller = 1..K
      <4>1. \A k \in 1..K : vec[k] < b
        <5>1. \A k \in 1..K : k \in 1..(K - 1) \/ k = K
          BY <1>3
        <5> QED
          BY <1>3, <1>5, <1>6, <1>7, <2>2, <5>1
      <4>2. \A k \in 1..Len(vec) : vec[k] < b => k \in 1..K
        BY <1>2, <1>3, <1>5
      <4> QED
        BY <1>3, <1>5, <4>1, <4>2
    <3>2. Cardinality(1..K) = K
      BY <1>3, FS_Interval
    <3>3. bisect_left(vec, b) = K + 1
      <4>1. bisect_left(vec, b) = 1 + Cardinality(1..K)
        BY <3>1 DEF bisect_left
      <4> QED
        BY <1>3, <3>2, <4>1
    <3>4. vec[K + 1] # b
      BY <1>2, <1>3, <1>5
    <3> QED
      BY <1>3, <3>3, <3>4 DEF search
  <2> QED
    BY <1>3, <1>6, <2>1, <2>2
<1> QED
  BY <1>4, <1>6, <1>8 DEF vec

\* A range is translated to where its bytes are, by the two places.
LEMMA TranslatesToPlaces ==
  ASSUME NEW p, NEW text \in Seq({"c", NL}), m[p] = LineStarts(text),
         NEW s \in 0..Len(text), NEW e \in 0..Len(text)
  PROVE  LET last == IF e < s THEN s ELSE e IN
         translate(p, s, e) =
           IF last = Len(text)
           THEN None
           ELSE [start |-> PlaceOf(text, s), end |-> PlaceOf(text, last)]
<1> DEFINE n == Len(text)
           last == IF e < s THEN s ELSE e
           vec == LineStarts(text)
           v == StartsUpTo(text)[s]
           w == StartsUpTo(text)[last]
<1>1. n \in Nat /\ last \in s..n /\ last \in 0..n /\ s \in Nat /\ last \in Nat
  OBVIOUS
<1>2. Last(vec) = n
  BY LineStartsExtend
<1>3. CASE last = n
  BY <1>1, <1>2, <1>3 DEF translate
<1>4. CASE last # n
  <2>1. last < n /\ s < n /\ ~(Last(vec) <= last)
    BY <1>1, <1>2, <1>4
  <2>2. StartsOf(v, text, s) /\ StartsOf(w, text, last)
    BY <1>1, LoopFindsStarts
  <2>3. Len(v) \in Nat /\ Len(w) \in Nat
    BY <2>2 DEF StartsOf
  <2>4. /\ PlaceOf(text, s) = [line |-> Len(v) - 1, col |-> s - v[Len(v)]]
        /\ PlaceOf(text, last) = [line |-> Len(w) - 1, col |-> last - w[Len(w)]]
    BY <1>1, <2>2, PlaceByStarts
  <2>5. search(vec, s) = PlaceOf(text, s) /\ search(vec, last) = PlaceOf(text, last)
    BY <1>1, <2>1, SearchFindsPlace
  <2>6. Len(v) <= Len(w) /\ \A k \in 1..Len(v) : w[k] = v[k]
    BY <1>1, LaterStartsLieBehind
  <2>7. /\ vec \in Seq(Nat) /\ Len(v) < Len(vec) /\ Len(w) < Len(vec)
        /\ \A k \in 1..Len(v) : vec[k] = v[k]
        /\ \A k \in 1..Len(w) : vec[k] = w[k]
    BY <1>1, <2>1, LineStartsExtend
  <2> DEFINE onLine == search(vec, s).line + 2 \in DOMAIN vec /\ vec[search(vec, s).line + 2] > last
  <2>8. translate(p, s, e) =
          [start |-> PlaceOf(text, s),
           end |-> IF onLine
                   THEN [line |-> PlaceOf(text, s).line,
                         col |-> last - vec[PlaceOf(text, s).line + 1]]
                   ELSE PlaceOf(text, last)]
    BY <2>1, <2>5 DEF translate
  <2>9. search(vec, s).line + 2 = Len(v) + 1 /\ PlaceOf(text, s).line + 1 = Len(v)
    BY <2>3, <2>4, <2>5
  <2> HIDE DEF vec, v, w, last, n
  <2>10. Len(v) >= 1 /\ vec[Len(v)] = v[Len(v)]
    <3>1. Cardinality(NewlinesUpTo(text, s)) \in Nat /\ Len(v) = 1 + Cardinality(NewlinesUpTo(text, s))
      BY <1>1, <2>2, OneMoreNewline DEF StartsOf
    <3>2. Len(v) >= 1 /\ Len(v) \in 1..Len(v)
      BY <3>1
    <3> QED
      BY <2>7, <3>2
  <2>11. ASSUME onLine
         PROVE  [line |-> PlaceOf(text, s).line, col |-> last - vec[PlaceOf(text, s).line + 1]]
                  = PlaceOf(text, last)
    <3>1. vec[Len(v) + 1] > last
      BY <2>9, <2>11
    <3>2. Len(w) = Len(v)
      <4>1. ASSUME Len(v) # Len(w) PROVE FALSE
        <5>1. Len(v) + 1 \in 1..Len(w)
          BY <2>3, <2>6, <4>1
        <5>2. w[Len(v) + 1] <= last /\ w[Len(v) + 1] \in Nat
          BY <2>2, <5>1 DEF StartsOf
        <5> QED
          BY <1>1, <2>7, <3>1, <5>1, <5>2
      <4> QED
        BY <4>1
    <3>3. w[Len(w)] = v[Len(v)]
      <4>1. Len(v) \in 1..Len(v)
        BY <2>3, <2>10
      <4> QED
        BY <2>6, <3>2, <4>1
    <3> QED
      BY <2>4, <2>9, <2>10, <3>2, <3>3
  <2>12. translate(p, s, e) = [start |-> PlaceOf(text, s), end |-> PlaceOf(text, last)]
    BY <2>8, <2>11
  <2> QED
    BY <1>4, <2>12 DEF last, n
<1> QED
  BY <1>3, <1>4

----------------------------------------------------------------------------
(* The maps. *)

\* The forward map is what was sent, so that update finds, under the hash it
\* looks up there, the one entry that it has to drop; and the line starts kept
\* for a path are those of the text that was sent for it.
MapsInv ==
  /\ TypeOK
  /\ path_2_hash = sent
  /\ NeverStale
  /\ \A p \in Known : m[p] = LineStarts(sent[p])

\* Dropping an entry keeps the type of the map, and no hash leads to the path
\* afterwards.
LEMMA ForgetDropsPath ==
  ASSUME MapsInv, NEW path \in Path
  PROVE  /\ Forget(path) \in [Text -> Path \cup {None}]
         /\ \A h \in Text : Forget(path)[h] # path
         /\ \A h \in Text : Forget(path)[h] \in {hash_2_path[h], None}
<1>1. path # None
  BY ConstantsAssumption
<1>2. path_2_hash[path] = sent[path] /\ sent[path] \in Text \cup {None}
  BY DEF MapsInv, TypeOK
<1>3. ASSUME NEW h \in Text, hash_2_path[h] = path
      PROVE  sent[path] = h
  BY <1>1, <1>3 DEF MapsInv, NeverStale, get_path
<1>4. CASE path_2_hash[path] = None
  <2>1. Forget(path) = hash_2_path
    BY <1>4 DEF Forget
  <2>2. \A h \in Text : hash_2_path[h] # path
    BY <1>2, <1>3, <1>4, ConstantsAssumption
  <2> QED
    BY <2>1, <2>2 DEF MapsInv, TypeOK
<1>5. CASE path_2_hash[path] # None
  <2>1. Forget(path) = [hash_2_path EXCEPT ![path_2_hash[path]] = None]
    BY <1>5 DEF Forget
  <2>2. \A h \in Text : h # path_2_hash[path] => hash_2_path[h] # path
    BY <1>2, <1>3
  <2> QED
    BY <1>1, <1>2, <1>5, <2>1, <2>2 DEF MapsInv, TypeOK
<1> QED
  BY <1>4, <1>5

\* Once the entry of the path's last text is gone, the new entry is the only
\* one for the path, and those of other paths are as good as before.
LEMMA UpdateKeepsMaps ==
  ASSUME MapsInv, NEW path \in Path, NEW text \in Text, update(path, text)
  PROVE  MapsInv'
<1>1. TypeOK' /\ (path_2_hash = sent)'
  <2>1. LineStarts(text) \in Seq(Nat)
    BY ConstantsAssumption, LineStartsExtend
  <2> QED
    BY <2>1, ForgetDropsPath DEF MapsInv, TypeOK, update
<1>2. ASSUME NEW h \in Text, hash_2_path'[h] # None
      PROVE  sent'[hash_2_path'[h]] = h
  <2>1. hash_2_path'[h] = IF h = text THEN path ELSE Forget(path)[h]
    BY ForgetDropsPath DEF update
  <2>2. CASE h = text
    BY <2>1, <2>2 DEF update, MapsInv, TypeOK
  <2>3. CASE h # text
    <3>1. hash_2_path'[h] = hash_2_path[h] /\ hash_2_path[h] # path
      BY <1>2, <2>1, <2>3, ForgetDropsPath
    <3>2. hash_2_path[h] \in Path /\ sent[hash_2_path[h]] = h
      BY <1>2, <3>1 DEF MapsInv, TypeOK, NeverStale, get_path
    <3> QED
      BY <3>1, <3>2 DEF update, MapsInv, TypeOK
  <2> QED
    BY <2>2, <2>3
<1>3. NeverStale'
  BY <1>2 DEF NeverStale, get_path
<1>4. (\A p \in Known : m[p] = LineStarts(sent[p]))'
  <2>1. \A p \in Path : /\ m'[p] = IF p = path THEN LineStarts(text) ELSE m[p]
                        /\ sent'[p] = IF p = path THEN text ELSE sent[p]
    BY DEF update, MapsInv, TypeOK
  <2> QED
    BY <2>1 DEF MapsInv, Known
<1> QED
  BY <1>1, <1>3, <1>4 DEF MapsInv

\* It is an invariant.
LEMMA MapsInvAlways == Spec => []MapsInv
<1>1. Init => MapsInv
  BY ConstantsAssumption DEF Init, MapsInv, TypeOK, NeverStale, get_path, Known
<1>2. MapsInv /\ [Next]_vars => MapsInv'
  <2>1. CASE UNCHANGED vars
    BY <2>1 DEF vars, MapsInv, TypeOK, NeverStale, get_path, Known
  <2>2. ASSUME MapsInv, Next PROVE MapsInv'
    BY <2>2, UpdateKeepsMaps DEF Next
  <2> QED
    BY <2>1, <2>2
<1> QED
  BY <1>1, <1>2, PTL DEF Spec

\* The two maps keep their types.
THEOREM TypeCorrect == Spec => []TypeOK
<1>1. MapsInv => TypeOK
  BY DEF MapsInv
<1> QED
  BY <1>1, MapsInvAlways, PTL

\* However texts come and go, and whichever files share them, a hash never
\* leads to a file that has another text by now (PathBufHashMap::update).
THEOREM LocationsNeverStale == Spec => []NeverStale
<1>1. MapsInv => NeverStale
  BY DEF MapsInv
<1> QED
  BY <1>1, MapsInvAlways, PTL

\* What is translated is what the editor sent last.
LEMMA KnownTextsTranslate ==
  ASSUME MapsInv
  PROVE  TranslatesExactly
<1> SUFFICES ASSUME NEW p \in Known,
                    NEW s \in 0..Len(sent[p]), NEW e \in 0..Len(sent[p])
             PROVE  LET last == IF e < s THEN s ELSE e IN
                    translate(p, s, e) =
                      IF last = Len(sent[p])
                      THEN None
                      ELSE [start |-> PlaceOf(sent[p], s), end |-> PlaceOf(sent[p], last)]
  BY DEF TranslatesExactly
<1>1. sent[p] \in Seq({"c", NL}) /\ m[p] = LineStarts(sent[p])
  BY ConstantsAssumption DEF MapsInv, TypeOK, Known
<1> QED
  BY <1>1, TranslatesToPlaces

\* A hash that leads anywhere leads to a file of that very text, and a place in
\* it is translated by the line starts of that text.
LEMMA FoundInOwnText ==
  ASSUME MapsInv
  PROVE  ConvertsInOwnText
<1> SUFFICES ASSUME NEW h \in Text, NEW i \in 0..Len(h),
                    convert_loc_range(h, i, i) # None, i < Len(h)
             PROVE  /\ sent[convert_loc_range(h, i, i).path] = h
                    /\ convert_loc_range(h, i, i).range.start = PlaceOf(h, i)
  BY DEF ConvertsInOwnText
<1> DEFINE path == get_path(h)
<1>1. path # None /\ convert_loc_range(h, i, i) = [path |-> path, range |-> translate(path, i, i)]
  BY DEF convert_loc_range
<1>2. path \in Path /\ sent[path] = h
  BY <1>1 DEF MapsInv, TypeOK, NeverStale, get_path
<1>3. path \in Known /\ h \in Seq({"c", NL}) /\ i \in Nat /\ i # Len(h)
  BY <1>2, ConstantsAssumption DEF Known
<1>4. m[path] = LineStarts(h)
  BY <1>2, <1>3 DEF MapsInv
<1> HIDE DEF path
<1>5. translate(path, i, i) = [start |-> PlaceOf(h, i), end |-> PlaceOf(h, i)]
  BY <1>3, <1>4, TranslatesToPlaces
<1> QED
  BY <1>1, <1>2, <1>5

\* For any text, and any range in it, the two ends are reported at the lines
\* and columns where they are, whatever was opened and changed before
\* (FileLineMapping::update and translate).
THEOREM RangesTranslateExactly == Spec => []TranslatesExactly
<1>1. MapsInv => TranslatesExactly
  BY KnownTextsTranslate
<1> QED
  BY <1>1, MapsInvAlways, PTL

\* A location converts to the place it names in the text it was made from, or
\* not at all (convert_loc_range): the two maps never disagree.
THEOREM LocationsConvertInOwnText == Spec => []ConvertsInOwnText
<1>1. MapsInv => ConvertsInOwnText
  BY FoundInOwnText
<1> QED
  BY <1>1, MapsInvAlways, PTL

----------------------------------------------------------------------------
(* Trees. *)

\* What is assumed of an expression, and of its operands.
LEMMA Operand ==
  ASSUME NEW e \in Expr
  PROVE  /\ Operands(e) \subseteq Expr
         /\ e.height \in Nat /\ e.height < MaxHeight + 1
         /\ \A x \in Operands(e) : x.height < e.height
         /\ MaxHeight + 1 \in Nat
<1>1. e.args \in Seq(Expr) /\ \A i \in DOMAIN e.args : e.args[i] \in Expr
  BY ExprAssumption
<1>2. Operands(e) \subseteq Expr /\ \A x \in Operands(e) : x.height < e.height
  BY <1>1, ExprAssumption DEF Operands
<1>3. MaxHeight \in Nat /\ e.height \in 0..MaxHeight
  BY ExprAssumption
<1> QED
  BY <1>2, <1>3

\* A set that has every expression whose operands it has has all.
LEMMA TreeInduction ==
  ASSUME NEW S, \A e \in Expr : Operands(e) \subseteq S => e \in S
  PROVE  Expr \subseteq S
<1> DEFINE n == MaxHeight + 1
           H == {k \in 0..n : \A e \in Expr : e.height < k => e \in S}
<1>1. n \in Nat
  BY ExprAssumption
<1> HIDE DEF n
<1>2. 0 \in H
  BY <1>1, Operand
<1>3. ASSUME NEW k \in 0..n, k \in H, k < n PROVE k + 1 \in H
  <2>1. ASSUME NEW e \in Expr, e.height < k + 1 PROVE e \in S
    <3>1. \A x \in Operands(e) : x \in Expr /\ x.height < k
      BY <1>1, <2>1, Operand
    <3>2. Operands(e) \subseteq S
      BY <1>3, <3>1
    <3> QED
      BY <3>2
  <2> QED
    BY <1>1, <1>3, <2>1
<1> HIDE DEF H
<1>4. 0..n \subseteq H
  BY <1>1, <1>2, <1>3, RangeInduction
<1>5. n \in H
  BY <1>1, <1>4
<1> QED
  BY <1>5, Operand DEF H, n

\* The functions on expressions whose values are made of those of the operands.
Made(V, make) == {f \in [Expr -> V] : \A e \in Expr : f[e] = make[e][f]}

\* There is one: the values are made height by height.
LEMMA TreeRecursion ==
  ASSUME NEW V, NEW v \in V, NEW make \in [Expr -> [[Expr -> V] -> V]],
         \A e \in Expr : \A f, g \in [Expr -> V] :
           (\A x \in Operands(e) : f[x] = g[x]) => make[e][f] = make[e][g]
  PROVE  Made(V, make) # {}
<1> DEFINE n == MaxHeight + 1
           T == [Expr -> V]
           t0 == [e \in Expr |-> v]
           round(i, t) == [e \in Expr |-> IF e.height = i - 1 THEN make[e][t] ELSE t[e]]
           step == [i \in 1..n |-> [t \in T |-> round(i, t)]]
<1>1. n \in Nat /\ t0 \in T
  BY ExprAssumption
<1>2. step \in [1..n -> [T -> T]]
  <2>1. ASSUME NEW i \in 1..n, NEW t \in T PROVE round(i, t) \in T
    OBVIOUS
  <2> HIDE DEF round, T, n
  <2> QED
    BY <2>1
<1>3. \A i \in 1..n : \A t \in T : step[i][t] = round(i, t)
  <2> HIDE DEF round, T, n
  <2> QED
    OBVIOUS
<1> HIDE DEF n, t0, step
<1>4. PICK g \in [0..n -> T] : \A i \in 1..n : g[i] = step[i][g[i - 1]]
  <2>1. Runs(n, T, t0, step) # {}
    BY <1>1, <1>2, Loop
  <2> QED
    BY <2>1 DEF Runs
<1>5. \A i \in 1..n : g[i - 1] \in T /\ g[i] \in T /\ g[i] = round(i, g[i - 1])
  <2>1. \A i \in 1..n : i \in 0..n /\ i - 1 \in 0..n
    BY <1>1
  <2> QED
    BY <1>3, <1>4, <2>1
<1>6. ASSUME NEW e \in Expr, NEW i \in 0..n, e.height < i
      PROVE  g[i][e] = make[e][g[e.height]]
  <2> DEFINE H == {k \in 0..n : e.height < k => g[k][e] = make[e][g[e.height]]}
  <2>1. e.height \in Nat
    BY Operand
  <2>2. 0 \in H
    BY <1>1, <2>1
  <2>3. ASSUME NEW k \in 0..n, k \in H, k < n PROVE k + 1 \in H
    <3>1. k + 1 \in 1..n /\ (k + 1) - 1 = k /\ k + 1 \in 0..n
      BY <1>1, <2>3
    <3>2. g[k + 1] = round(k + 1, g[k]) /\ g[k] \in T
      BY <1>5, <3>1
    <3>3. g[k + 1][e] = IF e.height = k THEN make[e][g[k]] ELSE g[k][e]
      BY <3>1, <3>2
    <3>4. e.height < k + 1 => e.height = k \/ e.height < k
      BY <1>1, <2>1
    <3> QED
      BY <2>3, <3>1, <3>3, <3>4
  <2> HIDE DEF H
  <2>4. 0..n \subseteq H
    BY <1>1, <2>2, <2>3, RangeInduction
  <2> QED
    BY <1>6, <2>4 DEF H
<1>7. n \in 0..n /\ g[n] \in T /\ \A e \in Expr : e.height \in 0..n /\ e.height < n
  BY <1>1, <1>4, Operand DEF n
<1>8. ASSUME NEW e \in Expr PROVE g[n][e] = make[e][g[n]]
  <2>1. g[n][e] = make[e][g[e.height]]
    BY <1>6, <1>7
  <2>2. ASSUME NEW x \in Operands(e) PROVE g[e.height][x] = g[n][x]
    <3>1. x \in Expr /\ x.height < e.height
      BY Operand
    <3> QED
      BY <1>6, <1>7, <3>1
  <2>3. g[e.height] \in T
    BY <1>4, <1>7
  <2> QED
    BY <1>7, <2>1, <2>2, <2>3
<1>9. g[n] \in Made(V, make)
  BY <1>7, <1>8 DEF Made
<1> QED
  BY <1>9

\* The expressions inside of one are itself and those inside of its operands.
LEMMA InsideDef ==
  ASSUME NEW e \in Expr
  PROVE  /\ Inside[e] = {e} \cup UNION {Inside[x] : x \in Operands(e)}
         /\ Inside[e] \subseteq Expr
<1> DEFINE V == SUBSET Expr
           F == [Expr -> V]
           made(x, f) == {x} \cup UNION {f[y] : y \in Operands(x)}
           make == [x \in Expr |-> [f \in F |-> made(x, f)]]
<1>1. \A x \in Expr : \A f \in F : made(x, f) \in V
  BY Operand
<1>2. \A x \in Expr : \A f \in F : make[x][f] = made(x, f)
  OBVIOUS
<1>3. make \in [Expr -> [F -> V]]
  BY <1>1
<1>4. \A x \in Expr : \A f, g \in F : (\A y \in Operands(x) : f[y] = g[y]) => make[x][f] = make[x][g]
  <2>1. ASSUME NEW x \in Expr, NEW f \in F, NEW g \in F, \A y \in Operands(x) : f[y] = g[y]
        PROVE  made(x, f) = made(x, g)
    BY <2>1
  <2> HIDE DEF made, make, F
  <2> QED
    BY <1>2, <2>1
<1> HIDE DEF make
<1>5. PICK f \in F : \A x \in Expr : f[x] = make[x][f]
  <2>1. {} \in V
    OBVIOUS
  <2>2. Made(V, make) # {}
    <3> HIDE DEF V
    <3> QED
      BY <1>3, <1>4, <2>1, TreeRecursion
  <2> QED
    BY <2>2 DEF Made
<1>6. f = [x \in Expr |-> {x} \cup UNION {f[y] : y \in Operands(x)}]
  BY <1>2, <1>5
<1>7. Inside = [x \in Expr |-> {x} \cup UNION {Inside[y] : y \in Operands(x)}]
  BY <1>6 DEF Inside
<1> DEFINE S == {x \in Expr : Inside[x] \subseteq Expr}
<1>8. \A x \in Expr : Inside[x] = {x} \cup UNION {Inside[y] : y \in Operands(x)}
  BY <1>7
<1>9. Expr \subseteq S
  <2>1. \A x \in Expr : Operands(x) \subseteq S => x \in S
    BY <1>8
  <2> HIDE DEF S
  <2> QED
    BY <2>1, TreeInduction
<1> QED
  BY <1>8, <1>9

\* What is inside of an operand is inside of the expression.
LEMMA InsideOperands ==
  ASSUME NEW e \in Expr
  PROVE  /\ e \in Inside[e]
         /\ \A x \in Operands(e) : x \in Expr /\ Inside[x] \subseteq Inside[e]
         /\ \A x \in Inside[e] : x \in Expr /\ Inside[x] \subseteq Inside[e]
<1>1. ASSUME NEW z \in Expr
      PROVE z \in Inside[z] /\ \A x \in Operands(z) : x \in Expr /\ Inside[x] \subseteq Inside[z]
  BY InsideDef, Operand
<1> DEFINE S == {z \in Expr : \A x \in Inside[z] : Inside[x] \subseteq Inside[z]}
<1>2. ASSUME NEW z \in Expr, Operands(z) \subseteq S PROVE z \in S
  <2>1. ASSUME NEW x \in Inside[z] PROVE Inside[x] \subseteq Inside[z]
    <3>1. CASE x = z
      BY <3>1
    <3>2. CASE x # z
      <4>1. PICK y \in Operands(z) : x \in Inside[y]
        BY <3>2, InsideDef
      <4>2. Inside[x] \subseteq Inside[y]
        BY <1>2, <4>1
      <4> QED
        BY <1>1, <4>1, <4>2
    <3> QED
      BY <3>1, <3>2
  <2> QED
    BY <2>1
<1> HIDE DEF S
<1>3. Expr \subseteq S
  BY <1>2, TreeInduction
<1> QED
  BY <1>1, <1>3, InsideDef DEF S

\* What is said about all that is inside of an expression holds of its parts.
LEMMA Parts ==
  ASSUME NEW e \in Expr, NEW x \in Inside[e]
  PROVE  /\ Free(x) \subseteq Free(e)
         /\ Ops(x) \subseteq Ops(e)
         /\ Supported(e) => Supported(x)
         /\ Exact(e) => Exact(x)
<1>1. Inside[x] \subseteq Inside[e]
  BY InsideOperands
<1> QED
  BY <1>1 DEF Free, Ops, Supported, Exact

\* The names in an operation are those in its operands.
LEMMA FreeOfOperation ==
  ASSUME NEW e \in Expr
  PROVE  /\ e.op = "var" => e.name \in Free(e)
         /\ \A i \in DOMAIN e.args : Free(e.args[i]) \subseteq Free(e)
         /\ e.op # "var" => Free(e) = FreeIn(e.args)
<1>1. Inside[e] = {e} \cup UNION {Inside[x] : x \in Operands(e)}
  BY InsideDef
<1>2. \A i \in DOMAIN e.args : e.args[i] \in Operands(e)
  BY DEF Operands
<1>3. \A i \in DOMAIN e.args : Free(e.args[i]) \subseteq Free(e)
  BY <1>2, InsideOperands DEF Free
<1>4. ASSUME e.op # "var", NEW n \in Free(e) PROVE n \in FreeIn(e.args)
  <2>1. PICK y \in Inside[e] : y.op = "var" /\ n = y.name
    BY DEF Free
  <2>2. PICK x \in Operands(e) : y \in Inside[x]
    BY <1>1, <1>4, <2>1
  <2>3. PICK i \in DOMAIN e.args : x = e.args[i]
    BY <2>2 DEF Operands
  <2>4. n \in Free(e.args[i])
    BY <2>1, <2>2, <2>3 DEF Free
  <2> QED
    BY <2>3, <2>4 DEF FreeIn
<1>5. FreeIn(e.args) \subseteq Free(e)
  BY <1>3 DEF FreeIn
<1>6. e.op = "var" => e.name \in Free(e)
  BY InsideOperands DEF Free
<1> QED
  BY <1>3, <1>4, <1>5, <1>6

\* The operations of an operation are its own and those of its operands.
LEMMA OpsOfOperation ==
  ASSUME NEW e \in Expr
  PROVE  /\ e.op \in Ops(e)
         /\ \A i \in DOMAIN e.args : e.args[i] \in Expr /\ Ops(e.args[i]) \subseteq Ops(e)
<1>1. \A i \in DOMAIN e.args : e.args[i] \in Operands(e)
  BY DEF Operands
<1> QED
  BY <1>1, InsideOperands DEF Ops

\* The walk collects operations inside of the expression.
LEMMA WalkDef ==
  ASSUME NEW e \in Expr
  PROVE  /\ Walk[e] = IF e.op \in Leaves \cup MoveFunctions \cup Comparisons \cup Other THEN {}
                      ELSE {x \in {e} : x.op \in Arithmetic} \cup UNION {Walk[x] : x \in Operands(e)}
         /\ Walk[e] \subseteq Inside[e]
         /\ \A x \in Walk[e] : x.op \in Arithmetic
<1> DEFINE V == SUBSET Expr
           F == [Expr -> V]
           made(x, f) == IF x.op \in Leaves \cup MoveFunctions \cup Comparisons \cup Other THEN {}
                         ELSE {y \in {x} : y.op \in Arithmetic} \cup UNION {f[y] : y \in Operands(x)}
           make == [x \in Expr |-> [f \in F |-> made(x, f)]]
<1>1. ASSUME NEW x \in Expr, NEW f \in F PROVE made(x, f) \in V
  <2>1. \A y \in Operands(x) : f[y] \subseteq Expr
    BY Operand
  <2> QED
    BY <2>1
<1>2. \A x \in Expr : \A f \in F : make[x][f] = made(x, f)
  OBVIOUS
<1>3. make \in [Expr -> [F -> V]]
  BY <1>1
<1>4. \A x \in Expr : \A f, g \in F : (\A y \in Operands(x) : f[y] = g[y]) => make[x][f] = make[x][g]
  <2>1. ASSUME NEW x \in Expr, NEW f \in F, NEW g \in F, \A y \in Operands(x) : f[y] = g[y]
        PROVE  made(x, f) = made(x, g)
    <3>1. UNION {f[y] : y \in Operands(x)} = UNION {g[y] : y \in Operands(x)}
      BY <2>1
    <3> QED
      BY <3>1
  <2> HIDE DEF made, make, F
  <2> QED
    BY <1>2, <2>1
<1> HIDE DEF make
<1>5. PICK f \in F : \A x \in Expr : f[x] = make[x][f]
  <2>1. {} \in V
    OBVIOUS
  <2>2. Made(V, make) # {}
    <3> HIDE DEF V
    <3> QED
      BY <1>3, <1>4, <2>1, TreeRecursion
  <2> QED
    BY <2>2 DEF Made
<1>6. f = [x \in Expr |-> made(x, f)]
  BY <1>2, <1>5
<1>7. Walk = [x \in Expr |-> made(x, Walk)]
  BY <1>6 DEF Walk
<1>8. \A x \in Expr : Walk[x] = made(x, Walk)
  BY <1>7
<1> DEFINE S == {x \in Expr : Walk[x] \subseteq Inside[x] /\ \A y \in Walk[x] : y.op \in Arithmetic}
<1>9. ASSUME NEW x \in Expr, Operands(x) \subseteq S PROVE x \in S
  <2>1. \A y \in Operands(x) : Walk[y] \subseteq Inside[x] /\ \A z \in Walk[y] : z.op \in Arithmetic
    BY <1>9, InsideOperands
  <2>2. x \in Inside[x]
    BY InsideOperands
  <2>3. ASSUME NEW z \in Walk[x] PROVE z \in Inside[x] /\ z.op \in Arithmetic
    <3>1. Walk[x] # {} => Walk[x] = {y \in {x} : y.op \in Arithmetic} \cup UNION {Walk[y] : y \in Operands(x)}
      <4> HIDE DEF made
      <4>1. made(x, Walk) # {} =>
              made(x, Walk) = {y \in {x} : y.op \in Arithmetic} \cup UNION {Walk[y] : y \in Operands(x)}
        BY DEF made
      <4> QED
        BY <1>8, <4>1
    <3>2. z \in {y \in {x} : y.op \in Arithmetic} \cup UNION {Walk[y] : y \in Operands(x)}
      BY <2>3, <3>1
    <3>3. (z = x /\ x.op \in Arithmetic) \/ \E y \in Operands(x) : z \in Walk[y]
      BY <3>2
    <3> QED
      BY <2>1, <2>2, <3>3
  <2> QED
    BY <2>3
<1> HIDE DEF S
<1>10. Expr \subseteq S
  BY <1>9, TreeInduction
<1> QED
  BY <1>8, <1>10 DEF S

----------------------------------------------------------------------------
(* Values. *)

\* A power of two is the number of subsets of a set.
LEMMA PowerOfTwo ==
  ASSUME NEW n \in Nat
  PROVE  2^n \in Nat /\ 2^n >= 1 /\ (n >= 1 => 2^n >= 2)
<1> DEFINE N == 1..n
           P == SUBSET N
<1>1. IsFiniteSet(N) /\ Cardinality(N) = n
  <2>1. Cardinality(1..n) = IF 1 > n THEN 0 ELSE n - 1 + 1
    BY FS_Interval
  <2> QED
    BY <2>1, FS_Interval
<1> HIDE DEF N
<1>2. IsFiniteSet(P) /\ Cardinality(P) = 2^n
  <2>1. Cardinality(SUBSET N) = 2^Cardinality(N) /\ IsFiniteSet(SUBSET N)
    BY <1>1, FS_SUBSET
  <2> QED
    BY <1>1, <2>1
<1>3. Cardinality(P) \in Nat
  BY <1>2, FS_CardinalityType
<1>4. Cardinality(P) # 0
  <2>1. P # {}
    OBVIOUS
  <2> QED
    BY <1>2, <2>1, FS_EmptySet
<1>5. n >= 1 => Cardinality(P) # 1
  <2>1. Cardinality(P) = 1 => \E x : P = {x}
    BY <1>2, FS_Singleton
  <2>2. n >= 1 => N # {}
    BY DEF N
  <2>3. N \in P /\ {} \in P
    OBVIOUS
  <2> HIDE DEF P
  <2>4. (\E x : P = {x}) => N = {}
    BY <2>3
  <2> QED
    BY <2>1, <2>2, <2>4
<1> HIDE DEF P
<1> QED
  BY <1>2, <1>3, <1>4, <1>5

LEMMA TopIsNatural == Top \in Nat /\ Top >= 1 /\ Aborted \notin 0..Top /\ 2^Width = Top + 1 /\ 0 \in 0..Top
<1>1. 2^Width \in Nat /\ 2^Width >= 2
  BY WidthAssumption, PowerOfTwo
<1> QED
  BY <1>1 DEF Top, Aborted

LEMMA Bits ==
  ASSUME NEW p
  PROVE  /\ Bit(p) \in 0..Top /\ Bit(p) \in Int
         /\ p => Bit(p) = 1
         /\ ~p => Bit(p) = 0
BY TopIsNatural DEF Bit

LEMMA Compared ==
  ASSUME NEW a, NEW b
  PROVE  /\ Compare("eq", a, b) = Bit(a = b)
         /\ Compare("neq", a, b) = Bit(a # b)
         /\ Compare("lt", a, b) = Bit(a < b)
         /\ Compare("gt", a, b) = Bit(a > b)
         /\ Compare("le", a, b) = Bit(a <= b)
         /\ Compare("ge", a, b) = Bit(a >= b)
BY DEF Compare

\* The operations one by one.
LEMMA Applied ==
  ASSUME NEW v
  PROVE  /\ Apply("add", v) = Fit(v[1] + v[2])
         /\ Apply("sub", v) = Fit(v[1] - v[2])
         /\ Apply("mul", v) = Fit(v[1] * v[2])
         /\ Apply("div", v) = IF v[2] = 0 THEN Aborted ELSE v[1] \div v[2]
         /\ Apply("mod", v) = IF v[2] = 0 THEN Aborted ELSE v[1] % v[2]
         /\ Apply("shl", v) = IF v[2] >= Width THEN Aborted ELSE (v[1] * 2^v[2]) % 2^Width
         /\ Apply("shr", v) = IF v[2] >= Width THEN Aborted ELSE v[1] \div 2^v[2]
         /\ Apply("narrow", v) = IF v[1] >= 2^(Width - 1) THEN Aborted ELSE v[1]
         /\ Apply("deref", v) = v[1]
         /\ Apply("call", v) = IF v[1] = 0 THEN Aborted ELSE Top - v[1]
         /\ Apply("test", v) = Bit(v[1] = 1)
         /\ Apply("not", v) = Bit(v[1] = 0)
         /\ \A op \in Comparisons : Apply(op, v) = Compare(op, v[1], v[2])
BY DEF Apply, Comparisons

LEMMA SpecApplied ==
  ASSUME NEW v
  PROVE  /\ SpecApply("add", v) = v[1] + v[2]
         /\ SpecApply("sub", v) = v[1] - v[2]
         /\ SpecApply("mul", v) = v[1] * v[2]
         /\ SpecApply("div", v) = IF v[2] <= 0 THEN 0 ELSE v[1] \div v[2]
         /\ SpecApply("mod", v) = IF v[2] <= 0 THEN 0 ELSE v[1] % v[2]
         /\ SpecApply("shl", v) = IF v[2] < 0 THEN 0 ELSE v[1] * 2^v[2]
         /\ SpecApply("shr", v) = IF v[2] < 0 THEN 0 ELSE v[1] \div 2^v[2]
         /\ SpecApply("narrow", v) = v[1]
         /\ SpecApply("deref", v) = v[1]
         /\ \A op \in MoveFunctions \cup Comparisons \cup {"not"} : SpecApply(op, v) = Apply(op, v)
BY DEF SpecApply, MoveFunctions, Comparisons

LEMMA Divided ==
  ASSUME NEW a \in Int, NEW b \in Int, b > 0
  PROVE  /\ a \div b \in Int
         /\ a >= 0 => a \div b >= 0 /\ a \div b <= a
         /\ a % b \in 0..(b - 1)
OBVIOUS

Number == 0..Top
Value == 0..Top \cup {Aborted}

\* An operation on numbers of the type gives one, or aborts.
LEMMA ApplyTyped ==
  ASSUME NEW op \in Unary \cup Binary, NEW v, v[1] \in Number, op \in Binary => v[2] \in Number
  PROVE  Apply(op, v) \in Value
<1>1. Top \in Nat /\ 2^Width = Top + 1
  BY TopIsNatural
<1>2. v[1] \in Int /\ v[1] >= 0 /\ v[1] <= Top
  BY <1>1 DEF Number
<1>3. CASE op \in Binary
  <2>1. v[2] \in Int /\ v[2] >= 0 /\ v[2] <= Top
    BY <1>1, <1>3 DEF Number
  <2>2. \A k : Fit(k) \in Value
    BY DEF Fit, Value
  <2>3. CASE op \in {"add", "sub", "mul"}
    BY <2>2, <2>3, Applied
  <2>4. CASE op \in {"div", "mod"}
    <3>1. CASE v[2] = 0
      BY <2>4, <3>1, Applied DEF Value
    <3>2. CASE v[2] > 0
      <4>1. /\ v[1] \div v[2] \in Int /\ v[1] \div v[2] >= 0 /\ v[1] \div v[2] <= v[1]
            /\ v[1] % v[2] \in 0..(v[2] - 1)
        BY <1>2, <2>1, <3>2, Divided
      <4>2. v[1] \div v[2] \in 0..Top /\ v[1] % v[2] \in 0..Top
        BY <1>1, <1>2, <2>1, <4>1
      <4>3. Apply(op, v) \in {v[1] \div v[2], v[1] % v[2]}
        BY <2>4, <3>2, Applied
      <4> QED
        BY <4>2, <4>3 DEF Value
    <3> QED
      BY <2>1, <3>1, <3>2
  <2>5. CASE op \in {"shl", "shr"}
    <3>1. CASE v[2] >= Width
      BY <2>5, <3>1, Applied DEF Value
    <3>2. CASE ~(v[2] >= Width)
      <4> DEFINE p == 2^v[2]
      <4>1. p \in Nat /\ p >= 1
        BY <2>1, PowerOfTwo
      <4>2. Apply(op, v) \in {(v[1] * p) % (Top + 1), v[1] \div p}
        BY <1>1, <2>5, <3>2, Applied
      <4> HIDE DEF p
      <4>3. v[1] * p \in Int
        BY <1>2, <4>1
      <4>4. (v[1] * p) % (Top + 1) \in 0..Top
        <5>1. Top + 1 \in Int /\ Top + 1 > 0 /\ (Top + 1) - 1 = Top
          BY <1>1
        <5> QED
          BY <4>3, <5>1, Divided
      <4>5. v[1] \div p \in Int /\ v[1] \div p >= 0 /\ v[1] \div p <= v[1]
        BY <1>2, <4>1, Divided
      <4>6. v[1] \div p \in 0..Top
        BY <1>1, <1>2, <4>5
      <4> QED
        BY <4>2, <4>4, <4>6 DEF Value
    <3> QED
      BY <3>1, <3>2
  <2>6. CASE op \in Comparisons
    <3>1. \E p : Apply(op, v) = Bit(p)
      BY <2>6, Applied, Compared DEF Comparisons
    <3> QED
      BY <3>1, Bits DEF Value
  <2> QED
    BY <1>3, <2>3, <2>4, <2>5, <2>6 DEF Binary, Arithmetic, Other
<1>4. CASE op \in Unary
  <2>1. CASE op \in {"narrow", "deref"}
    BY <2>1, Applied DEF Value, Number
  <2>2. CASE op = "call"
    <3>1. v[1] # 0 => Top - v[1] \in 0..Top
      BY <1>1, <1>2
    <3> QED
      BY <2>2, <3>1, Applied DEF Value
  <2>3. CASE op \in {"test", "not"}
    BY <2>3, Applied, Bits DEF Value
  <2> QED
    BY <1>4, <2>1, <2>2, <2>3 DEF Unary, MoveFunctions
<1> QED
  BY <1>3, <1>4

\* In the arithmetic of specifications it gives an integer.
LEMMA SpecApplyTyped ==
  ASSUME NEW op \in Unary \cup Binary, NEW v, v[1] \in Int, op \in Binary => v[2] \in Int
  PROVE  SpecApply(op, v) \in Int
<1>1. Top \in Nat
  BY TopIsNatural
<1>2. CASE op \in Binary
  <2>1. v[2] \in Int
    BY <1>2
  <2>2. CASE op \in {"add", "sub", "mul"}
    BY <2>1, <2>2, SpecApplied
  <2>3. CASE op \in {"div", "mod"}
    <3>1. CASE v[2] > 0
      <4>1. v[1] \div v[2] \in Int /\ v[1] % v[2] \in 0..(v[2] - 1)
        BY <2>1, <3>1, Divided
      <4>2. SpecApply(op, v) \in {v[1] \div v[2], v[1] % v[2]}
        BY <2>1, <2>3, <3>1, SpecApplied
      <4> QED
        BY <4>1, <4>2
    <3>2. CASE v[2] <= 0
      BY <2>3, <3>2, SpecApplied
    <3> QED
      BY <2>1, <3>1, <3>2
  <2>4. CASE op \in {"shl", "shr"}
    <3>1. CASE v[2] < 0
      BY <2>4, <3>1, SpecApplied
    <3>2. CASE ~(v[2] < 0)
      <4> DEFINE p == 2^v[2]
      <4>1. p \in Nat /\ p >= 1
        BY <2>1, <3>2, PowerOfTwo
      <4>2. SpecApply(op, v) \in {v[1] * p, v[1] \div p}
        BY <2>4, <3>2, SpecApplied
      <4> HIDE DEF p
      <4>3. v[1] * p \in Int /\ v[1] \div p \in Int
        BY <4>1, Divided
      <4> QED
        BY <4>2, <4>3
    <3> QED
      BY <3>1, <3>2
  <2>5. CASE op \in Comparisons
    <3>1. \E p : Apply(op, v) = Bit(p)
      BY <2>5, Applied, Compared DEF Comparisons
    <3>2. SpecApply(op, v) = Apply(op, v)
      BY <2>5, SpecApplied
    <3> QED
      BY <3>1, <3>2, Bits
  <2> QED
    BY <1>2, <2>2, <2>3, <2>4, <2>5 DEF Binary, Arithmetic, Other
<1>3. CASE op \in Unary
  <2>1. CASE op \in {"narrow", "deref"}
    BY <2>1, SpecApplied
  <2>2. CASE op = "call"
    <3>1. SpecApply(op, v) = Apply(op, v)
      BY <2>2, SpecApplied DEF MoveFunctions
    <3> QED
      BY <1>1, <2>2, <3>1, Applied DEF Aborted
  <2>3. CASE op \in {"test", "not"}
    <3>1. SpecApply(op, v) = Apply(op, v)
      BY <2>3, SpecApplied DEF MoveFunctions
    <3> QED
      BY <2>3, <3>1, Applied, Bits
  <2> QED
    BY <1>3, <2>1, <2>2, <2>3 DEF Unary, MoveFunctions
<1> QED
  BY <1>2, <1>3

\* Of an operation other than `<<` that does not abort it has the result.
LEMMA SpecApplyAgrees ==
  ASSUME NEW op \in Unary \cup Binary, NEW v, v[1] \in Number, op \in Binary => v[2] \in Number,
         op # "shl", Apply(op, v) # Aborted
  PROVE  SpecApply(op, v) = Apply(op, v)
<1>1. CASE op \in {"add", "sub", "mul"}
  <2>1. \A k : Fit(k) # Aborted => Fit(k) = k
    BY DEF Fit
  <2> QED
    BY <1>1, <2>1, Applied, SpecApplied
<1>2. CASE op \in {"div", "mod"}
  <2>1. v[2] \in Number /\ v[2] # 0
    BY <1>2, Applied DEF Binary, Arithmetic
  <2>2. ~(v[2] <= 0)
    BY <2>1, TopIsNatural DEF Number
  <2> QED
    BY <1>2, <2>1, <2>2, Applied, SpecApplied
<1>3. CASE op = "shr"
  <2>1. v[2] \in Number /\ ~(v[2] >= Width)
    BY <1>3, Applied DEF Binary, Other
  <2>2. ~(v[2] < 0)
    BY <2>1, TopIsNatural DEF Number
  <2> QED
    BY <1>3, <2>1, <2>2, Applied, SpecApplied
<1>4. CASE op \in {"narrow", "deref"}
  BY <1>4, Applied, SpecApplied
<1>5. CASE op \in MoveFunctions \cup Comparisons \cup {"not"}
  BY <1>5, SpecApplied
<1> QED
  BY <1>1, <1>2, <1>3, <1>4, <1>5 DEF Unary, Binary, Arithmetic, Other

\* The operands that an operation has.
LEMMA Arguments ==
  ASSUME NEW e \in Expr
  PROVE  /\ \A i \in DOMAIN e.args : e.args[i] \in Expr /\ e.args[i] \in Operands(e)
         /\ e.op \notin Leaves => /\ e.op \in Unary \cup Binary
                                  /\ 1 \in DOMAIN e.args
                                  /\ e.op \in Binary => 2 \in DOMAIN e.args
         /\ e.op \in Binary => DOMAIN e.args = 1..2 /\ e.op \notin Leaves
         /\ e.op = "deref" => DOMAIN e.args = 1..1 /\ e.op \notin Leaves
<1>1. e.args \in Seq(Expr) /\ e.op \in Leaves \cup Unary \cup Binary
  BY ExprAssumption
<1>2. Len(e.args) = IF e.op \in Leaves THEN 0 ELSE IF e.op \in Unary THEN 1 ELSE 2
  BY ExprAssumption
<1>3. DOMAIN e.args = 1..Len(e.args) /\ \A i \in DOMAIN e.args : e.args[i] \in Expr
  BY <1>1
<1>4. e.op \in Binary => e.op \notin Leaves /\ e.op \notin Unary
  BY DEF Binary, Leaves, Unary, Arithmetic, Comparisons, Other, MoveFunctions
<1>5. e.op = "deref" => e.op \notin Leaves /\ e.op \in Unary
  BY DEF Leaves, Unary
<1>6. e.op \notin Leaves => 1 \in DOMAIN e.args
  BY <1>2, <1>3
<1>7. e.op \in Binary => Len(e.args) = 2
  BY <1>2, <1>4
<1>8. e.op = "deref" => Len(e.args) = 1
  BY <1>2, <1>5
<1> QED
  BY <1>1, <1>3, <1>4, <1>5, <1>6, <1>7, <1>8 DEF Operands

\* The value of an expression follows from those of its operands.
LEMMA EvalDef ==
  ASSUME NEW env \in [Params \cup Locals -> Number], NEW e \in Expr
  PROVE  /\ Eval(e, env) \in Value
         /\ e.op = "num" => Eval(e, env) = e.val
         /\ e.op = "var" => Eval(e, env) = env[e.name]
         /\ e.op \notin Leaves =>
              LET v == [i \in DOMAIN e.args |-> Eval(e.args[i], env)] IN
              Eval(e, env) = IF \E i \in DOMAIN e.args : v[i] = Aborted
                             THEN Aborted ELSE Apply(e.op, v)
<1> DEFINE F == [Expr -> Value]
           args(x, f) == [i \in DOMAIN x.args |-> f[x.args[i]]]
           made(x, f) == IF x.op = "num" THEN x.val
                         ELSE IF x.op = "var" THEN env[x.name]
                         ELSE IF \E i \in DOMAIN x.args : args(x, f)[i] = Aborted THEN Aborted
                              ELSE Apply(x.op, args(x, f))
           make == [x \in Expr |-> [f \in F |-> made(x, f)]]
<1>1. ASSUME NEW x \in Expr, NEW f \in F PROVE made(x, f) \in Value
  <2>1. CASE x.op \in Leaves
    BY <2>1, ExprAssumption DEF Leaves, Value, Number
  <2>2. CASE x.op \notin Leaves
    <3> DEFINE v == args(x, f)
    <3>1. \A i \in DOMAIN x.args : v[i] \in Value
      BY Arguments
    <3>2. x.op # "num" /\ x.op # "var"
      BY <2>2 DEF Leaves
    <3>3. CASE \E i \in DOMAIN x.args : v[i] = Aborted
      <4>1. made(x, f) = Aborted
        BY <3>2, <3>3
      <4> HIDE DEF made
      <4> QED
        BY <4>1 DEF Value
    <3>4. CASE ~\E i \in DOMAIN x.args : v[i] = Aborted
      <4>1. made(x, f) = Apply(x.op, v)
        BY <3>2, <3>4
      <4> HIDE DEF made, v
      <4>2. \A i \in DOMAIN x.args : v[i] \in Number
        BY <3>1, <3>4 DEF Value, Number
      <4>3. v[1] \in Number /\ (x.op \in Binary => v[2] \in Number) /\ x.op \in Unary \cup Binary
        BY <2>2, <4>2, Arguments
      <4> QED
        BY <4>1, <4>3, ApplyTyped
    <3> QED
      BY <3>3, <3>4
  <2> QED
    BY <2>1, <2>2
<1>2. \A x \in Expr : \A f \in F : make[x][f] = made(x, f)
  OBVIOUS
<1>3. make \in [Expr -> [F -> Value]]
  <2> HIDE DEF made, F
  <2> QED
    BY <1>1
<1>4. \A x \in Expr : \A f, g \in F : (\A y \in Operands(x) : f[y] = g[y]) => make[x][f] = make[x][g]
  <2>1. ASSUME NEW x \in Expr, NEW f \in F, NEW g \in F, \A y \in Operands(x) : f[y] = g[y]
        PROVE  made(x, f) = made(x, g)
    <3>1. args(x, f) = args(x, g)
      BY <2>1, Arguments
    <3> HIDE DEF args
    <3> QED
      BY <3>1
  <2> HIDE DEF made, make, F
  <2> QED
    BY <1>2, <2>1
<1> HIDE DEF make
<1>5. PICK f \in F : \A x \in Expr : f[x] = make[x][f]
  <2>1. Aborted \in Value
    BY DEF Value
  <2>2. Made(Value, make) # {}
    BY <1>3, <1>4, <2>1, TreeRecursion
  <2> QED
    BY <2>2 DEF Made
<1>6. f = [x \in Expr |-> made(x, f)]
  BY <1>2, <1>5
<1> DEFINE val == Values(env)
<1>7. val = [x \in Expr |-> made(x, val)]
  BY <1>6 DEF Values
<1> HIDE DEF val
<1>8. \A x \in Expr : val[x] = made(x, val)
  <2> HIDE DEF made
  <2> QED
    BY <1>7
<1> DEFINE S == {x \in Expr : val[x] \in Value}
<1>9. ASSUME NEW x \in Expr, Operands(x) \subseteq S PROVE x \in S
  <2> DEFINE g == [y \in Expr |-> IF y \in Operands(x) THEN val[y] ELSE Aborted]
  <2>1. g \in F
    BY <1>9 DEF Value
  <2>2. args(x, val) = args(x, g)
    BY Arguments
  <2> HIDE DEF g, args
  <2>3. made(x, val) = made(x, g)
    BY <2>2
  <2>4. made(x, g) \in Value
    BY <1>1, <2>1
  <2> HIDE DEF made
  <2> QED
    BY <1>8, <2>3, <2>4
<1> HIDE DEF S
<1>10. Expr \subseteq S
  BY <1>9, TreeInduction
<1>11. Eval(e, env) = val[e] /\ \A i \in DOMAIN e.args : Eval(e.args[i], env) = val[e.args[i]]
  BY DEF Eval, val
<1>12. args(e, val) = [i \in DOMAIN e.args |-> Eval(e.args[i], env)]
  BY <1>11
<1> HIDE DEF args
<1>13. val[e] = made(e, val) /\ val[e] \in Value
  BY <1>8, <1>10 DEF S
<1> QED
  BY <1>11, <1>12, <1>13 DEF Leaves

\* Likewise in the arithmetic of specifications.
LEMMA SpecEvalDef ==
  ASSUME NEW env \in [Params \cup Locals -> Int], NEW e \in Expr
  PROVE  /\ SpecEval(e, env) \in Int
         /\ e.op = "num" => SpecEval(e, env) = e.val
         /\ e.op = "var" => SpecEval(e, env) = env[e.name]
         /\ e.op \notin Leaves =>
              SpecEval(e, env) = SpecApply(e.op, [i \in DOMAIN e.args |-> SpecEval(e.args[i], env)])
<1> DEFINE F == [Expr -> Int]
           args(x, f) == [i \in DOMAIN x.args |-> f[x.args[i]]]
           made(x, f) == IF x.op = "num" THEN x.val
                         ELSE IF x.op = "var" THEN env[x.name]
                         ELSE SpecApply(x.op, args(x, f))
           make == [x \in Expr |-> [f \in F |-> made(x, f)]]
<1>1. ASSUME NEW x \in Expr, NEW f \in F PROVE made(x, f) \in Int
  <2>1. CASE x.op \in Leaves
    <3>1. x.op = "num" => x.val \in Int
      BY TopIsNatural, ExprAssumption
    <3> QED
      BY <2>1, <3>1, ExprAssumption DEF Leaves
  <2>2. CASE x.op \notin Leaves
    <3> DEFINE v == args(x, f)
    <3>1. \A i \in DOMAIN x.args : v[i] \in Int
      BY Arguments
    <3>2. made(x, f) = SpecApply(x.op, v)
      BY <2>2 DEF Leaves
    <3> HIDE DEF made, v
    <3>3. v[1] \in Int /\ (x.op \in Binary => v[2] \in Int) /\ x.op \in Unary \cup Binary
      BY <2>2, <3>1, Arguments
    <3> QED
      BY <3>2, <3>3, SpecApplyTyped
  <2> QED
    BY <2>1, <2>2
<1>2. \A x \in Expr : \A f \in F : make[x][f] = made(x, f)
  OBVIOUS
<1>3. make \in [Expr -> [F -> Int]]
  <2> HIDE DEF made, F
  <2> QED
    BY <1>1
<1>4. \A x \in Expr : \A f, g \in F : (\A y \in Operands(x) : f[y] = g[y]) => make[x][f] = make[x][g]
  <2>1. ASSUME NEW x \in Expr, NEW f \in F, NEW g \in F, \A y \in Operands(x) : f[y] = g[y]
        PROVE  made(x, f) = made(x, g)
    <3>1. args(x, f) = args(x, g)
      BY <2>1, Arguments
    <3> HIDE DEF args
    <3> QED
      BY <3>1
  <2> HIDE DEF made, make, F
  <2> QED
    BY <1>2, <2>1
<1> HIDE DEF make
<1>5. PICK f \in F : \A x \in Expr : f[x] = make[x][f]
  <2>1. 0 \in Int
    OBVIOUS
  <2>2. Made(Int, make) # {}
    BY <1>3, <1>4, <2>1, TreeRecursion
  <2> QED
    BY <2>2 DEF Made
<1>6. f = [x \in Expr |-> made(x, f)]
  BY <1>2, <1>5
<1> DEFINE val == SpecValues(env)
<1>7. val = [x \in Expr |-> made(x, val)]
  BY <1>6 DEF SpecValues
<1> HIDE DEF val
<1>8. \A x \in Expr : val[x] = made(x, val)
  <2> HIDE DEF made
  <2> QED
    BY <1>7
<1> DEFINE S == {x \in Expr : val[x] \in Int}
<1>9. ASSUME NEW x \in Expr, Operands(x) \subseteq S PROVE x \in S
  <2> DEFINE g == [y \in Expr |-> IF y \in Operands(x) THEN val[y] ELSE 0]
  <2>1. g \in F
    BY <1>9
  <2>2. args(x, val) = args(x, g)
    BY Arguments
  <2> HIDE DEF g, args
  <2>3. made(x, val) = made(x, g)
    BY <2>2
  <2>4. made(x, g) \in Int
    BY <1>1, <2>1
  <2> HIDE DEF made
  <2> QED
    BY <1>8, <2>3, <2>4
<1> HIDE DEF S
<1>10. Expr \subseteq S
  BY <1>9, TreeInduction
<1>11. SpecEval(e, env) = val[e] /\ \A i \in DOMAIN e.args : SpecEval(e.args[i], env) = val[e.args[i]]
  BY DEF SpecEval, val
<1>12. args(e, val) = [i \in DOMAIN e.args |-> SpecEval(e.args[i], env)]
  BY <1>11
<1> HIDE DEF args
<1>13. val[e] = made(e, val) /\ val[e] \in Int
  BY <1>8, <1>10 DEF S
<1> QED
  BY <1>11, <1>12, <1>13 DEF Leaves

----------------------------------------------------------------------------
(* Agreement. *)

Environment == [Params \cup Locals -> Number]
Reader == [Params \cup Locals -> Int]

\* Where names have the same values, a specification gives an expression that
\* does not abort the value it has when it runs, unless `<<` is in it.
LEMMA SameValue ==
  ASSUME NEW env \in Environment, NEW reader \in Reader, NEW e \in Expr,
         \A n \in Free(e) : reader[n] = env[n], "shl" \notin Ops(e), Eval(e, env) # Aborted
  PROVE  SpecEval(e, reader) = Eval(e, env)
<1> DEFINE P(x) == (/\ \A n \in Free(x) : reader[n] = env[n]
                    /\ "shl" \notin Ops(x)
                    /\ Eval(x, env) # Aborted) => SpecEval(x, reader) = Eval(x, env)
           S == {x \in Expr : P(x)}
<1>1. ASSUME NEW x \in Expr, Operands(x) \subseteq S PROVE P(x)
  <2> SUFFICES ASSUME \A n \in Free(x) : reader[n] = env[n], "shl" \notin Ops(x), Eval(x, env) # Aborted
               PROVE  SpecEval(x, reader) = Eval(x, env)
    OBVIOUS
  <2>1. CASE x.op \in Leaves
    <3>1. CASE x.op = "num"
      <4>1. Eval(x, env) = x.val
        BY <3>1, EvalDef DEF Environment
      <4>2. SpecEval(x, reader) = x.val
        BY <3>1, SpecEvalDef DEF Reader
      <4> QED
        BY <4>1, <4>2
    <3>2. CASE x.op = "var"
      <4>1. Eval(x, env) = env[x.name]
        BY <3>2, EvalDef DEF Environment
      <4>2. SpecEval(x, reader) = reader[x.name]
        BY <3>2, SpecEvalDef DEF Reader
      <4>3. x.name \in Free(x)
        BY <3>2, FreeOfOperation
      <4> QED
        BY <4>1, <4>2, <4>3
    <3> QED
      BY <2>1, <3>1, <3>2 DEF Leaves
  <2>2. CASE x.op \notin Leaves
    <3> DEFINE v == [i \in DOMAIN x.args |-> Eval(x.args[i], env)]
               w == [i \in DOMAIN x.args |-> SpecEval(x.args[i], reader)]
    <3>1. Eval(x, env) = Apply(x.op, v) /\ \A i \in DOMAIN x.args : v[i] # Aborted
      BY <2>2, EvalDef DEF Environment
    <3>2. SpecEval(x, reader) = SpecApply(x.op, w)
      BY <2>2, SpecEvalDef DEF Reader
    <3>3. ASSUME NEW i \in DOMAIN x.args PROVE w[i] = v[i] /\ v[i] \in Number
      <4>1. x.args[i] \in S /\ x.args[i] \in Expr
        BY <1>1, Arguments
      <4>2. \A n \in Free(x.args[i]) : reader[n] = env[n]
        BY FreeOfOperation
      <4>3. "shl" \notin Ops(x.args[i])
        BY OpsOfOperation
      <4>4. v[i] = Eval(x.args[i], env) /\ w[i] = SpecEval(x.args[i], reader)
        OBVIOUS
      <4>5. v[i] \in Value /\ v[i] # Aborted
        BY <3>1, <4>1, <4>4, EvalDef DEF Environment
      <4> QED
        BY <4>1, <4>2, <4>3, <4>4, <4>5 DEF Value, Number
    <3>4. w = v
      BY <3>3
    <3>5. v[1] \in Number /\ (x.op \in Binary => v[2] \in Number) /\ x.op \in Unary \cup Binary
      BY <2>2, <3>3, Arguments
    <3>6. x.op # "shl"
      BY OpsOfOperation
    <3> HIDE DEF v, w
    <3> QED
      BY <3>1, <3>2, <3>4, <3>5, <3>6, SpecApplyAgrees
  <2> QED
    BY <2>1, <2>2
<1> HIDE DEF P
<1>2. Expr \subseteq S
  <2>1. \A x \in Expr : Operands(x) \subseteq S => x \in S
    BY <1>1
  <2> HIDE DEF S
  <2> QED
    BY <2>1, TreeInduction
<1>3. P(e)
  BY <1>2
<1> QED
  BY <1>3 DEF P

\* If an operation that the walk collects aborts, so does the whole.
LEMMA CollectedAborts ==
  ASSUME NEW env \in Environment, NEW e \in Expr, NEW x \in Walk[e], Eval(x, env) = Aborted
  PROVE  Eval(e, env) = Aborted
<1> DEFINE P(y) == x \in Walk[y] => Eval(y, env) = Aborted
           S == {y \in Expr : P(y)}
<1>1. ASSUME NEW y \in Expr, Operands(y) \subseteq S, x \in Walk[y], x # y
      PROVE  Eval(y, env) = Aborted
  <2>1. y.op \notin Leaves /\ \E z \in Operands(y) : x \in Walk[z]
    <3>1. /\ y.op \notin Leaves
          /\ Walk[y] = {z \in {y} : z.op \in Arithmetic} \cup UNION {Walk[z] : z \in Operands(y)}
      BY <1>1, WalkDef
    <3>2. x \in {z \in {y} : z.op \in Arithmetic} \cup UNION {Walk[z] : z \in Operands(y)}
      BY <1>1, <3>1
    <3> QED
      BY <1>1, <3>1, <3>2
  <2>2. PICK i \in DOMAIN y.args : x \in Walk[y.args[i]]
    BY <2>1 DEF Operands
  <2>3. Eval(y.args[i], env) = Aborted
    BY <1>1, <2>2, Arguments
  <2> QED
    BY <2>1, <2>3, EvalDef DEF Environment
<1>2. ASSUME NEW y \in Expr, Operands(y) \subseteq S PROVE y \in S
  BY <1>1, <1>2
<1> HIDE DEF S
<1>3. Expr \subseteq S
  BY <1>2, TreeInduction
<1> QED
  BY <1>3 DEF S

\* If an expression in which only printed arithmetic aborts does abort, then
\* the walk has collected an operation that does while its operands do not.
LEMMA AbortIsCollected ==
  ASSUME NEW env \in Environment, NEW e \in Expr, Exact(e), Eval(e, env) = Aborted
  PROVE  \E x \in Walk[e] : /\ Eval(x, env) = Aborted
                            /\ \A i \in DOMAIN x.args : Eval(x.args[i], env) # Aborted
<1> DEFINE Found(y) == \E x \in Walk[y] : /\ Eval(x, env) = Aborted
                                          /\ \A i \in DOMAIN x.args : Eval(x.args[i], env) # Aborted
           S == {y \in Expr : Exact(y) /\ Eval(y, env) = Aborted => Found(y)}
<1>1. ASSUME NEW y \in Expr, Operands(y) \subseteq S, Exact(y), Eval(y, env) = Aborted
      PROVE  Found(y)
  <2>1. y.op \in Leaves \cup {"deref"} \/ y.op \in Arithmetic \ {"shl"}
    BY <1>1, InsideOperands DEF Exact
  <2>2. y.op \notin Leaves
    <3>1. CASE y.op \in Leaves
      <4>1. Eval(y, env) \in Number
        <5>1. y.op = "num" => y.val \in Number
          BY ExprAssumption DEF Number
        <5>2. y.op = "var" => env[y.name] \in Number
          BY ExprAssumption DEF Environment
        <5> QED
          BY <3>1, <5>1, <5>2, EvalDef DEF Leaves, Environment
      <4> QED
        BY <1>1, <4>1, TopIsNatural DEF Number
    <3> QED
      BY <3>1
  <2>3. y.op \notin Leaves \cup MoveFunctions \cup Comparisons \cup Other
    BY <2>1, <2>2 DEF Leaves, MoveFunctions, Comparisons, Other, Arithmetic
  <2>4. Walk[y] = {x \in {y} : x.op \in Arithmetic} \cup UNION {Walk[x] : x \in Operands(y)}
    BY <2>3, WalkDef
  <2>5. CASE \E i \in DOMAIN y.args : Eval(y.args[i], env) = Aborted
    <3>1. PICK i \in DOMAIN y.args : Eval(y.args[i], env) = Aborted
      BY <2>5
    <3>2. y.args[i] \in S /\ y.args[i] \in Operands(y)
      BY <1>1, Arguments
    <3>3. Exact(y.args[i])
      <4>1. y.args[i] \in Inside[y]
        BY <3>2, InsideOperands
      <4> QED
        BY <1>1, <4>1, Parts
    <3>4. Found(y.args[i])
      BY <3>1, <3>2, <3>3
    <3> QED
      BY <2>4, <3>2, <3>4
  <2>6. CASE \A i \in DOMAIN y.args : Eval(y.args[i], env) # Aborted
    <3>1. CASE y.op \in Arithmetic
      <4>1. y \in Walk[y]
        BY <2>4, <3>1
      <4> QED
        BY <1>1, <2>6, <4>1
    <3>2. CASE y.op = "deref"
      <4> DEFINE v == [i \in DOMAIN y.args |-> Eval(y.args[i], env)]
      <4>1. Eval(y, env) = Apply(y.op, v)
        BY <2>2, <2>6, EvalDef DEF Environment
      <4>2. Apply(y.op, v) = v[1] /\ 1 \in DOMAIN y.args
        BY <2>2, <3>2, Applied, Arguments
      <4> QED
        BY <1>1, <2>6, <4>1, <4>2
    <3> QED
      BY <2>1, <2>2, <3>1, <3>2
  <2> QED
    BY <2>5, <2>6
<1> HIDE DEF Found
<1>2. Expr \subseteq S
  <2>1. \A y \in Expr : Operands(y) \subseteq S => y \in S
    BY <1>1
  <2> HIDE DEF S
  <2> QED
    BY <2>1, TreeInduction
<1> QED
  BY <1>2 DEF Found

----------------------------------------------------------------------------
(* Lines. *)

\* Where the names that the line of an operation shows have the values that
\* they have when the body runs, and the operands do not abort, its formula
\* says exactly whether the operation does.
LEMMA BinopLine ==
  ASSUME NEW env \in Environment, NEW reader \in Reader, NEW e \in Expr,
         e.op \in Arithmetic, "shl" \notin Ops(e),
         NEW line, line = [kind |-> "binop", op |-> e.op, args |-> e.args],
         \A n \in LineVars(line) : reader[n] = env[n],
         \A i \in DOMAIN e.args : Eval(e.args[i], env) # Aborted
  PROVE  Condition(line, reader) <=> Eval(e, env) = Aborted
<1> DEFINE v == [i \in DOMAIN e.args |-> Eval(e.args[i], env)]
           w == [i \in DOMAIN e.args |-> SpecEval(e.args[i], reader)]
<1>1. e.op \in Binary /\ e.op \notin Leaves /\ DOMAIN e.args = 1..2
  BY Arguments DEF Binary
<1>2. Eval(e, env) = Apply(e.op, v)
  BY <1>1, EvalDef DEF Environment
<1>3. e.op \in {"add", "sub", "mul", "div", "mod"}
  BY OpsOfOperation DEF Arithmetic
<1>4. ASSUME NEW i \in 1..2, \A n \in Free(e.args[i]) : reader[n] = env[n]
      PROVE  w[i] = v[i]
  <2>1. e.args[i] \in Expr /\ "shl" \notin Ops(e.args[i])
    BY <1>1, OpsOfOperation
  <2> QED
    BY <1>1, <1>4, <2>1, SameValue
<1>5. v[1] \in Number /\ v[2] \in Number /\ w[1] \in Int /\ w[2] \in Int
  <2>1. ASSUME NEW i \in 1..2 PROVE v[i] \in Number /\ w[i] \in Int
    <3>1. e.args[i] \in Expr
      BY <1>1, OpsOfOperation
    <3>2. Eval(e.args[i], env) \in Value /\ SpecEval(e.args[i], reader) \in Int
      BY <3>1, EvalDef, SpecEvalDef DEF Environment, Reader
    <3> QED
      BY <1>1, <3>2 DEF Value, Number
  <2> QED
    BY <2>1
<1>6. /\ line.kind = "binop" /\ line.op = e.op /\ line.args = e.args
      /\ e.op \in Divisions => LineVars(line) = Free(e.args[2])
      /\ e.op \notin Divisions => LineVars(line) = FreeIn(e.args)
  BY DEF LineVars
<1>7. Condition(line, reader) = (IF e.op = "sub" THEN w[1] - w[2] < 0
                                 ELSE IF e.op \in Divisions THEN w[2] = 0
                                 ELSE SpecApply(e.op, w) > Top)
  BY <1>6 DEF Condition
<1> HIDE DEF v, w
<1>8. Top \in Nat /\ Aborted \notin Number
  BY TopIsNatural DEF Number
<1>9. CASE e.op \in Divisions
  <2>1. w[2] = v[2]
    BY <1>4, <1>6, <1>9
  <2>2. v[2] = 0 => Apply(e.op, v) = Aborted
    BY <1>9, Applied DEF Divisions
  <2>3. v[2] # 0 => Apply(e.op, v) # Aborted
    <3>1. SUFFICES ASSUME v[2] # 0 PROVE Apply(e.op, v) # Aborted
      OBVIOUS
    <3>2. v[1] \in Int /\ v[1] >= 0 /\ v[2] \in Int /\ v[2] > 0
      BY <1>5, <1>8, <3>1 DEF Number
    <3>3. v[1] \div v[2] >= 0 /\ v[1] \div v[2] \in Int /\ v[1] % v[2] \in 0..(v[2] - 1)
      BY <3>2, Divided
    <3>4. Apply(e.op, v) \in {v[1] \div v[2], v[1] % v[2]}
      BY <1>9, <3>1, Applied DEF Divisions
    <3> QED
      BY <3>2, <3>3, <3>4 DEF Aborted
  <2> QED
    BY <1>2, <1>3, <1>7, <1>9, <2>1, <2>2, <2>3 DEF Divisions
<1>10. CASE e.op \notin Divisions
  <2>1. w[1] = v[1] /\ w[2] = v[2]
    BY <1>1, <1>4, <1>6, <1>10 DEF FreeIn
  <2>2. e.op \in {"add", "sub", "mul"}
    BY <1>3, <1>10 DEF Divisions
  <2>3. v[1] \in Int /\ v[2] \in Int /\ v[1] >= 0 /\ v[2] >= 0 /\ v[1] <= Top
    BY <1>5, <1>8 DEF Number
  <2>4. v[1] * v[2] \in Int /\ v[1] * v[2] >= 0
    BY <2>3
  <2>5. \A k \in Int : Fit(k) = Aborted <=> ~(k >= 0 /\ k <= Top)
    BY <1>8 DEF Fit, Number, Aborted
  <2>6. CASE e.op = "add"
    <3>1. Apply(e.op, v) = Fit(v[1] + v[2]) /\ SpecApply(e.op, w) = v[1] + v[2]
      BY <2>1, <2>6, Applied, SpecApplied
    <3>2. Condition(line, reader) <=> v[1] + v[2] > Top
      BY <1>7, <1>10, <2>6, <3>1
    <3>3. v[1] + v[2] \in Int /\ v[1] + v[2] >= 0
      BY <2>3
    <3>4. Fit(v[1] + v[2]) = Aborted <=> v[1] + v[2] > Top
      BY <1>8, <2>5, <3>3
    <3> QED
      BY <1>2, <3>1, <3>2, <3>4
  <2>7. CASE e.op = "sub"
    <3>1. Apply(e.op, v) = Fit(v[1] - v[2])
      BY <2>7, Applied
    <3>2. Condition(line, reader) <=> v[1] - v[2] < 0
      BY <1>7, <2>1, <2>7
    <3>3. v[1] - v[2] \in Int /\ v[1] - v[2] <= Top
      BY <1>8, <2>3
    <3>4. Fit(v[1] - v[2]) = Aborted <=> v[1] - v[2] < 0
      BY <1>8, <2>5, <3>3
    <3> QED
      BY <1>2, <3>1, <3>2, <3>4
  <2>8. CASE e.op = "mul"
    <3>1. Apply(e.op, v) = Fit(v[1] * v[2]) /\ SpecApply(e.op, w) = v[1] * v[2]
      BY <2>1, <2>8, Applied, SpecApplied
    <3>2. Condition(line, reader) <=> v[1] * v[2] > Top
      BY <1>7, <1>10, <2>8, <3>1
    <3>3. Fit(v[1] * v[2]) = Aborted <=> v[1] * v[2] > Top
      BY <1>8, <2>4, <2>5
    <3> QED
      BY <1>2, <3>1, <3>2, <3>3
  <2> QED
    BY <2>2, <2>6, <2>7, <2>8
<1> QED
  BY <1>9, <1>10

\* Likewise the line of an asserted comparison, which is negated, says exactly
\* whether the comparison is false.
LEMMA ComparisonLine ==
  ASSUME NEW env \in Environment, NEW reader \in Reader, NEW e \in Expr, NEW code,
         e.op \in Comparisons, "shl" \notin Ops(e),
         NEW line, line = [kind |-> "unless", op |-> InverseOp(e.op), args |-> e.args, code |-> code],
         \A n \in LineVars(line) : reader[n] = env[n],
         \A i \in DOMAIN e.args : Eval(e.args[i], env) # Aborted
  PROVE  Condition(line, reader) <=> Eval(e, env) = 0
<1> DEFINE v == [i \in DOMAIN e.args |-> Eval(e.args[i], env)]
           w == [i \in DOMAIN e.args |-> SpecEval(e.args[i], reader)]
<1>1. e.op \in Binary /\ e.op \notin Leaves /\ DOMAIN e.args = 1..2
  BY Arguments DEF Binary
<1>2. Eval(e, env) = Apply(e.op, v)
  BY <1>1, EvalDef DEF Environment
<1>3. ASSUME NEW i \in 1..2 PROVE w[i] = v[i] /\ v[i] \in Int
  <2>1. e.args[i] \in Expr /\ "shl" \notin Ops(e.args[i])
    BY <1>1, OpsOfOperation
  <2>2. Free(e.args[i]) \subseteq LineVars(line)
    BY <1>1 DEF LineVars, FreeIn
  <2>3. w[i] = v[i]
    BY <1>1, <2>1, <2>2, SameValue
  <2> QED
    BY <1>1, <2>1, <2>3, SpecEvalDef DEF Reader
<1>4. Condition(line, reader) = (SpecApply(InverseOp(e.op), w) = 1)
  BY DEF Condition
<1> HIDE DEF v, w
<1>5. InverseOp(e.op) \in Comparisons
  BY DEF InverseOp, Comparisons
<1>6. SpecApply(InverseOp(e.op), w) = Compare(InverseOp(e.op), v[1], v[2])
  BY <1>3, <1>5, Applied, SpecApplied
<1>7. Apply(e.op, v) = Compare(e.op, v[1], v[2])
  BY Applied
<1>8. v[1] \in Int /\ v[2] \in Int
  BY <1>3
<1>9. Compare(InverseOp(e.op), v[1], v[2]) = 1 <=> Compare(e.op, v[1], v[2]) = 0
  <2>1. \A p \in BOOLEAN : Bit(p) = 1 <=> Bit(~p) = 0
    BY DEF Bit
  <2> QED
    BY <1>8, <2>1, Compared DEF InverseOp, Comparisons, Bit
<1> QED
  BY <1>2, <1>4, <1>6, <1>7, <1>9

\* And that of an asserted call.
LEMMA CallLine ==
  ASSUME NEW env \in Environment, NEW reader \in Reader, NEW e \in Expr, NEW code,
         "shl" \notin Ops(e),
         NEW line, line = [kind |-> "unless", op |-> "not", args |-> <<e>>, code |-> code],
         \A n \in LineVars(line) : reader[n] = env[n],
         Eval(e, env) # Aborted
  PROVE  Condition(line, reader) <=> Eval(e, env) = 0
<1> DEFINE w == [i \in DOMAIN <<e>> |-> SpecEval(<<e>>[i], reader)]
<1>1. Free(e) \subseteq LineVars(line)
  BY DEF LineVars, FreeIn
<1>2. w[1] = Eval(e, env)
  BY <1>1, SameValue
<1>3. Condition(line, reader) = (SpecApply("not", w) = 1)
  BY DEF Condition
<1> HIDE DEF w
<1>4. SpecApply("not", w) = Bit(w[1] = 0)
  BY Applied, SpecApplied
<1>5. Bit(w[1] = 0) = 1 <=> w[1] = 0
  BY DEF Bit
<1> QED
  BY <1>2, <1>3, <1>4, <1>5

----------------------------------------------------------------------------
(* The lines of a body. *)

Lines(b) == Emit(Prune(Collect(b)))

\* A sequence of the length of another.
LEMMA SequenceOf ==
  ASSUME NEW n \in Nat, NEW f, f = [i \in 1..n |-> f[i]]
  PROVE  f \in Seq({f[i] : i \in 1..n}) /\ Len(f) = n /\ DOMAIN f = 1..n
<1> DEFINE S == {f[i] : i \in 1..n}
<1>1. f \in [1..n -> S]
  OBVIOUS
<1>2. f \in Seq(S)
  BY <1>1
<1>3. DOMAIN f = 1..n
  BY <1>1
<1>4. Len(f) \in Nat /\ DOMAIN f = 1..Len(f)
  BY <1>2
<1>5. Len(f) = n
  BY <1>3, <1>4
<1> QED
  BY <1>2, <1>3, <1>5

\* The items of each statement, and the lines made of them.
LEMMA LinesDef ==
  ASSUME NEW b \in Seq(Statements)
  PROVE  /\ Len(Collect(b)) = Len(b) /\ DOMAIN Collect(b) = 1..Len(b)
         /\ Len(Lines(b)) = Len(b) /\ DOMAIN Lines(b) = 1..Len(b)
         /\ DOMAIN b = 1..Len(b) /\ Len(b) \in Nat
         /\ \A i \in 1..Len(b) :
              /\ b[i] \in Statements
              /\ Collect(b)[i] \in {CollectStmt(b[i]), [lets |-> {}, items |-> {}]}
              /\ "for" \notin Kinds(b) => Collect(b)[i] = CollectStmt(b[i])
              /\ Lines(b)[i].lets = {l \in Collect(b)[i].lets : l.var \in Needed(Collect(b), i)}
              /\ Lines(b)[i].aborts = UNION {EmitItem(item) : item \in Collect(b)[i].items}
<1> DEFINE n == Len(b)
           groups == Collect(b)
           none == [lets |-> {}, items |-> {}]
           kept == Prune(groups)
           lines == Emit(kept)
<1>1. n \in Nat /\ DOMAIN b = 1..n /\ \A i \in 1..n : b[i] \in Statements
  OBVIOUS
<1>2. groups = [i \in 1..n |-> groups[i]]
  BY <1>1 DEF Collect
<1>3. Len(groups) = n /\ DOMAIN groups = 1..n
  <2> HIDE DEF groups, n
  <2> QED
    BY <1>1, <1>2, SequenceOf
<1>4. \A i \in 1..n : /\ groups[i] \in {CollectStmt(b[i]), none}
                      /\ "for" \notin Kinds(b) => groups[i] = CollectStmt(b[i])
  BY <1>1 DEF Collect, Kinds
<1>5. \A i \in 1..n : groups[i] = [lets |-> groups[i].lets, items |-> groups[i].items]
  <2>1. \A s : CollectStmt(s) = [lets |-> CollectStmt(s).lets, items |-> CollectStmt(s).items]
    BY DEF CollectStmt
  <2> HIDE DEF groups, n
  <2> QED
    BY <1>4, <2>1
<1> HIDE DEF groups
<1>6. /\ kept = [i \in 1..n |-> kept[i]]
      /\ \A i \in 1..n : /\ kept[i].lets = {l \in groups[i].lets : l.var \in Needed(groups, i)}
                         /\ kept[i].items = groups[i].items
  <2>1. kept = [i \in 1..n |-> [groups[i] EXCEPT !.lets = {l \in groups[i].lets : l.var \in Needed(groups, i)}]]
    BY <1>3 DEF Prune
  <2> HIDE DEF kept
  <2>2. \A i \in 1..n : kept[i] = [groups[i] EXCEPT !.lets = {l \in groups[i].lets : l.var \in Needed(groups, i)}]
    BY <2>1
  <2>3. ASSUME NEW i \in 1..n
        PROVE  /\ kept[i].lets = {l \in groups[i].lets : l.var \in Needed(groups, i)}
               /\ kept[i].items = groups[i].items
    BY <1>5, <2>2
  <2> QED
    BY <2>1, <2>3
<1>7. DOMAIN kept = 1..n
  <2> HIDE DEF kept, n
  <2> QED
    BY <1>6
<1> HIDE DEF kept
<1>8. lines = [i \in 1..n |-> [lets |-> kept[i].lets,
                               aborts |-> UNION {EmitItem(item) : item \in kept[i].items}]]
  BY <1>7 DEF Emit
<1>9. Len(lines) = n /\ DOMAIN lines = 1..n
  <2> HIDE DEF n, lines
  <2>1. lines = [i \in 1..n |-> lines[i]]
    BY <1>8
  <2> QED
    BY <1>1, <2>1, SequenceOf
<1>10. Lines(b) = lines
  BY DEF Lines, groups, kept
<1> HIDE DEF lines, n
<1>11. \A i \in 1..n : /\ lines[i].lets = kept[i].lets
                       /\ lines[i].aborts = UNION {EmitItem(item) : item \in kept[i].items}
  BY <1>8
<1> QED
  BY <1>1, <1>3, <1>4, <1>6, <1>9, <1>10, <1>11 DEF groups, n

\* What is collected of a statement.
LEMMA ItemsOf ==
  ASSUME NEW s \in Statements
  PROVE  /\ s.exp \in Expr
         /\ s.kind = "assert" => s.code \in Expr
         /\ \A l \in CollectStmt(s).lets :
              s.kind = "let" /\ Supported(s.exp) /\ l = [var |-> s.var, exp |-> s.exp]
         /\ \A item \in CollectStmt(s).items :
              \/ /\ s.kind \in Setters \cup {"do"}
                 /\ item.kind = "binop" /\ item.exp \in Walk[s.exp]
                 /\ item = [kind |-> "binop", exp |-> item.exp]
              \/ /\ s.kind = "assert"
                 /\ item = [kind |-> "assert", exp |-> s.exp, code |-> s.code]
<1>1. s.exp \in Expr /\ (s.kind = "assert" => s.code \in Expr)
  BY StatementsAssumption
<1>2. ASSUME NEW l \in CollectStmt(s).lets
      PROVE  s.kind = "let" /\ Supported(s.exp) /\ l = [var |-> s.var, exp |-> s.exp]
  <2>1. CollectStmt(s).lets = IF s.kind = "let" /\ Supported(s.exp)
                              THEN {[var |-> s.var, exp |-> s.exp]} ELSE {}
    BY DEF CollectStmt
  <2> QED
    BY <1>2, <2>1
<1>3. ASSUME NEW item \in CollectStmt(s).items
      PROVE  \/ /\ s.kind \in Setters \cup {"do"}
                /\ item.kind = "binop" /\ item.exp \in Walk[s.exp]
                /\ item = [kind |-> "binop", exp |-> item.exp]
             \/ /\ s.kind = "assert"
                /\ item = [kind |-> "assert", exp |-> s.exp, code |-> s.code]
  <2>1. CollectStmt(s).items =
          IF s.kind \in Setters \cup {"do"}
          THEN {[kind |-> "binop", exp |-> e] : e \in CollectExp(s.exp)}
          ELSE IF s.kind = "assert" /\ Supported(s.exp) /\ Supported(s.code)
          THEN {[kind |-> "assert", exp |-> s.exp, code |-> s.code]}
          ELSE {}
    BY DEF CollectStmt
  <2>2. CASE s.kind \in Setters \cup {"do"}
    <3>1. PICK e \in Walk[s.exp] : item = [kind |-> "binop", exp |-> e]
      BY <1>3, <2>1, <2>2 DEF CollectExp
    <3> QED
      BY <2>2, <3>1
  <2>3. CASE s.kind \notin Setters \cup {"do"}
    BY <1>3, <2>1, <2>3
  <2> QED
    BY <2>2, <2>3
<1> QED
  BY <1>1, <1>2, <1>3

\* The names in what is collected of a statement compile where it stands.
LEMMA ItemVarsCompile ==
  ASSUME NEW s \in Statements, NEW b, NEW n, Compiles(b, n, s)
  PROVE  /\ Vars(CollectStmt(s).items) \subseteq Params \cup Bound(b, n)
         /\ \A l \in CollectStmt(s).lets : Free(l.exp) \subseteq Params \cup Bound(b, n)
<1>1. Free(s.exp) \subseteq Params \cup Bound(b, n)
  BY DEF Compiles
<1>2. s.kind = "assert" => Free(s.code) \subseteq Params \cup Bound(b, n)
  BY DEF Compiles
<1>3. ASSUME NEW item \in CollectStmt(s).items PROVE ItemVars(item) \subseteq Params \cup Bound(b, n)
  <2>1. CASE item.kind = "binop" /\ item.exp \in Walk[s.exp]
    <3>1. Free(item.exp) \subseteq Free(s.exp)
      BY <2>1, ItemsOf, WalkDef, Parts
    <3> QED
      BY <1>1, <2>1, <3>1 DEF ItemVars
  <2>2. CASE s.kind = "assert" /\ item = [kind |-> "assert", exp |-> s.exp, code |-> s.code]
    BY <1>1, <1>2, <2>2 DEF ItemVars
  <2> QED
    BY <2>1, <2>2, ItemsOf
<1> QED
  BY <1>1, <1>3, ItemsOf DEF Vars

\* What a line is of.
LEMMA LineOf ==
  ASSUME NEW s \in Statements, NEW item \in CollectStmt(s).items, NEW line \in EmitItem(item)
  PROVE  \/ /\ s.kind \in Setters \cup {"do"}
            /\ item.exp \in Walk[s.exp] /\ item.exp \in Expr /\ item.exp.op \in Arithmetic
            /\ line = [kind |-> "binop", op |-> item.exp.op, args |-> item.exp.args]
         \/ /\ s.kind = "assert" /\ s.exp.op \in Comparisons
            /\ item = [kind |-> "assert", exp |-> s.exp, code |-> s.code]
            /\ line = [kind |-> "unless", op |-> InverseOp(s.exp.op), args |-> s.exp.args, code |-> s.code]
         \/ /\ s.kind = "assert" /\ s.exp.op \in MoveFunctions
            /\ item = [kind |-> "assert", exp |-> s.exp, code |-> s.code]
            /\ line = [kind |-> "unless", op |-> "not", args |-> <<s.exp>>, code |-> s.code]
         \/ line = [kind |-> "garbled"]
<1>1. CASE s.kind \in Setters \cup {"do"} /\ item.kind = "binop" /\ item.exp \in Walk[s.exp]
  <2>1. item.exp \in Expr /\ item.exp.op \in Arithmetic
    BY <1>1, ItemsOf, WalkDef, InsideOperands
  <2>2. line \in EmitBinop(item)
    BY <1>1 DEF EmitItem
  <2>3. line = [kind |-> "binop", op |-> item.exp.op, args |-> item.exp.args]
    BY <2>2 DEF EmitBinop
  <2> QED
    BY <1>1, <2>1, <2>3
<1>2. CASE s.kind = "assert" /\ item = [kind |-> "assert", exp |-> s.exp, code |-> s.code]
  <2>1. line \in EmitAssert(item)
    BY <1>2 DEF EmitItem
  <2>2. CASE s.exp.op \in Comparisons
    <3>1. line = NegatedComparison(item)
      BY <1>2, <2>1, <2>2 DEF EmitAssert
    <3> QED
      BY <1>2, <2>2, <3>1 DEF NegatedComparison
  <2>3. CASE s.exp.op \in MoveFunctions /\ s.exp.op \notin Comparisons
    <3>1. line = NegatedCall(item)
      BY <1>2, <2>1, <2>3 DEF EmitAssert
    <3> QED
      BY <1>2, <2>3, <3>1 DEF NegatedCall
  <2> QED
    BY <1>2, <2>1, <2>2, <2>3 DEF EmitAssert
<1> QED
  BY <1>1, <1>2, ItemsOf

\* It shows no name that its item does not use.
LEMMA LineShowsItem ==
  ASSUME NEW s \in Statements, NEW item \in CollectStmt(s).items, NEW line \in EmitItem(item)
  PROVE  LineVars(line) \subseteq ItemVars(item)
<1>1. s.exp \in Expr
  BY ItemsOf
<1>2. CASE /\ item.exp \in Expr /\ item.exp.op \in Arithmetic
           /\ line = [kind |-> "binop", op |-> item.exp.op, args |-> item.exp.args]
  <2>1. item.exp.op \in Binary
    BY <1>2 DEF Binary
  <2>2. 2 \in DOMAIN item.exp.args /\ item.exp.op # "var"
    BY <1>2, <2>1, Arguments DEF Leaves
  <2>3. Free(item.exp.args[2]) \subseteq Free(item.exp) /\ FreeIn(item.exp.args) = Free(item.exp)
    BY <1>2, <2>2, FreeOfOperation
  <2>4. LineVars(line) \in {Free(item.exp.args[2]), FreeIn(item.exp.args)}
    BY <1>2 DEF LineVars
  <2> QED
    BY <2>3, <2>4 DEF ItemVars
<1>3. CASE /\ s.exp.op \in Comparisons
           /\ item = [kind |-> "assert", exp |-> s.exp, code |-> s.code]
           /\ line = [kind |-> "unless", op |-> InverseOp(s.exp.op), args |-> s.exp.args, code |-> s.code]
  <2>1. FreeIn(s.exp.args) = Free(s.exp)
    BY <1>1, <1>3, FreeOfOperation DEF Comparisons
  <2>2. LineVars(line) = FreeIn(s.exp.args) \cup Free(s.code)
    BY <1>3 DEF LineVars
  <2> QED
    BY <1>3, <2>1, <2>2 DEF ItemVars
<1>4. CASE /\ item = [kind |-> "assert", exp |-> s.exp, code |-> s.code]
           /\ line = [kind |-> "unless", op |-> "not", args |-> <<s.exp>>, code |-> s.code]
  <2>1. FreeIn(<<s.exp>>) = Free(s.exp)
    BY DEF FreeIn
  <2>2. LineVars(line) = FreeIn(<<s.exp>>) \cup Free(s.code)
    BY <1>4 DEF LineVars
  <2> QED
    BY <1>4, <2>1, <2>2 DEF ItemVars
<1>5. CASE line = [kind |-> "garbled"]
  BY <1>5 DEF LineVars
<1> QED
  BY <1>2, <1>3, <1>4, <1>5, LineOf

----------------------------------------------------------------------------
(* The passes over a body, statement by statement. *)

\* The names used by what is kept for the last k statements.
LEMMA UsedDef ==
  ASSUME NEW groups, NEW n \in Nat, Len(groups) = n
  PROVE  /\ UsedByLast(groups)[0] = {}
         /\ \A k \in 1..n :
              LET g == groups[n - k + 1]
                  sofar == UsedByLast(groups)[k - 1] \cup Vars(g.items)
              IN  UsedByLast(groups)[k] =
                    sofar \cup UNION {Free(l.exp) : l \in {x \in g.lets : x.var \in sofar}}
<1> DEFINE group(k) == groups[n - k + 1]
           All(k) == Vars(group(k).items) \cup UNION {Free(l.exp) : l \in group(k).lets}
           V == SUBSET UNION {All(k) : k \in 1..n}
           sofar(k, u) == u \cup Vars(group(k).items)
           round(k, u) == sofar(k, u) \cup
                          UNION {Free(l.exp) : l \in {x \in group(k).lets : x.var \in sofar(k, u)}}
           step == [k \in 1..n |-> [u \in V |-> round(k, u)]]
           used == UsedByLast(groups)
<1>1. ASSUME NEW k \in 1..n, NEW u \in V PROVE round(k, u) \in V
  <2>1. round(k, u) \subseteq u \cup All(k)
    <3> HIDE DEF V, group
    <3> QED
      OBVIOUS
  <2> HIDE DEF round, All
  <2> QED
    BY <2>1
<1>2. step \in [1..n -> [V -> V]] /\ \A k \in 1..n : \A u \in V : step[k][u] = round(k, u)
  <2> HIDE DEF round, V
  <2> QED
    BY <1>1
<1> HIDE DEF step
<1>3. {} \in V
  OBVIOUS
<1> HIDE DEF V
<1>4. PICK f \in [0..n -> V] : f[0] = {} /\ \A k \in 1..n : f[k] = step[k][f[k - 1]]
  <2>1. Runs(n, V, {}, step) # {}
    BY <1>2, <1>3, Loop
  <2> QED
    BY <2>1 DEF Runs
<1>5. \A k \in 1..n : f[k] = round(k, f[k - 1])
  <2>1. \A k \in 1..n : f[k - 1] \in V
    BY <1>4
  <2> HIDE DEF round
  <2> QED
    BY <1>2, <1>4, <2>1
<1>6. f = [k \in 0..n |-> IF k = 0 THEN {} ELSE round(k, f[k - 1])]
  <2> HIDE DEF round
  <2>1. \A k \in 0..n : f[k] = IF k = 0 THEN {} ELSE round(k, f[k - 1])
    BY <1>4, <1>5
  <2> QED
    BY <1>4, <2>1
<1>7. used = [k \in 0..Len(groups) |-> IF k = 0 THEN {} ELSE round(k, used[k - 1])]
  <2>1. f = [k \in 0..Len(groups) |->
              IF k = 0 THEN {}
              ELSE (f[k - 1] \cup Vars(groups[Len(groups) - k + 1].items)) \cup
                   UNION {Free(l.exp) : l \in {x \in groups[Len(groups) - k + 1].lets :
                                                x.var \in f[k - 1] \cup Vars(groups[Len(groups) - k + 1].items)}}]
    BY <1>6
  <2>2. used = [k \in 0..Len(groups) |->
              IF k = 0 THEN {}
              ELSE (used[k - 1] \cup Vars(groups[Len(groups) - k + 1].items)) \cup
                   UNION {Free(l.exp) : l \in {x \in groups[Len(groups) - k + 1].lets :
                                                x.var \in used[k - 1] \cup Vars(groups[Len(groups) - k + 1].items)}}]
    BY <2>1 DEF UsedByLast
  <2> HIDE DEF used
  <2> QED
    BY <2>2
<1> HIDE DEF used
<1>8. used[0] = {} /\ \A k \in 1..n : used[k] = round(k, used[k - 1])
  <2> HIDE DEF round
  <2>1. \A k \in 0..n : used[k] = IF k = 0 THEN {} ELSE round(k, used[k - 1])
    BY <1>7
  <2>2. 0 \in 0..n /\ \A k \in 1..n : k \in 0..n /\ k # 0
    OBVIOUS
  <2> QED
    BY <2>1, <2>2
<1> QED
  BY <1>8 DEF used

Rounds == [at : {"running", "aborted", "returned"}, env : Environment]

\* Statements keep the variables typed.
LEMMA StepTyped ==
  ASSUME NEW s \in Statements, NEW r \in Rounds
  PROVE  Step(s, r) \in Rounds
<1> DEFINE v == Eval(s.exp, r.env)
<1>1. s.exp \in Expr /\ (s.kind \in Setters => s.var \in Locals)
  BY StatementsAssumption
<1>2. r.env \in Environment /\ r = [at |-> r.at, env |-> r.env]
  BY DEF Rounds
<1>3. v \in Value
  BY <1>1, <1>2, EvalDef DEF Environment
<1> HIDE DEF v
<1>4. s.kind \in Setters /\ v # Aborted => [r.env EXCEPT ![s.var] = v] \in Environment
  BY <1>1, <1>2, <1>3 DEF Environment, Value, Number
<1>5. Step(s, r) = IF r.at # "running" THEN r
                   ELSE [at |-> IF Fails(s, v) THEN "aborted"
                                ELSE IF s.kind = "if_return" /\ v # 0 THEN "returned" ELSE "running",
                         env |-> IF s.kind \in Setters /\ v # Aborted
                                 THEN [r.env EXCEPT ![s.var] = v] ELSE r.env]
  BY DEF Step, v
<1> QED
  BY <1>2, <1>4, <1>5 DEF Rounds

LEMMA EnvTyped ==
  ASSUME NEW input \in Inputs
  PROVE  Env(input) \in Environment /\ Env(input) \in Reader
<1>1. Number \subseteq Int /\ 0 \in Number
  BY TopIsNatural DEF Number
<1>2. input \in [Params -> Number]
  BY DEF Inputs, Number
<1> QED
  BY <1>1, <1>2 DEF Env, Environment, Reader

\* How far the function has come.
LEMMA ExecutionDef ==
  ASSUME NEW b \in Seq(Statements), NEW input \in Inputs
  PROVE  /\ Execution(b, input)[0] = [at |-> "running", env |-> Env(input)]
         /\ \A i \in 0..Len(b) : Execution(b, input)[i] \in Rounds
         /\ \A i \in 1..Len(b) : Execution(b, input)[i] = Step(b[i], Execution(b, input)[i - 1])
<1> DEFINE n == Len(b)
           start == [at |-> "running", env |-> Env(input)]
           step == [i \in 1..n |-> [r \in Rounds |-> Step(b[i], r)]]
           run == Execution(b, input)
<1>1. n \in Nat /\ \A i \in 1..n : b[i] \in Statements
  OBVIOUS
<1>2. start \in Rounds
  BY EnvTyped DEF Rounds
<1>3. step \in [1..n -> [Rounds -> Rounds]] /\ \A i \in 1..n : \A r \in Rounds : step[i][r] = Step(b[i], r)
  BY <1>1, StepTyped
<1>4. run = [i \in 0..n |-> IF i = 0 THEN start ELSE Step(b[i], run[i - 1])]
  <2>1. PICK f \in [0..n -> Rounds] : f[0] = start /\ \A i \in 1..n : f[i] = step[i][f[i - 1]]
    <3> HIDE DEF step, start, n
    <3>1. Runs(n, Rounds, start, step) # {}
      BY <1>1, <1>2, <1>3, Loop
    <3> QED
      BY <3>1 DEF Runs
  <2>2. \A i \in 0..n : f[i] = IF i = 0 THEN start ELSE Step(b[i], f[i - 1])
    <3>1. \A i \in 1..n : f[i - 1] \in Rounds
      BY <2>1
    <3> HIDE DEF step, start, n
    <3> QED
      BY <1>1, <1>3, <2>1, <3>1
  <2>3. f = [i \in 0..n |-> IF i = 0 THEN start ELSE Step(b[i], f[i - 1])]
    BY <2>1, <2>2
  <2> QED
    BY <2>3 DEF Execution
<1> HIDE DEF run, step, start
<1>5. run[0] = start /\ \A i \in 1..n : run[i] = Step(b[i], run[i - 1])
  BY <1>1, <1>4
<1> DEFINE S == {i \in 0..n : run[i] \in Rounds}
<1>6. 0 \in S
  BY <1>1, <1>2, <1>5
<1>7. ASSUME NEW i \in 0..n, i \in S, i < n PROVE i + 1 \in S
  <2>1. i + 1 \in 1..n /\ (i + 1) - 1 = i /\ i + 1 \in 0..n
    BY <1>1, <1>7
  <2> QED
    BY <1>1, <1>5, <1>7, <2>1, StepTyped
<1> HIDE DEF S, n
<1>8. 0..n \subseteq S
  BY <1>1, <1>6, <1>7, RangeInduction
<1> QED
  BY <1>5, <1>8 DEF S, run, start, n

\* One line group read.
Readers == [known : SUBSET (Params \cup Locals), env : Reader]

Read(g, before) ==
  LET lets == {l \in g.lets : Free(l.exp) \subseteq before.known} IN
  [known |-> before.known \cup {l.var : l \in lets},
   env |-> [name \in Params \cup Locals |->
              IF \E l \in lets : l.var = name
              THEN SpecEval((CHOOSE l \in lets : l.var = name).exp, before.env)
              ELSE before.env[name]]]

LEMMA ReadTyped ==
  ASSUME NEW g, \A l \in g.lets : l.var \in Locals /\ l.exp \in Expr, NEW r \in Readers
  PROVE  Read(g, r) \in Readers
<1> DEFINE lets == {l \in g.lets : Free(l.exp) \subseteq r.known}
           value(name) == IF \E l \in lets : l.var = name
                       THEN SpecEval((CHOOSE l \in lets : l.var = name).exp, r.env)
                       ELSE r.env[name]
<1>1. r.known \subseteq Params \cup Locals /\ r.env \in Reader
  BY DEF Readers
<1>2. ASSUME NEW name \in Params \cup Locals PROVE value(name) \in Int
  <2>1. CASE \E l \in lets : l.var = name
    <3>1. (CHOOSE l \in lets : l.var = name) \in lets
      BY <2>1
    <3> DEFINE c == CHOOSE l \in lets : l.var = name
    <3>2. value(name) = SpecEval(c.exp, r.env)
      BY <2>1
    <3>3. c.exp \in Expr
      BY <3>1
    <3> HIDE DEF c, value
    <3> QED
      BY <1>1, <3>2, <3>3, SpecEvalDef DEF Reader
  <2>2. CASE ~\E l \in lets : l.var = name
    BY <1>1, <2>2 DEF Reader
  <2> QED
    BY <2>1, <2>2
<1>3. {l.var : l \in lets} \subseteq Locals
  OBVIOUS
<1>4. Read(g, r) = [known |-> r.known \cup {l.var : l \in lets},
                    env |-> [name \in Params \cup Locals |-> value(name)]]
  BY DEF Read
<1>5. [name \in Params \cup Locals |-> value(name)] \in Reader
  <2> HIDE DEF value
  <2> QED
    BY <1>2 DEF Reader
<1> HIDE DEF value, lets
<1> QED
  BY <1>1, <1>3, <1>4, <1>5 DEF Readers

\* What is known after each group.
LEMMA ReadingDef ==
  ASSUME NEW lines, NEW n \in Nat, Len(lines) = n, NEW input \in Inputs,
         \A i \in 1..n : \A l \in lines[i].lets : l.var \in Locals /\ l.exp \in Expr
  PROVE  /\ Reading(lines, input)[0] = [known |-> Params, env |-> Env(input)]
         /\ \A i \in 0..n : Reading(lines, input)[i] \in Readers
         /\ \A i \in 1..n : Reading(lines, input)[i] = Read(lines[i], Reading(lines, input)[i - 1])
<1> DEFINE start == [known |-> Params, env |-> Env(input)]
           step == [i \in 1..n |-> [r \in Readers |-> Read(lines[i], r)]]
           read == Reading(lines, input)
<1>1. start \in Readers
  BY EnvTyped DEF Readers
<1>2. step \in [1..n -> [Readers -> Readers]] /\ \A i \in 1..n : \A r \in Readers : step[i][r] = Read(lines[i], r)
  BY ReadTyped
<1>3. read = [i \in 0..n |-> IF i = 0 THEN start ELSE Read(lines[i], read[i - 1])]
  <2>1. PICK f \in [0..n -> Readers] : f[0] = start /\ \A i \in 1..n : f[i] = step[i][f[i - 1]]
    <3> HIDE DEF step, start
    <3>1. Runs(n, Readers, start, step) # {}
      BY <1>1, <1>2, Loop
    <3> QED
      BY <3>1 DEF Runs
  <2>2. \A i \in 0..n : f[i] = IF i = 0 THEN start ELSE Read(lines[i], f[i - 1])
    <3>1. \A i \in 1..n : f[i - 1] \in Readers
      BY <2>1
    <3> HIDE DEF step, start
    <3> QED
      BY <1>2, <2>1, <3>1
  <2>3. f = [i \in 0..n |-> IF i = 0 THEN start ELSE Read(lines[i], f[i - 1])]
    BY <2>1, <2>2
  <2> QED
    BY <2>3 DEF Reading, Read
<1> HIDE DEF read, step, start
<1>4. read[0] = start /\ \A i \in 1..n : read[i] = Read(lines[i], read[i - 1])
  BY <1>3
<1> DEFINE S == {i \in 0..n : read[i] \in Readers}
<1>5. 0 \in S
  BY <1>1, <1>4
<1>6. ASSUME NEW i \in 0..n, i \in S, i < n PROVE i + 1 \in S
  <2>1. i + 1 \in 1..n /\ (i + 1) - 1 = i /\ i + 1 \in 0..n
    BY <1>6
  <2> QED
    BY <1>4, <1>6, <2>1, ReadTyped
<1> HIDE DEF S
<1>7. 0..n \subseteq S
  BY <1>5, <1>6, RangeInduction
<1> QED
  BY <1>4, <1>7 DEF S, read, start

----------------------------------------------------------------------------
(* Names. *)

Body(b) == b \in Seq(Statements) /\ \A i \in DOMAIN b : Compiles(b, i - 1, b[i])

\* A `for` anywhere leaves nothing to print.
LEMMA NothingCollected ==
  ASSUME NEW b \in Seq(Statements), "for" \in Kinds(b), NEW i \in 1..Len(b)
  PROVE  Lines(b)[i].lets = {} /\ Lines(b)[i].aborts = {}
<1>1. DOMAIN b = 1..Len(b)
  OBVIOUS
<1>2. Collect(b) = [j \in DOMAIN b |-> [lets |-> {}, items |-> {}]]
  BY DEF Collect, Kinds
<1>3. Collect(b)[i] = [lets |-> {}, items |-> {}]
  BY <1>1, <1>2
<1>4. /\ Lines(b)[i].lets = {l \in Collect(b)[i].lets : l.var \in Needed(Collect(b), i)}
      /\ Lines(b)[i].aborts = UNION {EmitItem(item) : item \in Collect(b)[i].items}
  BY LinesDef
<1> QED
  BY <1>3, <1>4

\* What is printed of a statement comes from what is collected of it.
LEMMA PrintedOf ==
  ASSUME NEW b \in Seq(Statements), NEW i \in 1..Len(b)
  PROVE  /\ \A l \in Lines(b)[i].lets :
              /\ l \in Collect(b)[i].lets /\ l \in CollectStmt(b[i]).lets
              /\ l.var \in Needed(Collect(b), i)
              /\ b[i].kind = "let" /\ Supported(b[i].exp)
              /\ l = [var |-> b[i].var, exp |-> b[i].exp]
              /\ l.var \in Locals /\ l.exp \in Expr
         /\ \A line \in Lines(b)[i].aborts :
              \E item \in CollectStmt(b[i]).items : item \in Collect(b)[i].items /\ line \in EmitItem(item)
<1>1. b[i] \in Statements /\ Collect(b)[i] \in {CollectStmt(b[i]), [lets |-> {}, items |-> {}]}
  BY LinesDef
<1>2. Collect(b)[i].lets \subseteq CollectStmt(b[i]).lets /\ Collect(b)[i].items \subseteq CollectStmt(b[i]).items
  BY <1>1
<1>3. /\ Lines(b)[i].lets = {l \in Collect(b)[i].lets : l.var \in Needed(Collect(b), i)}
      /\ Lines(b)[i].aborts = UNION {EmitItem(item) : item \in Collect(b)[i].items}
  BY LinesDef
<1>4. ASSUME NEW l \in Lines(b)[i].lets
      PROVE  /\ l \in Collect(b)[i].lets /\ l \in CollectStmt(b[i]).lets
             /\ l.var \in Needed(Collect(b), i)
             /\ b[i].kind = "let" /\ Supported(b[i].exp)
             /\ l = [var |-> b[i].var, exp |-> b[i].exp]
             /\ l.var \in Locals /\ l.exp \in Expr
  <2>1. l \in Collect(b)[i].lets /\ l \in CollectStmt(b[i]).lets /\ l.var \in Needed(Collect(b), i)
    BY <1>2, <1>3
  <2>2. b[i].kind = "let" /\ Supported(b[i].exp) /\ l = [var |-> b[i].var, exp |-> b[i].exp]
    BY <1>1, <2>1, ItemsOf
  <2>3. b[i].var \in Locals /\ b[i].exp \in Expr
    BY <1>1, <2>2, StatementsAssumption DEF Setters, Binders
  <2> QED
    BY <2>1, <2>2, <2>3
<1>5. ASSUME NEW line \in Lines(b)[i].aborts
      PROVE  \E item \in CollectStmt(b[i]).items : item \in Collect(b)[i].items /\ line \in EmitItem(item)
  BY <1>2, <1>3
<1> QED
  BY <1>4, <1>5

\* The pass only adds names.
LEMMA UsedGrows ==
  ASSUME NEW groups, NEW n \in Nat, Len(groups) = n, NEW k \in 0..n, NEW later \in 0..n, k <= later
  PROVE  UsedByLast(groups)[k] \subseteq UsedByLast(groups)[later]
<1> DEFINE used == UsedByLast(groups)
           S == {x \in 0..n : k <= x => used[k] \subseteq used[x]}
<1>1. 0 \in S
  <2>1. k <= 0 => k = 0
    OBVIOUS
  <2> HIDE DEF used
  <2> QED
    BY <2>1
<1>2. ASSUME NEW x \in 0..n, x \in S, x < n PROVE x + 1 \in S
  <2>1. x + 1 \in 1..n /\ (x + 1) - 1 = x /\ x + 1 \in 0..n
    BY <1>2
  <2>2. used[x] \subseteq used[x + 1]
    BY <2>1, UsedDef
  <2> HIDE DEF used
  <2>3. k <= x + 1 => k <= x \/ k = x + 1
    BY <1>2
  <2> QED
    BY <1>2, <2>1, <2>2, <2>3
<1> HIDE DEF S
<1>3. 0..n \subseteq S
  BY <1>1, <1>2, RangeInduction
<1>4. later \in S
  BY <1>3
<1> QED
  BY <1>4 DEF S

\* What a statement's lines use is needed by every statement before it.
LEMMA NeededBefore ==
  ASSUME NEW b \in Seq(Statements), NEW i \in 1..Len(b), NEW j \in 1..(i - 1)
  PROVE  /\ Vars(Collect(b)[i].items) \subseteq Needed(Collect(b), j)
         /\ \A l \in Lines(b)[i].lets : Free(l.exp) \subseteq Needed(Collect(b), j)
<1> DEFINE groups == Collect(b)
           n == Len(b)
           used == UsedByLast(groups)
           k == n - i + 1
           sofar == used[k - 1] \cup Vars(groups[i].items)
           kept == {x \in groups[i].lets : x.var \in sofar}
<1>1. n \in Nat /\ Len(groups) = n
  BY LinesDef
<1>2. k \in 1..n /\ n - k + 1 = i /\ k - 1 = n - i
  BY <1>1
<1>3. used[k] = sofar \cup UNION {Free(l.exp) : l \in kept}
  BY <1>1, <1>2, UsedDef
<1>4. Needed(groups, i) = sofar
  BY <1>1, <1>2 DEF Needed
<1>5. n - j \in 0..n /\ k \in 0..n /\ k <= n - j
  BY <1>1
<1>6. used[k] \subseteq used[n - j]
  BY <1>1, <1>5, UsedGrows
<1>7. used[n - j] \subseteq Needed(groups, j)
  BY <1>1 DEF Needed
<1> HIDE DEF used, k, n
<1>8. ASSUME NEW l \in Lines(b)[i].lets PROVE Free(l.exp) \subseteq used[k]
  <2>1. l \in groups[i].lets /\ l.var \in sofar
    BY <1>4, PrintedOf
  <2> HIDE DEF sofar
  <2> QED
    BY <1>3, <2>1
<1>9. Vars(groups[i].items) \subseteq used[k]
  BY <1>3
<1> QED
  BY <1>6, <1>7, <1>8, <1>9

\* A name that a statement's lines use and an earlier let binds is declared by
\* an earlier let line.
LEMMA DeclaredBefore ==
  ASSUME NEW b \in Seq(Statements), NEW i \in 1..Len(b), "for" \notin Kinds(b),
         "let_tuple" \notin Kinds(b),
         \A j \in DOMAIN b : b[j].kind = "let" => Supported(b[j].exp),
         NEW name \in Bound(b, i - 1),
         \/ name \in Vars(Collect(b)[i].items)
         \/ \E l \in Lines(b)[i].lets : name \in Free(l.exp)
  PROVE  name \in Declared(Lines(b), i - 1)
<1>1. PICK j \in 1..(i - 1) : b[j].kind \in Binders /\ b[j].var = name
  BY DEF Bound
<1>2. Len(b) \in Nat /\ DOMAIN b = 1..Len(b) /\ j \in 1..Len(b)
  BY LinesDef
<1>3. b[j].kind = "let" /\ Supported(b[j].exp)
  BY <1>1, <1>2 DEF Binders, Kinds
<1> DEFINE l == [var |-> b[j].var, exp |-> b[j].exp]
<1>4. l \in Collect(b)[j].lets
  <2>1. CollectStmt(b[j]).lets = {l}
    BY <1>3 DEF CollectStmt
  <2>2. Collect(b)[j] = CollectStmt(b[j])
    BY <1>2, LinesDef
  <2> HIDE DEF l
  <2> QED
    BY <2>1, <2>2
<1>5. name \in Needed(Collect(b), j)
  BY NeededBefore
<1>6. l \in Lines(b)[j].lets
  <2>1. l.var = name
    BY <1>1
  <2>2. Lines(b)[j].lets = {x \in Collect(b)[j].lets : x.var \in Needed(Collect(b), j)}
    BY <1>2, LinesDef
  <2> HIDE DEF l
  <2> QED
    BY <1>4, <1>5, <2>1, <2>2
<1>7. name \in {x.var : x \in Lines(b)[j].lets}
  <2>1. l.var = name
    BY <1>1
  <2> HIDE DEF l
  <2> QED
    BY <1>6, <2>1
<1> QED
  BY <1>7 DEF Declared

\* Every name that is shown is a parameter or declared above.
LEMMA BodyWellScoped ==
  ASSUME NEW b, Body(b), "let_tuple" \notin Kinds(b),
         \A j \in DOMAIN b : b[j].kind = "let" => Supported(b[j].exp),
         NEW i \in 1..Len(b)
  PROVE  /\ \A l \in Lines(b)[i].lets : Free(l.exp) \subseteq Params \cup Declared(Lines(b), i - 1)
         /\ \A line \in Lines(b)[i].aborts : LineVars(line) \subseteq Params \cup Declared(Lines(b), i - 1)
<1>1. b \in Seq(Statements) /\ b[i] \in Statements /\ Compiles(b, i - 1, b[i])
  BY LinesDef DEF Body
<1>2. CASE "for" \in Kinds(b)
  BY <1>1, <1>2, NothingCollected
<1>3. CASE "for" \notin Kinds(b)
  <2>1. ASSUME NEW l \in Lines(b)[i].lets, NEW name \in Free(l.exp)
        PROVE  name \in Params \cup Declared(Lines(b), i - 1)
    <3>1. name \in Params \cup Bound(b, i - 1)
      BY <1>1, <2>1, PrintedOf, ItemVarsCompile
    <3> QED
      BY <1>1, <1>3, <2>1, <3>1, DeclaredBefore
  <2>2. ASSUME NEW line \in Lines(b)[i].aborts, NEW name \in LineVars(line)
        PROVE  name \in Params \cup Declared(Lines(b), i - 1)
    <3>1. PICK item \in CollectStmt(b[i]).items : item \in Collect(b)[i].items /\ line \in EmitItem(item)
      BY <1>1, <2>2, PrintedOf
    <3>2. name \in ItemVars(item)
      BY <1>1, <2>2, <3>1, LineShowsItem
    <3>3. name \in Vars(CollectStmt(b[i]).items) /\ name \in Vars(Collect(b)[i].items)
      BY <3>1, <3>2 DEF Vars
    <3>4. name \in Params \cup Bound(b, i - 1)
      BY <1>1, <3>3, ItemVarsCompile
    <3> QED
      BY <1>1, <1>3, <3>3, <3>4, DeclaredBefore
  <2> QED
    BY <2>1, <2>2
<1> QED
  BY <1>2, <1>3

----------------------------------------------------------------------------
(* What a line says and what the body does. *)

\* The lets of a body are typed.
LEMMA LinesTyped ==
  ASSUME NEW b \in Seq(Statements), NEW input \in Inputs
  PROVE  /\ Reading(Lines(b), input)[0] = [known |-> Params, env |-> Env(input)]
         /\ \A i \in 0..Len(b) : Reading(Lines(b), input)[i] \in Readers
         /\ \A i \in 1..Len(b) :
              Reading(Lines(b), input)[i] = Read(Lines(b)[i], Reading(Lines(b), input)[i - 1])
<1>1. Len(Lines(b)) = Len(b) /\ Len(b) \in Nat
  BY LinesDef
<1>2. \A i \in 1..Len(b) : \A l \in Lines(b)[i].lets : l.var \in Locals /\ l.exp \in Expr
  BY PrintedOf
<1> QED
  BY <1>1, <1>2, ReadingDef

\* A let line that is read changes its name only.
LEMMA ReadStep ==
  ASSUME NEW b \in Seq(Statements), NEW input \in Inputs, NEW i \in 1..Len(b)
  PROVE  LET before == Reading(Lines(b), input)[i - 1]
             after == Reading(Lines(b), input)[i]
         IN  \/ /\ after.known = before.known
                /\ \A name \in Params \cup Locals : after.env[name] = before.env[name]
             \/ /\ b[i].kind = "let" /\ b[i].var \in Locals
                /\ Free(b[i].exp) \subseteq before.known
                /\ after.known = before.known \cup {b[i].var}
                /\ after.env[b[i].var] = SpecEval(b[i].exp, before.env)
                /\ \A name \in Params \cup Locals : name # b[i].var => after.env[name] = before.env[name]
<1> DEFINE before == Reading(Lines(b), input)[i - 1]
           after == Reading(Lines(b), input)[i]
           lets == {l \in Lines(b)[i].lets : Free(l.exp) \subseteq before.known}
           value(name) == IF \E l \in lets : l.var = name
                       THEN SpecEval((CHOOSE l \in lets : l.var = name).exp, before.env)
                       ELSE before.env[name]
           it == [var |-> b[i].var, exp |-> b[i].exp]
<1>1. after = [known |-> before.known \cup {l.var : l \in lets},
               env |-> [name \in Params \cup Locals |-> value(name)]]
  BY LinesTyped DEF Read
<1>2. after.known = before.known \cup {l.var : l \in lets} /\ \A name \in Params \cup Locals : after.env[name] = value(name)
  <2> HIDE DEF after, value, lets, before
  <2> QED
    BY <1>1
<1>3. \A l \in lets : b[i].kind = "let" /\ l = it /\ b[i].var \in Locals /\ Free(b[i].exp) \subseteq before.known
  BY PrintedOf
<1> HIDE DEF lets, before, after
<1>4. CASE lets = {}
  <2>1. \A name \in Params \cup Locals : value(name) = before.env[name]
    BY <1>4
  <2>2. {l.var : l \in lets} = {}
    BY <1>4
  <2> HIDE DEF value
  <2> QED
    BY <1>2, <2>1, <2>2 DEF before, after
<1>5. CASE lets # {}
  <2>1. lets = {it} /\ b[i].kind = "let" /\ b[i].var \in Locals /\ Free(b[i].exp) \subseteq before.known
    BY <1>3, <1>5
  <2>2. it.var = b[i].var /\ it.exp = b[i].exp
    OBVIOUS
  <2> HIDE DEF it
  <2>3. \A name : (\E l \in lets : l.var = name) <=> name = b[i].var
    BY <2>1, <2>2
  <2>4. (CHOOSE l \in lets : l.var = b[i].var) = it
    BY <2>1, <2>2
  <2>5. value(b[i].var) = SpecEval(b[i].exp, before.env)
    BY <2>2, <2>3, <2>4
  <2>6. \A name : name # b[i].var => value(name) = before.env[name]
    BY <2>3
  <2>7. {l.var : l \in lets} = {b[i].var}
    BY <2>1, <2>2
  <2> HIDE DEF value
  <2> QED
    BY <1>2, <2>1, <2>5, <2>6, <2>7 DEF before, after
<1> QED
  BY <1>4, <1>5

\* What is known is a parameter or bound.
LEMMA KnownNames ==
  ASSUME NEW b \in Seq(Statements), NEW input \in Inputs, NEW i \in 0..Len(b)
  PROVE  Reading(Lines(b), input)[i].known \subseteq Params \cup Bound(b, i)
<1> DEFINE n == Len(b)
           read == Reading(Lines(b), input)
           S == {k \in 0..n : read[k].known \subseteq Params \cup Bound(b, k)}
<1>1. n \in Nat
  OBVIOUS
<1>2. 0 \in S
  <2>1. read[0].known = Params
    <3>1. read[0] = [known |-> Params, env |-> Env(input)]
      BY LinesTyped
    <3> HIDE DEF read
    <3> QED
      BY <3>1
  <2> HIDE DEF read
  <2> QED
    BY <1>1, <2>1
<1>3. ASSUME NEW k \in 0..n, k \in S, k < n PROVE k + 1 \in S
  <2>1. k + 1 \in 1..n /\ (k + 1) - 1 = k /\ k + 1 \in 0..n
    BY <1>1, <1>3
  <2>2. \/ read[k + 1].known = read[k].known
        \/ b[k + 1].kind = "let" /\ read[k + 1].known = read[k].known \cup {b[k + 1].var}
    BY <2>1, ReadStep
  <2> HIDE DEF read
  <2>3. Bound(b, k) \subseteq Bound(b, k + 1)
    BY <1>1 DEF Bound
  <2>4. b[k + 1].kind = "let" => b[k + 1].var \in Bound(b, k + 1)
    BY <1>1, <2>1 DEF Bound, Binders
  <2> QED
    BY <1>3, <2>1, <2>2, <2>3, <2>4
<1> HIDE DEF S
<1>4. 0..n \subseteq S
  BY <1>1, <1>2, <1>3, RangeInduction
<1> QED
  BY <1>4 DEF S

\* A name that is declared once is new where it is declared.
LEMMA FreshName ==
  ASSUME NEW b \in Seq(Statements), DeclaredOnce(b), NEW i \in 1..Len(b), b[i].kind \in Binders
  PROVE  b[i].var \notin Params \cup Bound(b, i - 1)
<1>1. DOMAIN b = 1..Len(b) /\ Len(b) \in Nat
  OBVIOUS
<1>2. b[i].var \notin Params
  BY <1>1 DEF DeclaredOnce
<1>3. ASSUME b[i].var \in Bound(b, i - 1) PROVE FALSE
  <2>1. PICK j \in 1..(i - 1) : b[j].kind \in Binders /\ b[j].var = b[i].var
    BY <1>3 DEF Bound
  <2>2. j \in 1..Len(b) /\ j # i
    BY <1>1
  <2> QED
    BY <1>1, <2>1, <2>2 DEF DeclaredOnce
<1> QED
  BY <1>2, <1>3

\* A statement after which the function runs on.
LEMMA RunsOn ==
  ASSUME NEW b \in Seq(Statements), NEW input \in Inputs, NEW i \in 1..Len(b),
         Execution(b, input)[i].at = "running"
  PROVE  LET before == Execution(b, input)[i - 1]
             after == Execution(b, input)[i]
             v == Eval(b[i].exp, before.env)
         IN  /\ before.at = "running"
             /\ ~Fails(b[i], v)
             /\ after.env = IF b[i].kind \in Setters THEN [before.env EXCEPT ![b[i].var] = v] ELSE before.env
<1> DEFINE before == Execution(b, input)[i - 1]
           after == Execution(b, input)[i]
           v == Eval(b[i].exp, before.env)
<1>1. after = Step(b[i], before)
  BY ExecutionDef
<1> HIDE DEF before, after
<1>2. after = IF before.at # "running" THEN before
              ELSE [at |-> IF Fails(b[i], v) THEN "aborted"
                           ELSE IF b[i].kind = "if_return" /\ v # 0 THEN "returned" ELSE "running",
                    env |-> IF b[i].kind \in Setters /\ v # Aborted
                            THEN [before.env EXCEPT ![b[i].var] = v] ELSE before.env]
  BY <1>1 DEF Step
<1> HIDE DEF v
<1>3. after.at = "running"
  BY DEF after
<1>4. before.at = "running" /\ ~Fails(b[i], v)
  BY <1>2, <1>3
<1>5. v # Aborted
  BY <1>4 DEF Fails
<1> QED
  BY <1>2, <1>4, <1>5 DEF before, after, v

\* While the function runs, what is known has the value it has.
LEMMA ReadingAgrees ==
  ASSUME NEW b, Body(b), DeclaredOnce(b), "assign" \notin Kinds(b),
         \A j \in DOMAIN b : "shl" \notin Ops(b[j].exp),
         NEW input \in Inputs, NEW i \in 0..Len(b), Execution(b, input)[i].at = "running"
  PROVE  \A name \in Reading(Lines(b), input)[i].known :
           Reading(Lines(b), input)[i].env[name] = Execution(b, input)[i].env[name]
<1> DEFINE n == Len(b)
           read == Reading(Lines(b), input)
           run == Execution(b, input)
           Same(k) == run[k].at = "running" => \A name \in read[k].known : read[k].env[name] = run[k].env[name]
           S == {k \in 0..n : Same(k)}
<1>1. b \in Seq(Statements) /\ n \in Nat /\ DOMAIN b = 1..n
  BY DEF Body
<1>2. 0 \in S
  <2>1. read[0].env = Env(input) /\ run[0].env = Env(input)
    <3>1. read[0] = [known |-> Params, env |-> Env(input)]
      BY <1>1, LinesTyped
    <3>2. run[0] = [at |-> "running", env |-> Env(input)]
      BY <1>1, ExecutionDef
    <3> HIDE DEF read, run
    <3> QED
      BY <3>1, <3>2
  <2> HIDE DEF read, run
  <2> QED
    BY <1>1, <2>1
<1>3. ASSUME NEW k \in 0..n, k \in S, k < n PROVE k + 1 \in S
  <2> DEFINE s == b[k + 1]
             v == Eval(s.exp, run[k].env)
  <2>1. k + 1 \in 1..n /\ (k + 1) - 1 = k /\ k + 1 \in 0..n
    BY <1>1, <1>3
  <2> SUFFICES ASSUME run[k + 1].at = "running", NEW name \in read[k + 1].known
               PROVE  read[k + 1].env[name] = run[k + 1].env[name]
    BY <2>1
  <2>2. /\ run[k].at = "running" /\ ~Fails(s, v)
        /\ run[k + 1].env = IF s.kind \in Setters THEN [run[k].env EXCEPT ![s.var] = v] ELSE run[k].env
    BY <1>1, <2>1, RunsOn
  <2>3. \A x \in read[k].known : read[k].env[x] = run[k].env[x]
    BY <1>3, <2>2
  <2>4. run[k] \in Rounds /\ read[k] \in Readers /\ read[k + 1] \in Readers
    BY <1>1, <2>1, ExecutionDef, LinesTyped
  <2>5. read[k].known \subseteq Params \cup Bound(b, k)
    BY <1>1, KnownNames
  <2>6. s.kind \in Binders => s.var \notin read[k].known
    BY <1>1, <2>1, <2>5, FreshName
  <2>7. s \in Statements /\ s.exp \in Expr /\ "shl" \notin Ops(s.exp) /\ s.kind # "assign"
        /\ (s.kind \in Setters => s.var \in Locals)
    BY <1>1, <2>1, StatementsAssumption DEF Kinds
  <2>8. \/ /\ read[k + 1].known = read[k].known
           /\ \A x \in Params \cup Locals : read[k + 1].env[x] = read[k].env[x]
        \/ /\ s.kind = "let" /\ Free(s.exp) \subseteq read[k].known
           /\ read[k + 1].known = read[k].known \cup {s.var}
           /\ read[k + 1].env[s.var] = SpecEval(s.exp, read[k].env)
           /\ \A x \in Params \cup Locals : x # s.var => read[k + 1].env[x] = read[k].env[x]
    BY <1>1, <2>1, ReadStep
  <2>9. name \in Params \cup Locals /\ run[k].env \in Environment /\ read[k].env \in Reader
    BY <2>4 DEF Rounds, Readers
  <2> HIDE DEF read, run, s
  <2>10. v # Aborted
    BY <2>2 DEF Fails
  <2>11. s.kind \in Setters => s.kind \in Binders
    BY <2>7 DEF Setters
  <2>12. CASE name \in read[k].known
    <3>1. s.kind \in Setters => s.var # name
      BY <2>6, <2>11, <2>12
    <3>2. run[k + 1].env[name] = run[k].env[name]
      BY <2>2, <2>9, <3>1 DEF Environment
    <3>3. read[k + 1].env[name] = read[k].env[name]
      BY <2>8, <2>9, <3>1 DEF Setters, Binders
    <3> QED
      BY <2>3, <2>12, <3>2, <3>3
  <2>13. CASE name \notin read[k].known
    <3>1. /\ s.kind = "let" /\ name = s.var /\ Free(s.exp) \subseteq read[k].known
          /\ read[k + 1].env[name] = SpecEval(s.exp, read[k].env)
      BY <2>8, <2>13
    <3>2. \A x \in Free(s.exp) : read[k].env[x] = run[k].env[x]
      BY <2>3, <3>1
    <3>3. SpecEval(s.exp, read[k].env) = v
      BY <2>7, <2>9, <2>10, <3>2, SameValue
    <3>4. run[k + 1].env[name] = v
      <4>1. run[k + 1].env = [run[k].env EXCEPT ![s.var] = v]
        BY <2>2, <3>1 DEF Setters, Binders
      <4> HIDE DEF v
      <4> QED
        BY <2>9, <3>1, <4>1 DEF Environment
    <3> QED
      BY <3>1, <3>3, <3>4
  <2> QED
    BY <2>12, <2>13
<1> HIDE DEF S, n
<1>4. 0..n \subseteq S
  BY <1>1, <1>2, <1>3, RangeInduction
<1>5. i \in S
  BY <1>4 DEF n
<1> QED
  BY <1>5 DEF S

\* So where a statement is about to run, what its lines show does.
LEMMA LinesAgree ==
  ASSUME NEW b, Body(b), DeclaredOnce(b), "assign" \notin Kinds(b),
         \A j \in DOMAIN b : "shl" \notin Ops(b[j].exp),
         NEW input \in Inputs, NEW i \in 1..Len(b), Execution(b, input)[i - 1].at = "running",
         NEW name \in Reading(Lines(b), input)[i].known, name \in Params \cup Bound(b, i - 1)
  PROVE  Reading(Lines(b), input)[i].env[name] = Execution(b, input)[i - 1].env[name]
<1> DEFINE before == Reading(Lines(b), input)[i - 1]
           after == Reading(Lines(b), input)[i]
<1>1. b \in Seq(Statements) /\ i - 1 \in 0..Len(b) /\ i \in 0..Len(b)
  BY DEF Body
<1>2. b[i].kind = "let" => b[i].var # name
  BY <1>1, FreshName DEF Binders
<1>3. after \in Readers
  BY <1>1, LinesTyped
<1>4. name \in Params \cup Locals
  BY <1>3 DEF Readers
<1>5. name \in before.known /\ after.env[name] = before.env[name]
  BY <1>1, <1>2, <1>4, ReadStep
<1>6. before.env[name] = Execution(b, input)[i - 1].env[name]
  BY <1>1, <1>5, ReadingAgrees
<1> QED
  BY <1>5, <1>6

\* Without an early return, a function that has not aborted runs on throughout.
LEMMA RunsThrough ==
  ASSUME NEW b \in Seq(Statements), NEW input \in Inputs, "if_return" \notin Kinds(b),
         ~Aborts(b, input), NEW i \in 0..Len(b)
  PROVE  Execution(b, input)[i].at = "running"
<1> DEFINE n == Len(b)
           run == Execution(b, input)
           S == {k \in 0..n : run[k].at \in {"running", "aborted"}}
           T == {k \in 0..n : run[n - k].at = "running"}
<1>1. n \in Nat /\ DOMAIN b = 1..n
  OBVIOUS
<1>2. 0 \in S
  <2>1. run[0].at = "running"
    <3>1. run[0] = [at |-> "running", env |-> Env(input)]
      BY ExecutionDef
    <3> HIDE DEF run
    <3> QED
      BY <3>1
  <2> HIDE DEF run
  <2> QED
    BY <1>1, <2>1
<1>3. ASSUME NEW k \in 0..n, k \in S, k < n PROVE k + 1 \in S
  <2>1. k + 1 \in 1..n /\ (k + 1) - 1 = k /\ k + 1 \in 0..n
    BY <1>1, <1>3
  <2>2. run[k + 1] = Step(b[k + 1], run[k])
    BY <2>1, ExecutionDef
  <2>3. b[k + 1].kind # "if_return"
    BY <1>1, <2>1 DEF Kinds
  <2> HIDE DEF run
  <2>4. Step(b[k + 1], run[k]).at \in {run[k].at, "running", "aborted"}
    BY <2>3 DEF Step
  <2> QED
    BY <1>3, <2>1, <2>2, <2>4
<1> HIDE DEF S
<1>4. 0..n \subseteq S
  BY <1>1, <1>2, <1>3, RangeInduction
<1>5. 0 \in T
  <2>1. n \in S
    BY <1>1, <1>4
  <2>2. run[n].at = "running"
    BY <2>1 DEF S, Aborts
  <2> HIDE DEF run
  <2>3. n - 0 = n
    BY <1>1
  <2> QED
    BY <1>1, <2>2, <2>3
<1>6. ASSUME NEW k \in 0..n, k \in T, k < n PROVE k + 1 \in T
  <2>1. n - k \in 1..n /\ (n - k) - 1 = n - (k + 1) /\ k + 1 \in 0..n
    BY <1>1, <1>6
  <2>2. run[n - k].at = "running"
    BY <1>6
  <2>3. run[(n - k) - 1].at = "running"
    BY <2>1, <2>2, RunsOn
  <2> HIDE DEF run
  <2> QED
    BY <2>1, <2>3
<1> HIDE DEF T
<1>7. 0..n \subseteq T
  BY <1>1, <1>5, <1>6, RangeInduction
<1>8. n - i \in 0..n /\ n - (n - i) = i
  BY <1>1
<1>9. n - i \in T
  BY <1>7, <1>8
<1> HIDE DEF n
<1> QED
  BY <1>8, <1>9 DEF T

\* If an operand aborts, so does the operation.
LEMMA OperandAborts ==
  ASSUME NEW env \in Environment, NEW e \in Expr, NEW i \in DOMAIN e.args, Eval(e.args[i], env) = Aborted
  PROVE  Eval(e, env) = Aborted
<1>1. e.op \notin Leaves
  BY ExprAssumption
<1> QED
  BY <1>1, EvalDef DEF Environment

\* A line whose formula holds is of a statement that aborts.
LEMMA LineMeansAbort ==
  ASSUME NEW env \in Environment, NEW reader \in Reader, NEW s \in Statements, "shl" \notin Ops(s.exp),
         NEW item \in CollectStmt(s).items, NEW line \in EmitItem(item),
         \A name \in LineVars(line) : reader[name] = env[name], Condition(line, reader)
  PROVE  Fails(s, Eval(s.exp, env))
<1>1. s.exp \in Expr
  BY ItemsOf
<1>2. CASE /\ item.exp \in Walk[s.exp] /\ item.exp \in Expr /\ item.exp.op \in Arithmetic
           /\ line = [kind |-> "binop", op |-> item.exp.op, args |-> item.exp.args]
  <2>1. "shl" \notin Ops(item.exp)
    BY <1>1, <1>2, WalkDef, Parts
  <2>2. Eval(item.exp, env) = Aborted
    <3>1. CASE \E i \in DOMAIN item.exp.args : Eval(item.exp.args[i], env) = Aborted
      BY <1>2, <3>1, OperandAborts
    <3>2. CASE \A i \in DOMAIN item.exp.args : Eval(item.exp.args[i], env) # Aborted
      BY <1>2, <2>1, <3>2, BinopLine
    <3> QED
      BY <3>1, <3>2
  <2>3. Eval(s.exp, env) = Aborted
    BY <1>1, <1>2, <2>2, CollectedAborts
  <2> QED
    BY <2>3 DEF Fails
<1>3. CASE /\ s.kind = "assert" /\ s.exp.op \in Comparisons
           /\ line = [kind |-> "unless", op |-> InverseOp(s.exp.op), args |-> s.exp.args, code |-> s.code]
  <2>1. CASE \E i \in DOMAIN s.exp.args : Eval(s.exp.args[i], env) = Aborted
    BY <1>1, <2>1, OperandAborts DEF Fails
  <2>2. CASE \A i \in DOMAIN s.exp.args : Eval(s.exp.args[i], env) # Aborted
    <3>1. Eval(s.exp, env) = 0
      BY <1>1, <1>3, <2>2, ComparisonLine
    <3> QED
      BY <1>3, <3>1 DEF Fails
  <2> QED
    BY <2>1, <2>2
<1>4. CASE /\ s.kind = "assert"
           /\ line = [kind |-> "unless", op |-> "not", args |-> <<s.exp>>, code |-> s.code]
  <2>1. CASE Eval(s.exp, env) # Aborted
    <3>1. Eval(s.exp, env) = 0
      BY <1>1, <1>4, <2>1, CallLine
    <3> QED
      BY <1>4, <3>1 DEF Fails
  <2> QED
    BY <2>1 DEF Fails
<1>5. CASE line = [kind |-> "garbled"]
  <2>1. ~Condition(line, reader)
    BY <1>5 DEF Condition
  <2> QED
    BY <2>1
<1> QED
  BY <1>2, <1>3, <1>4, <1>5, LineOf

\* The lines of a body claim no abort that does not happen.
LEMMA BodySound ==
  ASSUME NEW b, Body(b), Kinds(b) \cap {"assign", "if_return"} = {}, DeclaredOnce(b),
         \A j \in DOMAIN b : "shl" \notin Ops(b[j].exp),
         NEW input \in Inputs, ~Aborts(b, input)
  PROVE  ~SaysAbort(Lines(b), input)
<1> SUFFICES ASSUME SaysAbort(Lines(b), input) PROVE FALSE
  OBVIOUS
<1> DEFINE read == Reading(Lines(b), input)
           run == Execution(b, input)
<1>1. b \in Seq(Statements) /\ DOMAIN Lines(b) = 1..Len(b) /\ DOMAIN b = 1..Len(b) /\ Len(b) \in Nat
  BY LinesDef DEF Body
<1>2. PICK i \in 1..Len(b) :
        \E line \in Lines(b)[i].aborts : LineVars(line) \subseteq read[i].known /\ Condition(line, read[i].env)
  BY <1>1 DEF SaysAbort
<1>3. PICK line \in Lines(b)[i].aborts : LineVars(line) \subseteq read[i].known /\ Condition(line, read[i].env)
  BY <1>2
<1>4. i \in 0..Len(b) /\ i - 1 \in 0..Len(b)
  BY <1>1
<1>5. run[i].at = "running" /\ run[i - 1].at = "running"
  BY <1>1, <1>4, RunsThrough
<1>6. run[i - 1].env \in Environment /\ read[i].env \in Reader
  BY <1>1, <1>4, ExecutionDef, LinesTyped DEF Rounds, Readers
<1>7. ~Fails(b[i], Eval(b[i].exp, run[i - 1].env))
  BY <1>1, <1>5, RunsOn
<1>8. PICK item \in CollectStmt(b[i]).items : item \in Collect(b)[i].items /\ line \in EmitItem(item)
  BY <1>1, PrintedOf
<1>9. b[i] \in Statements /\ "shl" \notin Ops(b[i].exp) /\ Compiles(b, i - 1, b[i])
  BY <1>1 DEF Body
<1>10. LineVars(line) \subseteq Params \cup Bound(b, i - 1)
  <2>1. LineVars(line) \subseteq Vars(CollectStmt(b[i]).items)
    BY <1>8, <1>9, LineShowsItem DEF Vars
  <2> QED
    BY <1>9, <2>1, ItemVarsCompile
<1>11. \A name \in LineVars(line) : read[i].env[name] = run[i - 1].env[name]
  BY <1>3, <1>5, <1>10, LinesAgree
<1> QED
  BY <1>3, <1>6, <1>7, <1>8, <1>9, <1>11, LineMeansAbort

\* What every let line declares is known.
LEMMA DeclaredIsKnown ==
  ASSUME NEW b, Body(b), "let_tuple" \notin Kinds(b),
         \A j \in DOMAIN b : b[j].kind = "let" => Supported(b[j].exp),
         NEW input \in Inputs, NEW i \in 0..Len(b)
  PROVE  Params \cup Declared(Lines(b), i) \subseteq Reading(Lines(b), input)[i].known
<1> DEFINE n == Len(b)
           lines == Lines(b)
           read == Reading(lines, input)
           S == {k \in 0..n : Params \cup Declared(lines, k) \subseteq read[k].known}
<1>1. b \in Seq(Statements) /\ n \in Nat
  BY DEF Body
<1>2. 0 \in S
  <2>1. read[0].known = Params
    <3>1. read[0] = [known |-> Params, env |-> Env(input)]
      BY <1>1, LinesTyped
    <3> HIDE DEF read
    <3> QED
      BY <3>1
  <2>2. Declared(lines, 0) = {}
    BY DEF Declared
  <2> HIDE DEF read, lines
  <2> QED
    BY <1>1, <2>1, <2>2
<1>3. ASSUME NEW k \in 0..n, k \in S, k < n PROVE k + 1 \in S
  <2>1. k + 1 \in 1..n /\ (k + 1) - 1 = k /\ k + 1 \in 0..n
    BY <1>1, <1>3
  <2>2. read[k + 1] = Read(lines[k + 1], read[k])
    BY <1>1, <2>1, LinesTyped
  <2>3. \A l \in lines[k + 1].lets : Free(l.exp) \subseteq Params \cup Declared(lines, k)
    BY <2>1, BodyWellScoped
  <2> HIDE DEF read, lines
  <2>4. read[k + 1].known = read[k].known \cup
                            {l.var : l \in {x \in lines[k + 1].lets : Free(x.exp) \subseteq read[k].known}}
    BY <2>2 DEF Read
  <2>5. \A l \in lines[k + 1].lets : l.var \in read[k + 1].known
    BY <1>3, <2>3, <2>4
  <2>6. Declared(lines, k + 1) \subseteq Declared(lines, k) \cup {l.var : l \in lines[k + 1].lets}
    <3>1. \A j \in 1..(k + 1) : j \in 1..k \/ j = k + 1
      BY <1>1
    <3> QED
      BY <3>1 DEF Declared
  <2> QED
    BY <1>3, <2>1, <2>4, <2>5, <2>6
<1> HIDE DEF S
<1>4. 0..n \subseteq S
  BY <1>1, <1>2, <1>3, RangeInduction
<1> QED
  BY <1>4 DEF S

\* A function that aborts, and never returns early, aborts at some statement.
LEMMA AbortsSomewhere ==
  ASSUME NEW b \in Seq(Statements), NEW input \in Inputs, "if_return" \notin Kinds(b), Aborts(b, input)
  PROVE  \E i \in 1..Len(b) : /\ Execution(b, input)[i - 1].at = "running"
                              /\ Fails(b[i], Eval(b[i].exp, Execution(b, input)[i - 1].env))
<1> DEFINE n == Len(b)
           run == Execution(b, input)
           S == {k \in 0..n : run[k].at = "running"}
<1>1. n \in Nat /\ DOMAIN b = 1..n
  OBVIOUS
<1>2. 0 \in S
  <2>1. run[0] = [at |-> "running", env |-> Env(input)]
    BY ExecutionDef
  <2> HIDE DEF run
  <2> QED
    BY <1>1, <2>1
<1>3. n \notin S
  BY DEF Aborts
<1> HIDE DEF S
<1>4. PICK k \in 0..n : k \in S /\ k < n /\ k + 1 \notin S
  <2>1. n \in 0..n
    BY <1>1
  <2> QED
    BY <1>1, <1>2, <1>3, <2>1, RangeInduction
<1>5. k + 1 \in 1..n /\ (k + 1) - 1 = k /\ k + 1 \in 0..n
  BY <1>1, <1>4
<1>6. run[k].at = "running" /\ run[k + 1].at # "running"
  BY <1>4, <1>5 DEF S
<1>7. run[k + 1] = Step(b[k + 1], run[k])
  BY <1>5, ExecutionDef
<1>8. b[k + 1].kind # "if_return"
  BY <1>1, <1>5 DEF Kinds
<1> HIDE DEF run
<1>9. Fails(b[k + 1], Eval(b[k + 1].exp, run[k].env))
  BY <1>6, <1>7, <1>8 DEF Step
<1> QED
  BY <1>5, <1>6, <1>9 DEF run, n

\* A number or a variable.
LEMMA Leaf ==
  ASSUME NEW e \in Expr, e.op \in Leaves
  PROVE  Ops(e) = {e.op} /\ \A env \in Environment : Eval(e, env) # Aborted
<1>1. Operands(e) = {}
  <2>1. e.args \in Seq(Expr) /\ Len(e.args) = 0
    BY ExprAssumption
  <2>2. DOMAIN e.args = {}
    BY <2>1
  <2> QED
    BY <2>2 DEF Operands
<1>2. Inside[e] = {e}
  BY <1>1, InsideDef
<1>3. ASSUME NEW env \in Environment PROVE Eval(e, env) # Aborted
  <2>1. CASE e.op = "num"
    <3>1. Eval(e, env) = e.val /\ e.val \in Number
      BY <2>1, EvalDef, ExprAssumption DEF Environment, Number
    <3> QED
      BY <3>1, TopIsNatural DEF Number
  <2>2. CASE e.op = "var"
    <3>1. Eval(e, env) = env[e.name] /\ env[e.name] \in Number
      BY <2>2, EvalDef, ExprAssumption DEF Environment
    <3> QED
      BY <3>1, TopIsNatural DEF Number
  <2> QED
    BY <2>1, <2>2 DEF Leaves
<1>4. Ops(e) = {e.op}
  BY <1>2 DEF Ops
<1> QED
  BY <1>3, <1>4

LEMMA OnlyOps ==
  ASSUME NEW e \in Expr, NEW op \in Ops(e)
  PROVE  op = e.op \/ \E x \in Operands(e) : op \in Ops(x)
<1>1. PICK y \in Inside[e] : op = y.op
  BY DEF Ops
<1>2. y = e \/ \E x \in Operands(e) : y \in Inside[x]
  BY InsideDef
<1> QED
  BY <1>1, <1>2 DEF Ops

\* The comparison or the test of an assertion that is printed exactly.
LEMMA SimpleTest ==
  ASSUME NEW e \in Expr, e.op \in Comparisons \cup {"test"}, \A x \in Operands(e) : x.op \in Leaves
  PROVE  /\ Ops(e) \subseteq {e.op} \cup Leaves
         /\ Supported(e) /\ ~Garbles(e) /\ "shl" \notin Ops(e)
         /\ \A env \in Environment : /\ Eval(e, env) # Aborted
                                     /\ \A i \in DOMAIN e.args : Eval(e.args[i], env) # Aborted
<1>1. \A x \in Operands(e) : x \in Expr /\ Ops(x) = {x.op} /\ x.op \in Leaves
  BY Operand, Leaf
<1>2. Ops(e) \subseteq {e.op} \cup Leaves
  BY <1>1, OnlyOps
<1>3. Supported(e) /\ "shl" \notin Ops(e)
  BY <1>2 DEF Supported, Comparisons, Leaves
<1>4. ~Garbles(e)
  <2> DEFINE hit == CASE e.op = "lt" -> {"lt", "le", "shl"}
                      [] e.op = "gt" -> {"gt", "ge", "shr"}
                      [] OTHER -> {e.op}
  <2>1. hit \cap Leaves = {}
    BY DEF Comparisons, Leaves
  <2>2. Garbles(e) = \E x \in Operands(e) : Ops(x) \cap hit # {}
    BY DEF Garbles
  <2> HIDE DEF hit
  <2>3. \A x \in Operands(e) : Ops(x) \cap hit = {}
    BY <1>1, <2>1
  <2> QED
    BY <2>2, <2>3
<1>5. ASSUME NEW env \in Environment
      PROVE  /\ Eval(e, env) # Aborted
             /\ \A i \in DOMAIN e.args : Eval(e.args[i], env) # Aborted
  <2>1. \A i \in DOMAIN e.args : Eval(e.args[i], env) # Aborted
    BY <1>1, Leaf DEF Operands
  <2> DEFINE v == [i \in DOMAIN e.args |-> Eval(e.args[i], env)]
  <2>2. e.op \notin Leaves
    BY DEF Leaves, Comparisons
  <2>3. Eval(e, env) = Apply(e.op, v)
    BY <2>1, <2>2, EvalDef DEF Environment
  <2> HIDE DEF v
  <2>4. \E p : Apply(e.op, v) = Bit(p)
    <3>1. CASE e.op = "test"
      BY <3>1, Applied
    <3>2. CASE e.op \in Comparisons
      <4>1. Apply(e.op, v) = Compare(e.op, v[1], v[2])
        BY <3>2, Applied
      <4>2. \E p : Compare(e.op, v[1], v[2]) = Bit(p)
        BY <3>2, Compared DEF Comparisons
      <4> QED
        BY <4>1, <4>2
    <3> QED
      BY <3>1, <3>2
  <2> QED
    BY <2>1, <2>3, <2>4, Bits, TopIsNatural
<1> QED
  BY <1>2, <1>3, <1>4, <1>5

\* A statement of these forms that aborts has a line whose formula holds.
LEMMA AbortHasLine ==
  ASSUME NEW env \in Environment, NEW reader \in Reader, NEW s \in Statements, ExactStmt(s),
         Fails(s, Eval(s.exp, env)),
         \A item \in CollectStmt(s).items : \A line \in EmitItem(item) :
           \A name \in LineVars(line) : reader[name] = env[name]
  PROVE  \E item \in CollectStmt(s).items : \E line \in EmitItem(item) : Condition(line, reader)
<1>1. s.exp \in Expr
  BY ItemsOf
<1>2. CASE s.kind \in {"do", "let"} /\ Exact(s.exp)
  <2>1. Eval(s.exp, env) = Aborted
    BY <1>2 DEF Fails
  <2>2. PICK x \in Walk[s.exp] : /\ Eval(x, env) = Aborted
                                 /\ \A i \in DOMAIN x.args : Eval(x.args[i], env) # Aborted
    BY <1>1, <1>2, <2>1, AbortIsCollected
  <2>3. x \in Inside[s.exp] /\ x.op \in Arithmetic /\ x \in Expr
    BY <1>1, WalkDef, InsideDef
  <2>4. EmitBinop([exp |-> x]) # {} /\ "shl" \notin Ops(x)
    <3>1. x.op \notin Leaves \cup {"deref"}
      BY <2>3 DEF Arithmetic, Leaves
    <3>2. EmitBinop([exp |-> x]) # {}
      BY <1>2, <2>3, <3>1 DEF Exact
    <3>3. "shl" \notin Ops(s.exp)
      BY <1>2 DEF Exact, Ops, Leaves
    <3> QED
      BY <1>1, <2>3, <3>2, <3>3, Parts
  <2> DEFINE item == [kind |-> "binop", exp |-> x]
             line == [kind |-> "binop", op |-> x.op, args |-> x.args]
  <2>5. item \in CollectStmt(s).items
    <3>1. CollectStmt(s).items = {[kind |-> "binop", exp |-> e] : e \in CollectExp(s.exp)}
      BY <1>2 DEF CollectStmt, Setters, Binders
    <3> QED
      BY <3>1 DEF CollectExp
  <2>6. line \in EmitItem(item)
    <3>1. EmitBinop(item) = {line}
      BY <2>4 DEF EmitBinop
    <3> QED
      BY <3>1 DEF EmitItem
  <2>7. \A name \in LineVars(line) : reader[name] = env[name]
    BY <2>5, <2>6
  <2>8. Condition(line, reader)
    BY <2>2, <2>3, <2>4, <2>7, BinopLine
  <2> QED
    BY <2>5, <2>6, <2>8
<1>3. CASE /\ s.kind = "assert" /\ s.exp.op \in Comparisons \cup {"test"}
           /\ \A x \in Operands(s.exp) : x.op \in Leaves
           /\ Supported(s.code)
  <2> DEFINE item == [kind |-> "assert", exp |-> s.exp, code |-> s.code]
  <2>1. /\ Supported(s.exp) /\ ~Garbles(s.exp) /\ "shl" \notin Ops(s.exp)
        /\ Eval(s.exp, env) # Aborted
        /\ \A i \in DOMAIN s.exp.args : Eval(s.exp.args[i], env) # Aborted
    BY <1>1, <1>3, SimpleTest
  <2>2. Eval(s.exp, env) = 0
    BY <1>3, <2>1 DEF Fails
  <2>3. item \in CollectStmt(s).items
    BY <1>3, <2>1 DEF CollectStmt, Setters, Binders
  <2>4. EmitItem(item) = EmitAssert(item)
    BY DEF EmitItem
  <2>5. CASE s.exp.op \in Comparisons
    <3> DEFINE line == [kind |-> "unless", op |-> InverseOp(s.exp.op), args |-> s.exp.args, code |-> s.code]
    <3>1. EmitAssert(item) = {line}
      BY <2>1, <2>5 DEF EmitAssert, NegatedComparison
    <3>2. \A name \in LineVars(line) : reader[name] = env[name]
      BY <2>3, <2>4, <3>1
    <3>3. Condition(line, reader)
      BY <1>1, <2>1, <2>2, <2>5, <3>2, ComparisonLine
    <3> QED
      BY <2>3, <2>4, <3>1, <3>3
  <2>6. CASE s.exp.op = "test"
    <3> DEFINE line == [kind |-> "unless", op |-> "not", args |-> <<s.exp>>, code |-> s.code]
    <3>1. EmitAssert(item) = {line}
      BY <2>6 DEF EmitAssert, NegatedCall, Comparisons, MoveFunctions
    <3>2. \A name \in LineVars(line) : reader[name] = env[name]
      BY <2>3, <2>4, <3>1
    <3>3. Condition(line, reader)
      BY <1>1, <2>1, <2>2, <3>2, CallLine
    <3> QED
      BY <2>3, <2>4, <3>1, <3>3
  <2> QED
    BY <1>3, <2>5, <2>6
<1> QED
  BY <1>2, <1>3 DEF ExactStmt

\* The lines of a body of such statements cover all that abort.
LEMMA BodyComplete ==
  ASSUME NEW b, Body(b), \A j \in DOMAIN b : ExactStmt(b[j]), DeclaredOnce(b),
         NEW input \in Inputs, Aborts(b, input)
  PROVE  SaysAbort(Lines(b), input)
<1> DEFINE lines == Lines(b)
           read == Reading(lines, input)
           run == Execution(b, input)
<1>1. b \in Seq(Statements) /\ DOMAIN lines = 1..Len(b) /\ DOMAIN b = 1..Len(b) /\ Len(b) \in Nat
  BY LinesDef DEF Body
<1>2. \A j \in DOMAIN b : b[j].kind \in {"do", "let", "assert"}
  BY DEF ExactStmt
<1>3. Kinds(b) \cap {"assign", "if_return", "for", "let_tuple"} = {}
  BY <1>2 DEF Kinds
<1>4. \A j \in DOMAIN b : b[j].kind = "let" => Supported(b[j].exp)
  BY DEF ExactStmt
<1>5. ASSUME NEW j \in DOMAIN b PROVE "shl" \notin Ops(b[j].exp)
  <2>1. CASE Exact(b[j].exp)
    BY <2>1 DEF Exact, Ops, Leaves
  <2>2. CASE b[j].exp.op \in Comparisons \cup {"test"} /\ \A x \in Operands(b[j].exp) : x.op \in Leaves
    BY <1>1, <2>2, ItemsOf, SimpleTest
  <2> QED
    BY <2>1, <2>2 DEF ExactStmt
<1>6. PICK i \in 1..Len(b) : run[i - 1].at = "running" /\ Fails(b[i], Eval(b[i].exp, run[i - 1].env))
  BY <1>1, <1>3, AbortsSomewhere
<1>7. i \in 0..Len(b) /\ i - 1 \in 0..Len(b)
  BY <1>1
<1>8. run[i - 1].env \in Environment /\ read[i].env \in Reader
  BY <1>1, <1>7, ExecutionDef, LinesTyped DEF Rounds, Readers
<1>9. b[i] \in Statements /\ ExactStmt(b[i]) /\ Compiles(b, i - 1, b[i]) /\ Collect(b)[i] = CollectStmt(b[i])
  BY <1>1, <1>3, LinesDef DEF Body
<1>10. lines[i].aborts = UNION {EmitItem(item) : item \in CollectStmt(b[i]).items}
  BY <1>1, <1>9, LinesDef
<1>11. ASSUME NEW item \in CollectStmt(b[i]).items, NEW line \in EmitItem(item)
       PROVE  /\ line \in lines[i].aborts
              /\ LineVars(line) \subseteq read[i].known
              /\ \A name \in LineVars(line) : read[i].env[name] = run[i - 1].env[name]
  <2>1. line \in lines[i].aborts
    BY <1>10
  <2>2. LineVars(line) \subseteq Params \cup Declared(lines, i)
    <3>1. LineVars(line) \subseteq Params \cup Declared(lines, i - 1)
      BY <1>3, <1>4, <2>1, BodyWellScoped
    <3>2. 1..(i - 1) \subseteq 1..i
      BY <1>1
    <3>3. Declared(lines, i - 1) \subseteq Declared(lines, i)
      BY <3>2 DEF Declared
    <3> QED
      BY <3>1, <3>3
  <2>3. LineVars(line) \subseteq read[i].known
    <3>1. Params \cup Declared(lines, i) \subseteq read[i].known
      BY <1>3, <1>4, <1>7, DeclaredIsKnown
    <3> QED
      BY <2>2, <3>1
  <2>4. LineVars(line) \subseteq Params \cup Bound(b, i - 1)
    <3>1. LineVars(line) \subseteq Vars(CollectStmt(b[i]).items)
      BY <1>9, LineShowsItem DEF Vars
    <3> QED
      BY <1>9, <3>1, ItemVarsCompile
  <2>5. \A name \in LineVars(line) : read[i].env[name] = run[i - 1].env[name]
    BY <1>3, <1>5, <1>6, <2>3, <2>4, LinesAgree
  <2> QED
    BY <2>1, <2>3, <2>5
<1>12. PICK item \in CollectStmt(b[i]).items : \E line \in EmitItem(item) : Condition(line, read[i].env)
  BY <1>6, <1>8, <1>9, <1>11, AbortHasLine
<1>13. \E line \in lines[i].aborts : LineVars(line) \subseteq read[i].known /\ Condition(line, read[i].env)
  BY <1>11, <1>12
<1> QED
  BY <1>1, <1>13 DEF SaysAbort

----------------------------------------------------------------------------
(* Lets that are kept. *)

\* What the pass has seen used is used by what is kept.
LEMMA UsedIsUsed ==
  ASSUME NEW b \in Seq(Statements), NEW k \in 0..Len(b), NEW name \in UsedByLast(Collect(b))[k]
  PROVE  \E j \in (Len(b) - k + 1)..Len(b) :
           \/ name \in Vars(Collect(b)[j].items)
           \/ \E l \in Lines(b)[j].lets : name \in Free(l.exp)
<1> DEFINE n == Len(b)
           groups == Collect(b)
           used == UsedByLast(groups)
           Shown(j) == \/ name \in Vars(groups[j].items)
                       \/ \E l \in Lines(b)[j].lets : name \in Free(l.exp)
           S == {x \in 0..n : name \in used[x] => \E j \in (n - x + 1)..n : Shown(j)}
<1>1. n \in Nat /\ Len(groups) = n
  BY LinesDef
<1>2. 0 \in S
  <2>1. used[0] = {}
    BY <1>1, UsedDef
  <2> HIDE DEF used, Shown, n
  <2> QED
    BY <1>1, <2>1
<1>3. ASSUME NEW x \in 0..n, x \in S, x < n PROVE x + 1 \in S
  <2> DEFINE i == n - x
             sofar == used[x] \cup Vars(groups[i].items)
             kept == {y \in groups[i].lets : y.var \in sofar}
  <2>1. /\ x + 1 \in 1..n /\ (x + 1) - 1 = x /\ x + 1 \in 0..n
        /\ n - (x + 1) + 1 = i /\ i \in 1..n /\ n - i = x
    BY <1>1, <1>3
  <2>2. used[x + 1] = sofar \cup UNION {Free(l.exp) : l \in kept}
    BY <1>1, <2>1, UsedDef
  <2>3. Lines(b)[i].lets = kept
    <3>1. Needed(groups, i) = sofar
      BY <1>1, <2>1 DEF Needed
    <3>2. Lines(b)[i].lets = {y \in groups[i].lets : y.var \in Needed(groups, i)}
      BY <2>1, LinesDef
    <3> QED
      BY <3>1, <3>2
  <2> SUFFICES ASSUME name \in used[x + 1] PROVE \E j \in i..n : Shown(j)
    BY <2>1
  <2>4. i \in i..n /\ \A j \in (n - x + 1)..n : j \in i..n
    BY <1>1, <2>1
  <2>5. CASE name \in used[x]
    <3> HIDE DEF Shown, used, n, i
    <3>1. \E j \in (n - x + 1)..n : Shown(j)
      BY <1>3, <2>5
    <3> QED
      BY <2>4, <3>1
  <2>6. CASE name \notin used[x]
    <3>1. name \in Vars(groups[i].items) \/ \E l \in kept : name \in Free(l.exp)
      <4> HIDE DEF kept, used
      <4> QED
        BY <2>2, <2>6
    <3>2. Shown(i)
      <4> HIDE DEF kept
      <4> QED
        BY <2>3, <3>1
    <3> HIDE DEF Shown, i
    <3> QED
      BY <2>4, <3>2
  <2> QED
    BY <2>5, <2>6
<1> HIDE DEF S
<1>4. 0..n \subseteq S
  BY <1>1, <1>2, <1>3, RangeInduction
<1>5. k \in S
  BY <1>4
<1> QED
  BY <1>5 DEF S

\* A name that an item uses is shown by its line, or is in a dividend.
LEMMA ItemIsShown ==
  ASSUME NEW s \in Statements, Supported(s.exp),
         s.kind = "assert" => s.exp.op \in Comparisons \cup MoveFunctions,
         NEW item \in CollectStmt(s).items, NEW name \in ItemVars(item),
         \A line \in EmitItem(item) : line.kind # "garbled"
  PROVE  \/ \E line \in EmitItem(item) : name \in LineVars(line)
         \/ name \in Dividends(s)
<1>1. s.exp \in Expr
  BY ItemsOf
<1>2. CASE item.kind = "binop" /\ item.exp \in Walk[s.exp]
  <2> DEFINE e == item.exp
             line == [kind |-> "binop", op |-> e.op, args |-> e.args]
  <2>1. e \in Expr /\ e.op \in Arithmetic /\ e \in Inside[s.exp]
    BY <1>1, <1>2, WalkDef, InsideDef
  <2>2. DOMAIN e.args = 1..2 /\ e.op # "var"
    BY <2>1, Arguments DEF Binary, Arithmetic
  <2>3. \A i \in 1..2 : Supported(e.args[i])
    <3>1. Supported(e)
      BY <1>1, <2>1, Parts
    <3>2. \A i \in 1..2 : e.args[i] \in Inside[e]
      BY <2>1, <2>2, Arguments, InsideOperands
    <3> QED
      BY <2>1, <3>1, <3>2, Parts
  <2>4. EmitBinop(item) = {line}
    BY <2>3 DEF EmitBinop
  <2>5. line \in EmitItem(item)
    BY <1>2, <2>4 DEF EmitItem
  <2>6. name \in FreeIn(e.args)
    <3>1. name \in Free(e)
      BY <1>2 DEF ItemVars
    <3> QED
      BY <2>1, <2>2, <3>1, FreeOfOperation
  <2>7. name \in Free(e.args[1]) \/ name \in Free(e.args[2])
    BY <2>2, <2>6 DEF FreeIn
  <2>8. LineVars(line) = IF e.op \in Divisions THEN Free(e.args[2]) ELSE FreeIn(e.args)
    BY DEF LineVars
  <2>9. e.op \in Divisions => Free(e.args[1]) \subseteq Dividends(s)
    BY <1>2 DEF Dividends
  <2> QED
    BY <2>5, <2>6, <2>7, <2>8, <2>9
<1>3. CASE s.kind = "assert" /\ item = [kind |-> "assert", exp |-> s.exp, code |-> s.code]
  <2>1. EmitItem(item) = EmitAssert(item) /\ item.exp = s.exp /\ item.code = s.code
    BY <1>3 DEF EmitItem
  <2>2. CASE s.exp.op \in Comparisons
    <3>1. EmitItem(item) = {NegatedComparison(item)}
      BY <2>1, <2>2 DEF EmitAssert
    <3>2. NegatedComparison(item).kind # "garbled"
      BY <3>1
    <3>3. NegatedComparison(item) =
            [kind |-> "unless", op |-> InverseOp(s.exp.op), args |-> s.exp.args, code |-> s.code]
      BY <2>1, <3>2 DEF NegatedComparison
    <3>4. LineVars(NegatedComparison(item)) = FreeIn(s.exp.args) \cup Free(s.code)
      BY <3>3 DEF LineVars
    <3>5. FreeIn(s.exp.args) = Free(s.exp)
      BY <1>1, <2>2, FreeOfOperation DEF Comparisons
    <3>6. name \in Free(s.exp) \cup Free(s.code)
      BY <1>3 DEF ItemVars
    <3> QED
      BY <3>1, <3>4, <3>5, <3>6
  <2>3. CASE s.exp.op \in MoveFunctions
    <3>1. EmitItem(item) = {NegatedCall(item)}
      BY <2>1, <2>3 DEF EmitAssert, Comparisons, MoveFunctions
    <3>2. NegatedCall(item) = [kind |-> "unless", op |-> "not", args |-> <<s.exp>>, code |-> s.code]
      BY <2>1 DEF NegatedCall
    <3>3. LineVars(NegatedCall(item)) = FreeIn(<<s.exp>>) \cup Free(s.code)
      BY <3>2 DEF LineVars
    <3>4. FreeIn(<<s.exp>>) = Free(s.exp)
      BY DEF FreeIn
    <3>5. name \in Free(s.exp) \cup Free(s.code)
      BY <1>3 DEF ItemVars
    <3> QED
      BY <3>1, <3>3, <3>4, <3>5
  <2> QED
    BY <1>3, <2>2, <2>3
<1> QED
  BY <1>2, <1>3, ItemsOf

\* Every let that is kept serves a line, or a dividend.
LEMMA BodyNoIdleLet ==
  ASSUME NEW b, Body(b), \A j \in DOMAIN b : Supported(b[j].exp),
         \A j \in DOMAIN b : b[j].kind = "assert" => b[j].exp.op \in Comparisons \cup MoveFunctions,
         NoneGarbled(Lines(b)), NEW i \in 1..Len(b), NEW l \in Lines(b)[i].lets
  PROVE  \E j \in i..Len(b) :
           \/ \E line \in Lines(b)[j].aborts : l.var \in LineVars(line)
           \/ j > i /\ \E other \in Lines(b)[j].lets : l.var \in Free(other.exp)
           \/ l.var \in Dividends(b[j])
<1> DEFINE n == Len(b)
           groups == Collect(b)
           name == l.var
           Serves(j) == \/ \E line \in Lines(b)[j].aborts : name \in LineVars(line)
                        \/ j > i /\ \E other \in Lines(b)[j].lets : name \in Free(other.exp)
                        \/ name \in Dividends(b[j])
<1>1. b \in Seq(Statements) /\ n \in Nat /\ DOMAIN b = 1..n /\ Len(groups) = n
  BY LinesDef DEF Body
<1>2. name \in Needed(groups, i)
  BY <1>1, PrintedOf
<1>3. name \in UsedByLast(groups)[n - i] \/ name \in Vars(groups[i].items)
  BY <1>1, <1>2 DEF Needed
<1>4. ASSUME NEW j \in 1..n, name \in Vars(groups[j].items) PROVE Serves(j)
  <2>1. PICK item \in groups[j].items : name \in ItemVars(item)
    BY <1>4 DEF Vars
  <2>2. groups[j].items \subseteq CollectStmt(b[j]).items /\ b[j] \in Statements
    <3>1. groups[j] \in {CollectStmt(b[j]), [lets |-> {}, items |-> {}]} /\ b[j] \in Statements
      BY <1>1, LinesDef
    <3> HIDE DEF groups
    <3> QED
      BY <3>1
  <2>3. Lines(b)[j].aborts = UNION {EmitItem(x) : x \in groups[j].items}
    BY <1>1, LinesDef
  <2>4. EmitItem(item) \subseteq Lines(b)[j].aborts
    <3> HIDE DEF groups
    <3> QED
      BY <2>1, <2>3
  <2>5. \A line \in EmitItem(item) : line.kind # "garbled"
    <3>1. DOMAIN Lines(b) = 1..n
      BY <1>1, LinesDef
    <3> QED
      BY <2>4, <3>1 DEF NoneGarbled
  <2>6. Supported(b[j].exp) /\ (b[j].kind = "assert" => b[j].exp.op \in Comparisons \cup MoveFunctions)
    BY <1>1
  <2>7. (\E line \in EmitItem(item) : name \in LineVars(line)) \/ name \in Dividends(b[j])
    <3> HIDE DEF groups, name
    <3>1. item \in CollectStmt(b[j]).items /\ name \in ItemVars(item)
      BY <2>1, <2>2
    <3> QED
      BY <2>2, <2>5, <2>6, <3>1, ItemIsShown
  <2> QED
    BY <2>4, <2>7
<1>5. CASE name \in Vars(groups[i].items)
  <2>1. Serves(i)
    BY <1>4, <1>5
  <2>2. i \in i..n
    BY <1>1
  <2> QED
    BY <2>1, <2>2
<1>6. CASE name \in UsedByLast(groups)[n - i]
  <2>1. n - i \in 0..n /\ (n - (n - i) + 1) = i + 1
    BY <1>1
  <2>2. PICK j \in (i + 1)..n : \/ name \in Vars(groups[j].items)
                                \/ \E other \in Lines(b)[j].lets : name \in Free(other.exp)
    <3> HIDE DEF name
    <3>1. \E j \in (n - (n - i) + 1)..n : \/ name \in Vars(groups[j].items)
                                          \/ \E other \in Lines(b)[j].lets : name \in Free(other.exp)
      BY <1>1, <1>6, <2>1, UsedIsUsed
    <3> QED
      BY <2>1, <3>1
  <2>3. j \in 1..n /\ j \in i..n /\ j > i
    BY <1>1
  <2>4. Serves(j)
    BY <1>4, <2>2, <2>3
  <2> QED
    BY <2>3, <2>4
<1> QED
  BY <1>3, <1>5, <1>6

----------------------------------------------------------------------------
(* The generator. *)

\* What is true in every state: the body compiles, and a specification that is
\* current is that of the body.
GeneratorInv ==
  /\ Body(body)
  /\ current \in BOOLEAN
  /\ current => spec = Lines(body)

LEMMA GeneratorInvHolds == GeneratorSpec => []GeneratorInv
<1>1. GeneratorInit => GeneratorInv
  <2> SUFFICES ASSUME GeneratorInit PROVE GeneratorInv
    OBVIOUS
  <2>1. body = << >> /\ current = FALSE
    BY DEF GeneratorInit
  <2>2. Body(<< >>)
    BY DEF Body
  <2> QED
    BY <2>1, <2>2 DEF GeneratorInv
<1>2. GeneratorInv /\ [GeneratorNext]_generatorVars => GeneratorInv'
  <2> SUFFICES ASSUME GeneratorInv, [GeneratorNext]_generatorVars PROVE GeneratorInv'
    OBVIOUS
  <2>1. ASSUME NEW s \in Statements, Write(s) PROVE GeneratorInv'
    <3>1. body \in Seq(Statements) /\ \A i \in DOMAIN body : Compiles(body, i - 1, body[i])
      BY DEF GeneratorInv, Body
    <3>2. body' = Append(body, s) /\ current' = FALSE /\ Compiles(body, Len(body), s)
      BY <2>1 DEF Write
    <3>3. /\ body' \in Seq(Statements) /\ Len(body') = Len(body) + 1 /\ Len(body) \in Nat
          /\ DOMAIN body' = 1..(Len(body) + 1) /\ DOMAIN body = 1..Len(body)
          /\ body'[Len(body) + 1] = s
          /\ \A i \in 1..Len(body) : body'[i] = body[i]
      BY <3>1, <3>2
    <3>4. ASSUME NEW k \in 0..Len(body) PROVE Bound(body', k) = Bound(body, k)
      <4>1. \A j \in 1..k : body'[j] = body[j]
        BY <3>3
      <4> QED
        BY <4>1 DEF Bound
    <3>5. ASSUME NEW i \in DOMAIN body' PROVE Compiles(body', i - 1, body'[i])
      <4>1. i - 1 \in 0..Len(body)
        BY <3>3
      <4>2. CASE i \in 1..Len(body)
        <5>1. Compiles(body, i - 1, body[i]) /\ body'[i] = body[i]
          BY <3>1, <3>3, <4>2
        <5> QED
          BY <3>4, <4>1, <5>1 DEF Compiles
      <4>3. CASE i = Len(body) + 1
        <5>1. i - 1 = Len(body) /\ body'[i] = s
          BY <3>3, <4>3
        <5> QED
          BY <3>2, <3>4, <4>1, <5>1 DEF Compiles
      <4> QED
        BY <3>3, <4>2, <4>3
    <3> QED
      BY <3>2, <3>3, <3>5 DEF GeneratorInv, Body
  <2>2. CASE Generate
    BY <2>2 DEF GeneratorInv, Generate, Lines
  <2>3. CASE UNCHANGED generatorVars
    BY <2>3 DEF GeneratorInv, generatorVars
  <2> QED
    BY <2>1, <2>2, <2>3 DEF GeneratorNext
<1> QED
  BY <1>1, <1>2, PTL DEF GeneratorSpec

\* For every body over any statements, whatever they are made of: no line of
\* the generated specification claims an abort that does not happen, within the
\* reach that Sound states.
THEOREM GeneratedLinesAreSound == GeneratorSpec => []Sound
<1>1. GeneratorInv => Sound
  <2> SUFFICES ASSUME GeneratorInv, current, Kinds(body) \cap {"assign", "if_return"} = {},
                      DeclaredOnce(body), \A i \in DOMAIN body : "shl" \notin Ops(body[i].exp),
                      NEW input \in Inputs, ~Aborts(body, input)
               PROVE  ~SaysAbort(spec, input)
    BY DEF Sound
  <2> QED
    BY BodySound DEF GeneratorInv
<1> QED
  BY <1>1, GeneratorInvHolds, PTL

\* The generated lines cover every abort of a body in which only arithmetic and
\* simple assertions abort: no operation is missed by the walk, no let that its
\* line needs is pruned, and what the let lines show is what the body computes.
THEOREM GeneratedLinesAreComplete == GeneratorSpec => []Complete
<1>1. GeneratorInv => Complete
  <2> SUFFICES ASSUME GeneratorInv, current, \A i \in DOMAIN body : ExactStmt(body[i]),
                      DeclaredOnce(body), NEW input \in Inputs, Aborts(body, input)
               PROVE  SaysAbort(spec, input)
    BY DEF Complete
  <2> QED
    BY BodyComplete DEF GeneratorInv
<1> QED
  BY <1>1, GeneratorInvHolds, PTL

\* Every name that the generated lines show is declared above them, however
\* the lets were pruned.
THEOREM GeneratedLinesAreWellScoped == GeneratorSpec => []WellScoped
<1>1. GeneratorInv => WellScoped
  <2> SUFFICES ASSUME GeneratorInv, current, "let_tuple" \notin Kinds(body),
                      \A i \in DOMAIN body : body[i].kind = "let" => Supported(body[i].exp),
                      NEW i \in DOMAIN spec
               PROVE  /\ \A l \in spec[i].lets : Free(l.exp) \subseteq Params \cup Declared(spec, i - 1)
                      /\ \A line \in spec[i].aborts : LineVars(line) \subseteq Params \cup Declared(spec, i)
    BY DEF WellScoped
  <2>1. Body(body) /\ spec = Lines(body)
    BY DEF GeneratorInv
  <2>2. i \in 1..Len(body) /\ Len(body) \in Nat
    BY <2>1, LinesDef DEF Body
  <2>3. /\ \A l \in spec[i].lets : Free(l.exp) \subseteq Params \cup Declared(spec, i - 1)
        /\ \A line \in spec[i].aborts : LineVars(line) \subseteq Params \cup Declared(spec, i - 1)
    BY <2>1, <2>2, BodyWellScoped
  <2>4. Declared(spec, i - 1) \subseteq Declared(spec, i)
    <3>1. 1..(i - 1) \subseteq 1..i
      BY <2>2
    <3> QED
      BY <3>1 DEF Declared
  <2> QED
    BY <2>3, <2>4
<1> QED
  BY <1>1, GeneratorInvHolds, PTL

\* The one backward pass leaves no let line that serves no later line and no
\* dividend.
THEOREM NoLetIsIdle == GeneratorSpec => []NoIdleLet
<1>1. GeneratorInv => NoIdleLet
  <2> SUFFICES ASSUME GeneratorInv, current, \A i \in DOMAIN body : Supported(body[i].exp),
                      \A i \in DOMAIN body :
                        body[i].kind = "assert" => body[i].exp.op \in Comparisons \cup MoveFunctions,
                      NoneGarbled(spec), NEW i \in DOMAIN spec, NEW l \in spec[i].lets
               PROVE  \E j \in i..Len(spec) :
                        \/ \E line \in spec[j].aborts : l.var \in LineVars(line)
                        \/ j > i /\ \E other \in spec[j].lets : l.var \in Free(other.exp)
                        \/ l.var \in Dividends(body[j])
    BY DEF NoIdleLet
  <2>1. Body(body) /\ spec = Lines(body)
    BY DEF GeneratorInv
  <2>2. i \in 1..Len(body) /\ Len(spec) = Len(body)
    BY <2>1, LinesDef DEF Body
  <2> QED
    BY <2>1, <2>2, BodyNoIdleLet
<1> QED
  BY <1>1, GeneratorInvHolds, PTL
====
