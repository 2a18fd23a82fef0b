----------------------------- MODULE RunPassProofs -----------------------------
(***************************************************************************)
(* Proofs about RunPass for all inputs, profiles, warm-ups and slices:     *)
(* types, that the detector alarms exactly at shifts, that the event of    *)
(* the coupled pods is one, that the edges fit what the memory accepts,    *)
(* and that source edges have a first aggressor.                           *)
(***************************************************************************)
EXTENDS RunPass, FiniteSetTheorems, TLAPS

-----------------------------------------------------------------------------
(* Least and largest elements. *)

\* Every set of natural numbers has a least element.
LEMMA LeastElement ==
  ASSUME NEW T \in SUBSET Nat, T # {}
  PROVE  \E m \in T : \A k \in T : m <= k
<1> DEFINE R == {ss \in Nat \X Nat : ss[1] < ss[2]}
<1>1. IsWellFoundedOn(R, Nat)
  BY NatLessThanWellFounded DEF OpToRel
<1>2. PICK m \in T : \A k \in T : ~(<<k, m>> \in R)
  <2> HIDE DEF R
  <2> QED BY <1>1, WFMin
<1>3. ASSUME NEW k \in T PROVE m <= k
  <2>1. k \in Nat /\ m \in Nat
    OBVIOUS
  <2>2. <<k, m>> \in R <=> k < m
    BY <2>1
  <2>3. QED
    BY <1>2, <2>1, <2>2
<1>4. QED
  BY <1>3

\* Min is the least element of a set of natural numbers.
LEMMA MinIsLeast ==
  ASSUME NEW T \in SUBSET Nat, T # {}
  PROVE  Min(T) \in T /\ \A k \in T : Min(T) <= k
BY LeastElement DEF Min

LEMMA MinOfTwo ==
  ASSUME NEW a \in Int, NEW b \in Int
  PROVE  Min({a, b}) = IF a <= b THEN a ELSE b
BY DEF Min

LEMMA MaxOfTwo ==
  ASSUME NEW a \in Int, NEW b \in Int
  PROVE  Max({a, b}) = IF a >= b THEN a ELSE b
BY DEF Max

\* A set with 0 that is closed under successors holds every natural number.
LEMMA SetInduction ==
  ASSUME NEW S, 0 \in S, \A n \in Nat : n \in S => n + 1 \in S
  PROVE  \A n \in Nat : n \in S
<1> SUFFICES ASSUME Nat \ S # {} PROVE FALSE
  OBVIOUS
<1>1. PICK m \in Nat \ S : \A k \in Nat \ S : m <= k
  BY LeastElement
<1>2. m - 1 \in Nat /\ m - 1 \in S
  BY <1>1
<1>3. (m - 1) + 1 \in S
  BY <1>2
<1>4. QED
  BY <1>1, <1>3

\* The first n values of a function have a largest one.
LEMMA LargestValue ==
  ASSUME NEW n \in Nat \ {0}, NEW f \in [1 .. n -> Nat]
  PROVE  \E i \in 1 .. n : \A j \in 1 .. n : f[j] <= f[i]
<1> DEFINE Has(k) == \E i \in 1 .. k : \A j \in 1 .. k : f[j] <= f[i]
           S == {k \in Nat : k < n => Has(k + 1)}
<1>1. 0 \in S
  <2>1. 1 \in 1 .. n /\ f[1] \in Nat /\ \A j \in 1 .. 0 + 1 : j = 1
    OBVIOUS
  <2>2. Has(0 + 1)
    BY <2>1
  <2>3. QED
    BY <2>2
<1>2. ASSUME NEW k \in Nat, k \in S PROVE k + 1 \in S
  <2> SUFFICES ASSUME k + 1 < n PROVE Has((k + 1) + 1)
    OBVIOUS
  <2>1. k < n /\ k + 2 \in 1 .. n /\ (k + 1) + 1 = k + 2
    OBVIOUS
  <2>2. PICK i \in 1 .. k + 1 : \A j \in 1 .. k + 1 : f[j] <= f[i]
    BY <1>2, <2>1
  <2>3. \A j \in 1 .. k + 2 : j \in 1 .. n /\ f[j] \in Nat /\ (j = k + 2 \/ j \in 1 .. k + 1)
    BY <2>1
  <2>4. i \in 1 .. k + 2 /\ k + 2 \in 1 .. k + 2
    OBVIOUS
  <2>5. CASE f[k + 2] <= f[i]
    <3>1. \A j \in 1 .. k + 2 : f[j] <= f[i]
      BY <2>2, <2>3, <2>5
    <3>2. QED
      BY <2>1, <2>4, <3>1
  <2>6. CASE ~(f[k + 2] <= f[i])
    <3>1. ASSUME NEW j \in 1 .. k + 2 PROVE f[j] <= f[k + 2]
      BY <2>2, <2>3, <2>4, <2>6
    <3>2. QED
      BY <2>1, <2>4, <3>1
  <2>7. QED
    BY <2>5, <2>6
<1>3. n - 1 \in S
  <2> HIDE DEF S
  <2>1. \A k \in Nat : k \in S
    BY <1>1, <1>2, SetInduction
  <2>2. n - 1 \in Nat
    OBVIOUS
  <2>3. QED
    BY <2>1, <2>2
<1>4. Has((n - 1) + 1)
  BY <1>3
<1>5. (n - 1) + 1 = n
  OBVIOUS
<1>6. QED
  BY <1>4, <1>5

-----------------------------------------------------------------------------
(* The loop of cusum_onsets. *)

Onset(n) == [idx : 1 .. n, alarm : 1 .. n, z : Int]

\* The state of the loop.
State(n) == [up : Nat, down : Nat, armed : Int, onsets : Seq(Onset(n))]

\* g is the loop's state after each sample up to n.
Rounds(z, n, g) ==
  g = [i \in Warmup .. n |-> IF i = Warmup THEN AfterWarmup ELSE CusumStep(g[i - 1], z, i)]

\* Back-tracking ends at a sample up to the alarm.
LEMMA BacktrackBounds ==
  ASSUME NEW z, NEW i \in Nat \ {0}, NEW sign
  PROVE  Backtrack(z, i, sign) \in 1 .. i
<1> DEFINE T == {j \in 1 .. i : \A m \in j .. i - 1 : sign * z[m] > 1}
<1>1. i \in T
  <2>1. i .. i - 1 = {}
    OBVIOUS
  <2>2. QED
    BY <2>1
<1>2. T \in SUBSET Nat
  OBVIOUS
<1>3. Min(T) \in T
  <2> HIDE DEF T
  <2> QED BY <1>1, <1>2, MinIsLeast
<1>4. QED
  BY <1>3 DEF Backtrack

LEMMA StepTypes ==
  ASSUME NEW z \in Seq(Int), NEW i \in 1 .. Len(z), NEW s \in State(Len(z))
  PROVE  CusumStep(s, z, i) \in State(Len(z))
<1> DEFINE up == Excess(s.up, z[i], 1)
           down == Excess(s.down, z[i], -1)
           sign == IF up > AlarmLevel THEN 1 ELSE -1
           o == [idx |-> Backtrack(z, i, sign), alarm |-> i, z |-> z[i]]
<1>1. Len(z) \in Nat /\ z[i] \in Int /\ i \in Nat \ {0} /\ i + Rearm \in Int
  BY DEF Rearm
<1>2. s.up \in Nat /\ s.down \in Nat /\ s.onsets \in Seq(Onset(Len(z))) /\ s.armed \in Int
  BY DEF State
<1>3. up \in Nat /\ down \in Nat
  <2>1. PICK a \in Nat, b \in Nat, c \in Int : a = s.up /\ b = s.down /\ c = z[i]
    BY <1>1, <1>2
  <2>2. a + 1 * c - Allowance \in Int /\ b + (-1) * c - Allowance \in Int
    BY DEF Allowance
  <2>3. Excess(a, c, 1) \in Nat /\ Excess(b, c, -1) \in Nat
    BY <2>2, MaxOfTwo DEF Excess
  <2>4. QED
    BY <2>1, <2>3
<1>4. o \in Onset(Len(z))
  <2>1. Backtrack(z, i, sign) \in 1 .. i
    BY <1>1, BacktrackBounds
  <2>2. QED
    BY <1>1, <2>1 DEF Onset
<1>5. Append(s.onsets, o) \in Seq(Onset(Len(z)))
  <2> HIDE DEF o
  <2> QED BY <1>2, <1>4
<1>6. [up |-> 0, down |-> 0, armed |-> i + Rearm, onsets |-> Append(s.onsets, o)] \in State(Len(z))
  <2> HIDE DEF o
  <2> QED BY <1>1, <1>5 DEF State
<1>7. [s EXCEPT !.up = up, !.down = down] \in State(Len(z))
  <2> HIDE DEF up, down
  <2> QED BY <1>3 DEF State
<1>8. QED
  BY <1>6, <1>7 DEF CusumStep

\* The state after each sample exists: every sample adds one to the ones before.
LEMMA RoundsExist ==
  ASSUME NEW z, NEW k \in Nat
  PROVE  \E g : Rounds(z, Warmup + k, g)
<1> DEFINE S == {m \in Nat : \E g : Rounds(z, Warmup + m, g)}
<1>1. Warmup \in Nat
  BY WarmupAssumption
<1>2. 0 \in S
  <2> DEFINE g == [i \in Warmup .. Warmup + 0 |-> AfterWarmup]
  <2>1. \A i \in Warmup .. Warmup + 0 : i = Warmup
    BY <1>1
  <2>2. Rounds(z, Warmup + 0, g)
    BY <2>1 DEF Rounds
  <2>3. QED
    BY <2>2
<1>3. ASSUME NEW m \in Nat, m \in S PROVE m + 1 \in S
  <2>1. PICK g : Rounds(z, Warmup + m, g)
    BY <1>3
  <2>2. PICK n \in Nat : n = Warmup + m /\ n >= Warmup /\ Warmup + (m + 1) = n + 1
    BY <1>1
  <2> DEFINE h == [i \in Warmup .. n + 1 |-> IF i = n + 1 THEN CusumStep(g[n], z, n + 1) ELSE g[i]]
  <2>3. g = [i \in Warmup .. n |-> IF i = Warmup THEN AfterWarmup ELSE CusumStep(g[i - 1], z, i)]
    BY <2>1, <2>2 DEF Rounds
  <2>4. ASSUME NEW i \in Warmup .. n + 1
        PROVE  h[i] = IF i = Warmup THEN AfterWarmup ELSE CusumStep(h[i - 1], z, i)
    <3>1. CASE i = n + 1
      <4>1. i # Warmup /\ i - 1 = n /\ n \in Warmup .. n + 1 /\ n # n + 1
        BY <1>1, <2>2, <3>1
      <4>2. h[i - 1] = g[n] /\ h[i] = CusumStep(g[n], z, n + 1)
        BY <3>1, <4>1
      <4>3. QED
        BY <3>1, <4>1, <4>2
    <3>2. CASE i # n + 1
      <4>1. i \in Warmup .. n /\ h[i] = g[i]
        BY <1>1, <2>2, <3>2
      <4>2. g[i] = IF i = Warmup THEN AfterWarmup ELSE CusumStep(g[i - 1], z, i)
        BY <2>3, <4>1
      <4>3. i # Warmup => i - 1 \in Warmup .. n + 1 /\ i - 1 # n + 1
        BY <1>1, <2>2, <4>1
      <4>4. i # Warmup => h[i - 1] = g[i - 1]
        BY <4>3
      <4>5. QED
        BY <4>1, <4>2, <4>4
    <3>3. QED
      BY <3>1, <3>2
  <2>5. h = [i \in Warmup .. n + 1 |-> h[i]]
    OBVIOUS
  <2>6. Rounds(z, n + 1, h)
    <3> HIDE DEF h
    <3> QED BY <2>4, <2>5 DEF Rounds
  <2>7. QED
    BY <2>2, <2>6
<1>4. \A m \in Nat : m \in S
  <2> HIDE DEF S
  <2> QED BY <1>2, <1>3, SetInduction
<1>5. QED
  BY <1>4

\* The loop starts after the warm-up and takes one step for each further sample.
LEMMA LoopRounds ==
  ASSUME NEW z \in Seq(Int), Warmup <= Len(z)
  PROVE  /\ CusumLoop(z)[Warmup] = AfterWarmup
         /\ \A i \in Warmup + 1 .. Len(z) : CusumLoop(z)[i] = CusumStep(CusumLoop(z)[i - 1], z, i)
<1> DEFINE loop == CusumLoop(z)
<1>1. Warmup \in Nat /\ Len(z) \in Nat
  BY WarmupAssumption
<1>2. PICK k \in Nat : Warmup + k = Len(z)
  <2>1. Len(z) - Warmup \in Nat /\ Warmup + (Len(z) - Warmup) = Len(z)
    BY <1>1
  <2>2. QED
    BY <2>1
<1>3. \E g : Rounds(z, Len(z), g)
  BY <1>2, RoundsExist
<1>4. Rounds(z, Len(z), loop)
  <2>1. loop = CHOOSE g : Rounds(z, Len(z), g)
    BY DEF CusumLoop, Rounds
  <2>2. QED
    BY <1>3, <2>1
<1>5. \A i \in Warmup .. Len(z) : loop[i] = IF i = Warmup THEN AfterWarmup ELSE CusumStep(loop[i - 1], z, i)
  <2>1. loop = [i \in Warmup .. Len(z) |-> IF i = Warmup THEN AfterWarmup ELSE CusumStep(loop[i - 1], z, i)]
    BY <1>4 DEF Rounds
  <2> HIDE DEF loop
  <2> DEFINE body(i) == IF i = Warmup THEN AfterWarmup ELSE CusumStep(loop[i - 1], z, i)
  <2> HIDE DEF body
  <2>2. loop = [i \in Warmup .. Len(z) |-> body(i)]
    BY <2>1 DEF body
  <2>3. \A i \in Warmup .. Len(z) : loop[i] = body(i)
    BY <2>2
  <2>4. QED
    BY <2>3 DEF body
<1>6. \A i \in Warmup + 1 .. Len(z) : i \in Warmup .. Len(z) /\ i # Warmup
  BY <1>1
<1>7. QED
  BY <1>1, <1>5, <1>6

\* cusum_onsets dates its onsets inside the series, whatever the series.
LEMMA OnsetTypes ==
  ASSUME NEW z \in Seq(Int)
  PROVE  /\ CusumOnsets(z) \in Seq(Onset(Len(z)))
         /\ \A i \in Warmup .. Len(z) : CusumLoop(z)[i] \in State(Len(z))
<1> DEFINE loop == CusumLoop(z)
           S == {m \in Nat : Warmup + m <= Len(z) => loop[Warmup + m] \in State(Len(z))}
<1> HIDE DEF loop
<1>1. Warmup \in Nat /\ Len(z) \in Nat
  BY WarmupAssumption
<1>2. 0 \in S
  <2> SUFFICES ASSUME Warmup + 0 <= Len(z) PROVE loop[Warmup + 0] \in State(Len(z))
    OBVIOUS
  <2>1. Warmup + 0 = Warmup
    BY <1>1
  <2>2. loop[Warmup] = AfterWarmup
    BY <2>1, LoopRounds DEF loop
  <2>3. AfterWarmup \in State(Len(z))
    BY <1>1 DEF AfterWarmup, State
  <2>4. QED
    BY <2>1, <2>2, <2>3
<1>3. ASSUME NEW m \in Nat, m \in S PROVE m + 1 \in S
  <2> SUFFICES ASSUME Warmup + (m + 1) <= Len(z) PROVE loop[Warmup + (m + 1)] \in State(Len(z))
    OBVIOUS
  <2>1. PICK i \in 1 .. Len(z) : /\ i = Warmup + (m + 1) /\ Warmup <= Len(z) /\ i \in Warmup + 1 .. Len(z)
                                /\ i - 1 = Warmup + m /\ Warmup + m <= Len(z)
    BY <1>1
  <2>2. loop[i - 1] \in State(Len(z))
    BY <1>3, <2>1
  <2>3. loop[i] = CusumStep(loop[i - 1], z, i)
    BY <2>1, LoopRounds DEF loop
  <2>4. loop[i] \in State(Len(z))
    BY <2>2, <2>3, StepTypes
  <2>5. QED
    BY <2>1, <2>4
<1>4. \A i \in Warmup .. Len(z) : loop[i] \in State(Len(z))
  <2> HIDE DEF S
  <2> SUFFICES ASSUME NEW i \in Warmup .. Len(z) PROVE loop[i] \in State(Len(z))
    OBVIOUS
  <2>1. i - Warmup \in Nat /\ Warmup + (i - Warmup) = i /\ i <= Len(z)
    BY <1>1
  <2>2. i - Warmup \in S
    BY <1>2, <1>3, <2>1, SetInduction
  <2>3. QED
    BY <2>1, <2>2 DEF S
<1>5. CASE Len(z) < Warmup + 4
  BY <1>4, <1>5 DEF CusumOnsets, loop
<1>6. CASE ~(Len(z) < Warmup + 4)
  <2>1. Len(z) \in Warmup .. Len(z)
    BY <1>1, <1>6
  <2>2. CusumOnsets(z) = loop[Len(z)].onsets
    BY <1>6 DEF CusumOnsets, loop
  <2>3. QED
    BY <1>4, <2>1, <2>2 DEF State, loop
<1>7. QED
  BY <1>5, <1>6

-----------------------------------------------------------------------------
(* The detector alarms exactly at shifts. *)

\* g is the drift after each number of samples up to n.
Totals(z, sign, n, g) ==
  g = [m \in 0 .. n |-> IF m = 0 THEN 0 ELSE g[m - 1] + sign * z[m] - Allowance]

LEMMA TotalsExist ==
  ASSUME NEW z, NEW sign, NEW k \in Nat
  PROVE  \E g : Totals(z, sign, k, g)
<1> DEFINE S == {m \in Nat : \E g : Totals(z, sign, m, g)}
<1>1. 0 \in S
  <2> DEFINE g == [i \in 0 .. 0 |-> 0]
  <2>1. \A i \in 0 .. 0 : i = 0
    OBVIOUS
  <2>2. Totals(z, sign, 0, g)
    BY <2>1 DEF Totals
  <2>3. QED
    BY <2>2
<1>2. ASSUME NEW n \in Nat, n \in S PROVE n + 1 \in S
  <2>1. PICK g : Totals(z, sign, n, g)
    BY <1>2
  <2> DEFINE h == [i \in 0 .. n + 1 |-> IF i = n + 1 THEN g[n] + sign * z[n + 1] - Allowance ELSE g[i]]
  <2>2. g = [i \in 0 .. n |-> IF i = 0 THEN 0 ELSE g[i - 1] + sign * z[i] - Allowance]
    BY <2>1 DEF Totals
  <2>3. ASSUME NEW i \in 0 .. n + 1
        PROVE  h[i] = IF i = 0 THEN 0 ELSE h[i - 1] + sign * z[i] - Allowance
    <3>1. CASE i = n + 1
      <4>1. i # 0 /\ i - 1 = n /\ n \in 0 .. n + 1 /\ n # n + 1
        BY <3>1
      <4>2. h[i - 1] = g[n] /\ h[i] = g[n] + sign * z[n + 1] - Allowance
        BY <3>1, <4>1
      <4>3. QED
        BY <3>1, <4>1, <4>2
    <3>2. CASE i # n + 1
      <4>1. i \in 0 .. n /\ h[i] = g[i]
        BY <3>2
      <4>2. g[i] = IF i = 0 THEN 0 ELSE g[i - 1] + sign * z[i] - Allowance
        BY <2>2, <4>1
      <4>3. i # 0 => i - 1 \in 0 .. n + 1 /\ i - 1 # n + 1
        BY <4>1
      <4>4. i # 0 => h[i - 1] = g[i - 1]
        BY <4>3
      <4>5. QED
        BY <4>1, <4>2, <4>4
    <3>3. QED
      BY <3>1, <3>2
  <2>4. h = [i \in 0 .. n + 1 |-> h[i]]
    OBVIOUS
  <2>5. Totals(z, sign, n + 1, h)
    <3> HIDE DEF h
    <3> QED BY <2>3, <2>4 DEF Totals
  <2>6. QED
    BY <2>5
<1>3. \A m \in Nat : m \in S
  <2> HIDE DEF S
  <2> QED BY <1>1, <1>2, SetInduction
<1>4. QED
  BY <1>3

\* A sample adds its z-score, less the allowance, to the drift.
LEMMA DriftRounds ==
  ASSUME NEW z \in Seq(Int), NEW sign \in Signs
  PROVE  /\ Drift(z, sign)[0] = 0
         /\ \A n \in 1 .. Len(z) : Drift(z, sign)[n] = Drift(z, sign)[n - 1] + sign * z[n] - Allowance
         /\ \A n \in 0 .. Len(z) : Drift(z, sign)[n] \in Int
<1> DEFINE total == Drift(z, sign)
           S == {m \in Nat : m <= Len(z) => total[m] \in Int}
<1>1. Len(z) \in Nat
  OBVIOUS
<1>2. Totals(z, sign, Len(z), total)
  <2>1. total = CHOOSE g : Totals(z, sign, Len(z), g)
    BY DEF Drift, Totals
  <2>2. QED
    BY <1>1, <2>1, TotalsExist
<1> HIDE DEF total
<1>3. \A n \in 0 .. Len(z) : total[n] = IF n = 0 THEN 0 ELSE total[n - 1] + sign * z[n] - Allowance
  <2> DEFINE body(n) == IF n = 0 THEN 0 ELSE total[n - 1] + sign * z[n] - Allowance
  <2> HIDE DEF body
  <2>1. total = [n \in 0 .. Len(z) |-> body(n)]
    BY <1>2 DEF Totals, body
  <2>2. \A n \in 0 .. Len(z) : total[n] = body(n)
    BY <2>1
  <2>3. QED
    BY <2>2 DEF body
<1>4. total[0] = 0 /\ \A n \in 1 .. Len(z) : total[n] = total[n - 1] + sign * z[n] - Allowance
  <2>1. 0 \in 0 .. Len(z) /\ \A n \in 1 .. Len(z) : n \in 0 .. Len(z) /\ n # 0
    BY <1>1
  <2>2. QED
    BY <1>3, <2>1
<1>5. 0 \in S
  BY <1>4
<1>6. ASSUME NEW m \in Nat, m \in S PROVE m + 1 \in S
  <2> SUFFICES ASSUME m + 1 <= Len(z) PROVE total[m + 1] \in Int
    OBVIOUS
  <2>1. PICK n \in 1 .. Len(z) : n = m + 1 /\ n - 1 = m
    BY <1>1
  <2>2. PICK t \in Int, x \in Int : t = total[n - 1] /\ x = z[n]
    BY <1>1, <1>6, <2>1
  <2>3. total[n] = t + sign * x - Allowance
    BY <1>4, <2>2
  <2>4. t + sign * x - Allowance \in Int
    BY DEF Signs, Allowance
  <2>5. QED
    BY <2>1, <2>3, <2>4
<1>7. \A n \in Nat : n \in S
  <2> HIDE DEF S
  <2> QED BY <1>5, <1>6, SetInduction
<1>8. \A n \in 0 .. Len(z) : total[n] \in Int
  BY <1>1, <1>7
<1>9. QED
  BY <1>4, <1>8 DEF total

\* sum is the largest drift from a sample after last, or from last itself, to i.
Tops(sum, z, sign, last, i) ==
  /\ \A j \in last .. i : Drift(z, sign)[i] - Drift(z, sign)[j] <= sum
  /\ \E j \in last .. i : Drift(z, sign)[i] - Drift(z, sign)[j] = sum

\* A clamped sum keeps track of the largest drift.
LEMMA TopsStep ==
  ASSUME NEW z \in Seq(Int), NEW sign \in Signs, NEW last \in Nat, NEW i \in 1 .. Len(z), last < i,
         NEW sum \in Nat, Tops(sum, z, sign, last, i - 1)
  PROVE  Tops(Excess(sum, z[i], sign), z, sign, last, i)
<1> DEFINE total == Drift(z, sign)
<1>1. PICK n \in Nat \ {0}, x \in Int : n = i /\ x = z[i] /\ n - 1 \in 0 .. Len(z) /\ n \in 0 .. Len(z)
  OBVIOUS
<1>2. PICK step \in Int : step = sign * x - Allowance
  BY DEF Signs, Allowance
<1>3. \A j \in 0 .. Len(z) : total[j] \in Int
  BY DriftRounds
<1>4. PICK now \in Int, before \in Int : now = total[n] /\ before = total[n - 1]
  BY <1>1, <1>3
<1>5. now = before + step
  <2>1. total[n] = total[n - 1] + sign * z[n] - Allowance
    BY <1>1, DriftRounds
  <2>2. before + sign * x - Allowance = before + (sign * x - Allowance)
    BY DEF Signs, Allowance
  <2>3. QED
    BY <1>1, <1>2, <1>4, <2>1, <2>2
<1> HIDE DEF total
<1>6. PICK next \in Nat : next = Excess(sum, z[i], sign) /\ next = IF 0 >= sum + step THEN 0 ELSE sum + step
  <2>1. sum + sign * x - Allowance = sum + step
    BY <1>2 DEF Signs, Allowance
  <2>2. Excess(sum, z[i], sign) = IF 0 >= sum + step THEN 0 ELSE sum + step
    BY <1>1, <2>1, MaxOfTwo DEF Excess
  <2>3. QED
    BY <2>2
<1>7. (\A j \in last .. n - 1 : before - total[j] <= sum) /\ \E j \in last .. n - 1 : before - total[j] = sum
  BY <1>1, <1>4 DEF Tops, total
<1>8. ASSUME NEW j \in last .. n PROVE now - total[j] <= next
  <2>1. CASE j = n
    BY <1>4, <1>6, <2>1
  <2>2. CASE j # n
    <3>1. j \in last .. n - 1 /\ j \in 0 .. Len(z)
      BY <1>1, <2>2
    <3>2. PICK t \in Int : t = total[j]
      BY <1>3, <3>1
    <3>3. before - t <= sum
      BY <1>7, <3>1, <3>2
    <3>4. now - t <= next
      BY <1>5, <1>6, <3>3
    <3>5. QED
      BY <3>2, <3>4
  <2>3. QED
    BY <2>1, <2>2
<1>9. \E j \in last .. n : now - total[j] = next
  <2>1. CASE 0 >= sum + step
    <3>1. n \in last .. n /\ now - total[n] = 0
      BY <1>1, <1>4
    <3>2. QED
      BY <1>6, <2>1, <3>1
  <2>2. CASE ~(0 >= sum + step)
    <3>1. PICK j \in last .. n - 1 : before - total[j] = sum
      BY <1>7
    <3>2. j \in last .. n /\ j \in 0 .. Len(z)
      BY <1>1
    <3>3. PICK t \in Int : t = total[j]
      BY <1>3, <3>2
    <3>4. now - t = next
      <4>1. before - t = sum
        BY <3>1, <3>3
      <4>2. next = sum + step
        BY <1>6, <2>2
      <4>3. QED
        BY <1>5, <4>1, <4>2
    <3>5. QED
      BY <3>2, <3>3, <3>4
  <2>3. QED
    BY <2>1, <2>2
<1>10. QED
  BY <1>1, <1>4, <1>6, <1>8, <1>9 DEF Tops, total

Alarms(s) == {s.onsets[n].alarm : n \in DOMAIN s.onsets}

Armed(last, i) == last = Warmup \/ i >= last + Rearm

Raises(z, last, i) == Armed(last, i) /\ Shifted(z, last, i)

\* After i samples the loop's state is about what came since the alarm at last, or the warm-up.
Tracks(z, s, i, last) ==
  /\ last \in Warmup .. i
  /\ last \in {Warmup} \cup Alarms(s)
  /\ \A a \in Alarms(s) : Warmup < a /\ a <= last
  /\ s.armed = IF last = Warmup THEN Warmup + 1 ELSE last + Rearm
  /\ Tops(s.up, z, 1, last, i)
  /\ Tops(s.down, z, -1, last, i)

\* After an alarm nothing has drifted yet.
LEMMA TopsFresh ==
  ASSUME NEW z \in Seq(Int), NEW sign \in Signs, NEW i \in 0 .. Len(z)
  PROVE  Tops(0, z, sign, i, i)
<1>1. PICK t \in Int : t = Drift(z, sign)[i]
  BY DriftRounds
<1>2. \A j \in i .. i : j = i
  OBVIOUS
<1>3. i \in i .. i
  OBVIOUS
<1>4. t - t = 0
  OBVIOUS
<1>5. QED
  BY <1>1, <1>2, <1>3, <1>4 DEF Tops

\* A sum beyond the alarm level is a shift.
LEMMA TopsShift ==
  ASSUME NEW z \in Seq(Int), NEW last \in Nat, NEW i \in 0 .. Len(z), last <= i,
         NEW up \in Nat, NEW down \in Nat, Tops(up, z, 1, last, i), Tops(down, z, -1, last, i)
  PROVE  Shifted(z, last, i) <=> up > AlarmLevel \/ down > AlarmLevel
<1> DEFINE rise(j) == Drift(z, 1)[i] - Drift(z, 1)[j]
           fall(j) == Drift(z, -1)[i] - Drift(z, -1)[j]
<1>1. /\ \A j \in last .. i : rise(j) <= up /\ rise(j) \in Int
      /\ \E j \in last .. i : rise(j) = up
      /\ \A j \in last .. i : fall(j) <= down /\ fall(j) \in Int
      /\ \E j \in last .. i : fall(j) = down
  <2>1. \A j \in last .. i : j \in 0 .. Len(z)
    OBVIOUS
  <2>2. \A j \in 0 .. Len(z) : Drift(z, 1)[j] \in Int /\ Drift(z, -1)[j] \in Int
    BY DriftRounds DEF Signs
  <2>3. \A j \in last .. i : rise(j) \in Int /\ fall(j) \in Int
    BY <2>1, <2>2
  <2>4. QED
    BY <2>3 DEF Tops
<1>2. Shifted(z, last, i) <=> \E j \in last .. i : rise(j) > AlarmLevel \/ fall(j) > AlarmLevel
  BY DEF Shifted, Signs
<1> HIDE DEF rise, fall
<1>3. QED
  BY <1>1, <1>2 DEF AlarmLevel

\* One sample: the loop alarms exactly if it is armed and some samples since the last alarm add up
\* to a shift, and starts again after an alarm.
LEMMA StepTracks ==
  ASSUME NEW z \in Seq(Int), NEW i \in Warmup + 1 .. Len(z), NEW s \in State(Len(z)), NEW last,
         Tracks(z, s, i - 1, last)
  PROVE  IF Raises(z, last, i)
         THEN Tracks(z, CusumStep(s, z, i), i, i) /\ Alarms(CusumStep(s, z, i)) = Alarms(s) \cup {i}
         ELSE Tracks(z, CusumStep(s, z, i), i, last) /\ Alarms(CusumStep(s, z, i)) = Alarms(s)
<1> DEFINE up == Excess(s.up, z[i], 1)
           down == Excess(s.down, z[i], -1)
           sign == IF up > AlarmLevel THEN 1 ELSE -1
           o == [idx |-> Backtrack(z, i, sign), alarm |-> i, z |-> z[i]]
           raised == [up |-> 0, down |-> 0, armed |-> i + Rearm, onsets |-> Append(s.onsets, o)]
           quiet == [s EXCEPT !.up = up, !.down = down]
<1>1. Warmup \in Nat /\ Len(z) \in Nat
  BY WarmupAssumption
<1>2. i \in 1 .. Len(z) /\ i \in 0 .. Len(z) /\ i - 1 < i /\ Warmup < i
  BY <1>1
<1>3. last \in Nat /\ last < i /\ last \in Warmup .. i
  BY <1>1, <1>2 DEF Tracks
<1>4. s.up \in Nat /\ s.down \in Nat /\ s.onsets \in Seq(Onset(Len(z)))
  BY DEF State
<1>5. up \in Nat /\ down \in Nat
  <2>1. PICK a \in Nat, b \in Nat, c \in Int : a = s.up /\ b = s.down /\ c = z[i]
    BY <1>2, <1>4
  <2>2. a + 1 * c - Allowance \in Int /\ b + (-1) * c - Allowance \in Int
    BY DEF Allowance
  <2>3. Excess(a, c, 1) \in Nat /\ Excess(b, c, -1) \in Nat
    BY <2>2, MaxOfTwo DEF Excess
  <2>4. QED
    BY <2>1, <2>3
<1>6. Tops(up, z, 1, last, i) /\ Tops(down, z, -1, last, i)
  <2>1. Tops(s.up, z, 1, last, i - 1) /\ Tops(s.down, z, -1, last, i - 1)
    BY DEF Tracks
  <2>2. 1 \in Signs /\ -1 \in Signs
    BY DEF Signs
  <2>3. QED
    BY <1>2, <1>3, <1>4, <2>1, <2>2, TopsStep
<1>7. CusumStep(s, z, i) = IF i >= s.armed /\ (up > AlarmLevel \/ down > AlarmLevel) THEN raised ELSE quiet
  BY DEF CusumStep
<1> HIDE DEF up, down, sign
<1>8. Shifted(z, last, i) <=> up > AlarmLevel \/ down > AlarmLevel
  BY <1>2, <1>3, <1>5, <1>6, TopsShift
<1>9. i >= s.armed <=> Armed(last, i)
  BY <1>1, <1>2, <1>3 DEF Tracks, Armed, Rearm
<1>10. CusumStep(s, z, i) = IF Raises(z, last, i) THEN raised ELSE quiet
  BY <1>7, <1>8, <1>9 DEF Raises
<1>11. Alarms(quiet) = Alarms(s) /\ quiet.armed = s.armed /\ quiet.up = up /\ quiet.down = down
  BY DEF Alarms, State
<1>12. Alarms(raised) = Alarms(s) \cup {i}
  <2>1. PICK n \in Nat : n = Len(s.onsets) /\ DOMAIN s.onsets = 1 .. n
    BY <1>4
  <2> HIDE DEF o
  <2>2. raised.onsets = Append(s.onsets, o)
    OBVIOUS
  <2>3. /\ DOMAIN raised.onsets = 1 .. n + 1
        /\ \A m \in 1 .. n : raised.onsets[m] = s.onsets[m]
        /\ raised.onsets[n + 1] = o
    BY <1>4, <2>1, <2>2
  <2> HIDE DEF raised
  <2>4. o.alarm = i
    BY DEF o
  <2>5. ASSUME NEW a \in Alarms(raised) PROVE a \in Alarms(s) \cup {i}
    <3>1. PICK m \in 1 .. n + 1 : a = raised.onsets[m].alarm
      BY <2>3 DEF Alarms
    <3>2. CASE m \in 1 .. n
      BY <2>1, <2>3, <3>1, <3>2 DEF Alarms
    <3>3. CASE m = n + 1
      BY <2>3, <2>4, <3>1, <3>3
    <3>4. QED
      BY <2>1, <3>2, <3>3
  <2>6. ASSUME NEW a \in Alarms(s) PROVE a \in Alarms(raised)
    <3>1. PICK m \in 1 .. n : a = s.onsets[m].alarm
      BY <2>1 DEF Alarms
    <3>2. m \in 1 .. n + 1
      BY <2>1
    <3>3. QED
      BY <2>3, <3>1, <3>2 DEF Alarms
  <2>7. i \in Alarms(raised)
    <3>1. n + 1 \in 1 .. n + 1
      BY <2>1
    <3>2. QED
      BY <2>3, <2>4, <3>1 DEF Alarms
  <2>8. QED
    BY <2>5, <2>6, <2>7
<1>13. raised.up = 0 /\ raised.down = 0 /\ raised.armed = i + Rearm
  OBVIOUS
<1> HIDE DEF raised, quiet
<1>14. CASE Raises(z, last, i)
  <2>1. Tops(0, z, 1, i, i) /\ Tops(0, z, -1, i, i)
    BY <1>2, TopsFresh DEF Signs
  <2>2. i \in Warmup .. i /\ i # Warmup
    BY <1>1, <1>2
  <2>3. \A a \in Alarms(s) \cup {i} : Warmup < a /\ a <= i
    <3>1. ASSUME NEW a \in Alarms(s) PROVE Warmup < a /\ a <= i
      <4>1. PICK m \in DOMAIN s.onsets : a = s.onsets[m].alarm
        BY DEF Alarms
      <4>2. s.onsets[m] \in Onset(Len(z))
        BY <1>4, <4>1
      <4>3. a \in Nat
        BY <1>1, <4>1, <4>2 DEF Onset
      <4>4. Warmup < a /\ a <= last
        BY DEF Tracks
      <4>5. QED
        BY <1>1, <1>2, <1>3, <4>3, <4>4
    <3>2. QED
      BY <1>1, <1>2, <3>1
  <2>4. Tracks(z, raised, i, i)
    BY <1>12, <1>13, <2>1, <2>2, <2>3 DEF Tracks
  <2>5. QED
    BY <1>10, <1>12, <1>14, <2>4
<1>15. CASE ~Raises(z, last, i)
  <2>1. Tracks(z, quiet, i, last)
    BY <1>3, <1>6, <1>11 DEF Tracks
  <2>2. QED
    BY <1>10, <1>11, <1>15, <2>1
<1>16. QED
  BY <1>14, <1>15

\* The last alarm before i, or the end of the warm-up.
Since(alarms, i) == Max({Warmup} \cup {a \in alarms : a < i})

\* Exactly the samples up to n that raise an alarm are among the loop's alarms.
Judged(z, s, n) == \A i \in Warmup + 1 .. n : i \in Alarms(s) <=> Raises(z, Since(Alarms(s), i), i)

LEMMA StepJudges ==
  ASSUME NEW z \in Seq(Int), NEW i \in Warmup + 1 .. Len(z), NEW s \in State(Len(z)), NEW last,
         Tracks(z, s, i - 1, last), Judged(z, s, i - 1)
  PROVE  Judged(z, CusumStep(s, z, i), i)
<1> DEFINE was == Alarms(s)
           now == Alarms(CusumStep(s, z, i))
<1>1. Warmup \in Nat /\ i \in Nat /\ Warmup < i /\ last \in Nat /\ Warmup <= last /\ last < i
  BY WarmupAssumption DEF Tracks
<1>2. was \in SUBSET Nat
  <2> SUFFICES ASSUME NEW a \in was PROVE a \in Nat
    OBVIOUS
  <2>1. PICK m \in DOMAIN s.onsets : a = s.onsets[m].alarm
    BY DEF Alarms
  <2>2. s.onsets \in Seq(Onset(Len(z))) /\ Len(z) \in Nat
    BY DEF State
  <2>3. s.onsets[m] \in Onset(Len(z))
    BY <2>2
  <2>4. QED
    BY <2>1, <2>2, <2>3 DEF Onset
<1>3. (\A a \in was : Warmup < a /\ a <= last) /\ last \in {Warmup} \cup was
  BY DEF Tracks
<1>4. now = IF Raises(z, last, i) THEN was \cup {i} ELSE was
  BY StepTracks
<1> HIDE DEF was, now
<1>5. Since(now, i) = last
  <2> DEFINE T == {Warmup} \cup {a \in now : a < i}
  <2>1. {a \in now : a < i} = was
    <3>1. \A a \in was : a < i
      BY <1>1, <1>2, <1>3
    <3>2. \A a \in now : a \in was \/ a = i
      BY <1>4
    <3>3. was \subseteq now /\ ~(i < i)
      BY <1>1, <1>4
    <3>4. QED
      BY <3>1, <3>2, <3>3
  <2>2. last \in T /\ \A a \in T : a <= last /\ a \in Nat
    BY <1>1, <1>2, <1>3, <2>1
  <2> HIDE DEF T
  <2>3. Max(T) = last
    <3>1. Max(T) = CHOOSE x \in T : \A y \in T : x >= y
      BY DEF Max
    <3>2. \A y \in T : last >= y
      BY <1>1, <2>2
    <3>3. \A x \in T : x >= last => x = last
      BY <1>1, <2>2
    <3>4. QED
      BY <2>2, <3>1, <3>2, <3>3
  <2>4. QED
    BY <2>3 DEF Since, T
<1>6. i \in now <=> Raises(z, last, i)
  BY <1>1, <1>2, <1>3, <1>4
<1>7. ASSUME NEW j \in Warmup + 1 .. i, j # i
      PROVE  j \in now <=> Raises(z, Since(now, j), j)
  <2>1. j \in Warmup + 1 .. i - 1 /\ j < i /\ j \in Nat
    BY <1>1, <1>7
  <2>2. {a \in now : a < j} = {a \in was : a < j}
    BY <1>1, <1>2, <1>4, <2>1
  <2>3. j \in now <=> j \in was
    BY <1>4, <1>7
  <2>4. j \in was <=> Raises(z, Since(was, j), j)
    BY <2>1 DEF Judged, was
  <2>5. QED
    BY <2>2, <2>3, <2>4 DEF Since
<1>8. QED
  BY <1>5, <1>6, <1>7 DEF Judged, now

\* The loop judges every sample of the series.
LEMMA LoopJudges ==
  ASSUME NEW z \in Seq(Int), Warmup <= Len(z)
  PROVE  Judged(z, CusumLoop(z)[Len(z)], Len(z))
<1> DEFINE loop == CusumLoop(z)
           Right(i) == Judged(z, loop[i], i) /\ \E last : Tracks(z, loop[i], i, last)
           S == {m \in Nat : Warmup + m <= Len(z) => Right(Warmup + m)}
<1> HIDE DEF loop
<1>1. Warmup \in Nat /\ Len(z) \in Nat
  BY WarmupAssumption
<1>2. 0 \in S
  <2>1. loop[Warmup] = AfterWarmup
    BY LoopRounds DEF loop
  <2>2. Alarms(AfterWarmup) = {}
    BY DEF Alarms, AfterWarmup
  <2>3. Judged(z, AfterWarmup, Warmup)
    BY <1>1 DEF Judged
  <2>4. Tops(0, z, 1, Warmup, Warmup) /\ Tops(0, z, -1, Warmup, Warmup)
    BY <1>1, TopsFresh DEF Signs
  <2>5. Tracks(z, AfterWarmup, Warmup, Warmup)
    <3>1. Warmup \in Warmup .. Warmup
      BY <1>1
    <3>2. AfterWarmup.up = 0 /\ AfterWarmup.down = 0 /\ AfterWarmup.armed = Warmup + 1
      BY DEF AfterWarmup
    <3>3. QED
      BY <2>2, <2>4, <3>1, <3>2 DEF Tracks
  <2>6. Warmup + 0 = Warmup
    BY <1>1
  <2>7. QED
    BY <2>1, <2>3, <2>5, <2>6
<1>3. ASSUME NEW m \in Nat, m \in S PROVE m + 1 \in S
  <2> SUFFICES ASSUME Warmup + (m + 1) <= Len(z) PROVE Right(Warmup + (m + 1))
    OBVIOUS
  <2>1. PICK i \in Warmup + 1 .. Len(z) : /\ i = Warmup + (m + 1) /\ i - 1 = Warmup + m
                                        /\ Warmup + m <= Len(z) /\ i - 1 \in Warmup .. Len(z)
    BY <1>1
  <2>2. PICK s \in State(Len(z)) : s = loop[i - 1]
    BY <2>1, OnsetTypes DEF loop
  <2>3. loop[i] = CusumStep(s, z, i)
    BY <2>1, <2>2, LoopRounds DEF loop
  <2>4. PICK last : Judged(z, s, i - 1) /\ Tracks(z, s, i - 1, last)
    BY <1>3, <2>1, <2>2
  <2>5. Judged(z, loop[i], i)
    BY <2>3, <2>4, StepJudges
  <2>6. \E l : Tracks(z, loop[i], i, l)
    BY <2>3, <2>4, StepTracks
  <2>7. QED
    BY <2>1, <2>5, <2>6
<1>4. PICK k \in Nat : Warmup + k = Len(z)
  <2>1. Len(z) - Warmup \in Nat /\ Warmup + (Len(z) - Warmup) = Len(z)
    BY <1>1
  <2>2. QED
    BY <2>1
<1>5. k \in S
  <2> HIDE DEF S
  <2> QED BY <1>2, <1>3, SetInduction
<1>6. QED
  BY <1>1, <1>4, <1>5 DEF loop

\* The alarms of cusum_onsets are exactly the shifts, whatever the series.
LEMMA ShiftsExact ==
  ASSUME NEW z \in Seq(Int)
  PROVE  AlarmsAreShifts(z)
<1>1. Warmup \in Nat /\ Len(z) \in Nat
  BY WarmupAssumption
<1>2. CASE Len(z) < Warmup + 4
  <2>1. CusumOnsets(z) = << >>
    BY <1>2 DEF CusumOnsets
  <2>2. AlarmsOf(z) = {}
    BY <2>1 DEF AlarmsOf
  <2>3. QED
    BY <1>2, <2>2 DEF AlarmsAreShifts
<1>3. CASE ~(Len(z) < Warmup + 4)
  <2>1. PICK s : s = CusumLoop(z)[Len(z)] /\ CusumOnsets(z) = s.onsets
    BY <1>3 DEF CusumOnsets
  <2>2. AlarmsOf(z) = Alarms(s)
    BY <2>1 DEF AlarmsOf, Alarms
  <2>3. Judged(z, s, Len(z))
    BY <1>1, <1>3, <2>1, LoopJudges
  <2>4. \A i : LastAlarm(z, i) = Since(Alarms(s), i)
    BY <2>2 DEF LastAlarm, Since
  <2>5. \A i \in Warmup + 1 .. Len(z) :
          i \in AlarmsOf(z) <=> Armed(LastAlarm(z, i), i) /\ Shifted(z, LastAlarm(z, i), i)
    BY <2>2, <2>3, <2>4 DEF Judged, Raises
  <2>6. QED
    BY <1>3, <2>5 DEF AlarmsAreShifts, Armed
<1>4. QED
  BY <1>2, <1>3

-----------------------------------------------------------------------------
(* Choosing among onsets. *)

\* What run_pass keeps of a series is a set of onsets of it.
LEMMA StrongTypes ==
  ASSUME NEW z \in Seq(Int)
  PROVE  StrongOnsets(z) \subseteq Onset(Len(z))
<1>1. PICK onsets \in Seq(Onset(Len(z))) : onsets = CusumOnsets(z)
  BY OnsetTypes
<1>2. \A n \in DOMAIN onsets : onsets[n] \in Onset(Len(z))
  BY <1>1
<1>3. QED
  BY <1>1, <1>2 DEF StrongOnsets

LEMMA FirstOfIsOne ==
  ASSUME NEW n \in Nat, NEW onsets \in SUBSET Onset(n), onsets # {}
  PROVE  FirstOf(onsets) \in onsets
<1> DEFINE T == {o.alarm : o \in onsets}
<1>1. T \in SUBSET Nat /\ T # {}
  BY DEF Onset
<1>2. PICK m \in T : \A k \in T : m <= k
  <2> HIDE DEF T
  <2> QED BY <1>1, LeastElement
<1>3. \E o \in onsets : \A x \in onsets : o.alarm <= x.alarm
  BY <1>2
<1>4. QED
  BY <1>3 DEF FirstOf

LEMMA AbsIsNat ==
  ASSUME NEW x \in Int
  PROVE  Abs(x) \in Nat
BY DEF Abs

\* Among strong onsets of one series, one is the strongest.
LEMMA StrongestIsOne ==
  ASSUME NEW z \in Seq(Int), StrongOnsets(z) # {}
  PROVE  Strongest(StrongOnsets(z)) \in StrongOnsets(z)
<1>1. PICK ons \in Seq(Onset(Len(z))) : ons = CusumOnsets(z)
  BY OnsetTypes
<1>2. PICK S \in SUBSET Onset(Len(z)) : S = StrongOnsets(z)
  BY StrongTypes
<1>3. S = {o \in {ons[n] : n \in DOMAIN ons} : Abs(o.z) >= StrongZ}
  BY <1>1, <1>2 DEF StrongOnsets
<1>4. PICK n \in Nat : n = Len(ons) /\ DOMAIN ons = 1 .. n
  BY <1>1
<1>5. \A i \in 1 .. n : ons[i] \in Onset(Len(z)) /\ ons[i].z \in Int /\ Abs(ons[i].z) \in Nat
  <2>1. \A i \in 1 .. n : ons[i] \in Onset(Len(z))
    BY <1>4
  <2>2. QED
    BY <2>1, AbsIsNat DEF Onset
<1> DEFINE f == [i \in 1 .. n |-> Abs(ons[i].z)]
<1>6. f \in [1 .. n -> Nat]
  BY <1>5
<1>7. n # 0
  BY <1>2, <1>3, <1>4
<1>8. PICK i \in 1 .. n : \A j \in 1 .. n : f[j] <= f[i]
  <2> HIDE DEF f
  <2> QED BY <1>6, <1>7, LargestValue
<1>9. \A j \in 1 .. n : Abs(ons[j].z) <= Abs(ons[i].z)
  BY <1>8
<1>10. PICK j \in 1 .. n : Abs(ons[j].z) >= StrongZ
  BY <1>2, <1>3, <1>4
<1>11. Abs(ons[i].z) >= StrongZ
  BY <1>5, <1>9, <1>10 DEF StrongZ
<1>12. ons[i] \in S
  BY <1>3, <1>4, <1>11
<1>13. \A x \in S : Abs(x.z) <= Abs(ons[i].z)
  BY <1>3, <1>4, <1>9
<1> DEFINE B == {o \in S : \A x \in S : Abs(x.z) <= Abs(o.z)}
<1>14. B # {} /\ B \in SUBSET Onset(Len(z)) /\ B \subseteq S
  BY <1>2, <1>12, <1>13
<1>15. FirstOf(B) \in S
  <2> HIDE DEF B
  <2>1. Len(z) \in Nat
    OBVIOUS
  <2>2. FirstOf(B) \in B
    BY <1>14, <2>1, FirstOfIsOne
  <2>3. QED
    BY <1>14, <2>2
<1>16. Strongest(S) = FirstOf(B)
  BY DEF Strongest
<1>17. QED
  BY <1>2, <1>15, <1>16

\* An onset nearest to the centre exists, and no onset is nearer.
LEMMA ClosestExists ==
  ASSUME NEW n \in Nat, NEW S \in SUBSET Onset(n), S # {}, NEW t \in Int
  PROVE  /\ Closest(S, {t}) # {} /\ Closest(S, {t}) \in SUBSET S
         /\ \A o \in Closest(S, {t}), x \in S : Abs(o.idx - t) <= Abs(x.idx - t)
<1> DEFINE T == {Abs(o.idx - t) : o \in S}
<1>1. Min({t}) = t
  BY DEF Min
<1>2. \A o \in S : o.idx - t \in Int
  BY DEF Onset
<1>3. T \in SUBSET Nat /\ T # {}
  BY <1>2, AbsIsNat
<1>4. PICK m \in T : \A k \in T : m <= k
  <2> HIDE DEF T
  <2> QED BY <1>3, LeastElement
<1>5. PICK o \in S : m = Abs(o.idx - t)
  OBVIOUS
<1>6. \A x \in S : Abs(o.idx - t) <= Abs(x.idx - t)
  BY <1>4, <1>5
<1>7. Closest(S, {t}) = {y \in S : \A x \in S : Abs(y.idx - t) <= Abs(x.idx - t)}
  BY <1>1 DEF Closest
<1>8. QED
  BY <1>6, <1>7

\* A pod's onset is dated inside the ring; if one of its onsets is at the centre, at the centre.
LEMMA NearestTypes ==
  ASSUME NEW n \in Nat, NEW S \in SUBSET Onset(n), S # {}
  PROVE  /\ Nearest(S, {}) \in 1 .. n
         /\ \A t \in Int : Nearest(S, {t}) \in 1 .. n
         /\ \A o \in S : Nearest(S, {o.idx}) = o.idx
<1>1. \A o \in S : o.idx \in 1 .. n
  BY DEF Onset
<1>2. Nearest(S, {}) \in 1 .. n
  BY <1>1, FirstOfIsOne DEF Nearest
<1>3. ASSUME NEW t \in Int PROVE FirstOf(Closest(S, {t})) \in Closest(S, {t}) /\ FirstOf(Closest(S, {t})) \in S
  <2>1. Closest(S, {t}) # {} /\ Closest(S, {t}) \in SUBSET S
    BY ClosestExists
  <2>2. Closest(S, {t}) \in SUBSET Onset(n)
    BY <2>1
  <2>3. QED
    BY <2>1, <2>2, FirstOfIsOne
<1>4. ASSUME NEW t \in Int PROVE Nearest(S, {t}) = FirstOf(Closest(S, {t})).idx
  BY DEF Nearest
<1>5. ASSUME NEW o \in S PROVE Nearest(S, {o.idx}) = o.idx
  <2>1. PICK t \in Int : t = o.idx
    BY <1>1
  <2>2. PICK f \in S : f = FirstOf(Closest(S, {t})) /\ f \in Closest(S, {t})
    BY <1>3
  <2>3. Abs(f.idx - t) <= Abs(o.idx - t)
    BY <2>2, ClosestExists
  <2>4. f.idx \in Int /\ Abs(o.idx - t) = 0
    BY <1>1, <2>1 DEF Abs
  <2>5. f.idx = t
    BY <2>3, <2>4 DEF Abs
  <2>6. QED
    BY <1>4, <2>1, <2>2, <2>5
<1>6. QED
  BY <1>1, <1>2, <1>3, <1>4, <1>5
-----------------------------------------------------------------------------
(* Onsets and the event. *)

LEMMA InputFacts ==
  ASSUME NEW i \in Inputs
  PROVE  /\ Len(i.z) \in Nat \ {0} /\ Pods(i) = 1 .. Len(i.z) /\ Samples(i) \in Nat
         /\ \A p \in Pods(i) : i.z[p] \in Seq(Int) /\ Len(i.z[p]) = Samples(i) /\ i.act[p] \in Nat
         /\ \A p \in DOMAIN i.writes : i.writes[p] \in Seq(Int) /\ Len(i.writes[p]) = Samples(i) /\ p \in Pods(i)
         /\ Window \in Nat \ {0} /\ Window <= Samples(i)
<1>1. /\ i.z \in Seq(Seq(Int)) /\ i.z # <<>>
      /\ i.writes \in [DOMAIN i.writes -> Seq(Int)] /\ DOMAIN i.writes \subseteq Pods(i)
      /\ i.act \in [Pods(i) -> Nat]
      /\ \A p \in Pods(i) : Len(i.z[p]) = Samples(i)
      /\ \A p \in DOMAIN i.writes : Len(i.writes[p]) = Samples(i)
      /\ Window \in Nat \ {0} /\ Window <= Samples(i)
  BY InputsAssumption
<1>2. PICK z \in Seq(Seq(Int)) : z = i.z /\ z # <<>>
  BY <1>1
<1>3. Len(z) \in Nat \ {0} /\ DOMAIN z = 1 .. Len(z) /\ \A p \in DOMAIN z : z[p] \in Seq(Int)
  BY <1>2
<1>4. Len(i.z) \in Nat \ {0} /\ Pods(i) = 1 .. Len(i.z)
  BY <1>2, <1>3 DEF Pods
<1>5. \A p \in Pods(i) : i.z[p] \in Seq(Int)
  BY <1>2, <1>3 DEF Pods
<1>6. Samples(i) \in Nat
  <2>1. 1 \in Pods(i)
    BY <1>4
  <2>2. Len(i.z[1]) \in Nat
    BY <1>5, <2>1
  <2>3. QED
    BY <1>1, <2>1, <2>2
<1>7. \A p \in DOMAIN i.writes : i.writes[p] \in Seq(Int) /\ p \in Pods(i)
  BY <1>1
<1>8. QED
  BY <1>1, <1>4, <1>5, <1>6, <1>7

\* Every pod with onsets has a strongest one, inside the ring.
LEMMA RawFacts ==
  ASSUME NEW i \in Inputs, NEW p \in DOMAIN RawOnsets(i)
  PROVE  /\ p \in Pods(i)
         /\ RawOnsets(i)[p] \in SUBSET Onset(Samples(i)) /\ RawOnsets(i)[p] # {}
         /\ Strongest(RawOnsets(i)[p]) \in RawOnsets(i)[p]
         /\ Strongest(RawOnsets(i)[p]).idx \in 1 .. Samples(i)
         /\ Abs(Strongest(RawOnsets(i)[p]).z) \in Nat
<1>1. p \in Pods(i) /\ RawOnsets(i)[p] = StrongOnsets(i.z[p]) /\ StrongOnsets(i.z[p]) # {}
  BY DEF RawOnsets
<1>2. PICK z \in Seq(Int) : z = i.z[p] /\ Len(z) = Samples(i)
  BY <1>1, InputFacts
<1>3. PICK S \in SUBSET Onset(Samples(i)) : S = StrongOnsets(z)
  BY <1>2, StrongTypes
<1>4. S = RawOnsets(i)[p] /\ S # {} /\ Strongest(S) \in S
  BY <1>1, <1>2, <1>3, StrongestIsOne
<1>5. Strongest(S).idx \in 1 .. Samples(i) /\ Strongest(S).z \in Int
  BY <1>4 DEF Onset
<1>6. QED
  BY <1>1, <1>4, <1>5, AbsIsNat

\* The centre is the strongest onset of one of the pods that may give it.
LEMMA CentreFacts ==
  ASSUME NEW i \in Inputs, CentrePods(i, RawOnsets(i)) # {}
  PROVE  \E p \in CentrePods(i, RawOnsets(i)) : CentreOf(i, RawOnsets(i)) = {Strongest(RawOnsets(i)[p]).idx}
<1> DEFINE raws == RawOnsets(i)
           P == CentrePods(i, raws)
           key(p) == Abs(Strongest(raws[p]).z)
           B == {x \in P : \A y \in P : key(y) <= key(x)}
<1>1. P \subseteq DOMAIN raws
  BY DEF CentrePods
<1>2. \A p \in P : key(p) \in Nat /\ p \in 1 .. Len(i.z)
  <2>1. \A p \in DOMAIN raws : key(p) \in Nat /\ p \in Pods(i)
    BY RawFacts
  <2>2. QED
    BY <1>1, <2>1, InputFacts
<1>3. PICK n \in Nat \ {0} : n = Len(i.z)
  BY InputFacts
<1> DEFINE f == [p \in 1 .. n |-> IF p \in P THEN key(p) + 1 ELSE 0]
<1> HIDE DEF raws, P, key
<1>4. f \in [1 .. n -> Nat]
  BY <1>2
<1>5. PICK x \in 1 .. n : \A y \in 1 .. n : f[y] <= f[x]
  <2> HIDE DEF f
  <2> QED BY <1>4, LargestValue
<1>6. PICK p \in P : p \in 1 .. n
  <2>1. P # {}
    BY DEF P, raws
  <2>2. QED
    BY <1>2, <1>3, <2>1
<1>7. x \in P
  <2>1. f[p] = key(p) + 1 /\ key(p) \in Nat
    BY <1>2, <1>6
  <2>2. f[p] <= f[x]
    BY <1>5, <1>6
  <2>3. QED
    BY <2>1, <2>2
<1>8. ASSUME NEW y \in P PROVE key(y) <= key(x)
  <2>1. f[y] = key(y) + 1 /\ f[x] = key(x) + 1 /\ key(x) \in Nat /\ key(y) \in Nat /\ y \in 1 .. n
    BY <1>2, <1>3, <1>7
  <2>2. f[y] <= f[x]
    BY <1>5, <2>1
  <2>3. QED
    BY <2>1, <2>2
<1>9. B # {} /\ B \in SUBSET Nat /\ B \subseteq P
  <2>1. x \in B
    BY <1>7, <1>8
  <2>2. B \subseteq P
    OBVIOUS
  <2>3. \A y \in P : y \in Nat
    BY <1>2, <1>3
  <2>4. QED
    BY <2>1, <2>2, <2>3
<1>10. Min(B) \in P
  <2> HIDE DEF B
  <2> QED BY <1>9, MinIsLeast
<1>11. CentreOf(i, raws) = {Strongest(raws[Min(B)]).idx}
  <2>1. P # {}
    BY <1>6
  <2>2. QED
    BY <2>1 DEF CentreOf, FirstBest, P, key
<1>12. QED
  BY <1>10, <1>11 DEF P, raws

LEMMA CentreTypes ==
  ASSUME NEW i \in Inputs
  PROVE  \/ CentreOf(i, RawOnsets(i)) = {}
         \/ \E t \in 1 .. Samples(i) : CentreOf(i, RawOnsets(i)) = {t}
<1>1. CASE CentrePods(i, RawOnsets(i)) = {}
  BY <1>1 DEF CentreOf
<1>2. CASE CentrePods(i, RawOnsets(i)) # {}
  <2>1. PICK p \in CentrePods(i, RawOnsets(i)) : CentreOf(i, RawOnsets(i)) = {Strongest(RawOnsets(i)[p]).idx}
    BY <1>2, CentreFacts
  <2>2. p \in DOMAIN RawOnsets(i)
    BY DEF CentrePods
  <2>3. QED
    BY <2>1, <2>2, RawFacts
<1>3. QED
  BY <1>1, <1>2

\* Onsets are dated inside the ring, whatever the centre.
LEMMA DatedInside ==
  ASSUME NEW i \in Inputs, NEW S \in SUBSET Onset(Samples(i)), S # {}
  PROVE  Nearest(S, CentreOf(i, RawOnsets(i))) \in 1 .. Samples(i)
<1>1. Samples(i) \in Nat
  BY InputFacts
<1>2. Nearest(S, {}) \in 1 .. Samples(i) /\ \A t \in Int : Nearest(S, {t}) \in 1 .. Samples(i)
  BY <1>1, NearestTypes
<1>3. QED
  BY <1>2, CentreTypes

\* The slice around a centre lies in the ring and holds it.
LEMMA SliceHolds ==
  ASSUME NEW i \in Inputs, NEW t \in 1 .. Samples(i)
  PROVE  LET from == SliceStart(i, {t})
         IN from <= t /\ t < from + Window /\ from + Window - 1 <= Samples(i)
<1>1. PICK n \in Nat, w \in Nat \ {0} : n = Samples(i) /\ w = Window /\ w <= n
  BY InputFacts
<1>2. PICK third \in Nat : third = w \div 3 /\ third < w
  <2>1. w \div 3 \in Nat /\ w \div 3 < w
    OBVIOUS
  <2>2. QED
    BY <2>1
<1>3. Min({t}) = t
  BY DEF Min
<1>4. SliceStart(i, {t}) = Max({1, Min({t - third, n - w + 1})})
  BY <1>1, <1>2, <1>3 DEF SliceStart
<1>5. Min({t - third, n - w + 1}) = IF t - third <= n - w + 1 THEN t - third ELSE n - w + 1
  BY <1>1, <1>2, MinOfTwo
<1>6. PICK low \in Int : low = IF t - third <= n - w + 1 THEN t - third ELSE n - w + 1
  BY <1>1, <1>2
<1>7. SliceStart(i, {t}) = IF 1 >= low THEN 1 ELSE low
  BY <1>4, <1>5, <1>6, MaxOfTwo
<1>8. QED
  BY <1>1, <1>2, <1>6, <1>7
-----------------------------------------------------------------------------
(* The gate. *)

\* The strongest lag of a profile is one of its lags, by absolute value or as it is.
LEMMA PeakTypes ==
  ASSUME NEW profile, IsProfile(profile)
  PROVE  /\ Peak(profile, Abs) \in DOMAIN profile
         /\ Peak(profile, LAMBDA r : r) \in DOMAIN profile
         /\ \A l \in DOMAIN profile : profile[l] \in Int
<1>1. /\ DOMAIN profile \subseteq Nat /\ DOMAIN profile # {}
      /\ \A l \in DOMAIN profile : profile[l] \in -10 .. 10
  BY DEF IsProfile
<1> DEFINE L == DOMAIN profile
           A == {l \in L : \A y \in L : Abs(profile[y]) <= Abs(profile[l])}
           B == {l \in L : \A y \in L : profile[y] <= profile[l]}
           TA == {10 - Abs(profile[l]) : l \in L}
           TB == {10 - profile[l] : l \in L}
<1>2. \A l \in L : profile[l] \in Int /\ Abs(profile[l]) \in 0 .. 10 /\ 10 - profile[l] \in Nat
  BY <1>1 DEF Abs
<1>3. A # {}
  <2>1. TA \in SUBSET Nat /\ TA # {}
    BY <1>1, <1>2
  <2>2. PICK m \in TA : \A k \in TA : m <= k
    <3> HIDE DEF TA
    <3> QED BY <2>1, LeastElement
  <2>3. PICK l \in L : m = 10 - Abs(profile[l])
    OBVIOUS
  <2>4. \A y \in L : 10 - Abs(profile[l]) <= 10 - Abs(profile[y])
    BY <2>2, <2>3
  <2>5. \A y \in L : Abs(profile[y]) <= Abs(profile[l])
    BY <1>2, <2>4
  <2>6. QED
    BY <2>5
<1>4. B # {}
  <2>1. TB \in SUBSET Nat /\ TB # {}
    BY <1>1, <1>2
  <2>2. PICK m \in TB : \A k \in TB : m <= k
    <3> HIDE DEF TB
    <3> QED BY <2>1, LeastElement
  <2>3. PICK l \in L : m = 10 - profile[l]
    OBVIOUS
  <2>4. \A y \in L : 10 - profile[l] <= 10 - profile[y]
    BY <2>2, <2>3
  <2>5. \A y \in L : profile[y] <= profile[l]
    BY <1>2, <2>4
  <2>6. QED
    BY <2>5
<1>5. A \in SUBSET Nat /\ A \subseteq L /\ B \in SUBSET Nat /\ B \subseteq L
  BY <1>1
<1>6. Min(A) \in L /\ Min(B) \in L
  <2> HIDE DEF A, B, L
  <2> QED BY <1>3, <1>4, <1>5, MinIsLeast
<1>7. Peak(profile, Abs) = Min(A) /\ Peak(profile, LAMBDA r : r) = Min(B)
  BY DEF Peak, FirstBest, LagsS
<1>8. QED
  BY <1>2, <1>6, <1>7

\* best_directed names the two pods, and a correlation of the profile it chose.
LEMMA DirectedFacts ==
  ASSUME NEW p, NEW q, NEW profiles \in PairProfiles, NEW d, d = BestDirected(p, q, profiles)
  PROVE  /\ (d.src = p /\ d.dst = q) \/ (d.src = q /\ d.dst = p)
         /\ d.profile[d.lag] \in Int
<1>1. IsProfile(profiles.fwd) /\ IsProfile(profiles.rev)
  BY ProfilesAssumption
<1>2. PICK fwd \in Int, rev \in Int : /\ fwd = profiles.fwd[Peak(profiles.fwd, Abs)]
                                      /\ rev = profiles.rev[Peak(profiles.rev, Abs)]
  BY <1>1, PeakTypes
<1>3. \/ d = [src |-> q, dst |-> p, lag |-> Peak(profiles.rev, Abs), profile |-> profiles.rev]
      \/ d = [src |-> p, dst |-> q, lag |-> Peak(profiles.fwd, Abs), profile |-> profiles.fwd]
  BY DEF BestDirected
<1>4. QED
  BY <1>2, <1>3

-----------------------------------------------------------------------------
(* Edges. *)

\* The onsets say nothing against a bare edge between two findings.
Dated(e) == Ends(e) \subseteq DOMAIN onset => InOrder(onset[e.src], onset[e.dst])

\* A pair of pods with vectors.
Between(e) == e.src \in Pods(in) /\ e.dst \in Pods(in) /\ e.src # e.dst /\ e.r \in Int

\* The edges of the pairs, at most one for each.
BareEdges(F) ==
  /\ \A e \in F : e.kind = "stat" /\ Between(e) /\ Couples(in, e.src, e.dst) /\ Dated(e)
  /\ \A e, f \in F : Ends(e) = Ends(f) => e = f
  /\ DOMAIN onset = {} => F = {}

\* The edges of writers, at most one for each writer and victim.
SourceEdges(F) ==
  /\ \A e \in F : /\ e.kind = "write" /\ Between(e) /\ CouplesSource(in, e.src, e.dst)
                  /\ in.act[e.src] > in.act[e.dst]
                  /\ e.dst \in DOMAIN onset /\ InOrder(wonset[e.src], onset[e.dst])
  /\ \A e, f \in F : e.src = f.src /\ e.dst = f.dst => e = f

\* What one pair of pods contributes.
LEMMA PairEdge ==
  ASSUME in \in Inputs, NEW p \in Pods(in), NEW q \in Pods(in), p < q,
         NEW profiles \in PairProfiles,
         NEW e \in AcceptEdge(in, BestDirected(p, q, profiles), onset)
  PROVE  /\ e.kind = "stat" /\ Between(e) /\ Couples(in, e.src, e.dst) /\ Dated(e) /\ Ends(e) = {p, q}
         /\ \A f \in AcceptEdge(in, BestDirected(p, q, profiles), onset) : f = e
<1>1. PICK d : d = BestDirected(p, q, profiles)
  OBVIOUS
<1>2. /\ (d.src = p /\ d.dst = q) \/ (d.src = q /\ d.dst = p)
      /\ d.profile[d.lag] \in Int
  BY <1>1, DirectedFacts
<1>3. p # q
  <2>1. p \in Int /\ q \in Int
    BY InputFacts
  <2>2. QED
    BY <2>1
<1>4. /\ e = Edge(d.src, d.dst, d.profile[d.lag], d.lag, "stat")
      /\ Couples(in, d.src, d.dst)
      /\ {d.src, d.dst} \subseteq DOMAIN onset => InOrder(onset[d.src], onset[d.dst])
      /\ \A f \in AcceptEdge(in, d, onset) : f = e
  BY <1>1 DEF AcceptEdge
<1>5. e.src = d.src /\ e.dst = d.dst /\ e.r = d.profile[d.lag] /\ e.kind = "stat"
  BY <1>4 DEF Edge
<1>6. Ends(e) = {d.src, d.dst} /\ {d.src, d.dst} = {p, q}
  BY <1>2, <1>5 DEF Ends
<1>7. Between(e)
  BY <1>2, <1>3, <1>5 DEF Between
<1>8. Dated(e)
  BY <1>4, <1>5, <1>6 DEF Dated
<1>9. QED
  BY <1>1, <1>4, <1>5, <1>6, <1>7, <1>8

\* What one writer and one victim contribute.
LEMMA SourceEdge ==
  ASSUME in \in Inputs, NEW wv \in SourcePairs, NEW profile \in SourceProfiles,
         DOMAIN onset \subseteq Pods(in), DOMAIN wonset \subseteq Pods(in),
         NEW e \in WriterEdge(wv[1], wv[2], profile)
  PROVE  /\ e.kind = "write" /\ Between(e) /\ CouplesSource(in, e.src, e.dst)
         /\ in.act[e.src] > in.act[e.dst] /\ e.dst \in DOMAIN onset
         /\ InOrder(wonset[e.src], onset[e.dst])
         /\ e.src = wv[1] /\ e.dst = wv[2]
         /\ \A f \in WriterEdge(wv[1], wv[2], profile) : f = e
<1>1. PICK lag \in DOMAIN profile : lag = Peak(profile, LAMBDA r : r) /\ profile[lag] \in Int
  BY PeakTypes, ProfilesAssumption
<1>2. /\ e = Edge(wv[1], wv[2], profile[lag], lag, "write")
      /\ InOrder(wonset[wv[1]], onset[wv[2]])
      /\ \A f \in WriterEdge(wv[1], wv[2], profile) : f = e
  BY <1>1 DEF WriterEdge
<1>3. /\ e.src = wv[1] /\ e.dst = wv[2] /\ e.r = profile[lag] /\ e.kind = "write"
  BY <1>2 DEF Edge
<1>4. /\ wv[1] \in DOMAIN wonset /\ wv[2] \in DOMAIN onset /\ wv[1] # wv[2]
      /\ CouplesSource(in, wv[1], wv[2]) /\ in.act[wv[1]] > in.act[wv[2]]
  BY DEF SourcePairs, OutWrites
<1>5. Between(e)
  BY <1>1, <1>3, <1>4 DEF Between
<1>6. QED
  BY <1>2, <1>3, <1>4, <1>5
\* The pairs for which the pass tries a bare edge.
Pairs ==
  {pq \in Pods(in) \X Pods(in) : pq[1] < pq[2] /\ Couples(in, pq[1], pq[2]) /\ DOMAIN onset # {}}

\* PairUp finds bare edges.
LEMMA PairUpFinds ==
  ASSUME in \in Inputs, NEW prof \in [Pairs -> PairProfiles], NEW F,
         F = UNION {AcceptEdge(in, BestDirected(pq[1], pq[2], prof[pq]), onset) : pq \in Pairs}
  PROVE  BareEdges(F)
<1>1. ASSUME NEW e \in F
      PROVE  \E pq \in Pairs :
               /\ pq = <<pq[1], pq[2]>> /\ pq[1] \in Nat /\ pq[2] \in Nat /\ pq[1] < pq[2]
               /\ e.kind = "stat" /\ Between(e) /\ Couples(in, e.src, e.dst) /\ Dated(e)
               /\ Ends(e) = {pq[1], pq[2]}
               /\ \A f \in AcceptEdge(in, BestDirected(pq[1], pq[2], prof[pq]), onset) : f = e
  <2>1. PICK pq \in Pairs : e \in AcceptEdge(in, BestDirected(pq[1], pq[2], prof[pq]), onset)
    OBVIOUS
  <2>2. PICK p \in Pods(in), q \in Pods(in) : p = pq[1] /\ q = pq[2] /\ p < q /\ pq = <<p, q>>
    BY DEF Pairs
  <2>3. PICK profiles \in PairProfiles : profiles = prof[pq]
    OBVIOUS
  <2>4. /\ e.kind = "stat" /\ Between(e) /\ Couples(in, e.src, e.dst) /\ Dated(e) /\ Ends(e) = {p, q}
        /\ \A f \in AcceptEdge(in, BestDirected(p, q, profiles), onset) : f = e
    <3>1. e \in AcceptEdge(in, BestDirected(p, q, profiles), onset)
      BY <2>1, <2>2, <2>3
    <3>2. QED
      BY <2>2, <3>1, PairEdge
  <2>5. p \in Nat /\ q \in Nat
    BY InputFacts
  <2>6. QED
    BY <2>2, <2>3, <2>4, <2>5
<1>2. \A e \in F : e.kind = "stat" /\ Between(e) /\ Couples(in, e.src, e.dst) /\ Dated(e)
  BY <1>1
<1>3. ASSUME NEW e \in F, NEW f \in F, Ends(e) = Ends(f) PROVE e = f
  <2>1. PICK pq \in Pairs :
           /\ pq = <<pq[1], pq[2]>> /\ pq[1] \in Nat /\ pq[2] \in Nat /\ pq[1] < pq[2]
           /\ Ends(e) = {pq[1], pq[2]}
           /\ \A g \in AcceptEdge(in, BestDirected(pq[1], pq[2], prof[pq]), onset) : g = e
    BY <1>1
  <2>2. PICK rs \in Pairs :
           /\ rs = <<rs[1], rs[2]>> /\ rs[1] \in Nat /\ rs[2] \in Nat /\ rs[1] < rs[2]
           /\ Ends(f) = {rs[1], rs[2]}
           /\ f \in AcceptEdge(in, BestDirected(rs[1], rs[2], prof[rs]), onset)
    <3>1. PICK rs \in Pairs : f \in AcceptEdge(in, BestDirected(rs[1], rs[2], prof[rs]), onset)
      OBVIOUS
    <3>2. PICK p \in Pods(in), q \in Pods(in) : p = rs[1] /\ q = rs[2] /\ p < q /\ rs = <<p, q>>
      BY DEF Pairs
    <3>3. PICK profiles \in PairProfiles : profiles = prof[rs]
      OBVIOUS
    <3>4. Ends(f) = {p, q}
      <4>1. f \in AcceptEdge(in, BestDirected(p, q, profiles), onset)
        BY <3>1, <3>2, <3>3
      <4>2. QED
        BY <3>2, <4>1, PairEdge
    <3>5. p \in Nat /\ q \in Nat
      BY InputFacts
    <3>6. QED
      BY <3>1, <3>2, <3>4, <3>5
  <2>3. pq[1] = rs[1] /\ pq[2] = rs[2]
    <3>1. PICK a \in Nat, b \in Nat, c \in Nat, d \in Nat :
             a = pq[1] /\ b = pq[2] /\ c = rs[1] /\ d = rs[2] /\ a < b /\ c < d
      BY <2>1, <2>2
    <3>2. {a, b} = {c, d}
      BY <1>3, <2>1, <2>2, <3>1
    <3>3. (a = c /\ b = d) \/ (a = d /\ b = c)
      BY <3>1, <3>2
    <3>4. a = c /\ b = d
      BY <3>1, <3>3
    <3>5. QED
      BY <3>1, <3>4
  <2>4. pq = rs
    BY <2>1, <2>2, <2>3
  <2>5. QED
    BY <2>1, <2>2, <2>4
<1>4. DOMAIN onset = {} => F = {}
  BY DEF Pairs
<1>5. QED
  BY <1>2, <1>3, <1>4 DEF BareEdges

\* Attribute finds source edges.
LEMMA AttributeFinds ==
  ASSUME in \in Inputs, DOMAIN onset \subseteq Pods(in), DOMAIN wonset \subseteq Pods(in),
         NEW prof \in [SourcePairs -> SourceProfiles], NEW G,
         G = UNION {WriterEdge(wv[1], wv[2], prof[wv]) : wv \in SourcePairs}
  PROVE  SourceEdges(G)
<1>1. ASSUME NEW e \in G
      PROVE  \E wv \in SourcePairs :
               /\ wv = <<e.src, e.dst>>
               /\ e.kind = "write" /\ Between(e) /\ CouplesSource(in, e.src, e.dst)
               /\ in.act[e.src] > in.act[e.dst] /\ e.dst \in DOMAIN onset
               /\ InOrder(wonset[e.src], onset[e.dst])
               /\ e \in WriterEdge(wv[1], wv[2], prof[wv])
               /\ \A f \in WriterEdge(wv[1], wv[2], prof[wv]) : f = e
  <2>1. PICK wv \in SourcePairs : e \in WriterEdge(wv[1], wv[2], prof[wv])
    OBVIOUS
  <2>2. wv = <<wv[1], wv[2]>>
    BY DEF SourcePairs
  <2>3. PICK profile \in SourceProfiles : profile = prof[wv]
    OBVIOUS
  <2>4. /\ e.kind = "write" /\ Between(e) /\ CouplesSource(in, e.src, e.dst)
        /\ in.act[e.src] > in.act[e.dst] /\ e.dst \in DOMAIN onset
        /\ InOrder(wonset[e.src], onset[e.dst])
        /\ e.src = wv[1] /\ e.dst = wv[2]
        /\ \A f \in WriterEdge(wv[1], wv[2], profile) : f = e
    <3>1. e \in WriterEdge(wv[1], wv[2], profile)
      BY <2>1, <2>3
    <3>2. QED
      BY <3>1, SourceEdge
  <2>5. QED
    BY <2>1, <2>2, <2>3, <2>4
<1>2. ASSUME NEW e \in G, NEW f \in G, e.src = f.src, e.dst = f.dst PROVE e = f
  <2>1. PICK wv \in SourcePairs : wv = <<e.src, e.dst>> /\ \A g \in WriterEdge(wv[1], wv[2], prof[wv]) : g = e
    BY <1>1
  <2>2. PICK xy \in SourcePairs : xy = <<f.src, f.dst>> /\ f \in WriterEdge(xy[1], xy[2], prof[xy])
    BY <1>1
  <2>3. xy = wv
    BY <1>2, <2>1, <2>2
  <2>4. QED
    BY <2>1, <2>2, <2>3
<1>3. QED
  BY <1>1, <1>2 DEF SourceEdges

\* Of two edges of one pair only one survives.
LEMMA OneOfPair ==
  ASSUME NEW es, \A e \in es : e.src \in Int /\ e.r \in Int,
         NEW e \in Deduplicated(es), NEW f \in Deduplicated(es), Ends(e) = Ends(f)
  PROVE  e = f
<1> SUFFICES ASSUME e # f PROVE FALSE
  OBVIOUS
<1>1. e \in es /\ f \in es /\ (Preferred(e, f) \/ Earlier(e, f)) /\ (Preferred(f, e) \/ Earlier(f, e))
  BY DEF Deduplicated
<1>2. PICK i \in Nat, j \in Nat, x \in Int, y \in Int :
        i = Abs(e.r) /\ j = Abs(f.r) /\ x = e.src /\ y = f.src
  <2>1. e.r \in Int /\ f.r \in Int /\ e.src \in Int /\ f.src \in Int
    BY <1>1
  <2>2. QED
    BY <2>1, AbsIsNat
<1>3. PICK k \in {0, 1}, l \in {0, 1} : /\ k = (IF e.kind = "write" THEN 1 ELSE 0)
                                        /\ l = (IF f.kind = "write" THEN 1 ELSE 0)
  OBVIOUS
<1>4. /\ Preferred(e, f) <=> k > l \/ (k = l /\ i > j)
      /\ Preferred(f, e) <=> l > k \/ (l = k /\ j > i)
  BY <1>2, <1>3 DEF Preferred, EdgePref
<1>5. ~(Preferred(e, f) /\ Preferred(f, e))
  BY <1>4
<1>6. ~(x < y /\ y < x)
  OBVIOUS
<1>7. QED
  BY <1>1, <1>2, <1>5, <1>6 DEF Earlier

\* A source edge is never dropped for another edge of its pair.
LEMMA SourcesStay ==
  ASSUME in \in Inputs, NEW F, NEW G, BareEdges(F), SourceEdges(G), NEW e \in G
  PROVE  e \in Deduplicated(F \cup G)
<1>1. ASSUME NEW f \in (F \cup G) \ {e}, Ends(e) = Ends(f) PROVE Preferred(e, f)
  <2>1. CASE f \in F
    <3>1. f.kind = "stat" /\ e.kind = "write"
      BY <2>1 DEF BareEdges, SourceEdges
    <3>2. QED
      BY <3>1 DEF Preferred, EdgePref
  <2>2. CASE f \in G
    <3>1. (e.src = f.src /\ e.dst = f.dst) \/ (e.src = f.dst /\ e.dst = f.src)
      BY <1>1 DEF Ends
    <3>2. ~(e.src = f.src /\ e.dst = f.dst)
      BY <1>1, <2>2 DEF SourceEdges
    <3>3. PICK m \in Nat, n \in Nat : m = in.act[e.src] /\ n = in.act[e.dst]
      <4>1. e.src \in Pods(in) /\ e.dst \in Pods(in)
        BY DEF SourceEdges, Between
      <4>2. QED
        BY <4>1, InputFacts
    <3>4. m > n
      BY <3>3 DEF SourceEdges
    <3>5. n > m
      BY <2>2, <3>1, <3>2, <3>3 DEF SourceEdges
    <3>6. QED
      BY <3>4, <3>5
  <2>3. QED
    BY <2>1, <2>2
<1>2. QED
  BY <1>1 DEF Deduplicated
-----------------------------------------------------------------------------
(* The inductive invariant: what the pass knows after each part. *)

Located ==
  /\ centre = CentreOf(in, raw)
  /\ onset = [p \in DOMAIN raw |-> Nearest(raw[p], centre)]
  /\ wonset = [p \in {q \in DOMAIN in.writes : StrongOnsets(in.writes[q]) # {}} |->
                 Nearest(StrongOnsets(in.writes[p]), centre)]
  /\ slice = SliceStart(in, centre)

Of(kind) == {e \in found : e.kind = kind}

PassInv ==
  /\ in \in Inputs
  /\ at \in {"idle", "locate", "pairs", "sources", "done"}
  /\ raw = IF at = "idle" THEN NoOnsets ELSE RawOnsets(in)
  /\ at \in {"idle", "locate"} => centre = {} /\ onset = NoOnsets /\ wonset = NoOnsets
  /\ at \in {"pairs", "sources", "done"} => Located
  /\ at \in {"idle", "locate", "pairs"} => found = {}
  /\ at # "done" => edges = {}
  /\ at = "sources" => BareEdges(found)
  /\ at = "done" => /\ found = Of("stat") \cup Of("write")
                    /\ BareEdges(Of("stat"))
                    /\ SourceEdges(Of("write"))
                    /\ edges = Deduplicated(found)

\* Findings and writers are pods with vectors.
LEMMA LocatedPods ==
  ASSUME in \in Inputs, raw = RawOnsets(in), Located
  PROVE  /\ DOMAIN onset = DOMAIN raw /\ DOMAIN onset \subseteq Pods(in)
         /\ DOMAIN wonset \subseteq DOMAIN in.writes /\ DOMAIN wonset \subseteq Pods(in)
<1>1. DOMAIN onset = DOMAIN raw /\ DOMAIN raw \subseteq Pods(in)
  BY DEF Located, RawOnsets
<1>2. DOMAIN wonset \subseteq DOMAIN in.writes
  BY DEF Located
<1>3. QED
  BY <1>1, <1>2, InputFacts

\* The pass's edges, split by kind again.
LEMMA Split ==
  ASSUME NEW F, NEW G, BareEdges(F), SourceEdges(G)
  PROVE  {e \in F \cup G : e.kind = "stat"} = F /\ {e \in F \cup G : e.kind = "write"} = G
<1>1. (\A e \in F : e.kind = "stat") /\ (\A e \in G : e.kind = "write")
  BY DEF BareEdges, SourceEdges
<1>2. QED
  BY <1>1

LEMMA PassInit == Init => PassInv
BY DEF Init, PassInv

LEMMA PassStep == PassInv /\ [Next]_vars => PassInv'
<1> SUFFICES ASSUME PassInv, [Next]_vars PROVE PassInv'
  OBVIOUS
<1>1. CASE Detect
  BY <1>1 DEF Detect, PassInv
<1>2. CASE Locate
  <2>1. Located'
    BY <1>2 DEF Locate, Located
  <2>2. raw' = RawOnsets(in) /\ in' = in /\ found' = {} /\ edges' = {} /\ at' = "pairs"
    BY <1>2 DEF Locate, PassInv
  <2>3. QED
    BY <2>1, <2>2 DEF PassInv
<1>3. CASE PairUp
  <2>1. /\ in' = in /\ at = "pairs" /\ at' = "sources" /\ in \in Inputs
        /\ UNCHANGED <<raw, centre, onset, wonset, slice, edges>>
    BY <1>3 DEF PairUp, PassInv
  <2>2. PICK prof \in [Pairs -> PairProfiles] :
           found' = UNION {AcceptEdge(in, BestDirected(pq[1], pq[2], prof[pq]), onset) : pq \in Pairs}
    BY <1>3 DEF PairUp, Pairs
  <2>3. PICK F : F = found'
    OBVIOUS
  <2>4. BareEdges(F)
    BY <2>1, <2>2, <2>3, PairUpFinds
  <2>5. BareEdges(found)'
    BY <2>1, <2>3, <2>4 DEF BareEdges, Between, Dated
  <2>6. Located'
    BY <2>1 DEF PassInv, Located
  <2>7. QED
    BY <2>1, <2>5, <2>6 DEF PassInv
<1>4. CASE Attribute
  <2>1. /\ in' = in /\ at = "sources" /\ at' = "done" /\ in \in Inputs
        /\ UNCHANGED <<raw, centre, onset, wonset, slice>>
        /\ edges' = Deduplicated(found')
    BY <1>4 DEF Attribute, PassInv
  <2>2. PICK prof \in [SourcePairs -> SourceProfiles] :
           found' = found \cup UNION {WriterEdge(wv[1], wv[2], prof[wv]) : wv \in SourcePairs}
    BY <1>4 DEF Attribute
  <2>3. PICK F, G : F = found /\ G = UNION {WriterEdge(wv[1], wv[2], prof[wv]) : wv \in SourcePairs}
    OBVIOUS
  <2>4. BareEdges(F)
    BY <2>1, <2>3 DEF PassInv
  <2>5. SourceEdges(G)
    <3>1. DOMAIN onset \subseteq Pods(in) /\ DOMAIN wonset \subseteq Pods(in)
      BY <2>1, LocatedPods DEF PassInv
    <3>2. QED
      BY <2>1, <2>3, <3>1, AttributeFinds
  <2>6. found' = F \cup G
    BY <2>2, <2>3
  <2>7. Of("stat")' = F /\ Of("write")' = G
    BY <2>4, <2>5, <2>6, Split DEF Of
  <2>8. BareEdges(Of("stat"))' /\ SourceEdges(Of("write"))'
    <3>1. BareEdges(F)' /\ SourceEdges(G)'
      BY <2>1, <2>4, <2>5 DEF BareEdges, SourceEdges, Between, Dated
    <3>2. QED
      BY <2>7, <3>1 DEF BareEdges, SourceEdges
  <2>9. Located'
    BY <2>1 DEF PassInv, Located
  <2>10. Deduplicated(found)' = Deduplicated(found')
    BY DEF Deduplicated, Preferred, Earlier
  <2>11. QED
    BY <2>1, <2>6, <2>7, <2>8, <2>9, <2>10 DEF PassInv
<1>5. CASE NoSources
  <2>1. /\ in' = in /\ at = "sources" /\ at' = "done" /\ in \in Inputs
        /\ UNCHANGED <<raw, centre, onset, wonset, slice, found>> /\ edges' = found
    BY <1>5 DEF NoSources, PassInv
  <2>2. BareEdges(found)
    BY <2>1 DEF PassInv
  <2>3. SourceEdges({})
    BY DEF SourceEdges
  <2>4. Of("stat") = found /\ Of("write") = {}
    BY <2>2, <2>3, Split DEF Of
  <2>5. Of("stat")' = found /\ Of("write")' = {}
    BY <2>1, <2>4 DEF Of
  <2>6. BareEdges(Of("stat"))' /\ SourceEdges(Of("write"))'
    <3>1. BareEdges(found)'
      BY <2>1, <2>2 DEF BareEdges, Between, Dated
    <3>2. QED
      BY <2>1, <2>5, <3>1 DEF BareEdges, SourceEdges
  <2>7. Deduplicated(found) = found
    BY <2>2 DEF BareEdges, Deduplicated
  <2>8. Deduplicated(found)' = Deduplicated(found)
    BY <2>1 DEF Deduplicated
  <2>9. Located'
    BY <2>1 DEF PassInv, Located
  <2>10. QED
    BY <2>1, <2>5, <2>6, <2>7, <2>8, <2>9 DEF PassInv
<1>6. CASE UNCHANGED vars
  BY <1>6 DEF vars, PassInv, Located, BareEdges, SourceEdges, Between, Dated, Of, Deduplicated
<1>7. QED
  BY <1>1, <1>2, <1>3, <1>4, <1>5, <1>6 DEF Next

LEMMA PassInvariant == Spec => []PassInv
BY PassInit, PassStep, PTL DEF Spec
-----------------------------------------------------------------------------
(* The theorems. *)

LEMMA PassTypes == PassInv => TypeOK
<1> SUFFICES ASSUME PassInv PROVE TypeOK
  OBVIOUS
<1>1. in \in Inputs /\ at \in {"idle", "locate", "pairs", "sources", "done"}
  BY DEF PassInv
<1>2. centre \subseteq 1 .. Samples(in) /\ (at # "locate" => onset \in [DOMAIN raw -> 1 .. Samples(in)])
      /\ wonset \in [DOMAIN wonset -> 1 .. Samples(in)] /\ DOMAIN wonset \subseteq DOMAIN in.writes
  <2>1. CASE at \in {"idle", "locate"}
    <3>1. centre = {} /\ onset = <<>> /\ wonset = <<>> /\ (at # "locate" => raw = <<>>)
      BY <2>1 DEF PassInv, NoOnsets
    <3>2. DOMAIN <<>> = {} /\ <<>> \in [{} -> 1 .. Samples(in)]
      OBVIOUS
    <3>3. QED
      BY <3>1, <3>2
  <2>2. CASE at \in {"pairs", "sources", "done"}
    <3>1. Located /\ raw = RawOnsets(in)
      BY <2>2 DEF PassInv
    <3>2. centre \subseteq 1 .. Samples(in)
      BY <1>1, <3>1, CentreTypes DEF Located
    <3>3. ASSUME NEW p \in DOMAIN raw PROVE Nearest(raw[p], centre) \in 1 .. Samples(in)
      <4>1. raw[p] \in SUBSET Onset(Samples(in)) /\ raw[p] # {}
        BY <1>1, <3>1, RawFacts
      <4>2. QED
        BY <1>1, <3>1, <4>1, DatedInside DEF Located
    <3>4. onset \in [DOMAIN raw -> 1 .. Samples(in)]
      BY <3>1, <3>3 DEF Located
    <3>5. ASSUME NEW p \in DOMAIN wonset PROVE wonset[p] \in 1 .. Samples(in) /\ p \in DOMAIN in.writes
      <4>1. p \in DOMAIN in.writes /\ StrongOnsets(in.writes[p]) # {}
        BY <3>1 DEF Located
      <4>2. PICK z \in Seq(Int) : z = in.writes[p] /\ Len(z) = Samples(in)
        BY <1>1, <4>1, InputFacts
      <4>3. StrongOnsets(z) \in SUBSET Onset(Samples(in))
        BY <4>2, StrongTypes
      <4>4. wonset[p] = Nearest(StrongOnsets(z), centre)
        BY <3>1, <4>2 DEF Located
      <4>5. QED
        BY <1>1, <3>1, <4>1, <4>2, <4>3, <4>4, DatedInside DEF Located
    <3>6. wonset \in [DOMAIN wonset -> 1 .. Samples(in)]
      <4>1. wonset = [p \in DOMAIN wonset |-> wonset[p]]
        BY <3>1 DEF Located
      <4>2. QED
        BY <3>5, <4>1
    <3>7. QED
      BY <3>2, <3>4, <3>5, <3>6
  <2>3. QED
    BY <1>1, <2>1, <2>2
<1>3. edges \subseteq found
  BY <1>1 DEF PassInv, Deduplicated
<1>4. \A e \in found : e.src \in Pods(in) /\ e.dst \in Pods(in) /\ e.src # e.dst
  <2>1. CASE at = "sources"
    BY <2>1 DEF PassInv, BareEdges, Between
  <2>2. CASE at = "done"
    BY <2>2 DEF PassInv, BareEdges, SourceEdges, Between
  <2>3. CASE at \notin {"sources", "done"}
    BY <1>1, <2>3 DEF PassInv
  <2>4. QED
    BY <2>1, <2>2, <2>3
<1>5. QED
  BY <1>1, <1>2, <1>3, <1>4 DEF TypeOK

\* Onsets, write onsets and the centre are samples of the ring, and edges join two pods with
\* vectors, whatever the series (cusum_onsets, run_pass).
THEOREM TypeCorrect == Spec => []TypeOK
BY PassInvariant, PassTypes, PTL

LEMMA PassDates == PassInv => OneEvent
<1> SUFFICES ASSUME PassInv, at \in {"pairs", "sources", "done"},
                    NEW hit, hit = {p \in DOMAIN raw : \E q \in DOMAIN raw \ {p} : Couples(in, p, q)},
                    NEW t \in {Strongest(raw[p]).idx : p \in hit},
                    \A p \in hit : Strongest(raw[p]).idx = t
    PROVE  /\ \A p \in hit : onset[p] = t
           /\ slice <= t /\ t < slice + Window /\ slice + Window - 1 <= Samples(in)
  BY DEF OneEvent
<1>1. in \in Inputs /\ raw = RawOnsets(in) /\ Located
  BY DEF PassInv
<1>2. hit # {} /\ hit \subseteq DOMAIN raw
  OBVIOUS
<1>3. CentrePods(in, RawOnsets(in)) = hit
  <2>1. hit = {p \in DOMAIN RawOnsets(in) : \E q \in DOMAIN RawOnsets(in) \ {p} : Couples(in, p, q)}
    BY <1>1
  <2>2. QED
    BY <1>2, <2>1 DEF CentrePods
<1>4. centre = {t}
  <2>1. PICK p \in hit : CentreOf(in, RawOnsets(in)) = {Strongest(RawOnsets(in)[p]).idx}
    BY <1>1, <1>2, <1>3, CentreFacts
  <2>2. QED
    BY <1>1, <2>1 DEF Located
<1>5. ASSUME NEW p \in hit PROVE onset[p] = t /\ t \in 1 .. Samples(in)
  <2>1. PICK S \in SUBSET Onset(Samples(in)) :
           S = raw[p] /\ S # {} /\ Strongest(S) \in S /\ Strongest(S).idx \in 1 .. Samples(in)
    BY <1>1, <1>2, RawFacts
  <2>2. Strongest(S).idx = t
    BY <2>1
  <2>3. Nearest(S, {t}) = t
    <3>1. Samples(in) \in Nat
      BY <1>1, InputFacts
    <3>2. QED
      BY <2>1, <2>2, <3>1, NearestTypes
  <2>4. QED
    BY <1>1, <1>2, <1>4, <2>1, <2>2, <2>3 DEF Located
<1>6. t \in 1 .. Samples(in)
  BY <1>2, <1>5
<1>7. slice = SliceStart(in, {t})
  BY <1>1, <1>4 DEF Located
<1>8. QED
  BY <1>1, <1>5, <1>6, <1>7, SliceHolds

\* When all coupled anomalous pods were hit hardest at one moment, that moment dates them all,
\* and the slice that is correlated holds it, whatever the series, their number and length.
THEOREM EventCorrect == Spec => []OneEvent
BY PassInvariant, PassDates, PTL

LEMMA PassFits == PassInv => EdgesFitMemory
<1> SUFFICES ASSUME PassInv, at = "done"
    PROVE  /\ DOMAIN onset = {} => edges = {}
           /\ \A e \in edges :
                /\ IF e.kind = "write" THEN CouplesSource(in, e.src, e.dst) ELSE Couples(in, e.src, e.dst)
                /\ CauseFirst(e)
                /\ \A f \in edges \ {e} : Ends(f) # Ends(e)
  BY DEF EdgesFitMemory, Done
<1>1. PICK F, G : F = Of("stat") /\ G = Of("write")
  OBVIOUS
<1>2. in \in Inputs /\ BareEdges(F) /\ SourceEdges(G) /\ found = F \cup G /\ edges = Deduplicated(found)
  BY <1>1 DEF PassInv
<1>3. edges \subseteq F \cup G
  BY <1>2 DEF Deduplicated
<1>4. DOMAIN onset = {} => edges = {}
  BY <1>2, <1>3 DEF BareEdges, SourceEdges
<1>5. ASSUME NEW e \in edges
      PROVE  /\ IF e.kind = "write" THEN CouplesSource(in, e.src, e.dst) ELSE Couples(in, e.src, e.dst)
             /\ CauseFirst(e)
  <2>1. CASE e \in F
    BY <1>2, <2>1 DEF BareEdges, Dated, CauseFirst
  <2>2. CASE e \in G
    BY <1>2, <2>2 DEF SourceEdges, CauseFirst
  <2>3. QED
    BY <1>3, <2>1, <2>2
<1>6. ASSUME NEW e \in edges, NEW f \in edges \ {e} PROVE Ends(f) # Ends(e)
  <2>1. \A x \in F \cup G : x.src \in Int /\ x.r \in Int
    <3>1. \A x \in F \cup G : x.src \in Pods(in) /\ x.r \in Int
      BY <1>2 DEF BareEdges, SourceEdges, Between
    <3>2. \A p \in Pods(in) : p \in Int
      BY <1>2, InputFacts
    <3>3. QED
      BY <3>1, <3>2
  <2>2. e \in Deduplicated(F \cup G) /\ f \in Deduplicated(F \cup G)
    BY <1>2
  <2>3. QED
    BY <2>1, <2>2, OneOfPair
<1>7. QED
  BY <1>4, <1>5, <1>6

\* What a pass hands to the memory fits it: no edge without an anomaly, edges only over shared
\* resources, one for each pair, and none whose cause starts after its effect: neither a bare edge
\* between findings nor a writer's.
THEOREM EdgesCorrect == Spec => []EdgesFitMemory
BY PassInvariant, PassFits, PTL

LEMMA PassLeads == PassInv => SourcesLead
<1> SUFFICES ASSUME PassInv, at = "done", NEW sources, sources = {e \in edges : e.kind = "write"}
    PROVE  /\ {e \in found : e.kind = "write"} \subseteq sources
           /\ \A S \in (SUBSET Pods(in)) \ {{}} :
                \E p \in S : \A e \in sources : e.src = p => e.dst \notin S
  BY DEF SourcesLead, Done
<1>1. PICK F, G : F = Of("stat") /\ G = Of("write")
  OBVIOUS
<1>2. in \in Inputs /\ BareEdges(F) /\ SourceEdges(G) /\ found = F \cup G /\ edges = Deduplicated(F \cup G)
  BY <1>1 DEF PassInv
<1>3. {e \in found : e.kind = "write"} = G
  BY <1>1 DEF Of
<1>4. G \subseteq sources
  <2>1. \A e \in G : e \in edges /\ e.kind = "write"
    BY <1>2, SourcesStay DEF SourceEdges
  <2>2. QED
    BY <2>1
<1>5. sources \subseteq G
  BY <1>2, <1>3 DEF Deduplicated
<1>6. ASSUME NEW S \in (SUBSET Pods(in)) \ {{}}
      PROVE  \E p \in S : \A e \in sources : e.src = p => e.dst \notin S
  <2> DEFINE T == {in.act[p] : p \in S}
  <2>1. \A p \in S : p \in Pods(in) /\ in.act[p] \in Nat
    BY <1>2, InputFacts
  <2>2. T \in SUBSET Nat /\ T # {}
    BY <2>1
  <2>3. PICK m \in T : \A k \in T : m <= k
    <3> HIDE DEF T
    <3> QED BY <2>2, LeastElement
  <2>4. PICK p \in S : m = in.act[p]
    OBVIOUS
  <2>5. ASSUME NEW e \in sources, e.src = p, e.dst \in S PROVE FALSE
    <3>1. in.act[e.src] > in.act[e.dst]
      BY <1>2, <1>5 DEF SourceEdges
    <3>2. PICK a \in Nat, b \in Nat : a = in.act[p] /\ b = in.act[e.dst] /\ a <= b
      BY <2>1, <2>3, <2>4, <2>5
    <3>3. a > b
      BY <2>5, <3>1, <3>2
    <3>4. QED
      BY <3>2, <3>3
  <2>6. QED
    BY <2>5
<1>7. QED
  BY <1>3, <1>4, <1>6

\* Among any pods there is one that no other of them out-writes into a stall: source edges always
\* leave a first aggressor, and a source edge is never dropped for a correlation of stalls.
THEOREM SourcesCorrect == Spec => []SourcesLead
BY PassInvariant, PassLeads, PTL

-----------------------------------------------------------------------------
(* Alarms. *)

\* In every pass the recursive sums of cusum_onsets, with their clamps and their resets, alarm
\* exactly at the samples where an unclamped sum since the last alarm is a shift.
THEOREM DetectorCorrect == Spec => []DetectorExact
<1>1. PassInv => DetectorExact
  <2> SUFFICES ASSUME PassInv, NEW p \in Pods(in) PROVE AlarmsAreShifts(in.z[p])
    BY DEF DetectorExact
  <2>1. in \in Inputs
    BY DEF PassInv
  <2>2. in.z[p] \in Seq(Int)
    BY <2>1, InputFacts
  <2>3. QED
    BY <2>2, ShiftsExact
<1>2. QED
  BY <1>1, PassInvariant, PTL
================================================================================
