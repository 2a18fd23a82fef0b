----------------------- MODULE CorrelationServiceProofs -----------------------
(***************************************************************************)
(* Proofs about CorrelationService for all signals, levels, ring sizes and *)
(* parameters of the baselines: types, that GET /graph implements          *)
(* ServedGraph, that no finding is shown of a workload that stays inside   *)
(* the smallest band, and that a pass never makes a storm normal.          *)
(***************************************************************************)
EXTENDS CorrelationService, FiniteSetTheorems, TLAPS

-----------------------------------------------------------------------------
(* Numbers and order statistics. *)

\* Every set of natural numbers has a least element, so the minima of the model exist.
LEMMA LeastElement ==
  ASSUME NEW T \in SUBSET Nat, T # {}
  PROVE  \E m \in T : \A k \in T : m <= k
<1> DEFINE R == {ss \in Nat \X Nat : ss[1] < ss[2]}
<1>1. IsWellFoundedOn(R, Nat)
  BY NatLessThanWellFounded DEF OpToRel
<1>2. PICK m \in T : \A k \in T : ~(<<k, m>> \in R)
  <2> HIDE DEF R
  <2> QED BY <1>1, WFMin
<1>3. ASSUME NEW k \in T PROVE m <= k
  <2>1. k \in Nat /\ m \in Nat
    OBVIOUS
  <2>2. <<k, m>> \in R <=> k < m
    BY <2>1
  <2>3. QED
    BY <1>2, <2>1, <2>2
<1>4. QED
  BY <1>3

\* Min is the least element of a set of natural numbers.
LEMMA MinIsLeast ==
  ASSUME NEW T \in SUBSET Nat, T # {}
  PROVE  Min(T) \in T /\ \A k \in T : Min(T) <= k
BY LeastElement DEF Min

\* Min of two numbers, as in the cap on a baseline's count and on the heat.
LEMMA MinOfTwo ==
  ASSUME NEW a \in Nat, NEW b \in Nat
  PROVE  Min({a, b}) = IF a <= b THEN a ELSE b
<1>1. Min({a, b}) \in {a, b} /\ \A k \in {a, b} : Min({a, b}) <= k
  <2>1. {a, b} \in SUBSET Nat /\ {a, b} # {}
    OBVIOUS
  <2>2. QED
    BY <2>1, MinIsLeast
<1>2. QED
  BY <1>1

\* Max of two numbers, as in the floor of the MAD and the start of the recent tail.
LEMMA MaxOfTwo ==
  ASSUME NEW a \in Int, NEW b \in Int
  PROVE  Max({a, b}) = IF a >= b THEN a ELSE b
BY DEF Max

\* The average of two numbers, rounded down, is between 0 and what bounds them both.
LEMMA BlendBounds ==
  ASSUME NEW old \in Nat, NEW new \in Nat
  PROVE  /\ Blend(old, new) \in Nat
         /\ \A b \in Nat : old <= b /\ new <= b => Blend(old, new) <= b
<1> DEFINE a == (OneIn - 1) * old + new
           q == a \div OneIn
<1>1. OneIn \in Nat \ {0} /\ OneIn - 1 \in Nat
  BY BaselineAssumption
<1>2. (OneIn - 1) * old \in Nat
  BY <1>1
<1>3. a \in Nat
  BY <1>2
<1>4. q \in Nat /\ OneIn * q <= a
  <2> HIDE DEF a
  <2> QED BY <1>1, <1>3
<1>5. ASSUME NEW b \in Nat, old <= b, new <= b, q > b PROVE FALSE
  <2> HIDE DEF q
  <2>1. OneIn * q >= OneIn * (b + 1)
    BY <1>1, <1>4, <1>5
  <2>2. (OneIn - 1) * old <= (OneIn - 1) * b
    BY <1>1, <1>5
  <2>3. OneIn * (b + 1) = OneIn * b + OneIn /\ (OneIn - 1) * b = OneIn * b - b /\ OneIn * b \in Nat
    BY <1>1
  <2>4. a < OneIn * (b + 1)
    BY <1>1, <1>2, <1>5, <2>2, <2>3
  <2>5. OneIn * q \in Nat /\ OneIn * (b + 1) \in Nat
    BY <1>1, <1>4
  <2> HIDE DEF a
  <2>6. QED
    BY <1>3, <1>4, <2>1, <2>4, <2>5
<1>6. QED
  <2> HIDE DEF q
  <2>1. Blend(old, new) = q
    BY DEF Blend, q
  <2>2. QED
    BY <2>1, <1>4, <1>5

\* A set with 0 that is closed under successors holds every natural number.
LEMMA SetInduction ==
  ASSUME NEW S, 0 \in S, \A n \in Nat : n \in S => n + 1 \in S
  PROVE  \A n \in Nat : n \in S
<1> SUFFICES ASSUME Nat \ S # {} PROVE FALSE
  OBVIOUS
<1>1. PICK m \in Nat \ S : \A k \in Nat \ S : m <= k
  BY LeastElement
<1>2. m - 1 \in Nat /\ m - 1 \in S
  BY <1>1
<1>3. (m - 1) + 1 \in S
  BY <1>2
<1>4. QED
  BY <1>1, <1>3

\* The first n samples of a vector have a largest one.
HasLargest(vec, n) == \E i \in 1 .. n : \A j \in 1 .. n : vec[j] <= vec[i]

\* Another sample is the new largest, or the old largest stays.
LEMMA LargestOfNext ==
  ASSUME NEW vec \in Seq(Nat), NEW n \in Nat, n < Len(vec), HasLargest(vec, n)
  PROVE  HasLargest(vec, n + 1)
<1>1. \A j \in 1 .. n + 1 : vec[j] \in Nat
  OBVIOUS
<1>2. PICK i \in 1 .. n : \A j \in 1 .. n : vec[j] <= vec[i]
  BY DEF HasLargest
<1>3. i \in 1 .. n + 1 /\ n + 1 \in 1 .. n + 1 /\ \A j \in 1 .. n + 1 : j = n + 1 \/ j \in 1 .. n
  OBVIOUS
<1>4. CASE vec[n + 1] <= vec[i]
  <2>1. \A j \in 1 .. n + 1 : vec[j] <= vec[i]
    BY <1>2, <1>3, <1>4
  <2>2. QED
    BY <1>3, <2>1 DEF HasLargest
<1>5. CASE ~(vec[n + 1] <= vec[i])
  <2>1. ASSUME NEW j \in 1 .. n + 1 PROVE vec[j] <= vec[n + 1]
    BY <1>1, <1>2, <1>3, <1>5
  <2>2. QED
    BY <1>3, <2>1 DEF HasLargest
<1>6. QED
  BY <1>4, <1>5

\* A vector has a largest sample.
LEMMA LargestSample ==
  ASSUME NEW vec \in Seq(Nat), vec # <<>>
  PROVE  \E i \in DOMAIN vec : \A j \in DOMAIN vec : vec[j] <= vec[i]
<1> DEFINE S == {n \in Nat : n < Len(vec) => HasLargest(vec, n + 1)}
<1>1. Len(vec) \in Nat \ {0} /\ DOMAIN vec = 1 .. Len(vec)
  OBVIOUS
<1>2. 0 \in S
  <2>1. vec[1] \in Nat /\ \A j \in 1 .. 1 : j = 1
    BY <1>1
  <2>2. HasLargest(vec, 0 + 1)
    BY <2>1 DEF HasLargest
  <2>3. QED
    BY <2>2
<1>3. ASSUME NEW n \in Nat, n \in S PROVE n + 1 \in S
  <2>1. ASSUME n + 1 < Len(vec) PROVE HasLargest(vec, (n + 1) + 1)
    <3>1. n < Len(vec)
      BY <2>1, <1>1
    <3>2. HasLargest(vec, n + 1)
      BY <1>3, <3>1
    <3>3. QED
      BY <2>1, <3>2, LargestOfNext
  <2>2. QED
    BY <2>1
<1>4. \A n \in Nat : n \in S
  <2> HIDE DEF S
  <2> QED BY <1>2, <1>3, SetInduction
<1>5. HasLargest(vec, (Len(vec) - 1) + 1)
  <2>1. Len(vec) - 1 \in Nat /\ Len(vec) - 1 < Len(vec)
    BY <1>1
  <2>2. QED
    BY <1>4, <2>1
<1>6. QED
  BY <1>1, <1>5 DEF HasLargest

\* The samples that at least k samples do not exceed; Ranked is the least of them.
Reaching(vec, k) ==
  {vec[i] : i \in {j \in DOMAIN vec : Cardinality({m \in DOMAIN vec : vec[m] <= vec[j]}) >= k}}

\* The k-th smallest sample exists: no sample exceeds the largest one.
LEMMA ReachingExists ==
  ASSUME NEW vec \in Seq(Nat), NEW k \in 1 .. Len(vec)
  PROVE  Reaching(vec, k) # {} /\ Reaching(vec, k) \in SUBSET Nat
<1>1. Len(vec) \in Nat \ {0} /\ DOMAIN vec = 1 .. Len(vec) /\ \A i \in DOMAIN vec : vec[i] \in Nat
  OBVIOUS
<1>2. vec # <<>>
  BY <1>1
<1>3. PICK i \in DOMAIN vec : \A j \in DOMAIN vec : vec[j] <= vec[i]
  BY <1>2, LargestSample
<1>4. {m \in DOMAIN vec : vec[m] <= vec[i]} = 1 .. Len(vec)
  BY <1>1, <1>3
<1>5. Cardinality(1 .. Len(vec)) = Len(vec)
  <2>1. \A n \in Nat \ {0} : Cardinality(1 .. n) = n
    <3>1. TAKE n \in Nat \ {0}
    <3>2. 1 \in Int /\ n \in Int /\ ~(1 > n) /\ n - 1 + 1 = n
      OBVIOUS
    <3>3. Cardinality(1 .. n) = n - 1 + 1
      BY <3>2, FS_Interval
    <3>4. QED
      BY <3>2, <3>3
  <2>2. QED
    BY <1>1, <2>1
<1>6. Cardinality({m \in DOMAIN vec : vec[m] <= vec[i]}) >= k
  <2>1. Cardinality({m \in DOMAIN vec : vec[m] <= vec[i]}) = Len(vec)
    BY <1>4, <1>5
  <2>2. Len(vec) >= k
    BY <1>1
  <2>3. QED
    BY <2>1, <2>2
<1>7. vec[i] \in Reaching(vec, k)
  BY <1>3, <1>6 DEF Reaching
<1>8. QED
  BY <1>1, <1>7 DEF Reaching

\* Ranked is one of the samples.
LEMMA RankedIsSample ==
  ASSUME NEW vec \in Seq(Nat), NEW k \in 1 .. Len(vec)
  PROVE  Ranked(vec, k) \in Nat /\ \E i \in DOMAIN vec : Ranked(vec, k) = vec[i]
<1>1. Ranked(vec, k) = Min(Reaching(vec, k))
  BY DEF Ranked, Reaching
<1>2. Ranked(vec, k) \in Reaching(vec, k)
  BY <1>1, ReachingExists, MinIsLeast
<1>3. QED
  BY <1>2, ReachingExists DEF Reaching

\* A higher rank is no smaller sample.
LEMMA RankedMonotone ==
  ASSUME NEW vec \in Seq(Nat), NEW k \in 1 .. Len(vec), NEW l \in k .. Len(vec)
  PROVE  Ranked(vec, k) <= Ranked(vec, l)
<1>1. l \in 1 .. Len(vec) /\ k \in Nat /\ l \in Nat /\ k <= l
  OBVIOUS
<1>2. Ranked(vec, k) = Min(Reaching(vec, k)) /\ Ranked(vec, l) = Min(Reaching(vec, l))
  BY DEF Ranked, Reaching
<1>3. Reaching(vec, l) \subseteq Reaching(vec, k)
  <2>1. ASSUME NEW j \in DOMAIN vec, Cardinality({m \in DOMAIN vec : vec[m] <= vec[j]}) >= l
        PROVE  Cardinality({m \in DOMAIN vec : vec[m] <= vec[j]}) >= k
    <3>1. IsFiniteSet(DOMAIN vec)
      BY FS_Interval
    <3>2. Cardinality({m \in DOMAIN vec : vec[m] <= vec[j]}) \in Nat
      BY <3>1, FS_Subset, FS_CardinalityType
    <3>3. QED
      BY <1>1, <2>1, <3>2
  <2>2. QED
    BY <2>1 DEF Reaching
<1>4. Min(Reaching(vec, l)) \in Reaching(vec, k)
  BY <1>1, <1>3, ReachingExists, MinIsLeast
<1>5. QED
  BY <1>1, <1>2, <1>4, ReachingExists, MinIsLeast

\* Where the median and the 90th percentile are read in a vector: the rank of the median is
\* not above those of the two samples the percentile lies between.
LEMMA PercentileRanks ==
  ASSUME NEW n \in Nat \ {0}
  PROVE  LET k == (9 * (n - 1)) \div 10
             f == (9 * (n - 1)) % 10
             h == (n + 1) \div 2
         IN /\ k + 1 \in 1 .. n /\ f \in 0 .. 9
            /\ f # 0 => k + 2 \in 1 .. n
            /\ h \in 1 .. n
            /\ h <= k + 1
OBVIOUS

\* What lies between two samples, in tenths, lies between the bounds of the two.
LEMMA Interpolated ==
  ASSUME NEW f \in 0 .. 9, NEW x \in Nat, NEW y \in Nat, NEW lo \in Nat, NEW hi \in Nat,
         lo <= x, lo <= y, x <= hi, y <= hi
  PROVE  /\ (10 - f) * x + f * y \in Nat
         /\ 10 * lo <= (10 - f) * x + f * y
         /\ (10 - f) * x + f * y <= 10 * hi
<1>1. f \in {0, 1, 2, 3, 4, 5, 6, 7, 8, 9}
  OBVIOUS
<1>2. QED
  BY <1>1

\* The 90th percentile is between the median and what bounds every sample.
LEMMA PercentileBounds ==
  ASSUME NEW vec \in Seq(Nat), vec # <<>>, NEW B \in Nat, \A i \in DOMAIN vec : vec[i] <= B
  PROVE  /\ P90x10(vec) \in Nat /\ Median(vec) \in Nat
         /\ 10 * Median(vec) <= P90x10(vec)
         /\ P90x10(vec) <= 10 * B
<1> DEFINE n == Len(vec)
           k == (9 * (n - 1)) \div 10
           f == (9 * (n - 1)) % 10
           h == (n + 1) \div 2
<1>1. n \in Nat \ {0}
  OBVIOUS
<1>2. /\ k + 1 \in 1 .. n /\ f \in 0 .. 9
      /\ f # 0 => k + 2 \in 1 .. n
      /\ h \in 1 .. n
      /\ h <= k + 1
  <2> HIDE DEF n
  <2> QED BY <1>1, PercentileRanks
<1>3. /\ Median(vec) = Ranked(vec, h)
      /\ P90x10(vec) = IF f = 0 THEN 10 * Ranked(vec, k + 1)
                       ELSE (10 - f) * Ranked(vec, k + 1) + f * Ranked(vec, k + 2)
  BY DEF Median, P90x10
<1>4. k \in Nat /\ h \in Nat /\ n \in Nat
  <2> HIDE DEF n
  <2> QED BY <1>1
<1> HIDE DEF k, f, h
<1>5. ASSUME NEW j \in 1 .. n PROVE Ranked(vec, j) \in 0 .. B
  <2>1. Ranked(vec, j) \in Nat /\ \E i \in DOMAIN vec : Ranked(vec, j) = vec[i]
    BY RankedIsSample
  <2>2. QED
    BY <2>1
<1>6. CASE f = 0
  <2>1. h \in 1 .. n /\ k + 1 \in h .. n
    BY <1>1, <1>2, <1>4, <1>6
  <2>2. Ranked(vec, h) <= Ranked(vec, k + 1)
    BY <2>1, RankedMonotone
  <2>3. Ranked(vec, h) \in 0 .. B /\ Ranked(vec, k + 1) \in 0 .. B
    BY <1>2, <1>5
  <2>4. QED
    BY <1>3, <1>6, <2>2, <2>3
<1>7. CASE f # 0
  <2>1. h \in 1 .. n /\ k + 1 \in h .. n /\ k + 2 \in h .. n /\ k + 2 \in 1 .. n
    BY <1>1, <1>2, <1>4, <1>7
  <2>2. Ranked(vec, h) <= Ranked(vec, k + 1) /\ Ranked(vec, h) <= Ranked(vec, k + 2)
    BY <2>1, RankedMonotone
  <2>3. Ranked(vec, h) \in 0 .. B /\ Ranked(vec, k + 1) \in 0 .. B /\ Ranked(vec, k + 2) \in 0 .. B
    BY <1>2, <1>5, <2>1
  <2> DEFINE x == Ranked(vec, k + 1)
             y == Ranked(vec, k + 2)
             m == Ranked(vec, h)
  <2> HIDE DEF x, y, m
  <2>4. x \in Nat /\ y \in Nat /\ m \in Nat /\ m <= x /\ m <= y /\ x <= B /\ y <= B
    BY <2>2, <2>3 DEF x, y, m
  <2>5. /\ (10 - f) * x + f * y \in Nat
        /\ 10 * m <= (10 - f) * x + f * y
        /\ (10 - f) * x + f * y <= 10 * B
    BY <1>2, <2>4, Interpolated
  <2>6. Median(vec) = m /\ P90x10(vec) = (10 - f) * x + f * y
    BY <1>3, <1>7 DEF x, y, m
  <2>7. QED
    BY <2>4, <2>5, <2>6
<1>8. QED
  BY <1>6, <1>7

\* The deviations from the median are natural numbers, and so is their median.
LEMMA MadIsNat ==
  ASSUME NEW vec \in Seq(Nat), vec # <<>>
  PROVE  Mad(vec) \in Nat
<1> DEFINE m == Median(vec)
           dev == [i \in DOMAIN vec |-> IF vec[i] < m THEN m - vec[i] ELSE vec[i] - m]
<1>1. m \in Nat
  <2>1. PICK i \in DOMAIN vec : \A j \in DOMAIN vec : vec[j] <= vec[i]
    BY LargestSample
  <2>2. vec[i] \in Nat
    OBVIOUS
  <2>3. QED
    BY <2>1, <2>2, PercentileBounds
<1> HIDE DEF m
<1>2. DOMAIN vec = 1 .. Len(vec) /\ Len(vec) \in Nat \ {0} /\ \A i \in DOMAIN vec : vec[i] \in Nat
  OBVIOUS
<1>3. dev \in Seq(Nat) /\ dev # <<>> /\ Len(dev) = Len(vec)
  <2>1. \A i \in DOMAIN vec : (IF vec[i] < m THEN m - vec[i] ELSE vec[i] - m) \in Nat
    BY <1>1, <1>2
  <2>2. dev \in [1 .. Len(vec) -> Nat]
    BY <1>2, <2>1
  <2>3. QED
    BY <1>2, <2>2
<1> HIDE DEF dev
<1>4. PICK i \in DOMAIN dev : \A j \in DOMAIN dev : dev[j] <= dev[i]
  BY <1>3, LargestSample
<1>5. dev[i] \in Nat
  BY <1>3, <1>4
<1>6. Median(dev) \in Nat
  BY <1>3, <1>4, <1>5, PercentileBounds
<1>7. QED
  BY <1>6 DEF Mad, dev, m

Rows == [median : Nat, mad : Nat, n : 1 .. MinN]

\* The rows the table baselines holds for a workload: none or one.
IsRow(row) == row \in SUBSET Rows /\ \A r, q \in row : r = q

\* update_baselines leaves none or one row, and its count stays within the cap.
LEMMA LearnedIsRow ==
  ASSUME NEW vec \in Seq(Nat), vec # <<>>, NEW row, IsRow(row)
  PROVE  IsRow(Learned(row, vec)) /\ Learned(row, vec) # {}
<1>1. Median(vec) \in Nat /\ Mad(vec) \in Nat
  <2>1. PICK i \in DOMAIN vec : \A j \in DOMAIN vec : vec[j] <= vec[i]
    BY LargestSample
  <2>2. vec[i] \in Nat
    OBVIOUS
  <2>3. QED
    BY <2>1, <2>2, PercentileBounds, MadIsNat
<1>2. MinN \in Nat \ {0}
  BY BaselineAssumption
<1>3. CASE row = {}
  BY <1>1, <1>2, <1>3 DEF Learned, IsRow, Rows
<1>4. CASE row # {} /\ Above(row, vec)
  BY <1>4 DEF Learned, IsRow
<1>5. CASE row # {} /\ ~Above(row, vec)
  <2>1. PICK r \in row : row = {r}
    BY <1>5 DEF IsRow
  <2>2. Learned(row, vec) = {Averaged(r, vec)}
    BY <1>5, <2>1 DEF Learned
  <2>3. r.median \in Nat /\ r.mad \in Nat /\ r.n \in 1 .. MinN
    BY <2>1 DEF IsRow, Rows
  <2>4. Blend(r.median, Median(vec)) \in Nat /\ Blend(r.mad, Mad(vec)) \in Nat
    BY <1>1, <2>3, BlendBounds
  <2>5. Min({r.n + 1, MinN}) \in 1 .. MinN
    <3>1. Min({r.n + 1, MinN}) = IF r.n + 1 <= MinN THEN r.n + 1 ELSE MinN
      BY <1>2, <2>3, MinOfTwo
    <3>2. QED
      BY <1>2, <2>3, <3>1
  <2>6. Averaged(r, vec) \in Rows
    BY <2>4, <2>5 DEF Averaged, Rows
  <2>7. QED
    BY <2>2, <2>6 DEF IsRow
<1>6. QED
  BY <1>3, <1>4, <1>5

\* A mature row stays mature, and what it learns is inside the band it had: a vector whose
\* median is above the band has its 90th percentile above it too, and is skipped.
LEMMA LearnedInBand ==
  ASSUME NEW vec \in Seq(Nat), vec # <<>>, NEW row, IsRow(row), Mature(row)
  PROVE  /\ Mature(Learned(row, vec))
         /\ \E r \in row, r2 \in Learned(row, vec) : r2.median <= Band(r)
<1>1. MinN \in Nat \ {0} /\ DevK \in Nat
  BY BaselineAssumption
<1>2. PICK r \in row : r.n >= MinN /\ row = {r}
  BY DEF Mature, IsRow
<1>3. r.median \in Nat /\ r.mad \in Nat /\ r.n \in 1 .. MinN
  BY <1>2 DEF IsRow, Rows
<1>4. Band(r) \in Nat /\ r.median <= Band(r)
  <2>1. Max({r.mad, MadFloor}) \in Nat
    BY <1>3, MaxOfTwo DEF MadFloor
  <2>2. DevK * Max({r.mad, MadFloor}) \in Nat
    BY <1>1, <2>1
  <2>3. QED
    BY <1>3, <2>2 DEF Band
<1>5. CASE Above(row, vec)
  BY <1>2, <1>4, <1>5 DEF Learned
<1>6. CASE ~Above(row, vec)
  <2> DEFINE med == Median(vec)
             new == Averaged(r, vec)
  <2>1. med \in Nat /\ Mad(vec) \in Nat /\ P90x10(vec) \in Nat /\ 10 * med <= P90x10(vec)
    <3>1. PICK i \in DOMAIN vec : \A j \in DOMAIN vec : vec[j] <= vec[i]
      BY LargestSample
    <3>2. vec[i] \in Nat
      OBVIOUS
    <3>3. QED
      BY <3>1, <3>2, PercentileBounds, MadIsNat
  <2>2. ~(P90x10(vec) > 10 * Band(r))
    BY <1>2, <1>6 DEF Above
  <2>3. med <= Band(r)
    <3> HIDE DEF med
    <3> QED BY <1>4, <2>1, <2>2
  <2>4. Learned(row, vec) = {new}
    BY <1>2, <1>6 DEF Learned
  <2>5. new.median <= Band(r)
    <3>1. new.median = Blend(r.median, med)
      BY DEF Averaged
    <3>2. QED
      BY <1>3, <1>4, <2>1, <2>3, <3>1, BlendBounds
  <2>6. new.n >= MinN
    <3>1. new.n = Min({r.n + 1, MinN})
      BY DEF Averaged
    <3>2. Min({r.n + 1, MinN}) = IF r.n + 1 <= MinN THEN r.n + 1 ELSE MinN
      BY <1>1, <1>3, MinOfTwo
    <3>3. QED
      BY <1>1, <1>2, <1>3, <3>1, <3>2
  <2>7. QED
    BY <1>2, <2>4, <2>5, <2>6 DEF Mature
<1>7. QED
  BY <1>5, <1>6

-----------------------------------------------------------------------------
(* The vectors of a pass. *)

\* A vector has a sample at every point of the grid: one the pod showed, or 0 for a gap.
LEMMA VectorSamples ==
  ASSUME TypeOK, NEW s \in Signals, NEW vec \in Vectors(s)
  PROVE  /\ vec \in Seq(Nat) /\ vec # <<>>
         /\ \A i \in DOMAIN vec : vec[i] = 0 \/ vec[i] \in Levels[s]
<1> DEFINE gap == RingSize - Len(ring[s])
           zeros == [i \in 1 .. gap |-> 0]
           r == ring[s]
<1>1. r \in Seq(Levels[s]) /\ Len(r) <= RingSize /\ Levels[s] \subseteq Nat
  BY LevelsAssumption DEF TypeOK
<1>2. ~(Len(r) < MinPoints) /\ vec = zeros \o r
  BY DEF Vectors
<1>3. RingSize \in Nat /\ MinPoints \in Nat /\ MinPoints >= 1
  BY ServiceAssumption
<1> HIDE DEF r
<1>4. Len(r) \in Nat /\ Len(r) >= 1 /\ DOMAIN r = 1 .. Len(r) /\ r \in Seq(Nat)
  BY <1>1, <1>2, <1>3
<1>5. gap \in Nat
  BY <1>1, <1>3, <1>4 DEF r
<1> HIDE DEF gap
<1>6. zeros \in Seq(Nat) /\ Len(zeros) = gap /\ \A i \in 1 .. gap : zeros[i] = 0
  <2>1. zeros \in [1 .. gap -> Nat]
    OBVIOUS
  <2>2. QED
    BY <1>5, <2>1
<1> HIDE DEF zeros
<1>7. zeros \o r \in Seq(Nat) /\ Len(zeros \o r) = gap + Len(r)
  BY <1>4, <1>6
<1>8. ASSUME NEW i \in 1 .. gap + Len(r)
      PROVE  (zeros \o r)[i] = 0 \/ (zeros \o r)[i] \in Levels[s]
  <2>1. CASE i <= gap
    <3>1. i \in 1 .. gap /\ (zeros \o r)[i] = zeros[i]
      BY <1>4, <1>5, <1>6, <2>1
    <3>2. QED
      BY <1>6, <3>1
  <2>2. CASE ~(i <= gap)
    <3>1. i - gap \in 1 .. Len(r) /\ (zeros \o r)[i] = r[i - gap]
      BY <1>4, <1>5, <1>6, <2>2
    <3>2. QED
      BY <1>1, <1>4, <3>1
  <2>3. QED
    BY <2>1, <2>2
<1>9. QED
  <2>1. Len(vec) = gap + Len(r) /\ vec \in Seq(Nat)
    BY <1>2, <1>7
  <2>2. DOMAIN vec = 1 .. gap + Len(r)
    BY <2>1
  <2>3. vec # <<>>
    BY <1>4, <1>5, <2>1
  <2>4. QED
    BY <1>2, <1>8, <2>1, <2>2, <2>3

\* The recent tail is made of samples of the vector, and has one.
LEMMA RecentSamples ==
  ASSUME NEW vec \in Seq(Nat), vec # <<>>
  PROVE  /\ Recent(vec) \in Seq(Nat) /\ Recent(vec) # <<>>
         /\ \A i \in DOMAIN Recent(vec) : \E j \in DOMAIN vec : Recent(vec)[i] = vec[j]
<1> DEFINE m == Max({1, Len(vec) - ResetWindow + 1})
<1>1. Len(vec) \in Nat \ {0} /\ DOMAIN vec = 1 .. Len(vec)
  OBVIOUS
<1>2. ResetWindow \in Nat \ {0}
  BY BaselineAssumption
<1>3. m \in 1 .. Len(vec)
  <2>1. m = IF 1 >= Len(vec) - ResetWindow + 1 THEN 1 ELSE Len(vec) - ResetWindow + 1
    BY <1>1, <1>2, MaxOfTwo
  <2> HIDE DEF m
  <2>2. QED
    BY <1>1, <1>2, <2>1
<1>4. Recent(vec) = SubSeq(vec, m, Len(vec))
  BY DEF Recent
<1> HIDE DEF m
<1>5. /\ SubSeq(vec, m, Len(vec)) \in Seq(Nat)
      /\ Len(SubSeq(vec, m, Len(vec))) = Len(vec) - m + 1
      /\ \A i \in 1 .. Len(vec) - m + 1 : SubSeq(vec, m, Len(vec))[i] = vec[m + i - 1]
  BY <1>1, <1>3
<1>6. \A i \in 1 .. Len(vec) - m + 1 : m + i - 1 \in 1 .. Len(vec)
  BY <1>1, <1>3
<1>7. DOMAIN Recent(vec) = 1 .. Len(vec) - m + 1 /\ Len(Recent(vec)) = Len(vec) - m + 1
  BY <1>4, <1>5
<1>8. Recent(vec) # <<>>
  <2>1. Len(Recent(vec)) \in Nat \ {0}
    BY <1>1, <1>3, <1>7
  <2>2. QED
    BY <2>1
<1>9. ASSUME NEW i \in DOMAIN Recent(vec) PROVE \E j \in DOMAIN vec : Recent(vec)[i] = vec[j]
  <2>1. i \in 1 .. Len(vec) - m + 1
    BY <1>7
  <2>2. Recent(vec)[i] = vec[m + i - 1] /\ m + i - 1 \in DOMAIN vec
    BY <1>1, <1>4, <1>5, <1>6, <2>1
  <2>3. QED
    BY <2>2
<1>10. QED
  BY <1>4, <1>5, <1>8, <1>9

\* A signal that shows a level outside the smallest band.
Loud(s) == \E level \in Levels[s] : level > DevK * MadFloor

\* Only a signal that shows such a level deviates from its baseline, whatever that has learned:
\* the band is never below the smallest one, and a percentile is not above the largest sample.
LEMMA DeviatesIsLoud ==
  ASSUME TypeOK, NEW s \in Signals, NEW vec \in Vectors(s), Deviates(base[s], vec)
  PROVE  Loud(s)
<1> DEFINE tail == Recent(vec)
           small == DevK * MadFloor
<1>1. DevK \in Nat /\ small \in Nat
  BY BaselineAssumption DEF MadFloor
<1>2. /\ vec \in Seq(Nat) /\ vec # <<>>
      /\ \A i \in DOMAIN vec : vec[i] = 0 \/ vec[i] \in Levels[s]
  BY VectorSamples
<1>3. /\ tail \in Seq(Nat) /\ tail # <<>>
      /\ \A i \in DOMAIN tail : tail[i] = 0 \/ tail[i] \in Levels[s]
  BY <1>2, RecentSamples
<1>4. PICK r \in base[s] : P90x10(tail) > 10 * Band(r)
  BY DEF Deviates, Above
<1>5. Band(r) \in Nat /\ small <= Band(r)
  <2>1. r.median \in Nat /\ r.mad \in Nat
    BY <1>4 DEF TypeOK
  <2>2. Max({r.mad, MadFloor}) \in Nat /\ Max({r.mad, MadFloor}) >= 1
    BY <2>1, MaxOfTwo DEF MadFloor
  <2> DEFINE wide == Max({r.mad, MadFloor})
  <2> HIDE DEF wide
  <2>3. \A w \in Nat : w >= 1 => DevK * w \in Nat /\ DevK * 1 <= DevK * w
    BY <1>1
  <2>4. DevK * wide \in Nat /\ DevK * 1 <= DevK * wide
    BY <2>2, <2>3 DEF wide
  <2>5. Band(r) = r.median + DevK * wide /\ small = DevK * 1
    BY DEF Band, wide, MadFloor
  <2>6. QED
    BY <1>1, <2>1, <2>4, <2>5
<1> HIDE DEF tail, small
<1>6. SUFFICES ASSUME \A i \in DOMAIN tail : tail[i] <= small PROVE FALSE
  <2>1. PICK i \in DOMAIN tail : ~(tail[i] <= small)
    BY <1>6
  <2>2. tail[i] \in Nat
    BY <1>3, <2>1
  <2>3. tail[i] > small /\ tail[i] # 0
    BY <1>1, <2>1, <2>2
  <2>4. QED
    BY <1>3, <2>1, <2>3 DEF Loud, small
<1>7. P90x10(tail) \in Nat /\ P90x10(tail) <= 10 * small
  BY <1>1, <1>3, <1>6, PercentileBounds
<1>8. QED
  BY <1>1, <1>4, <1>5, <1>7

-----------------------------------------------------------------------------
(* The inductive invariant. *)

\* A signal is done once in a pass: what is still to do is distinct and not rendered yet.
OnceEach ==
  /\ \A i, j \in DOMAIN todo : todo[i] = todo[j] => i = j
  /\ \A i \in DOMAIN todo : todo[i] \notin DOMAIN rendered

\* What a pass has rendered so far is what is committed of those signals.
RenderedIsCommitted == \A s \in DOMAIN rendered : rendered[s].heat = heat[s]

\* A finding, rendered or shown, is of a signal that shows a level outside the smallest band.
FindingsAreLoud ==
  /\ \A s \in DOMAIN rendered : rendered[s].finding => Loud(s)
  /\ \A s \in DOMAIN graph.views : graph.views[s].finding => Loud(s)

ServiceInv == TypeOK /\ OnceEach /\ RenderedIsCommitted /\ FindingsAreLoud

\* A pass starts with every signal and nothing rendered.
LEMMA NextPassFacts ==
  ASSUME NextPass
  PROVE  /\ DOMAIN rendered' = {} /\ todo' \in Seq(Signals) /\ at' = "sleep"
         /\ \A i, j \in DOMAIN todo' : todo'[i] = todo'[j] => i = j
BY SignalsAssumption DEF NextPass

\* The heat after a pass stays within its bound.
LEMMA HeatedInBounds ==
  ASSUME NEW h \in 0 .. MaxHeat, NEW edge \in BOOLEAN
  PROVE  Heated(h, edge) \in 0 .. MaxHeat
<1>1. MaxHeat \in Nat /\ h \in Nat /\ h + 1 \in Nat /\ h - 1 \in Int
  BY ServiceAssumption
<1>2. Min({h + 1, MaxHeat}) = (IF h + 1 <= MaxHeat THEN h + 1 ELSE MaxHeat)
  BY <1>1, MinOfTwo
<1>3. Max({h - 1, 0}) = (IF h - 1 >= 0 THEN h - 1 ELSE 0)
  BY <1>1, MaxOfTwo
<1>4. QED
  BY <1>1, <1>2, <1>3 DEF Heated

\* One more sample keeps the ring within its size.
LEMMA AppendedInRing ==
  ASSUME NEW L, NEW samples \in Seq(L), Len(samples) <= RingSize, NEW level \in L
  PROVE  Appended(samples, level) \in Seq(L) /\ Len(Appended(samples, level)) <= RingSize
<1> DEFINE all == Append(samples, level)
<1>1. all \in Seq(L) /\ Len(all) = Len(samples) + 1 /\ all # <<>>
  OBVIOUS
<1>2. RingSize \in Nat /\ Len(samples) \in Nat
  BY ServiceAssumption
<1> HIDE DEF all
<1>3. Tail(all) \in Seq(L) /\ Len(Tail(all)) = Len(samples)
  BY <1>1
<1>4. Appended(samples, level) = IF Len(all) > RingSize THEN Tail(all) ELSE all
  BY DEF Appended, all
<1>5. QED
  BY <1>1, <1>2, <1>3, <1>4

\* What bootstrap_graph puts up has every signal and no finding.
LEMMA BootstrapShape ==
  ASSUME NEW h \in [Signals -> 0 .. MaxHeat]
  PROVE  /\ Bootstrap(h).status = "boot"
         /\ DOMAIN Bootstrap(h).views = Signals
         /\ Bootstrap(h).views \in [Signals -> Views]
         /\ \A s \in Signals : Bootstrap(h).views[s] = [heat |-> h[s], finding |-> FALSE]
BY DEF Bootstrap, Graph, Views

\* The next signal of a pass is one that is not rendered, and the rest of the pass has it no more.
LEMMA HeadOfPass ==
  ASSUME ServiceInv, todo # <<>>
  PROVE  /\ Head(todo) \in Signals /\ Head(todo) \notin DOMAIN rendered
         /\ Tail(todo) \in Seq(Signals)
         /\ \A i, j \in DOMAIN Tail(todo) : Tail(todo)[i] = Tail(todo)[j] => i = j
         /\ \A i \in DOMAIN Tail(todo) :
              Tail(todo)[i] # Head(todo) /\ Tail(todo)[i] \notin DOMAIN rendered
<1>1. todo \in Seq(Signals)
  BY DEF ServiceInv, TypeOK
<1>2. Len(todo) \in Nat \ {0} /\ DOMAIN todo = 1 .. Len(todo) /\ 1 \in DOMAIN todo
  BY <1>1
<1>3. Head(todo) = todo[1]
  BY <1>1, <1>2
<1>4. Tail(todo) \in Seq(Signals) /\ DOMAIN Tail(todo) = 1 .. Len(todo) - 1
  BY <1>1, <1>2
<1>5. \A i \in DOMAIN Tail(todo) : i + 1 \in DOMAIN todo /\ i + 1 # 1 /\ Tail(todo)[i] = todo[i + 1]
  BY <1>1, <1>2, <1>4
<1>6. Head(todo) \in Signals
  BY <1>1, <1>2, <1>3
<1>7. ASSUME NEW i \in DOMAIN Tail(todo), NEW j \in DOMAIN Tail(todo), Tail(todo)[i] = Tail(todo)[j]
      PROVE  i = j
  <2>1. i + 1 = j + 1
    BY <1>5, <1>7 DEF ServiceInv, OnceEach
  <2>2. i \in Int /\ j \in Int
    BY <1>4
  <2>3. QED
    BY <2>1, <2>2
<1>8. QED
  BY <1>2, <1>3, <1>4, <1>5, <1>6, <1>7 DEF ServiceInv, OnceEach

\* A pass over one signal, with what it chose.
Passes(s, vec, finding, edge) ==
  /\ heat' = [heat EXCEPT ![s] = Heated(heat[s], edge)]
  /\ rendered' = Put(rendered, s, [heat |-> Heated(heat[s], edge), finding |-> finding])
  /\ base' = [base EXCEPT ![s] = Learned(@, vec)]
  /\ finding => Deviates(base[s], vec)

\* A pass over one signal renders what it commits.
LEMMA PassSignalFacts ==
  ASSUME ServiceInv, PassSignal
  PROVE  /\ todo # <<>> /\ todo' = Tail(todo) /\ UNCHANGED <<ring, at, graph>>
         /\ \E vec \in Vectors(Head(todo)), finding \in BOOLEAN, edge \in BOOLEAN :
              Passes(Head(todo), vec, finding, edge)
<1> DEFINE s == Head(todo)
<1>1. /\ todo # <<>> /\ todo' = Tail(todo) /\ UNCHANGED <<ring, at, graph>>
      /\ \E vec \in Vectors(s) :
           /\ \E finding \in {FALSE, MayAlarm(vec) /\ Deviates(base[s], vec)} : \E edge \in {FALSE, finding} :
                /\ heat' = [heat EXCEPT ![s] = Heated(heat[s], edge)]
                /\ rendered' = Put(rendered, s, [heat |-> Heated(heat[s], edge), finding |-> finding])
           /\ base' = [base EXCEPT ![s] = Learned(@, vec)]
  BY DEF PassSignal, Shown
<1>2. PICK vec \in Vectors(s) :
        /\ \E finding \in {FALSE, MayAlarm(vec) /\ Deviates(base[s], vec)} : \E edge \in {FALSE, finding} :
             /\ heat' = [heat EXCEPT ![s] = Heated(heat[s], edge)]
             /\ rendered' = Put(rendered, s, [heat |-> Heated(heat[s], edge), finding |-> finding])
        /\ base' = [base EXCEPT ![s] = Learned(@, vec)]
  BY <1>1
<1>3. PICK finding \in {FALSE, MayAlarm(vec) /\ Deviates(base[s], vec)} : \E edge \in {FALSE, finding} :
        /\ heat' = [heat EXCEPT ![s] = Heated(heat[s], edge)]
        /\ rendered' = Put(rendered, s, [heat |-> Heated(heat[s], edge), finding |-> finding])
  BY <1>2
<1>4. PICK edge \in {FALSE, finding} :
        /\ heat' = [heat EXCEPT ![s] = Heated(heat[s], edge)]
        /\ rendered' = Put(rendered, s, [heat |-> Heated(heat[s], edge), finding |-> finding])
  BY <1>3
<1>5. (MayAlarm(vec) /\ Deviates(base[s], vec)) \in BOOLEAN
  BY DEF MayAlarm, Deviates, Above
<1>6. finding \in BOOLEAN /\ edge \in BOOLEAN
  BY <1>5
<1>7. finding => Deviates(base[s], vec)
  BY <1>3
<1>8. QED
  BY <1>1, <1>2, <1>4, <1>6, <1>7 DEF Passes

\* The row of a signal, as the type invariant has it.
LEMMA BaseIsRow ==
  ASSUME TypeOK, NEW s \in Signals
  PROVE  IsRow(base[s])
BY DEF TypeOK, IsRow, Rows

\* Learning a signal's vector keeps the baselines typed.
LEMMA LearnedBaseTyped ==
  ASSUME TypeOK, NEW s \in Signals, NEW vec \in Vectors(s), base' = [base EXCEPT ![s] = Learned(@, vec)]
  PROVE  /\ base' \in [Signals -> SUBSET [median : Nat, mad : Nat, n : 1 .. MinN]]
         /\ \A t \in Signals : \A r, q \in base'[t] : r = q
<1>1. base \in [Signals -> SUBSET Rows]
  BY DEF TypeOK, Rows
<1>2. IsRow(Learned(base[s], vec))
  BY VectorSamples, BaseIsRow, LearnedIsRow
<1>3. ASSUME NEW t \in Signals PROVE IsRow(base'[t])
  BY <1>1, <1>2, BaseIsRow
<1>4. base' \in [Signals -> SUBSET Rows]
  BY <1>1, <1>2 DEF IsRow
<1>5. QED
  BY <1>3, <1>4 DEF IsRow, Rows

\* Init.
LEMMA ServiceInit == Init => ServiceInv
<1> SUFFICES ASSUME Init PROVE ServiceInv
  OBVIOUS
<1>1. heat \in [Signals -> 0 .. MaxHeat]
  BY ServiceAssumption DEF Init
<1>2. graph = Bootstrap(heat)
  BY DEF Init
<1>3. DOMAIN rendered = {}
  BY DEF Init
<1>4. TypeOK
  <2>1. \A s \in Signals : ring[s] = <<>> /\ base[s] = {}
    BY DEF Init
  <2>2. base \in [Signals -> SUBSET [median : Nat, mad : Nat, n : 1 .. MinN]]
    BY DEF Init
  <2>3. \A s \in Signals : ring[s] \in Seq(Levels[s]) /\ Len(ring[s]) <= RingSize
    <3>1. TAKE s \in Signals
    <3>2. <<>> \in Seq(Levels[s]) /\ Len(<<>>) = 0 /\ ring[s] = <<>>
      BY <2>1
    <3>3. RingSize \in Nat
      BY ServiceAssumption
    <3>4. Len(ring[s]) = 0
      BY <3>2
    <3>5. QED
      BY <3>2, <3>3, <3>4
  <2>4. rendered \in [DOMAIN rendered -> Views]
    BY <1>3 DEF Init
  <2>5. DOMAIN ring = Signals /\ todo \in Seq(Signals) /\ at = "sleep"
    BY SignalsAssumption DEF Init
  <2>6. QED
    BY <1>1, <1>2, <1>3, <2>1, <2>2, <2>3, <2>4, <2>5, BootstrapShape DEF TypeOK
<1>5. OnceEach
  BY <1>3, SignalsAssumption DEF Init, OnceEach
<1>6. RenderedIsCommitted /\ FindingsAreLoud
  <2>1. DOMAIN graph.views = Signals
    BY <1>1, <1>2, BootstrapShape
  <2>2. ASSUME NEW s \in Signals PROVE graph.views[s].finding = FALSE
    <3>1. graph.views[s] = [heat |-> heat[s], finding |-> FALSE]
      BY <1>1, <1>2, BootstrapShape
    <3>2. QED
      BY <3>1
  <2>3. QED
    BY <1>3, <2>1, <2>2 DEF RenderedIsCommitted, FindingsAreLoud
<1>7. QED
  BY <1>4, <1>5, <1>6 DEF ServiceInv

\* A step that starts the next pass keeps what the new graph keeps.
LEMMA NewPassKeeps ==
  ASSUME ServiceInv, NextPass, UNCHANGED <<ring, heat>>,
         base' \in [Signals -> SUBSET [median : Nat, mad : Nat, n : 1 .. MinN]],
         \A t \in Signals : \A r, q \in base'[t] : r = q,
         DOMAIN graph'.views \subseteq Signals, graph'.views \in [DOMAIN graph'.views -> Views],
         graph'.status \in {"boot", "ok", "error"},
         \A s \in DOMAIN graph'.views : graph'.views[s].finding => Loud(s)
  PROVE  ServiceInv'
<1>1. /\ DOMAIN rendered' = {} /\ todo' \in Seq(Signals) /\ at' = "sleep" /\ rendered' = <<>>
      /\ \A i, j \in DOMAIN todo' : todo'[i] = todo'[j] => i = j
  BY NextPassFacts DEF NextPass
<1>2. rendered' \in [DOMAIN rendered' -> Views]
  BY <1>1
<1>3. TypeOK'
  BY <1>1, <1>2 DEF ServiceInv, TypeOK
<1>4. OnceEach' /\ RenderedIsCommitted' /\ FindingsAreLoud'
  BY <1>1 DEF OnceEach, RenderedIsCommitted, FindingsAreLoud
<1>5. QED
  BY <1>3, <1>4 DEF ServiceInv

LEMMA FetchKeeps == ASSUME ServiceInv, Fetch PROVE ServiceInv'
<1>1. /\ DOMAIN ring' = Signals /\ at' = "pass"
      /\ \A s \in Signals : ring'[s] = <<>> \/ \E level \in Levels[s] : ring'[s] = Appended(ring[s], level)
      /\ UNCHANGED <<base, heat, todo, rendered, graph>>
  BY DEF Fetch
<1>2. ASSUME NEW s \in Signals PROVE ring'[s] \in Seq(Levels[s]) /\ Len(ring'[s]) <= RingSize
  <2>1. CASE ring'[s] = <<>>
    BY <2>1, ServiceAssumption
  <2>2. CASE \E level \in Levels[s] : ring'[s] = Appended(ring[s], level)
    BY <2>2, AppendedInRing DEF ServiceInv, TypeOK
  <2>3. QED
    BY <1>1, <2>1, <2>2
<1>3. TypeOK'
  BY <1>1, <1>2 DEF ServiceInv, TypeOK
<1>4. OnceEach' /\ RenderedIsCommitted' /\ FindingsAreLoud'
  BY <1>1 DEF ServiceInv, OnceEach, RenderedIsCommitted, FindingsAreLoud
<1>5. QED
  BY <1>3, <1>4 DEF ServiceInv

LEMMA SkipKeeps == ASSUME ServiceInv, Skip PROVE ServiceInv'
<1>1. todo # <<>> /\ todo' = Tail(todo) /\ UNCHANGED <<ring, base, heat, at, rendered, graph>>
  BY DEF Skip
<1>2. /\ todo' \in Seq(Signals)
      /\ \A i, j \in DOMAIN todo' : todo'[i] = todo'[j] => i = j
      /\ \A i \in DOMAIN todo' : todo'[i] \notin DOMAIN rendered
  BY <1>1, HeadOfPass
<1>3. TypeOK'
  BY <1>1, <1>2 DEF ServiceInv, TypeOK
<1>4. OnceEach' /\ RenderedIsCommitted' /\ FindingsAreLoud'
  BY <1>1, <1>2 DEF ServiceInv, OnceEach, RenderedIsCommitted, FindingsAreLoud
<1>5. QED
  BY <1>3, <1>4 DEF ServiceInv

LEMMA PassSignalKeeps == ASSUME ServiceInv, PassSignal PROVE ServiceInv'
<1> DEFINE s == Head(todo)
<1>1. /\ todo # <<>> /\ todo' = Tail(todo) /\ UNCHANGED <<ring, at, graph>>
      /\ \E vec \in Vectors(s), finding \in BOOLEAN, edge \in BOOLEAN : Passes(s, vec, finding, edge)
  BY PassSignalFacts
<1>2. PICK vec \in Vectors(s), finding \in BOOLEAN, edge \in BOOLEAN : Passes(s, vec, finding, edge)
  BY <1>1
<1>3. /\ s \in Signals /\ s \notin DOMAIN rendered /\ todo' \in Seq(Signals)
      /\ \A i, j \in DOMAIN todo' : todo'[i] = todo'[j] => i = j
      /\ \A i \in DOMAIN todo' : todo'[i] # s /\ todo'[i] \notin DOMAIN rendered
  BY <1>1, HeadOfPass
<1> HIDE DEF s
<1>4. TypeOK
  BY DEF ServiceInv
<1> DEFINE after == Heated(heat[s], edge)
           view == [heat |-> after, finding |-> finding]
<1>5. /\ heat' = [heat EXCEPT ![s] = after] /\ rendered' = Put(rendered, s, view)
      /\ base' = [base EXCEPT ![s] = Learned(@, vec)]
  BY <1>2 DEF Passes
<1>6. after \in 0 .. MaxHeat
  BY <1>3, <1>4, HeatedInBounds DEF TypeOK
<1>7. finding => Loud(s)
  BY <1>2, <1>3, <1>4, DeviatesIsLoud DEF Passes
<1> HIDE DEF after
<1>8. /\ DOMAIN rendered' = DOMAIN rendered \cup {s}
      /\ rendered'[s] = view
      /\ \A x \in DOMAIN rendered : rendered'[x] = rendered[x]
      /\ rendered' \in [DOMAIN rendered' -> Views]
  <2>1. view \in Views
    BY <1>6 DEF Views
  <2> HIDE DEF view
  <2>2. \A x \in DOMAIN rendered : rendered[x] \in Views
    BY <1>4 DEF TypeOK
  <2>3. QED
    BY <1>3, <1>5, <2>1, <2>2 DEF Put
<1>9. /\ base' \in [Signals -> SUBSET [median : Nat, mad : Nat, n : 1 .. MinN]]
      /\ \A t \in Signals : \A r, q \in base'[t] : r = q
  BY <1>3, <1>4, <1>5, LearnedBaseTyped
<1>10. heat' \in [Signals -> 0 .. MaxHeat] /\ heat'[s] = after /\ \A x \in Signals : x # s => heat'[x] = heat[x]
  BY <1>3, <1>4, <1>5, <1>6 DEF TypeOK
<1>11. TypeOK'
  BY <1>1, <1>3, <1>4, <1>8, <1>9, <1>10 DEF TypeOK
<1>12. OnceEach'
  BY <1>3, <1>8 DEF OnceEach
<1>13. RenderedIsCommitted'
  <2>1. DOMAIN rendered \subseteq Signals /\ \A x \in DOMAIN rendered : rendered[x].heat = heat[x]
    BY DEF ServiceInv, TypeOK, RenderedIsCommitted
  <2>2. QED
    BY <1>3, <1>8, <1>10, <2>1 DEF RenderedIsCommitted
<1>14. FindingsAreLoud'
  BY <1>1, <1>7, <1>8 DEF ServiceInv, FindingsAreLoud
<1>15. QED
  BY <1>11, <1>12, <1>13, <1>14 DEF ServiceInv

LEMMA PublishKeeps == ASSUME ServiceInv, Publish PROVE ServiceInv'
<1>1. NextPass /\ UNCHANGED <<ring, base, heat>> /\ graph' = [status |-> "ok", views |-> rendered]
  BY DEF Publish, Graph
<1>2. /\ DOMAIN rendered \subseteq Signals /\ rendered \in [DOMAIN rendered -> Views]
      /\ \A s \in DOMAIN rendered : rendered[s].finding => Loud(s)
  BY DEF ServiceInv, TypeOK, FindingsAreLoud
<1>3. graph'.views = rendered /\ graph'.status = "ok"
  BY <1>1
<1>4. QED
  BY <1>1, <1>2, <1>3, NewPassKeeps DEF ServiceInv, TypeOK

LEMMA FailKeeps == ASSUME ServiceInv, Fail PROVE ServiceInv'
<1>1. NextPass /\ UNCHANGED <<ring, heat>> /\ graph' = [status |-> "error", views |-> <<>>]
  BY DEF Fail, OnError, Graph
<1>2. /\ base' \in [Signals -> SUBSET [median : Nat, mad : Nat, n : 1 .. MinN]]
      /\ \A t \in Signals : \A r, q \in base'[t] : r = q
  <2>1. CASE UNCHANGED base
    BY <2>1 DEF ServiceInv, TypeOK
  <2>2. CASE /\ todo # <<>>
             /\ \E vec \in Vectors(Head(todo)) : base' = [base EXCEPT ![Head(todo)] = Learned(@, vec)]
    <3>1. Head(todo) \in Signals
      BY <2>2, HeadOfPass
    <3>2. QED
      BY <2>2, <3>1, LearnedBaseTyped DEF ServiceInv
  <2>3. QED
    BY <2>1, <2>2 DEF Fail
<1>3. graph'.views = <<>> /\ DOMAIN graph'.views = {} /\ graph'.status = "error"
  BY <1>1
<1>4. graph'.views \in [DOMAIN graph'.views -> Views]
  BY <1>3
<1>5. QED
  BY <1>1, <1>2, <1>3, <1>4, NewPassKeeps

LEMMA RestartKeeps == ASSUME ServiceInv, Restart PROVE ServiceInv'
<1>1. NextPass /\ UNCHANGED <<ring, base, heat>> /\ graph' = Bootstrap(heat)
  BY DEF Restart
<1>2. heat \in [Signals -> 0 .. MaxHeat]
  BY DEF ServiceInv, TypeOK
<1>3. /\ graph'.status = "boot" /\ DOMAIN graph'.views = Signals /\ graph'.views \in [Signals -> Views]
      /\ \A s \in Signals : graph'.views[s] = [heat |-> heat[s], finding |-> FALSE]
  BY <1>1, <1>2, BootstrapShape
<1>4. ASSUME NEW s \in DOMAIN graph'.views PROVE graph'.views[s].finding => Loud(s)
  <2>1. graph'.views[s] = [heat |-> heat[s], finding |-> FALSE]
    BY <1>3
  <2>2. QED
    BY <2>1
<1>5. /\ base' \in [Signals -> SUBSET [median : Nat, mad : Nat, n : 1 .. MinN]]
      /\ \A t \in Signals : \A r, q \in base'[t] : r = q
  BY <1>1 DEF ServiceInv, TypeOK
<1>6. QED
  BY <1>1, <1>3, <1>4, <1>5, NewPassKeeps

\* Every step.
LEMMA ServiceStep == ServiceInv /\ [Next]_vars => ServiceInv'
<1>1. ASSUME ServiceInv, Next PROVE ServiceInv'
  BY <1>1, FetchKeeps, SkipKeeps, PassSignalKeeps, PublishKeeps, FailKeeps, RestartKeeps DEF Next, Loop
<1>2. ASSUME ServiceInv, UNCHANGED vars PROVE ServiceInv'
  BY <1>2 DEF vars, ServiceInv, TypeOK, OnceEach, RenderedIsCommitted, FindingsAreLoud
<1>3. QED
  BY <1>1, <1>2

LEMMA ServiceInvariant == Spec => []ServiceInv
BY ServiceInit, ServiceStep, PTL DEF Spec

-----------------------------------------------------------------------------
(* The theorems. *)

\* Every variable of the service keeps its type: rings within the grid, one baseline row at most.
THEOREM TypeCorrect == Spec => []TypeOK
BY ServiceInvariant, PTL DEF ServiceInv

\* A workload whose signal stays inside the smallest band is never shown as a finding, whatever
\* its baseline learned, and whatever failed or restarted in between.
THEOREM QuietCorrect == Spec => []QuietIsSilent
<1>1. ServiceInv => QuietIsSilent
  BY DEF ServiceInv, FindingsAreLoud, QuietIsSilent, Findings, Loud
<1>2. QED
  BY <1>1, ServiceInvariant, PTL

\* The step of BandKept.
BandStep ==
  \A s \in Signals : Mature(base[s]) =>
    \E r \in base[s], r2 \in base'[s] : r2.median <= Band(r) /\ Mature(base'[s])

\* A mature row is inside its own band.
LEMMA OwnBand ==
  ASSUME TypeOK, NEW s \in Signals, NEW r \in base[s]
  PROVE  r.median <= Band(r)
<1>1. r.median \in Nat /\ r.mad \in Nat /\ DevK \in Nat
  BY BaselineAssumption DEF TypeOK
<1>2. Max({r.mad, MadFloor}) \in Nat
  BY <1>1, MaxOfTwo DEF MadFloor
<1>3. DevK * Max({r.mad, MadFloor}) \in Nat
  BY <1>1, <1>2
<1>4. QED
  BY <1>1, <1>3 DEF Band

\* A step that leaves a signal's row alone keeps its band.
LEMMA SameRowInBand ==
  ASSUME TypeOK, NEW s \in Signals, Mature(base[s]), base'[s] = base[s]
  PROVE  \E r \in base[s], r2 \in base'[s] : r2.median <= Band(r) /\ Mature(base'[s])
<1>1. PICK r \in base[s] : r.n >= MinN
  BY DEF Mature
<1>2. r.median <= Band(r)
  BY OwnBand
<1>3. QED
  BY <1>1, <1>2 DEF Mature

\* A step that learns a vector of one signal keeps the band of every signal.
LEMMA LearningInBand ==
  ASSUME TypeOK, NEW s \in Signals, NEW vec \in Vectors(s), base' = [base EXCEPT ![s] = Learned(@, vec)]
  PROVE  BandStep
<1>1. SUFFICES ASSUME NEW t \in Signals, Mature(base[t])
               PROVE  \E r \in base[t], r2 \in base'[t] : r2.median <= Band(r) /\ Mature(base'[t])
  BY DEF BandStep
<1>2. DOMAIN base = Signals
  BY DEF TypeOK
<1>3. CASE t = s
  <2>1. base'[t] = Learned(base[t], vec)
    BY <1>2, <1>3
  <2>2. /\ Mature(Learned(base[t], vec))
        /\ \E r \in base[t], r2 \in Learned(base[t], vec) : r2.median <= Band(r)
    BY <1>1, <1>3, VectorSamples, BaseIsRow, LearnedInBand
  <2>3. QED
    BY <2>1, <2>2
<1>4. CASE t # s
  <2>1. base'[t] = base[t]
    BY <1>2, <1>4
  <2>2. QED
    BY <1>1, <2>1, SameRowInBand
<1>5. QED
  BY <1>3, <1>4

\* No step of the service lifts a mature baseline above its band or makes it young again.
LEMMA StepInBand == ServiceInv /\ [Next]_vars => BandStep
<1>1. ASSUME ServiceInv, base' = base PROVE BandStep
  BY <1>1, SameRowInBand DEF BandStep, ServiceInv
<1>2. ASSUME ServiceInv, PassSignal PROVE BandStep
  <2>1. PICK vec \in Vectors(Head(todo)), finding \in BOOLEAN, edge \in BOOLEAN :
          Passes(Head(todo), vec, finding, edge)
    BY <1>2, PassSignalFacts
  <2>2. Head(todo) \in Signals
    BY <1>2, PassSignalFacts, HeadOfPass
  <2>3. base' = [base EXCEPT ![Head(todo)] = Learned(@, vec)]
    BY <2>1 DEF Passes
  <2>4. QED
    BY <1>2, <2>2, <2>3, LearningInBand DEF ServiceInv
<1>3. ASSUME ServiceInv, Fail PROVE BandStep
  <2>1. CASE base' = base
    BY <1>1, <1>3, <2>1
  <2>2. CASE /\ todo # <<>>
             /\ \E vec \in Vectors(Head(todo)) : base' = [base EXCEPT ![Head(todo)] = Learned(@, vec)]
    <3>1. Head(todo) \in Signals
      BY <1>3, <2>2, HeadOfPass
    <3>2. QED
      BY <1>3, <2>2, <3>1, LearningInBand DEF ServiceInv
  <2>3. QED
    BY <1>3, <2>1, <2>2 DEF Fail
<1>4. ASSUME ServiceInv, Fetch \/ Skip \/ Publish \/ Restart \/ UNCHANGED vars PROVE BandStep
  <2>1. base' = base
    BY <1>4 DEF Fetch, Skip, Publish, Restart, vars
  <2>2. QED
    BY <1>1, <1>4, <2>1
<1>5. QED
  BY <1>2, <1>3, <1>4 DEF Next, Loop

\* A storm is never made normal: a mature baseline moves only inside the band it had, and stays mature.
THEOREM BandCorrect == Spec => BandKept
<1>1. ServiceInv /\ [Next]_vars => [BandStep]_vars
  BY StepInBand
<1>2. Spec => [][BandStep]_vars
  BY <1>1, ServiceInvariant, PTL DEF Spec
<1>3. QED
  BY <1>2 DEF BandKept, BandStep

\* A step of the service is a step of the abstract service, or changes neither what is committed
\* nor what is served.
LEMMA ServedStep == ServiceInv /\ [Next]_vars => [Served!Next]_(Served!servedVars)
<1> SUFFICES ASSUME ServiceInv, [Next]_vars
             PROVE  [Served!Next]_(Served!servedVars)
  OBVIOUS
<1>1. DOMAIN heat = Signals /\ heat \in [Signals -> 0 .. MaxHeat]
  BY DEF ServiceInv, TypeOK
<1>2. CASE Fetch \/ Skip \/ UNCHANGED vars
  BY <1>2 DEF Fetch, Skip, vars, Served!servedVars
<1>3. CASE PassSignal
  <2> DEFINE s == Head(todo)
  <2>1. PICK vec \in Vectors(s), finding \in BOOLEAN, edge \in BOOLEAN : Passes(s, vec, finding, edge)
    BY <1>3, PassSignalFacts
  <2>2. s \in Signals /\ UNCHANGED graph
    BY <1>3, PassSignalFacts, HeadOfPass
  <2>3. Heated(heat[s], edge) \in 0 .. MaxHeat
    BY <1>1, <2>2, HeatedInBounds
  <2>4. heat' = [heat EXCEPT ![s] = Heated(heat[s], edge)]
    BY <2>1 DEF Passes
  <2>5. Served!Commit(s)
    BY <2>2, <2>3, <2>4 DEF Served!Commit
  <2>6. QED
    BY <2>2, <2>5 DEF Served!Next
<1>4. CASE Publish
  <2> DEFINE shown == DOMAIN rendered
             finding == [s \in shown |-> rendered[s].finding]
  <2>1. graph' = [status |-> "ok", views |-> rendered] /\ UNCHANGED heat
    BY <1>4 DEF Publish, Graph
  <2>2. shown \in SUBSET Signals /\ rendered \in [shown -> Views]
    BY DEF ServiceInv, TypeOK
  <2>3. finding \in [shown -> BOOLEAN]
    BY <2>2 DEF Views
  <2>4. ASSUME NEW s \in shown PROVE rendered[s] = [heat |-> heat[s], finding |-> finding[s]]
    <3>1. rendered[s] \in Views /\ rendered[s].heat = heat[s]
      BY <2>2 DEF ServiceInv, RenderedIsCommitted
    <3>2. QED
      BY <3>1 DEF Views
  <2>5. rendered = [s \in shown |-> [heat |-> heat[s], finding |-> finding[s]]]
    BY <2>2, <2>4
  <2>6. graph' = Served!Snapshot("ok", shown, finding)
    BY <2>1, <2>5 DEF Served!Snapshot
  <2>7. Served!Answer
    BY <2>1, <2>2, <2>3, <2>6 DEF Served!Answer
  <2>8. QED
    BY <2>7 DEF Served!Next
<1>5. CASE Fail
  <2>1. graph' = [status |-> "error", views |-> <<>>] /\ UNCHANGED heat
    BY <1>5 DEF Fail, OnError, Graph
  <2>2. <<>> = [s \in {} |-> [heat |-> heat[s], finding |-> Served!Silent[s]]]
    OBVIOUS
  <2>3. Served!Fail
    BY <2>1, <2>2 DEF Served!Fail, Served!Snapshot
  <2>4. QED
    BY <2>3 DEF Served!Next
<1>6. CASE Restart
  <2>1. graph' = Bootstrap(heat) /\ UNCHANGED heat
    BY <1>6 DEF Restart
  <2>2. Bootstrap(heat) = Served!Snapshot("boot", Signals, Served!Silent)
    BY DEF Bootstrap, Graph, Served!Snapshot, Served!Silent
  <2>3. Served!Restart
    BY <2>1, <2>2 DEF Served!Restart
  <2>4. QED
    BY <2>3 DEF Served!Next
<1>7. QED
  BY <1>2, <1>3, <1>4, <1>5, <1>6 DEF Next, Loop

\* GET /graph implements the abstract service: every answer is an error, or one snapshot of what is
\* committed of every signal it shows.
THEOREM ServedCorrect == Spec => ServedSpec
<1>1. Init => Served!Init
  <2>1. ASSUME Init PROVE Served!Init
    <3>1. heat \in [Signals -> 0 .. MaxHeat] /\ graph = Bootstrap(heat)
      BY <2>1, ServiceAssumption DEF Init
    <3>2. Bootstrap(heat) = Served!Snapshot("boot", Signals, Served!Silent)
      BY DEF Bootstrap, Graph, Served!Snapshot, Served!Silent
    <3>3. QED
      BY <3>1, <3>2 DEF Served!Init
  <2>2. QED
    BY <2>1
<1>2. Spec => Served!Spec
  BY <1>1, ServedStep, ServiceInvariant, PTL DEF Spec, Served!Spec
<1>3. QED
  BY <1>2 DEF ServedSpec
=============================================================================
