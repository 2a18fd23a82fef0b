------------------------------- MODULE Baseline -------------------------------
(***************************************************************************)
(* update_baselines and baseline_threshold of engine/state.py, and the     *)
(* deviation gate of run_pass: a workload's steady state is the slow       *)
(* average of the median and the MAD of its vectors, and a vector is an    *)
(* incident only if its recent tail is above median + DevK * MAD.          *)
(*                                                                         *)
(* Levels are integers in units of MAD_FLOOR; averages are rounded down.   *)
(* A row is the set of at most one [median, mad, n].                       *)
(***************************************************************************)
EXTENDS Integers, Sequences, FiniteSets, FiniteSetsExt

CONSTANTS
  DevK,     \* DEV_K
  MinN,     \* BASE_MIN_N: updates before the baseline gates; n counts no further
  OneIn,    \* BASE_ALPHA is 1 / OneIn
  ResetWindow\* RESET_WINDOW, in samples

ASSUME BaselineAssumption ==
  /\ DevK \in Nat /\ MinN \in Nat \ {0}
  /\ OneIn \in Nat \ {0} /\ ResetWindow \in Nat \ {0}

MadFloor == 1

\* The k-th smallest sample.
Ranked(vec, k) ==
  Min({vec[i] : i \in {j \in DOMAIN vec : Cardinality({m \in DOMAIN vec : vec[m] <= vec[j]}) >= k}})

\* np.median of an odd number of samples.
Median(vec) == Ranked(vec, (Len(vec) + 1) \div 2)

Mad(vec) ==
  LET m == Median(vec)
  IN Median([i \in DOMAIN vec |-> IF vec[i] < m THEN m - vec[i] ELSE vec[i] - m])

\* Ten times np.percentile(vec, 90), which interpolates between two ranks.
P90x10(vec) ==
  LET pos == 9 * (Len(vec) - 1)
      k == pos \div 10
      f == pos % 10
  IN IF f = 0 THEN 10 * Ranked(vec, k + 1)
     ELSE (10 - f) * Ranked(vec, k + 1) + f * Ranked(vec, k + 2)

Recent(vec) == SubSeq(vec, Max({1, Len(vec) - ResetWindow + 1}), Len(vec))

Mature(row) == \E r \in row : r.n >= MinN

\* Wrong: the floor on the MAD is forgotten.
BandUnfloored(r) == r.median + DevK * r.mad

Band(r) == r.median + DevK * Max({r.mad, MadFloor})

\* Whether the vector is above the band of a mature row.
Above(row, vec) == Mature(row) /\ \E r \in row : P90x10(vec) > 10 * Band(r)

\* The gate of run_pass; an immature baseline lets nothing through.
Deviates(row, vec) == Above(row, Recent(vec))

Blend(old, new) == ((OneIn - 1) * old + new) \div OneIn

Averaged(r, vec) ==
  [median |-> Blend(r.median, Median(vec)), mad |-> Blend(r.mad, Mad(vec)), n |-> Min({r.n + 1, MinN})]

\* Wrong: a storm is learned like anything else.
LearnedAlways(row, vec) ==
  IF row = {} THEN {[median |-> Median(vec), mad |-> Mad(vec), n |-> 1]}
  ELSE {Averaged(r, vec) : r \in row}

\* The row after update_baselines saw the vector: the first one starts it, a storm is skipped.
Learned(row, vec) ==
  IF row = {} THEN {[median |-> Median(vec), mad |-> Mad(vec), n |-> 1]}
  ELSE IF Above(row, vec) THEN row
  ELSE {Averaged(r, vec) : r \in row}
=============================================================================
