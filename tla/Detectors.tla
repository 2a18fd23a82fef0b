------------------------------ MODULE Detectors ------------------------------
(***************************************************************************)
(* cusum_onsets of engine/detectors.py: a two-sided CUSUM over the         *)
(* z-scores of a signal's residuals.  The residuals and their scale come   *)
(* from floating-point estimators and are an input here: z is a sequence   *)
(* of z-scores in half units, so the allowance k = 0.5 is 1, the alarm     *)
(* level h = 5 is 10 and the floor |zpeak| >= 3 of run_pass is 6.          *)
(***************************************************************************)
EXTENDS Integers, Sequences, FiniteSetsExt

CONSTANT Warmup \* samples at the start that raise no alarm

ASSUME WarmupAssumption == Warmup \in Nat

Allowance == 1
AlarmLevel == 10
StrongZ == 6
Rearm == 3

Signs == {1, -1}

Abs(x) == IF x < 0 THEN -x ELSE x

\* _backtrack: the first sample of the run of contributing samples before i.
Backtrack(z, i, sign) ==
  Min({j \in 1 .. i : \A m \in j .. i - 1 : sign * z[m] > 1})

\* Wrong: quiet samples are credited against a later shift.
ExcessUnclamped(sum, z, sign) == sum + sign * z - Allowance

Excess(sum, z, sign) == Max({0, sum + sign * z - Allowance})

\* One round of the loop, on the sample at i.
CusumStep(s, z, i) ==
  LET up == Excess(s.up, z[i], 1)
      down == Excess(s.down, z[i], -1)
      alarm == i >= s.armed /\ (up > AlarmLevel \/ down > AlarmLevel)
      sign == IF up > AlarmLevel THEN 1 ELSE -1
  IN IF alarm
     THEN [up |-> 0, down |-> 0, armed |-> i + Rearm,
           onsets |-> Append(s.onsets, [idx |-> Backtrack(z, i, sign), alarm |-> i, z |-> z[i]])]
     ELSE [s EXCEPT !.up = up, !.down = down]

\* The state of the loop after the warm-up.
AfterWarmup == [up |-> 0, down |-> 0, armed |-> Warmup + 1, onsets |-> <<>>]

\* The state after each sample.
CusumLoop(z) ==
  LET at[i \in Warmup .. Len(z)] ==
        IF i = Warmup
        THEN AfterWarmup
        ELSE CusumStep(at[i - 1], z, i)
  IN at

\* The onsets in the order of their alarms; none in a series that is too short.
CusumOnsets(z) == IF Len(z) < Warmup + 4 THEN <<>> ELSE CusumLoop(z)[Len(z)].onsets

\* run_pass ignores weak onsets.
StrongOnsets(z) ==
  LET onsets == CusumOnsets(z)
  IN {o \in {onsets[n] : n \in DOMAIN onsets} : Abs(o.z) >= StrongZ}

\* The first of the list, which is in the order of the alarms.
FirstOf(onsets) == CHOOSE o \in onsets : \A x \in onsets : o.alarm <= x.alarm

-----------------------------------------------------------------------------
(* A reference definition: sums without resets. *)

\* Of each number of samples, what their z-scores add up to less the allowances.
Drift(z, sign) ==
  LET total[n \in 0 .. Len(z)] == IF n = 0 THEN 0 ELSE total[n - 1] + sign * z[n] - Allowance
  IN total

\* Some samples after last and up to i add up to a shift.
Shifted(z, last, i) ==
  \E sign \in Signs, j \in last .. i : Drift(z, sign)[i] - Drift(z, sign)[j] > AlarmLevel

AlarmsOf(z) == {CusumOnsets(z)[n].alarm : n \in DOMAIN CusumOnsets(z)}

LastAlarm(z, i) == Max({Warmup} \cup {a \in AlarmsOf(z) : a < i})

\* Exactly the samples at which a shift since the last alarm is strong enough,
\* and the detector armed again, raise an alarm; none does in a short series.
AlarmsAreShifts(z) ==
  IF Len(z) < Warmup + 4 THEN AlarmsOf(z) = {}
  ELSE \A i \in Warmup + 1 .. Len(z) :
         LET last == LastAlarm(z, i)
             armed == last = Warmup \/ i >= last + Rearm
         IN i \in AlarmsOf(z) <=> armed /\ Shifted(z, last, i)
=============================================================================
