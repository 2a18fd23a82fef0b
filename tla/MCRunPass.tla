------------------------------ MODULE MCRunPass ------------------------------
(***************************************************************************)
(* Instances for RunPass: every series of seven samples over four z-scores *)
(* on one pod for the detector, and three pods with a handful of shapes    *)
(* for the event, the gate and the source attribution.                     *)
(***************************************************************************)
EXTENDS RunPass

\* Shapes after a warm-up of three quiet samples.
Quiet == <<0, 0, 0, 0, 0, 0, 0>>
Early == <<0, 0, 0, 12, 0, 0, 0>>
Late == <<0, 0, 0, 0, 0, 0, 12>>
Twice == <<0, 0, 0, 12, 0, 0, 14>>
LoudEarly == <<0, 0, 0, 20, 0, 0, 0>>

OnePod ==
  {[z |-> <<s>>, deviates |-> <<TRUE>>, writes |-> <<>>, act |-> <<0>>, kinds |-> [x \in {} |-> {}]] :
     s \in [1 .. 7 -> {-12, 0, 4, 12}]}

PairsOf(S) == {{p, q} : p, q \in S} \ {{p} : p \in S}

OnDisk == [x \in PairsOf(1 .. 3) |-> {"pvc"}]
OnNode == [x \in PairsOf(1 .. 3) |-> {"node", "psi"}]
ThirdAlone == [x \in PairsOf(1 .. 3) |-> IF 3 \in x THEN {"psi"} ELSE {"pvc"}]

\* Who storms when, over every witness.
Storms ==
  [z : [1 .. 3 -> {Quiet, Early, Late, Twice, LoudEarly}], deviates : {<<TRUE, TRUE, TRUE>>, <<TRUE, TRUE, FALSE>>},
   writes : {<<>>}, act : {<<0, 0, 0>>}, kinds : {OnDisk, OnNode, ThirdAlone}]

\* Who writes how much, when all three stall.
Hogs ==
  [z : {<<Early, Early, Late>>, <<Late, Early, Early>>}, deviates : {<<TRUE, TRUE, TRUE>>},
   writes : {<<Early, Early, Early>>, <<Early, Quiet, Late>>}, act : [1 .. 3 -> 1 .. 2], kinds : {OnDisk, OnNode}]

SmallInputs == OnePod \cup Storms \cup Hogs

\* Profiles over the lags 0, 5 and 15 s, in tenths.
Profile(r0, r5, r15) == [l \in {0, 5, 15} |-> CASE l = 0 -> r0 [] l = 5 -> r5 [] OTHER -> r15]

Together == [fwd |-> Profile(9, 5, 1), rev |-> Profile(9, 4, 0)]
Backwards == [fwd |-> Profile(1, 1, 1), rev |-> Profile(3, 7, 4)]
Lonely == [fwd |-> Profile(2, 8, 3), rev |-> Profile(0, 0, 0)]
Opposed == [fwd |-> Profile(-9, -6, 0), rev |-> Profile(0, 5, 8)]

SmallPairProfiles == {Together, Backwards, Lonely, Opposed}

SmallSourceProfiles == {Profile(8, 6, 0), Profile(5, 4, 0), Profile(-9, 4, 0)}
=============================================================================
