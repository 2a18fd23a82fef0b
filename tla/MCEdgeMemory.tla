---------------------------- MODULE MCEdgeMemory ----------------------------
(***************************************************************************)
(* Model values and small instances for EdgeMemory.  Scale = 10 represents *)
(* the defaults of MemoryConfig: alpha 4, decay 1, show 6, prior 2,        *)
(* floor_frac 4, and hide 3 for 0.25 (a row at 0.2 is hidden, one at 0.3   *)
(* is not).                                                                *)
(***************************************************************************)
EXTENDS EdgeMemory, TLC

CONSTANTS p1, p2

\* One pod per workload.
OneEachOfTwo == (p1 :> 1) @@ (p2 :> 2)

\* Databases written before base_conf existed: the pair seen once and faded away,
\* or confirmed against the direction the backbone is seeded in, so that a shown row has
\* no floor, while the other one lingers.
FadedOld ==
  [confidence |-> 1, base_conf |-> 0, visible |-> FALSE, state |-> "hidden", hits |-> 1]
ActiveOld ==
  [confidence |-> 8, base_conf |-> 0, visible |-> TRUE, state |-> "active", hits |-> 2]

SomeOldTables == {<<1, 2>> :> FadedOld, (<<2, 1>> :> ActiveOld) @@ (<<1, 2>> :> FadedOld)}
=============================================================================
