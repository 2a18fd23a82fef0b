----------------------------- MODULE EdgeMemory -----------------------------
(***************************************************************************)
(* The edge memory of one signal: GraphMemory.observe of                   *)
(* correlation/engine/state.py, called once per pass by the only thread    *)
(* that owns the database connection (service.loop).                       *)
(*                                                                         *)
(* The table edge_memory is a partial function from directed workload      *)
(* pairs to rows.  SQLite has two views of it: what the connection sees    *)
(* (edge_memory, with the open transaction) and what is on disk (disk).    *)
(* observe() is split at the points where it can be cut short: an          *)
(* exception leaves the transaction open and the next pass commits it, a   *)
(* crash loses it.                                                         *)
(*                                                                         *)
(* Confidences are fixed-point: c stands for c/Scale, rounded down, except *)
(* that a positive confidence stays positive, as a float does: decay alone *)
(* brings none to zero.                                                    *)
(***************************************************************************)
EXTENDS Integers, FiniteSets

CONSTANTS
  Workloads,  \* workload names, numbered in their lexicographic order
  Pods,       \* pod names
  WorkloadOf, \* stable_workload: the workload a pod name stands for
  Storage,    \* workloads on the shared disk; {} for the psi_cpu, psi_mem memories
  SameNode,   \* TRUE for psi_cpu and psi_mem: any two pods are coupled
  OldTables,  \* tables a pre-v3 database may hold: no base_conf column
  MaxHits,    \* hits are counted up to this bound
  Scale, Alpha, Decay, Show, Hide, Prior, FloorFrac  \* MemoryConfig, in units of 1/Scale

Keys == Workloads \X Workloads

RowStates == {"steady", "confirming", "active", "decaying", "hidden"}

Row == [confidence : 0..Scale, base_conf : 0..Scale, visible : BOOLEAN,
        state : RowStates, hits : 0..MaxHits]

\* An SQL table: a row for some of the keys.
IsTable(table) == DOMAIN table \subseteq Keys /\ table \in [DOMAIN table -> Row]

ASSUME NamesAssumption ==
  /\ Workloads \subseteq Nat
  /\ WorkloadOf \in [Pods -> Workloads]
  /\ Storage \subseteq Workloads
  /\ SameNode \in BOOLEAN
  /\ MaxHits \in Nat \ {0}

\* A memory with a structural backbone has a prior to seed it with (service.py
\* gives psi_cpu and psi_mem neither).
ASSUME BackboneAssumption == Storage # {} => Prior > 0

\* What the two configurations of service.py have in common; the unit 1/Scale is
\* finer than the threshold for hiding.
ASSUME ConfigAssumption ==
  /\ Scale \in Nat \ {0}
  /\ Alpha \in 1..Scale
  /\ Decay \in 1..Scale - 1
  /\ Show \in 1..Scale
  /\ Hide \in 2..Show
  /\ Prior \in 0..Scale
  /\ Prior <= Alpha
  /\ Prior < Show
  /\ FloorFrac \in 0..Scale

\* A pre-v3 row was written by the same confirm and decay rules, without a floor.
OldRow(r) ==
  /\ r.base_conf = 0
  /\ r.hits > 0
  /\ r.visible => r.confidence >= Hide
  /\ r.confidence >= Show => r.visible
  /\ r.visible <=> r.state \in {"active", "decaying"}
  /\ r.state # "steady"

ASSUME OldTablesAssumption ==
  \A table \in OldTables : IsTable(table) /\ \A k \in DOMAIN table : OldRow(table[k])

VARIABLES
  edge_memory, \* the table as the connection sees it
  disk,        \* the table as last committed
  pc,          \* where observe() is
  vectors,     \* pods that have a vector in the current pass
  current,     \* the pass's accepted edges, as pod pairs
  pending,     \* those _confirm_edge has not seen yet
  served       \* the graph /graph answers with

vars == <<edge_memory, disk, pc, vectors, current, pending, served>>

-----------------------------------------------------------------------------
(* Confidence arithmetic. *)

\* Wrong: the step does not shrink as confidence nears 1.
GrowPastOne(c) == c + Alpha

Grow(c) == c + (Alpha * (Scale - c)) \div Scale

Larger(a, b) == IF a >= b THEN a ELSE b

\* A share of the confidence; what is below one unit stays at one, never zero.
Fade(c) == IF c = 0 THEN 0 ELSE Larger(1, (c * (Scale - Decay)) \div Scale)

\* Wrong: the floor follows the confidence down again.
FloorForgets(base, c) == (FloorFrac * c) \div Scale

LearnedFloor(base, c) == Larger(base, (FloorFrac * c) \div Scale)

-----------------------------------------------------------------------------
(* Pods, workloads and couplings. *)

KeyOf(e) == <<WorkloadOf[e[1]], WorkloadOf[e[2]]>>

PodsPresent(vecs) == {WorkloadOf[p] : p \in vecs}

BothPresent(k, vecs) == k[1] \in PodsPresent(vecs) /\ k[2] \in PodsPresent(vecs)

\* The pairs _witness_for couples: storage pods share a disk, and on the
\* other signals every pair shares the node.
Couples(p, q) ==
  /\ p # q
  /\ SameNode \/ (WorkloadOf[p] \in Storage /\ WorkloadOf[q] \in Storage)

\* What run_pass may accept: coupled pods that have a vector, at most one edge
\* per unordered pair.
AcceptableEdges(vecs) ==
  {es \in SUBSET {e \in vecs \X vecs : Couples(e[1], e[2])} :
     \A e \in es : <<e[2], e[1]>> \notin es}

\* The witnessed shared-disk pairs, as sorted workload pairs.
SharedKeys(vecs) ==
  {k \in Keys : k[1] < k[2] /\ k[1] \in Storage /\ k[2] \in Storage /\ BothPresent(k, vecs)}

-----------------------------------------------------------------------------
(* The rows after each part of a pass. *)

SeedRow == [confidence |-> Prior, base_conf |-> Prior, visible |-> FALSE,
            state |-> "steady", hits |-> 0]

\* A row whose floor is below the prior gets the prior; nothing else changes.
Ensured(r) == [confidence |-> r.confidence, base_conf |-> Prior, visible |-> r.visible,
               state |-> r.state, hits |-> r.hits]

\* _seed_structural: every witnessed pair carries at least the prior.
Seeded(table, vecs) ==
  [k \in DOMAIN table \cup SharedKeys(vecs) |->
     IF k \notin DOMAIN table THEN SeedRow
     ELSE IF k \in SharedKeys(vecs) /\ table[k].base_conf < Prior
            THEN Ensured(table[k])
            ELSE table[k]]

CountHit(n) == IF n < MaxHits THEN n + 1 ELSE n

\* _confirm_edge, row not there yet.
NewRow ==
  [confidence |-> Alpha, base_conf |-> LearnedFloor(0, Alpha),
   visible |-> Alpha >= Show,
   state |-> IF Alpha >= Show THEN "active" ELSE "confirming",
   hits |-> 1]

\* _confirm_edge, row found.
GrownRow(r) ==
  LET c == Grow(r.confidence)
      v == r.visible \/ c >= Show
  IN [confidence |-> c, base_conf |-> LearnedFloor(r.base_conf, c), visible |-> v,
      state |-> IF v THEN "active" ELSE "confirming", hits |-> CountHit(r.hits)]

Confirmed(table, k) ==
  [j \in DOMAIN table \cup {k} |->
     IF j # k THEN table[j]
     ELSE IF k \in DOMAIN table THEN GrownRow(table[k]) ELSE NewRow]

\* Wrong: the tags are computed from the confidence before the decay.
FadedByOldConfidence(r) ==
  LET c == Larger(r.base_conf, Fade(r.confidence))
      v == r.visible /\ r.confidence >= Hide
  IN [confidence |-> c, base_conf |-> r.base_conf, visible |-> v,
      state |-> IF c <= r.base_conf /\ r.base_conf > 0 THEN "steady"
                ELSE IF v THEN "decaying" ELSE "hidden",
      hits |-> r.hits]

\* Wrong: decay is not stopped at the learned floor.
FadedThroughFloor(r) ==
  LET c == Fade(r.confidence)
      v == r.visible /\ c >= Hide
  IN [confidence |-> c, base_conf |-> r.base_conf, visible |-> v,
      state |-> IF c <= r.base_conf /\ r.base_conf > 0 THEN "steady"
                ELSE IF v THEN "decaying" ELSE "hidden",
      hits |-> r.hits]

\* One row of _decay_absent_edges.
FadedRow(r) ==
  LET c == Larger(r.base_conf, Fade(r.confidence))
      v == r.visible /\ c >= Hide
  IN [confidence |-> c, base_conf |-> r.base_conf, visible |-> v,
      state |-> IF c <= r.base_conf /\ r.base_conf > 0 THEN "steady"
                ELSE IF v THEN "decaying" ELSE "hidden",
      hits |-> r.hits]

\* Wrong: one end with data is enough.
FadesHalfAbsent(k, seen, vecs) == k \notin seen /\ k[2] \in PodsPresent(vecs)

\* A row fades when the pass did not accept it although both its ends have data.
Fades(k, seen, vecs) == k \notin seen /\ BothPresent(k, vecs)

\* Wrong: reads the shown rows only, so one that never reached Show is left as it is.
DecayedIfShown(table, seen, vecs) ==
  [k \in DOMAIN table |->
     IF table[k].visible /\ Fades(k, seen, vecs) THEN FadedRow(table[k]) ELSE table[k]]

Decayed(table, seen, vecs) ==
  [k \in DOMAIN table |-> IF Fades(k, seen, vecs) THEN FadedRow(table[k]) ELSE table[k]]

-----------------------------------------------------------------------------
(* _render: live edges, then held rows whose pair is not live. *)

Pair(k) == {k[1], k[2]}

LivePairs(es) == {Pair(KeyOf(e)) : e \in es}

\* Wrong: compares directed keys, so a live pair is held again the other way round.
HeldDirected(table, es) ==
  {k \in DOMAIN table : /\ table[k].visible \/ table[k].base_conf > 0
                        /\ k \notin {KeyOf(e) : e \in es}}

\* Wrong: holds what is visible, not the steady backbone.
HeldVisible(table, es) ==
  {k \in DOMAIN table : table[k].visible /\ Pair(k) \notin LivePairs(es)}

Held(table, es) ==
  {k \in DOMAIN table : /\ table[k].visible \/ table[k].base_conf > 0
                        /\ Pair(k) \notin LivePairs(es)}

Reverse(k) == <<k[2], k[1]>>

\* Of two opposite rows, which one a scan reads first: the older rowid, and INSERT OR
\* REPLACE gives a row a new one.
ReadOrders ==
  {first \in SUBSET Keys :
     \A k \in Keys : IF k[1] = k[2] THEN k \in first
                                    ELSE k \in first <=> Reverse(k) \notin first}

\* by_pair: the stronger of a pair's two directions; the row read first wins a tie.
ByPair(table, es, first) ==
  {k \in Held(table, es) :
     Reverse(k) \in Held(table, es) =>
       \/ table[k].confidence > table[Reverse(k)].confidence
       \/ table[k].confidence = table[Reverse(k)].confidence /\ k \in first}

\* wl_pod: of a workload's pods, the last one in the window.
PodFor(w, vecs) == CHOOSE p \in vecs : WorkloadOf[p] = w

\* What an edge of the answer says; a live edge leaves base_conf out, here it is the row's.
ServedEdge(k, src, dst, table, source) ==
  [src |-> src, dst |-> dst, source |-> source,
   confidence |-> table[k].confidence, state |-> table[k].state,
   base_conf |-> table[k].base_conf]

Rendered(table, es, vecs, first) ==
  {ServedEdge(KeyOf(e), e[1], e[2], table, "live") : e \in es}
  \cup
  {ServedEdge(k, PodFor(k[1], vecs), PodFor(k[2], vecs), table, "memory") :
     k \in {j \in ByPair(table, es, first) : BothPresent(j, vecs)}}

-----------------------------------------------------------------------------
(* The service. *)

Bootstrap == [status |-> "bootstrapped_from_memory", edges |-> {}]
ErrorGraph == [status |-> "error", edges |-> {}]
OkGraph(es) == [status |-> "ok", edges |-> es]

\* A new database, or one an older schema left behind: _migrate adds base_conf = 0.
Init ==
  /\ edge_memory \in {<<>>} \cup OldTables
  /\ disk = edge_memory
  /\ pc = "idle"
  /\ vectors = {}
  /\ current = {}
  /\ pending = {}
  /\ served = Bootstrap

\* observe() up to the loop over the edges: update_baselines commits whatever
\* transaction is open, then _seed_structural opens a new one.
BeginPass(vecs, es) ==
  /\ pc = "idle"
  /\ disk' = edge_memory
  /\ edge_memory' = Seeded(edge_memory, vecs)
  /\ vectors' = vecs
  /\ current' = es
  /\ pending' = es
  /\ pc' = "confirm"
  /\ UNCHANGED served

ConfirmEdge(e) ==
  /\ pc = "confirm"
  /\ e \in pending
  /\ edge_memory' = Confirmed(edge_memory, KeyOf(e))
  /\ pending' = pending \ {e}
  /\ UNCHANGED <<disk, pc, vectors, current, served>>

DecayAbsentEdges ==
  /\ pc = "confirm"
  /\ pending = {}
  /\ edge_memory' = Decayed(edge_memory, {KeyOf(e) : e \in current}, vectors)
  /\ pc' = "commit"
  /\ UNCHANGED <<disk, vectors, current, pending, served>>

Commit ==
  /\ pc = "commit"
  /\ disk' = edge_memory
  /\ pc' = "render"
  /\ UNCHANGED <<edge_memory, vectors, current, pending, served>>

Render ==
  /\ pc = "render"
  /\ \E first \in ReadOrders :
       served' = OkGraph(Rendered(edge_memory, current, vectors, first))
  /\ pc' = "idle"
  /\ UNCHANGED <<edge_memory, disk, vectors, current, pending>>

\* An exception anywhere in the pass: loop() serves the error and goes on.  The
\* transaction stays open, unless SQLite rolled it back itself (disk full, I/O).
Fail ==
  /\ pc # "idle"
  /\ edge_memory' \in {edge_memory, disk}
  /\ served' = ErrorGraph
  /\ pending' = {}
  /\ pc' = "idle"
  /\ UNCHANGED <<disk, vectors, current>>

\* The process dies and is started again: GraphMemory reopens the file.
Crash ==
  /\ edge_memory' = disk
  /\ served' = Bootstrap
  /\ vectors' = {}
  /\ current' = {}
  /\ pending' = {}
  /\ pc' = "idle"
  /\ UNCHANGED disk

StartPass ==
  \E vecs \in SUBSET Pods \ {{}} : \E es \in AcceptableEdges(vecs) : BeginPass(vecs, es)

\* The steps of the loop, which runs as long as the process does.
PassStep ==
  \/ StartPass
  \/ \E e \in pending : ConfirmEdge(e)
  \/ DecayAbsentEdges
  \/ Commit
  \/ Render

Next == PassStep \/ Fail \/ Crash

Spec == Init /\ [][Next]_vars

FairSpec == Spec /\ WF_vars(PassStep)

-----------------------------------------------------------------------------
(* Properties. *)

\* The type invariant: every row of the table is a legal row in both views, and
\* the pass's edges join coupled pods that have a vector (state.py observe).
TypeOK ==
  /\ IsTable(edge_memory)
  /\ IsTable(disk)
  /\ pc \in {"idle", "confirm", "commit", "render"}
  /\ vectors \subseteq Pods
  /\ current \subseteq vectors \X vectors
  /\ pending \subseteq current
  /\ served.status \in {"bootstrapped_from_memory", "error", "ok"}

SoundRow(r) ==
  /\ r.visible => r.confidence >= Hide
  /\ r.confidence >= Show => r.visible
  /\ r.state \in {"active", "decaying"} => r.visible
  /\ r.state \in {"confirming", "hidden"} => ~r.visible
  /\ r.hits = 0 => r = SeedRow /\ Prior > 0
  /\ r.confidence < r.base_conf => r.base_conf = Prior

\* Whatever sequence of passes, failures and restarts came before, a row's tags
\* agree with its number: a visible row is at or above the hide threshold, one at or
\* above the show threshold is visible, the state tag matches, an unconfirmed seed is
\* still exactly the topology prior, and only a freshly ensured prior may exceed the
\* confidence (the hysteresis of _confirm_edge and _decay_absent_edges).
HysteresisSound ==
  \A table \in {edge_memory, disk} : \A k \in DOMAIN table : SoundRow(table[k])

\* A served edge is never below its learned floor, even when a failed pass left a
\* raised floor committed without the decay step that lifts the confidence to it.
ServedAtFloor == \A e \in served.edges : e.confidence >= e.base_conf

\* A served edge names only pods of the pass that rendered it, and what memory adds
\* is at most one edge per workload pair, never a pair that is live (_render's held edges).
HeldEdgesOf(g) == {e \in g.edges : e.source = "memory"}
ServedPair(e) == Pair(KeyOf(<<e.src, e.dst>>))

NoGhostNoDouble ==
  pc = "idle" /\ served.status = "ok" =>
    /\ \A e \in served.edges : {e.src, e.dst} \subseteq vectors
    /\ \A e \in HeldEdgesOf(served) : \A f \in served.edges \ {e} : ServedPair(e) # ServedPair(f)

\* The normal-state graph is complete: after every good pass each witnessed pair
\* of running storage workloads is served, live or held, in one direction or the other.
BackboneServed ==
  pc = "idle" /\ served.status = "ok" =>
    \A k \in SharedKeys(vectors) : \E e \in served.edges : ServedPair(e) = Pair(k)

\* "endpoints absent (no data): hold conf": no step of a pass changes the row of
\* a pair one of whose workloads has no vector (_decay_absent_edges' second guard).
AbsentRowHeld ==
  [][pc # "idle" /\ pc' # "idle" =>
       \A k \in DOMAIN edge_memory : ~BothPresent(k, vectors) => edge_memory'[k] = edge_memory[k]]_vars

\* What has reached the disk as a pair's learned floor is never lowered or lost again,
\* by decay, failure, restart or a later, weaker confirmation.
FloorNeverFalls ==
  [][\A k \in DOMAIN disk :
       k \in DOMAIN disk' /\ disk'[k].base_conf >= disk[k].base_conf]_vars

\* When the factory goes quiet for good, every pod reporting and no edge accepted, the
\* graph settles: each row with a learned floor ends on it, steady and shown only if the
\* floor is worth showing; a row without one (a pre-v3 database's) ends hidden, however
\* small a confidence decay leaves it (_decay_absent_edges).
Quiet == vectors = Pods /\ current = {} /\ served.status = "ok"

AtRest(r) == r.confidence = r.base_conf /\ r.state = "steady" /\ (r.visible => r.base_conf >= Hide)
FadedOut(r) == r.confidence < Hide /\ r.state = "hidden" /\ ~r.visible

SettledRow(r) == IF r.base_conf > 0 THEN AtRest(r) ELSE FadedOut(r)

QuietSettles ==
  <>[]Quiet => <>[](\A k \in DOMAIN disk : SettledRow(disk[k]))
=============================================================================
