-------------------------- MODULE EdgeMemoryProofs --------------------------
(***************************************************************************)
(* Proofs about EdgeMemory for every set of workloads and pods and every   *)
(* configuration that satisfies the assumptions: type correctness, the     *)
(* coherence of a row's tags with its confidence, and the permanence of a  *)
(* learned floor.                                                          *)
(***************************************************************************)
EXTENDS EdgeMemory, TLAPS

-----------------------------------------------------------------------------
(* Arithmetic. *)

\* Division rounds down: a quotient of natural numbers lies between the multiples
\* of the divisor around the dividend (the fixed-point confidences rest on it).
LEMMA DivBounds ==
  ASSUME NEW a \in Nat, NEW s \in Nat \ {0}
  PROVE  /\ a \div s \in Nat
         /\ s * (a \div s) <= a
         /\ a < s * (a \div s) + s
  OBVIOUS

\* A dividend of at most b times the divisor has a quotient of at most b.
LEMMA DivAtMost ==
  ASSUME NEW a \in Nat, NEW b \in Nat, NEW s \in Nat \ {0}, a <= s * b
  PROVE  a \div s \in 0..b
<1> DEFINE q == a \div s
<1>1. q \in Nat /\ s * q <= a
  BY DivBounds
<1>2. ASSUME q > b PROVE FALSE
  <2> HIDE DEF q
  <2>1. q >= b + 1
    BY <1>1, <1>2
  <2>2. s * q >= s * (b + 1)
    BY <1>1, <2>1
  <2>3. s * (b + 1) = s * b + s
    OBVIOUS
  <2>4. QED
    BY <1>1, <2>2, <2>3
<1>3. QED
  BY <1>1, <1>2

\* A dividend of at least b times the divisor has a quotient of at least b.
LEMMA DivAtLeast ==
  ASSUME NEW a \in Nat, NEW b \in Nat, NEW s \in Nat \ {0}, a >= s * b
  PROVE  a \div s >= b
<1> DEFINE q == a \div s
<1>1. q \in Nat /\ a < s * q + s
  BY DivBounds
<1>2. ASSUME q < b PROVE FALSE
  <2> HIDE DEF q
  <2>1. q + 1 <= b
    BY <1>1, <1>2
  <2>2. s * (q + 1) <= s * b
    BY <1>1, <2>1
  <2>3. s * (q + 1) = s * q + s
    BY <1>1
  <2>4. QED
    BY <1>1, <2>2, <2>3
<1>3. QED
  BY <1>1, <1>2

\* A fraction f/s of c is at most c (the learned floor, the faded confidence).
LEMMA FractionAtMost ==
  ASSUME NEW s \in Nat \ {0}, NEW f \in 0..s, NEW c \in Nat
  PROVE  f * c \in Nat /\ (f * c) \div s \in 0..c
<1>1. f * c \in Nat
  OBVIOUS
<1>2. f * c <= s * c
  OBVIOUS
<1>3. QED
  BY <1>1, <1>2, DivAtMost

-----------------------------------------------------------------------------
(* The confidence update rules. *)

\* A confirmation never lowers a confidence, keeps it within the scale, and lifts
\* it at least to that of a new edge (_confirm_edge).
LEMMA GrowBounds ==
  ASSUME NEW c \in 0..Scale
  PROVE  Grow(c) \in c..Scale /\ Grow(c) >= Alpha
<1> DEFINE d == Scale - c
           q == (Alpha * d) \div Scale
<1>1. d \in Nat /\ Scale \in Nat \ {0} /\ Alpha \in 0..Scale /\ Alpha \in Nat
  BY ConfigAssumption
<1>2. Alpha * d \in Nat /\ q \in 0..d
  <2> HIDE DEF d
  <2> QED BY <1>1, FractionAtMost
<1>3. q >= Alpha - c
  <2>1. CASE Alpha <= c
    BY <2>1, <1>1, <1>2
  <2>2. CASE Alpha > c
    <3> DEFINE b == Alpha - c
    <3>1. b \in Nat
      BY <1>1, <2>2
    <3>2. Alpha * d >= Scale * b
      <4>1. Alpha * d = Alpha * Scale - Alpha * c
        BY <1>1
      <4>2. Scale * b = Scale * Alpha - Scale * c
        BY <1>1
      <4>3. Alpha * c <= Scale * c
        BY <1>1
      <4>4. Alpha * Scale = Scale * Alpha
        BY <1>1
      <4>5. Alpha * c \in Nat /\ Scale * c \in Nat /\ Scale * Alpha \in Nat
        BY <1>1
      <4> HIDE DEF d, b
      <4>6. QED
        BY <4>1, <4>2, <4>3, <4>4, <4>5
    <3>3. q >= b
      <4> HIDE DEF d, b
      <4> QED BY <1>1, <1>2, <3>1, <3>2, DivAtLeast
    <3>4. QED
      BY <3>3
  <2>3. QED
    BY <2>1, <2>2, <1>1
<1>4. Grow(c) = c + q
  BY DEF Grow
<1>5. QED
  <2> HIDE DEF q
  <2> QED BY <1>1, <1>2, <1>3, <1>4

\* A fade never raises a confidence (_decay_absent_edges).
LEMMA FadeBounds ==
  ASSUME NEW c \in 0..Scale
  PROVE  Fade(c) \in 0..c
<1> DEFINE f == Scale - Decay
<1>1. Scale \in Nat \ {0} /\ f \in 0..Scale /\ c \in Nat
  BY ConfigAssumption
<1>2. (f * c) \div Scale \in 0..c
  <2> HIDE DEF f
  <2> QED BY <1>1, FractionAtMost
<1>3. c * f = f * c
  BY <1>1
<1>4. Fade(c) = IF c = 0 THEN 0 ELSE Larger(1, (f * c) \div Scale)
  BY <1>3 DEF Fade
<1>5. QED
  <2> HIDE DEF f
  <2> QED BY <1>1, <1>2, <1>4 DEF Larger

\* A learned floor is at least the old floor and at most the larger of it and the
\* confidence it is learned from (_confirm_edge's base_conf).
LEMMA LearnedFloorBounds ==
  ASSUME NEW base \in 0..Scale, NEW c \in 0..Scale
  PROVE  /\ LearnedFloor(base, c) \in base..Scale
         /\ LearnedFloor(base, c) = base \/ LearnedFloor(base, c) <= c
<1>1. (FloorFrac * c) \div Scale \in 0..c
  BY FractionAtMost, ConfigAssumption
<1>2. QED
  BY <1>1, ConfigAssumption DEF LearnedFloor, Larger
-----------------------------------------------------------------------------
(* Types. *)

\* Every row the pass writes is a legal row.
LEMMA RowTypes ==
  /\ SeedRow \in Row
  /\ NewRow \in Row
  /\ \A r \in Row : GrownRow(r) \in Row /\ FadedRow(r) \in Row
<1>1. SeedRow \in Row
  BY ConfigAssumption, NamesAssumption DEF SeedRow, Row, RowStates
<1>2. NewRow \in Row
  <2>1. LearnedFloor(0, Alpha) \in 0..Scale /\ Alpha \in 0..Scale
    BY LearnedFloorBounds, ConfigAssumption
  <2>2. QED
    BY <2>1, NamesAssumption DEF NewRow, Row, RowStates
<1>3. ASSUME NEW r \in Row PROVE GrownRow(r) \in Row
  <2> DEFINE c == Grow(r.confidence)
  <2>1. r.confidence \in 0..Scale /\ r.base_conf \in 0..Scale /\ r.visible \in BOOLEAN
        /\ r.hits \in 0..MaxHits
    BY DEF Row
  <2>2. c \in 0..Scale
    BY <2>1, GrowBounds, ConfigAssumption
  <2> HIDE DEF c
  <2>3. LearnedFloor(r.base_conf, c) \in 0..Scale
    <3>1. LearnedFloor(r.base_conf, c) \in r.base_conf..Scale
      BY <2>1, <2>2, LearnedFloorBounds
    <3>2. QED
      BY <2>1, <3>1, ConfigAssumption
  <2>4. CountHit(r.hits) \in 0..MaxHits
    BY <2>1, NamesAssumption DEF CountHit
  <2>5. (r.visible \/ c >= Show) \in BOOLEAN
    BY <2>1
  <2>6. QED
    BY <2>1, <2>2, <2>3, <2>4, <2>5 DEF GrownRow, Row, RowStates, c
<1>4. ASSUME NEW r \in Row PROVE FadedRow(r) \in Row
  <2> DEFINE c == Larger(r.base_conf, Fade(r.confidence))
  <2>1. r.confidence \in 0..Scale /\ r.base_conf \in 0..Scale /\ r.visible \in BOOLEAN
    BY DEF Row
  <2>2. c \in 0..Scale
    BY <2>1, FadeBounds, ConfigAssumption DEF Larger
  <2> HIDE DEF c
  <2>3. QED
    BY <2>1, <2>2 DEF FadedRow, Row, RowStates, c
<1>5. QED
  BY <1>1, <1>2, <1>3, <1>4

\* Each part of a pass maps tables to tables.
LEMMA TableTypes ==
  ASSUME NEW table, IsTable(table), NEW vecs, NEW k \in Keys, NEW seen
  PROVE  /\ IsTable(Seeded(table, vecs))
         /\ IsTable(Confirmed(table, k))
         /\ IsTable(Decayed(table, seen, vecs))
<1>1. SharedKeys(vecs) \subseteq Keys
  BY DEF SharedKeys
<1>2. \A j \in DOMAIN table : table[j] \in Row
  BY DEF IsTable
<1>3. \A r \in Row : Ensured(r) \in Row
  BY ConfigAssumption DEF Row, Ensured
<1>4. IsTable(Seeded(table, vecs))
  BY <1>1, <1>2, <1>3, RowTypes DEF IsTable, Seeded
<1>5. IsTable(Confirmed(table, k))
  BY <1>2, RowTypes DEF IsTable, Confirmed
<1>6. IsTable(Decayed(table, seen, vecs))
  BY <1>2, RowTypes DEF IsTable, Decayed
<1>7. QED
  BY <1>4, <1>5, <1>6

\* The keys of a pass's edges are workload pairs.
LEMMA KeyOfType ==
  ASSUME NEW vecs \in SUBSET Pods, NEW e \in vecs \X vecs
  PROVE  KeyOf(e) \in Keys
BY NamesAssumption DEF KeyOf, Keys

\* TypeOK holds of every behaviour of the memory.
THEOREM TypeCorrect == Spec => []TypeOK
<1>1. Init => TypeOK
  <2> SUFFICES ASSUME Init PROVE TypeOK
    OBVIOUS
  <2>1. IsTable(edge_memory)
    <3>1. CASE edge_memory = <<>>
      BY <3>1 DEF IsTable
    <3>2. CASE edge_memory \in OldTables
      BY <3>2, OldTablesAssumption
    <3>3. QED
      BY <3>1, <3>2 DEF Init
  <2>2. QED
    BY <2>1 DEF Init, TypeOK, Bootstrap
<1>2. TypeOK /\ [Next]_vars => TypeOK'
  <2> SUFFICES ASSUME TypeOK, [Next]_vars PROVE TypeOK'
    OBVIOUS
  <2> USE DEF TypeOK
  <2>1. ASSUME NEW vecs \in SUBSET Pods \ {{}}, NEW es \in AcceptableEdges(vecs),
               BeginPass(vecs, es)
        PROVE  TypeOK'
    <3>1. es \subseteq vecs \X vecs
      BY DEF AcceptableEdges
    <3>2. IsTable(Seeded(edge_memory, vecs))
      <4>1. CASE Keys = {}
        BY <4>1 DEF Seeded, IsTable, SharedKeys
      <4>2. CASE Keys # {}
        BY <4>2, TableTypes
      <4>3. QED
        BY <4>1, <4>2
    <3>3. QED
      BY <2>1, <3>1, <3>2 DEF BeginPass
  <2>2. ASSUME NEW e \in pending, ConfirmEdge(e) PROVE TypeOK'
    <3>1. KeyOf(e) \in Keys
      BY KeyOfType
    <3>2. IsTable(Confirmed(edge_memory, KeyOf(e)))
      BY <3>1, TableTypes
    <3>3. QED
      BY <2>2, <3>2 DEF ConfirmEdge
  <2>3. CASE DecayAbsentEdges
    <3>1. IsTable(Decayed(edge_memory, {KeyOf(e) : e \in current}, vectors))
      <4>1. CASE Keys = {}
        BY <4>1 DEF Decayed, IsTable
      <4>2. CASE Keys # {}
        BY <4>2, TableTypes
      <4>3. QED
        BY <4>1, <4>2
    <3>2. QED
      BY <2>3, <3>1 DEF DecayAbsentEdges
  <2>4. CASE Commit
    BY <2>4 DEF Commit
  <2>5. CASE Render
    BY <2>5 DEF Render, OkGraph
  <2>6. CASE Fail
    BY <2>6 DEF Fail, ErrorGraph
  <2>7. CASE Crash
    BY <2>7 DEF Crash, Bootstrap
  <2>8. CASE UNCHANGED vars
    BY <2>8 DEF vars
  <2>9. QED
    BY <2>1, <2>2, <2>3, <2>4, <2>5, <2>6, <2>7, <2>8 DEF Next, PassStep, StartPass
<1>3. QED
  BY <1>1, <1>2, PTL DEF Spec

-----------------------------------------------------------------------------
(* Hysteresis. *)

SoundTable(table) == \A k \in DOMAIN table : SoundRow(table[k])

\* Each way the pass writes a row yields a sound row.
LEMMA SoundRows ==
  /\ Prior > 0 => SoundRow(SeedRow)
  /\ SoundRow(NewRow)
  /\ \A r \in Row : SoundRow(r) =>
       /\ SoundRow(GrownRow(r))
       /\ SoundRow(FadedRow(r))
       /\ r.base_conf < Prior => SoundRow(Ensured(r))
<1>1. Prior > 0 => SoundRow(SeedRow)
  BY ConfigAssumption DEF SoundRow, SeedRow
<1>2. SoundRow(NewRow)
  <2>1. LearnedFloor(0, Alpha) \in 0..Scale /\ LearnedFloor(0, Alpha) <= Alpha
    BY LearnedFloorBounds, ConfigAssumption
  <2>2. /\ NewRow.confidence = Alpha
        /\ NewRow.base_conf = LearnedFloor(0, Alpha)
        /\ NewRow.visible <=> Alpha >= Show
        /\ NewRow.state = IF Alpha >= Show THEN "active" ELSE "confirming"
        /\ NewRow.hits = 1
    BY DEF NewRow
  <2>3. QED
    BY <2>1, <2>2, ConfigAssumption DEF SoundRow
<1>3. ASSUME NEW r \in Row, SoundRow(r) PROVE SoundRow(GrownRow(r))
  <2> DEFINE c == Grow(r.confidence)
             b == LearnedFloor(r.base_conf, c)
             g == GrownRow(r)
  <2>1. r.confidence \in 0..Scale /\ r.base_conf \in 0..Scale /\ r.visible \in BOOLEAN
        /\ r.hits \in 0..MaxHits
    BY DEF Row
  <2>2. c \in r.confidence..Scale /\ c >= Alpha
    BY <2>1, GrowBounds
  <2>3. b \in r.base_conf..Scale /\ (b = r.base_conf \/ b <= c)
    <3>1. c \in 0..Scale
      BY <2>1, <2>2, ConfigAssumption
    <3> HIDE DEF c
    <3>2. QED
      BY <2>1, <3>1, LearnedFloorBounds
  <2>4. CountHit(r.hits) > 0
    BY <2>1, NamesAssumption DEF CountHit
  <2>5. /\ g.confidence = c
        /\ g.base_conf = b
        /\ g.visible <=> (r.visible \/ c >= Show)
        /\ g.state = IF r.visible \/ c >= Show THEN "active" ELSE "confirming"
        /\ g.hits = CountHit(r.hits)
    BY DEF GrownRow
  <2>6. b <= c
    BY <2>1, <2>2, <2>3, <1>3, ConfigAssumption DEF SoundRow
  <2>7. r.visible => c >= Hide
    BY <2>1, <2>2, <1>3, ConfigAssumption DEF SoundRow
  <2> HIDE DEF c, b, g
  <2>8. SoundRow(g)
    <3>1. g.visible => g.confidence >= Hide
      BY <2>1, <2>2, <2>5, <2>7, ConfigAssumption
    <3>2. g.confidence >= Show => g.visible
      BY <2>5
    <3>3. /\ g.state \in {"active", "decaying"} => g.visible
          /\ g.state \in {"confirming", "hidden"} => ~g.visible
      BY <2>5
    <3>4. g.hits # 0
      BY <2>1, <2>4, <2>5, NamesAssumption DEF CountHit
    <3>5. ~(g.confidence < g.base_conf)
      BY <2>1, <2>2, <2>3, <2>5, <2>6, ConfigAssumption
    <3>6. QED
      BY <3>1, <3>2, <3>3, <3>4, <3>5 DEF SoundRow
  <2>9. QED
    BY <2>8 DEF g
<1>4. ASSUME NEW r \in Row, SoundRow(r) PROVE SoundRow(FadedRow(r))
  <2> DEFINE c == Larger(r.base_conf, Fade(r.confidence))
             f == FadedRow(r)
  <2>1. r.confidence \in 0..Scale /\ r.base_conf \in 0..Scale /\ r.visible \in BOOLEAN
        /\ r.hits \in 0..MaxHits
    BY DEF Row
  <2>2. c \in r.base_conf..Scale /\ (c <= r.confidence \/ c = r.base_conf)
    BY <2>1, FadeBounds, ConfigAssumption DEF Larger
  <2>3. /\ f.confidence = c
        /\ f.base_conf = r.base_conf
        /\ f.visible <=> (r.visible /\ c >= Hide)
        /\ f.state = IF c <= r.base_conf /\ r.base_conf > 0 THEN "steady"
                     ELSE IF r.visible /\ c >= Hide THEN "decaying" ELSE "hidden"
        /\ f.hits = r.hits
    BY DEF FadedRow
  <2>4. f.confidence >= Show => f.visible
    <3> HIDE DEF c, f
    <3> QED BY <2>1, <2>2, <2>3, <1>4, ConfigAssumption DEF SoundRow
  <2>5. r.hits = 0 => f = SeedRow /\ Prior > 0
    <3> SUFFICES ASSUME r.hits = 0 PROVE f = SeedRow /\ Prior > 0
      OBVIOUS
    <3>1. r = SeedRow /\ Prior > 0
      BY <1>4 DEF SoundRow
    <3>2. r.base_conf = Prior /\ r.confidence = Prior /\ ~r.visible
      BY <3>1 DEF SeedRow
    <3>3. c = Prior
      BY <3>2, FadeBounds, ConfigAssumption DEF Larger
    <3>4. (r.visible /\ c >= Hide) = FALSE
      BY <3>2
    <3>5. f = [confidence |-> c, base_conf |-> r.base_conf, visible |-> FALSE,
               state |-> "steady", hits |-> r.hits]
      <4>1. c <= r.base_conf /\ r.base_conf > 0
        BY <3>1, <3>2, <3>3, ConfigAssumption
      <4> HIDE DEF c
      <4>2. QED
        BY <3>4, <4>1 DEF FadedRow, c
    <3> HIDE DEF c, f
    <3>6. QED
      BY <3>1, <3>2, <3>3, <3>5 DEF SeedRow
  <2> HIDE DEF c, f
  <2>6. SoundRow(f)
    BY <2>1, <2>2, <2>3, <2>4, <2>5 DEF SoundRow
  <2>7. QED
    BY <2>6 DEF f
<1>5. ASSUME NEW r \in Row, SoundRow(r), r.base_conf < Prior PROVE SoundRow(Ensured(r))
  <2>1. r.hits # 0
    BY <1>5, ConfigAssumption DEF SoundRow, SeedRow
  <2>2. QED
    BY <1>5, <2>1, ConfigAssumption DEF SoundRow, Ensured, Row
<1>6. QED
  BY <1>1, <1>2, <1>3, <1>4, <1>5

\* Each part of a pass keeps a sound table sound.
LEMMA SoundTables ==
  ASSUME NEW table, IsTable(table), SoundTable(table), NEW vecs, NEW k, NEW seen
  PROVE  /\ SoundTable(Seeded(table, vecs))
         /\ SoundTable(Confirmed(table, k))
         /\ SoundTable(Decayed(table, seen, vecs))
<1>1. \A j \in DOMAIN table : table[j] \in Row /\ SoundRow(table[j])
  BY DEF IsTable, SoundTable
<1>2. SoundTable(Seeded(table, vecs))
  <2> SUFFICES ASSUME NEW j \in DOMAIN table \cup SharedKeys(vecs)
               PROVE  SoundRow(Seeded(table, vecs)[j])
    BY DEF SoundTable, Seeded
  <2>1. CASE j \notin DOMAIN table
    <3>1. Prior > 0
      BY <2>1, BackboneAssumption DEF SharedKeys
    <3>2. QED
      BY <2>1, <3>1, SoundRows DEF Seeded
  <2>2. CASE j \in DOMAIN table
    BY <2>2, <1>1, SoundRows DEF Seeded
  <2>3. QED
    BY <2>1, <2>2
<1>3. SoundTable(Confirmed(table, k))
  BY <1>1, SoundRows DEF SoundTable, Confirmed
<1>4. SoundTable(Decayed(table, seen, vecs))
  BY <1>1, SoundRows DEF SoundTable, Decayed
<1>5. QED
  BY <1>2, <1>3, <1>4

\* Hysteresis holds of every behaviour, with failures and restarts.
THEOREM HysteresisCorrect == Spec => []HysteresisSound
<1> DEFINE Sound == SoundTable(edge_memory) /\ SoundTable(disk)
<1>1. Init => Sound
  <2> SUFFICES ASSUME Init PROVE SoundTable(edge_memory)
    BY DEF Init
  <2>1. CASE edge_memory = <<>>
    BY <2>1 DEF SoundTable
  <2>2. CASE edge_memory \in OldTables
    <3> SUFFICES ASSUME NEW k \in DOMAIN edge_memory PROVE SoundRow(edge_memory[k])
      BY DEF SoundTable
    <3>1. edge_memory[k] \in Row /\ OldRow(edge_memory[k])
      BY <2>2, OldTablesAssumption DEF IsTable
    <3>2. QED
      BY <3>1 DEF OldRow, SoundRow, Row
  <2>3. QED
    BY <2>1, <2>2 DEF Init
<1>2. TypeOK /\ Sound /\ [Next]_vars => Sound'
  <2> SUFFICES ASSUME TypeOK, Sound, [Next]_vars PROVE Sound'
    OBVIOUS
  <2>0. IsTable(edge_memory)
    BY DEF TypeOK
  <2>1. ASSUME NEW vecs, NEW es, BeginPass(vecs, es) PROVE Sound'
    BY <2>0, <2>1, SoundTables DEF BeginPass
  <2>2. ASSUME NEW e, ConfirmEdge(e) PROVE Sound'
    BY <2>0, <2>2, SoundTables DEF ConfirmEdge
  <2>3. CASE DecayAbsentEdges
    BY <2>0, <2>3, SoundTables DEF DecayAbsentEdges
  <2>4. CASE Commit
    BY <2>4 DEF Commit
  <2>5. CASE Render
    BY <2>5 DEF Render
  <2>6. CASE Fail
    BY <2>6 DEF Fail
  <2>7. CASE Crash
    BY <2>7 DEF Crash
  <2>8. CASE UNCHANGED vars
    BY <2>8 DEF vars
  <2>9. QED
    BY <2>1, <2>2, <2>3, <2>4, <2>5, <2>6, <2>7, <2>8 DEF Next, PassStep, StartPass
<1>3. Sound => HysteresisSound
  BY DEF HysteresisSound, SoundTable
<1>4. QED
  BY <1>1, <1>2, <1>3, TypeCorrect, PTL DEF Spec

-----------------------------------------------------------------------------
(* Floors. *)

\* Every row of table is in later, with no lower a floor.
FloorsKept(table, later) ==
  \A k \in DOMAIN table :
    k \in DOMAIN later /\ later[k].base_conf >= table[k].base_conf

\* No part of a pass loses a row or lowers a floor.
LEMMA FloorsGrow ==
  ASSUME NEW table, IsTable(table), NEW vecs, NEW k, NEW seen
  PROVE  /\ FloorsKept(table, Seeded(table, vecs))
         /\ FloorsKept(table, Confirmed(table, k))
         /\ FloorsKept(table, Decayed(table, seen, vecs))
<1>1. \A j \in DOMAIN table : table[j] \in Row
  BY DEF IsTable
<1>2. \A r \in Row : r.confidence \in 0..Scale /\ r.base_conf \in 0..Scale /\ r.base_conf \in Int
  BY ConfigAssumption DEF Row
<1>3. ASSUME NEW r \in Row PROVE GrownRow(r).base_conf >= r.base_conf
  <2>1. Grow(r.confidence) \in 0..Scale
    BY <1>2, GrowBounds, ConfigAssumption
  <2>2. LearnedFloor(r.base_conf, Grow(r.confidence)) \in r.base_conf..Scale
    BY <1>2, <2>1, LearnedFloorBounds
  <2>3. QED
    BY <1>2, <2>2, ConfigAssumption DEF GrownRow
<1>4. \A r \in Row : FadedRow(r).base_conf = r.base_conf
  BY DEF FadedRow
<1>5. FloorsKept(table, Seeded(table, vecs))
  BY <1>1, <1>2, ConfigAssumption DEF FloorsKept, Seeded, Ensured
<1>6. FloorsKept(table, Confirmed(table, k))
  BY <1>1, <1>2, <1>3 DEF FloorsKept, Confirmed
<1>7. FloorsKept(table, Decayed(table, seen, vecs))
  BY <1>1, <1>2, <1>4 DEF FloorsKept, Decayed
<1>8. QED
  BY <1>5, <1>6, <1>7

\* A table keeps its own floors, and keeping them is transitive.
LEMMA FloorsKeptOrder ==
  ASSUME NEW a, IsTable(a), NEW b, IsTable(b), NEW c, IsTable(c)
  PROVE  /\ FloorsKept(a, a)
         /\ FloorsKept(a, b) /\ FloorsKept(b, c) => FloorsKept(a, c)
<1>1. /\ \A k \in DOMAIN a : a[k].base_conf \in Int
      /\ \A k \in DOMAIN b : b[k].base_conf \in Int
      /\ \A k \in DOMAIN c : c[k].base_conf \in Int
  BY ConfigAssumption DEF IsTable, Row
<1>2. QED
  BY <1>1 DEF FloorsKept

\* What the connection sees never has fewer rows or lower floors than the disk, so a
\* commit only raises them and a crash falls back to what was already committed.
THEOREM FloorsCorrect == Spec => FloorNeverFalls
<1> DEFINE Kept == FloorsKept(disk, edge_memory)
<1>1. TypeOK /\ Init => Kept
  BY FloorsKeptOrder DEF Init, TypeOK
<1>2. TypeOK /\ TypeOK' /\ Kept /\ [Next]_vars
        => Kept' /\ FloorsKept(disk, disk')
  <2> SUFFICES ASSUME TypeOK, TypeOK', Kept, [Next]_vars
               PROVE  Kept' /\ FloorsKept(disk, disk')
    OBVIOUS
  <2>0. /\ IsTable(edge_memory) /\ IsTable(disk)
        /\ IsTable(edge_memory') /\ IsTable(disk')
    BY DEF TypeOK
  <2>1. ASSUME NEW vecs, NEW es, BeginPass(vecs, es)
        PROVE  Kept' /\ FloorsKept(disk, disk')
    BY <2>0, <2>1, FloorsGrow DEF BeginPass
  <2>2. ASSUME NEW e, ConfirmEdge(e) PROVE Kept' /\ FloorsKept(disk, disk')
    <3>1. FloorsKept(edge_memory, edge_memory') /\ disk' = disk
      BY <2>0, <2>2, FloorsGrow DEF ConfirmEdge
    <3>2. QED
      BY <2>0, <3>1, FloorsKeptOrder
  <2>3. CASE DecayAbsentEdges
    <3>1. FloorsKept(edge_memory, edge_memory') /\ disk' = disk
      BY <2>0, <2>3, FloorsGrow DEF DecayAbsentEdges
    <3>2. QED
      BY <2>0, <3>1, FloorsKeptOrder
  <2>4. CASE Commit
    BY <2>0, <2>4, FloorsKeptOrder DEF Commit
  <2>5. CASE Render
    BY <2>0, <2>5, FloorsKeptOrder DEF Render
  <2>6. CASE Fail
    BY <2>0, <2>6, FloorsKeptOrder DEF Fail
  <2>7. CASE Crash
    BY <2>0, <2>7, FloorsKeptOrder DEF Crash
  <2>8. CASE UNCHANGED vars
    BY <2>0, <2>8, FloorsKeptOrder DEF vars
  <2>9. QED
    BY <2>1, <2>2, <2>3, <2>4, <2>5, <2>6, <2>7, <2>8 DEF Next, PassStep, StartPass
<1>3. FloorsKept(disk, disk') =>
        [\A k \in DOMAIN disk :
           k \in DOMAIN disk' /\ disk'[k].base_conf >= disk[k].base_conf]_vars
  BY DEF FloorsKept
<1>4. QED
  BY <1>1, <1>2, <1>3, TypeCorrect, PTL DEF Spec, FloorNeverFalls

-----------------------------------------------------------------------------
(* Rows without data. *)

\* Neither a confirmation nor the decay touches the row of a pair that has no data at one end:
\* an accepted edge joins two pods with vectors, and absence is no evidence (_confirm_edge,
\* _decay_absent_edges).
THEOREM AbsentCorrect == Spec => AbsentRowHeld
<1> DEFINE HeldStep == pc # "idle" /\ pc' # "idle" =>
             \A k \in DOMAIN edge_memory : ~BothPresent(k, vectors) => edge_memory'[k] = edge_memory[k]
<1>1. TypeOK /\ [Next]_vars => HeldStep
  <2> SUFFICES ASSUME TypeOK, [Next]_vars, pc # "idle", pc' # "idle",
                      NEW k \in DOMAIN edge_memory, ~BothPresent(k, vectors)
               PROVE  edge_memory'[k] = edge_memory[k]
    OBVIOUS
  <2>1. ASSUME NEW e \in pending, ConfirmEdge(e) PROVE edge_memory'[k] = edge_memory[k]
    <3>1. e[1] \in vectors /\ e[2] \in vectors
      BY DEF TypeOK
    <3>2. BothPresent(KeyOf(e), vectors)
      BY <3>1 DEF BothPresent, PodsPresent, KeyOf
    <3>3. k # KeyOf(e)
      BY <3>2
    <3>4. QED
      BY <2>1, <3>3 DEF ConfirmEdge, Confirmed
  <2>2. CASE DecayAbsentEdges
    BY <2>2 DEF DecayAbsentEdges, Decayed, Fades
  <2>3. CASE Commit \/ UNCHANGED vars
    BY <2>3 DEF Commit, vars
  <2>4. CASE StartPass \/ Render \/ Fail \/ Crash
    BY <2>4 DEF StartPass, BeginPass, Render, Fail, Crash
  <2>5. QED
    BY <2>1, <2>2, <2>3, <2>4 DEF Next, PassStep
<1>2. HeldStep => [HeldStep]_vars
  OBVIOUS
<1>3. Spec => [][HeldStep]_vars
  BY <1>1, <1>2, TypeCorrect, PTL DEF Spec
<1>4. QED
  BY <1>3 DEF AbsentRowHeld

-----------------------------------------------------------------------------
(* The served graph. *)

AtFloor(r) == r.confidence >= r.base_conf

\* The pass so far: its shared pairs are seeded, the edges it has confirmed have rows
\* at their floors, and after the decay so have all rows whose ends have data.
PassInv ==
  /\ pc # "idle" =>
       /\ \A k \in SharedKeys(vectors) : k \in DOMAIN edge_memory
                                          /\ edge_memory[k].base_conf >= Prior
       /\ \A e \in current \ pending : KeyOf(e) \in DOMAIN edge_memory
                                        /\ AtFloor(edge_memory[KeyOf(e)])
  /\ pc \in {"commit", "render"} =>
       /\ pending = {}
       /\ \A k \in DOMAIN edge_memory :
            BothPresent(k, vectors) => AtFloor(edge_memory[k])

\* A sound row that is confirmed or faded ends at or above its floor.
LEMMA WrittenAtFloor ==
  /\ AtFloor(NewRow)
  /\ \A r \in Row : SoundRow(r) => AtFloor(GrownRow(r)) /\ AtFloor(FadedRow(r))
<1>1. AtFloor(NewRow)
  <2>1. LearnedFloor(0, Alpha) \in 0..Scale /\ LearnedFloor(0, Alpha) <= Alpha
    BY LearnedFloorBounds, ConfigAssumption
  <2>2. QED
    BY <2>1, ConfigAssumption DEF AtFloor, NewRow
<1>2. ASSUME NEW r \in Row, SoundRow(r) PROVE AtFloor(GrownRow(r))
  <2> DEFINE c == Grow(r.confidence)
             b == LearnedFloor(r.base_conf, c)
  <2>1. r.confidence \in 0..Scale /\ r.base_conf \in 0..Scale
    BY DEF Row
  <2>2. c \in r.confidence..Scale /\ c >= Alpha /\ c \in 0..Scale
    BY <2>1, GrowBounds, ConfigAssumption
  <2>3. b \in r.base_conf..Scale /\ (b = r.base_conf \/ b <= c)
    <3> HIDE DEF c
    <3> QED BY <2>1, <2>2, LearnedFloorBounds
  <2>4. GrownRow(r).confidence = c /\ GrownRow(r).base_conf = b
    BY DEF GrownRow
  <2> HIDE DEF c, b
  <2>5. QED
    BY <2>1, <2>2, <2>3, <2>4, <1>2, ConfigAssumption DEF AtFloor, SoundRow
<1>3. ASSUME NEW r \in Row PROVE AtFloor(FadedRow(r))
  <2>1. r.confidence \in 0..Scale /\ r.base_conf \in 0..Scale /\ r.base_conf \in Int
    BY ConfigAssumption DEF Row
  <2>2. Fade(r.confidence) \in 0..r.confidence /\ Fade(r.confidence) \in Int
    BY <2>1, FadeBounds, ConfigAssumption
  <2>3. QED
    BY <2>1, <2>2 DEF AtFloor, FadedRow, Larger
<1>4. QED
  BY <1>1, <1>2, <1>3

\* PassInv is inductive relative to the types and the hysteresis.
LEMMA PassInvStep == TypeOK /\ SoundTable(edge_memory) /\ PassInv /\ [Next]_vars => PassInv'
<1> SUFFICES ASSUME TypeOK, SoundTable(edge_memory), PassInv, [Next]_vars
             PROVE  PassInv'
  OBVIOUS
<1>0. /\ IsTable(edge_memory)
      /\ \A k \in DOMAIN edge_memory : edge_memory[k] \in Row /\ SoundRow(edge_memory[k])
      /\ \A k \in DOMAIN edge_memory : edge_memory[k].base_conf \in Int
  BY ConfigAssumption DEF TypeOK, IsTable, SoundTable, Row
<1>1. ASSUME NEW vecs, NEW es, BeginPass(vecs, es) PROVE PassInv'
  <2>1. \A k \in SharedKeys(vecs) : /\ k \in DOMAIN Seeded(edge_memory, vecs)
                                    /\ Seeded(edge_memory, vecs)[k].base_conf >= Prior
    BY <1>0, ConfigAssumption DEF Seeded, SeedRow, Ensured
  <2>2. QED
    BY <1>1, <2>1 DEF BeginPass, PassInv
<1>2. ASSUME NEW e \in pending, ConfirmEdge(e) PROVE PassInv'
  <2>1. FloorsKept(edge_memory, edge_memory')
    BY <1>0, <1>2, FloorsGrow DEF ConfirmEdge
  <2>2. \A k \in SharedKeys(vectors) : k \in DOMAIN edge_memory'
                                       /\ edge_memory'[k].base_conf >= Prior
    <3> SUFFICES ASSUME NEW k \in SharedKeys(vectors)
                 PROVE  k \in DOMAIN edge_memory' /\ edge_memory'[k].base_conf >= Prior
      OBVIOUS
    <3>1. k \in DOMAIN edge_memory /\ edge_memory[k].base_conf >= Prior
      BY <1>2 DEF ConfirmEdge, PassInv
    <3>2. KeyOf(e) \in Keys
      BY <1>2, KeyOfType DEF TypeOK
    <3>3. IsTable(edge_memory')
      BY <1>0, <1>2, <3>2, TableTypes DEF ConfirmEdge
    <3>4. k \in DOMAIN edge_memory' /\ edge_memory'[k].base_conf \in Int
          /\ edge_memory'[k].base_conf >= edge_memory[k].base_conf
      BY <2>1, <3>1, <3>3, ConfigAssumption DEF FloorsKept, IsTable, Row
    <3>5. QED
      BY <1>0, <3>1, <3>4, ConfigAssumption
  <2>3. ASSUME NEW f \in current \ (pending \ {e})
        PROVE  KeyOf(f) \in DOMAIN edge_memory' /\ AtFloor(edge_memory'[KeyOf(f)])
    <3>1. edge_memory' = Confirmed(edge_memory, KeyOf(e)) /\ pc # "idle"
      BY <1>2 DEF ConfirmEdge
    <3>2. CASE KeyOf(f) = KeyOf(e)
      BY <3>1, <3>2, <1>0, WrittenAtFloor DEF Confirmed
    <3>3. CASE KeyOf(f) # KeyOf(e)
      <4>1. f \in current \ pending
        BY <3>3
      <4>2. KeyOf(f) \in DOMAIN edge_memory /\ AtFloor(edge_memory[KeyOf(f)])
        BY <3>1, <4>1 DEF PassInv
      <4>3. QED
        BY <3>1, <3>3, <4>2 DEF Confirmed
    <3>4. QED
      BY <3>2, <3>3
  <2>4. QED
    BY <1>2, <2>2, <2>3 DEF ConfirmEdge, PassInv
<1>3. CASE DecayAbsentEdges
  <2> DEFINE seen == {KeyOf(e) : e \in current}
  <2>1. /\ pc = "confirm" /\ pc' = "commit" /\ pending = {}
        /\ edge_memory' = Decayed(edge_memory, seen, vectors)
        /\ UNCHANGED <<vectors, current, pending>>
    BY <1>3 DEF DecayAbsentEdges
  <2>2. \A k \in SharedKeys(vectors) : k \in DOMAIN edge_memory'
                                       /\ edge_memory'[k].base_conf >= Prior
    BY <2>1 DEF PassInv, Decayed, FadedRow
  <2>3. \A e \in current : /\ KeyOf(e) \in DOMAIN edge_memory
                            /\ AtFloor(edge_memory[KeyOf(e)])
    BY <2>1 DEF PassInv
  <2>4. \A e \in current : KeyOf(e) \in seen
    OBVIOUS
  <2>5. \A k \in seen : k \in DOMAIN edge_memory /\ AtFloor(edge_memory[k])
    BY <2>3
  <2> HIDE DEF seen
  <2>6. \A e \in current : /\ KeyOf(e) \in DOMAIN edge_memory'
                            /\ AtFloor(edge_memory'[KeyOf(e)])
    BY <2>1, <2>3, <2>4 DEF Decayed, Fades
  <2>7. ASSUME NEW k \in DOMAIN edge_memory', BothPresent(k, vectors)
        PROVE  AtFloor(edge_memory'[k])
    <3>1. k \in DOMAIN edge_memory
      BY <2>1, <2>7 DEF Decayed
    <3>2. CASE k \in seen
      BY <2>1, <2>5, <3>1, <3>2 DEF Decayed, Fades
    <3>3. CASE k \notin seen
      BY <2>1, <2>7, <3>1, <3>3, <1>0, WrittenAtFloor DEF Decayed, Fades
    <3>4. QED
      BY <3>2, <3>3
  <2>8. QED
    BY <2>1, <2>2, <2>6, <2>7 DEF PassInv
<1>4. CASE Commit
  BY <1>4 DEF Commit, PassInv
<1>5. CASE Render
  BY <1>5 DEF Render, PassInv
<1>6. CASE Fail
  BY <1>6 DEF Fail, PassInv
<1>7. CASE Crash
  BY <1>7 DEF Crash, PassInv
<1>8. CASE UNCHANGED vars
  BY <1>8 DEF vars, PassInv
<1>9. QED
  BY <1>1, <1>2, <1>3, <1>4, <1>5, <1>6, <1>7, <1>8 DEF Next, PassStep, StartPass

\* A rendered edge carries the numbers of a row of the table: a live edge those of its
\* own key, a held edge those of a row both of whose ends have data.
LEMMA RenderedEdges ==
  ASSUME NEW table, NEW es, NEW vecs, NEW first, NEW e \in Rendered(table, es, vecs, first)
  PROVE  \/ /\ e.source = "live"
            /\ \E f \in es : /\ e.src = f[1] /\ e.dst = f[2]
                             /\ e.confidence = table[KeyOf(f)].confidence
                             /\ e.base_conf = table[KeyOf(f)].base_conf
         \/ /\ e.source = "memory"
            /\ \E k \in ByPair(table, es, first) :
                 /\ BothPresent(k, vecs)
                 /\ e = ServedEdge(k, PodFor(k[1], vecs), PodFor(k[2], vecs), table, "memory")
BY DEF Rendered, ServedEdge

\* A workload with data is rendered as one of its own pods.
LEMMA PodForSound ==
  ASSUME NEW vecs, NEW w \in PodsPresent(vecs)
  PROVE  PodFor(w, vecs) \in vecs /\ WorkloadOf[PodFor(w, vecs)] = w
BY DEF PodFor, PodsPresent

\* After a good pass no served edge is below its floor (ServedAtFloor).
LEMMA RenderAtFloor ==
  ASSUME TypeOK, PassInv, Render
  PROVE  ServedAtFloor'
<1> SUFFICES ASSUME NEW first, NEW e \in Rendered(edge_memory, current, vectors, first)
             PROVE  e.confidence >= e.base_conf
  BY DEF ServedAtFloor, Render, OkGraph
<1>1. pc = "render" /\ pending = {}
  BY DEF Render, PassInv
<1>2. CASE \E f \in current : /\ e.confidence = edge_memory[KeyOf(f)].confidence
                              /\ e.base_conf = edge_memory[KeyOf(f)].base_conf
  BY <1>1, <1>2 DEF PassInv, AtFloor
<1>3. CASE \E k \in ByPair(edge_memory, current, first) :
             /\ BothPresent(k, vectors)
             /\ e = ServedEdge(k, PodFor(k[1], vectors), PodFor(k[2], vectors),
                               edge_memory, "memory")
  <2>1. PICK k \in ByPair(edge_memory, current, first) :
             /\ BothPresent(k, vectors)
             /\ e = ServedEdge(k, PodFor(k[1], vectors), PodFor(k[2], vectors),
                               edge_memory, "memory")
    BY <1>3
  <2>2. k \in DOMAIN edge_memory
    BY DEF ByPair, Held
  <2>3. AtFloor(edge_memory[k])
    BY <1>1, <2>1, <2>2 DEF PassInv
  <2>4. QED
    BY <2>1, <2>3 DEF AtFloor, ServedEdge
<1>4. QED
  BY <1>2, <1>3, RenderedEdges

\* After a good pass the served graph names running pods only, and no held edge repeats
\* the pair of another edge (NoGhostNoDouble).
LEMMA RenderNoGhost ==
  ASSUME TypeOK, Render
  PROVE  NoGhostNoDouble'
<1>0. PICK first \in ReadOrders :
         served' = OkGraph(Rendered(edge_memory, current, vectors, first))
  BY DEF Render
<1> DEFINE G == Rendered(edge_memory, current, vectors, first)
<1>1. /\ served' = [status |-> "ok", edges |-> G]
      /\ UNCHANGED <<edge_memory, vectors, current>>
  BY <1>0 DEF Render, OkGraph
<1>2. current \subseteq vectors \X vectors /\ vectors \subseteq Pods
      /\ DOMAIN edge_memory \subseteq Keys /\ Workloads \subseteq Nat
      /\ \A k \in DOMAIN edge_memory : edge_memory[k].confidence \in Int
  BY NamesAssumption, ConfigAssumption DEF TypeOK, IsTable, Row
<1>3. ASSUME NEW k \in ByPair(edge_memory, current, first), BothPresent(k, vectors)
      PROVE  /\ PodFor(k[1], vectors) \in vectors /\ PodFor(k[2], vectors) \in vectors
             /\ KeyOf(<<PodFor(k[1], vectors), PodFor(k[2], vectors)>>) = k
  <2>1. k \in Keys
    BY <1>2 DEF ByPair, Held
  <2>2. k = <<k[1], k[2]>>
    BY <2>1 DEF Keys
  <2>3. QED
    BY <1>3, <2>2, PodForSound DEF BothPresent, KeyOf
<1>4. ASSUME NEW e \in G PROVE {e.src, e.dst} \subseteq vectors
  <2>1. CASE \E f \in current : e.src = f[1] /\ e.dst = f[2]
    BY <1>2, <2>1
  <2>2. CASE \E k \in ByPair(edge_memory, current, first) :
               /\ BothPresent(k, vectors)
               /\ e = ServedEdge(k, PodFor(k[1], vectors), PodFor(k[2], vectors),
                                 edge_memory, "memory")
    <3>1. PICK k \in ByPair(edge_memory, current, first) :
            /\ BothPresent(k, vectors)
            /\ e = ServedEdge(k, PodFor(k[1], vectors), PodFor(k[2], vectors),
                              edge_memory, "memory")
      BY <2>2
    <3>2. e.src = PodFor(k[1], vectors) /\ e.dst = PodFor(k[2], vectors)
      BY <3>1 DEF ServedEdge
    <3>3. QED
      BY <3>1, <3>2, <1>3
  <2>3. QED
    BY <2>1, <2>2, RenderedEdges
<1>5. ASSUME NEW e \in G, e.source = "memory", NEW f \in G, f # e
      PROVE  ServedPair(e) # ServedPair(f)
  <2>1. PICK k \in ByPair(edge_memory, current, first) :
          /\ BothPresent(k, vectors)
          /\ e = ServedEdge(k, PodFor(k[1], vectors), PodFor(k[2], vectors),
                            edge_memory, "memory")
    BY <1>5, RenderedEdges
  <2>2. ServedPair(e) = Pair(k)
    BY <2>1, <1>3 DEF ServedPair, ServedEdge
  <2>3. k \in Held(edge_memory, current) /\ k \in Keys
    BY <1>2 DEF ByPair, Held
  <2>4. ASSUME NEW h \in current, f.src = h[1], f.dst = h[2]
        PROVE  ServedPair(f) # Pair(k)
    <3>1. KeyOf(<<f.src, f.dst>>) = KeyOf(h)
      BY <2>4 DEF KeyOf
    <3>2. ServedPair(f) \in LivePairs(current)
      BY <3>1 DEF ServedPair, LivePairs
    <3>3. QED
      BY <2>3, <3>2 DEF Held
  <2>5. ASSUME NEW j \in ByPair(edge_memory, current, first), BothPresent(j, vectors),
               f = ServedEdge(j, PodFor(j[1], vectors), PodFor(j[2], vectors),
                              edge_memory, "memory")
        PROVE  ServedPair(f) # Pair(k)
    <3>1. ServedPair(f) = Pair(j)
      BY <2>5, <1>3 DEF ServedPair, ServedEdge
    <3>2. j \in Held(edge_memory, current) /\ j \in Keys
      BY <1>2 DEF ByPair, Held
    <3>3. j # k
      BY <1>5, <2>1, <2>5
    <3>4. ASSUME Pair(j) = Pair(k) PROVE FALSE
      <4>1. k \in Workloads \X Workloads /\ j \in Workloads \X Workloads
        BY <2>3, <3>2 DEF Keys
      <4>2. j = Reverse(k) /\ k = Reverse(j)
        BY <3>3, <3>4, <4>1 DEF Pair, Reverse
      <4>3. /\ k \in DOMAIN edge_memory /\ j \in DOMAIN edge_memory
            /\ k[1] \in Nat /\ k[2] \in Nat /\ j[1] = k[2]
        BY <1>2, <2>3, <3>2, <4>1, <4>2 DEF Held, Reverse
      <4>4. /\ \/ edge_memory[k].confidence > edge_memory[j].confidence
               \/ edge_memory[k].confidence = edge_memory[j].confidence /\ k \in first
            /\ \/ edge_memory[j].confidence > edge_memory[k].confidence
               \/ edge_memory[j].confidence = edge_memory[k].confidence /\ j \in first
        BY <2>3, <3>2, <4>2 DEF ByPair
      <4>5. edge_memory[k].confidence \in Int /\ edge_memory[j].confidence \in Int
        BY <1>2, <4>3
      <4>6. k \in first /\ j \in first
        <5> DEFINE x == edge_memory[k].confidence
                   y == edge_memory[j].confidence
        <5>1. x \in Int /\ y \in Int
          BY <4>5
        <5>2. (x > y \/ (x = y /\ k \in first)) /\ (y > x \/ (y = x /\ j \in first))
          BY <4>4
        <5> HIDE DEF x, y
        <5>3. QED
          BY <5>1, <5>2
      <4>7. k[1] # k[2]
        BY <3>3, <4>1, <4>2 DEF Reverse
      <4>8. QED
        BY <1>0, <2>3, <4>2, <4>6, <4>7 DEF ReadOrders
    <3>5. QED
      BY <3>1, <3>4
  <2>6. QED
    BY <2>2, <2>4, <2>5, RenderedEdges
<1> HIDE DEF G
<1>6. QED
  BY <1>1, <1>4, <1>5 DEF NoGhostNoDouble, HeldEdgesOf

\* After a good pass every shared pair of running storage workloads is served, live or
\* from memory (BackboneServed).
LEMMA RenderBackbone ==
  ASSUME TypeOK, PassInv, Render
  PROVE  BackboneServed'
<1>0. PICK first \in ReadOrders :
         served' = OkGraph(Rendered(edge_memory, current, vectors, first))
  BY DEF Render
<1> DEFINE G == Rendered(edge_memory, current, vectors, first)
<1>1. /\ served' = [status |-> "ok", edges |-> G]
      /\ UNCHANGED <<edge_memory, vectors, current>>
  BY <1>0 DEF Render, OkGraph
<1>2. SUFFICES ASSUME NEW k \in SharedKeys(vectors)
               PROVE  \E e \in G : ServedPair(e) = Pair(k)
  <2> HIDE DEF G
  <2> QED BY <1>1 DEF BackboneServed
<1>3. /\ k \in DOMAIN edge_memory /\ edge_memory[k].base_conf >= Prior
      /\ k \in Keys /\ BothPresent(k, vectors) /\ Prior > 0
      /\ Workloads \subseteq Nat /\ current \subseteq vectors \X vectors
      /\ \A j \in DOMAIN edge_memory : /\ edge_memory[j].confidence \in Int
                                       /\ edge_memory[j].base_conf \in Int
  BY NamesAssumption, BackboneAssumption, ConfigAssumption
     DEF Render, PassInv, SharedKeys, TypeOK, IsTable, Row
<1>4. CASE Pair(k) \in LivePairs(current)
  <2>1. PICK f \in current : Pair(KeyOf(f)) = Pair(k)
    BY <1>4 DEF LivePairs
  <2>2. ServedEdge(KeyOf(f), f[1], f[2], edge_memory, "live") \in G
    BY DEF Rendered
  <2>3. ServedPair(ServedEdge(KeyOf(f), f[1], f[2], edge_memory, "live")) = Pair(KeyOf(f))
    BY DEF ServedPair, ServedEdge, KeyOf
  <2>4. QED
    BY <2>1, <2>2, <2>3
<1>5. CASE Pair(k) \notin LivePairs(current)
  <2>1. k \in Held(edge_memory, current)
    BY <1>3, <1>5, ConfigAssumption DEF Held
  <2>2. PICK j \in ByPair(edge_memory, current, first) : Pair(j) = Pair(k) /\ BothPresent(j, vectors)
    <3>1. k = <<k[1], k[2]>> /\ k[1] \in Workloads /\ k[2] \in Workloads
      BY <1>3 DEF Keys
    <3>2. Reverse(Reverse(k)) = k /\ Pair(Reverse(k)) = Pair(k)
          /\ BothPresent(Reverse(k), vectors)
      BY <1>3, <3>1 DEF Reverse, Pair, BothPresent
    <3>3. CASE k \in ByPair(edge_memory, current, first)
      BY <1>3, <3>3
    <3>4. CASE k \notin ByPair(edge_memory, current, first)
      <4>1. /\ Reverse(k) \in Held(edge_memory, current)
            /\ ~(edge_memory[k].confidence > edge_memory[Reverse(k)].confidence)
            /\ ~(edge_memory[k].confidence = edge_memory[Reverse(k)].confidence
                 /\ k \in first)
        BY <2>1, <3>4 DEF ByPair
      <4>2. Reverse(k) \in DOMAIN edge_memory
        BY <4>1 DEF Held
      <4>3. /\ Reverse(Reverse(k)) = k
            /\ k \notin first => Reverse(k) \in first
        <5>1. k[1] # k[2]
          <6> DEFINE a == k[1]
                     b == k[2]
          <6>1. a \in Nat /\ b \in Nat /\ a < b
            BY <1>3, <3>1 DEF SharedKeys
          <6> HIDE DEF a, b
          <6>2. a # b
            BY <6>1
          <6>3. QED
            BY <6>2 DEF a, b
        <5>2. QED
          BY <1>0, <1>3, <3>2, <5>1 DEF ReadOrders
      <4>4. \/ edge_memory[Reverse(k)].confidence > edge_memory[k].confidence
            \/ /\ edge_memory[Reverse(k)].confidence = edge_memory[k].confidence
               /\ Reverse(k) \in first
        <5> DEFINE x == edge_memory[k].confidence
                   y == edge_memory[Reverse(k)].confidence
        <5>1. x \in Int /\ y \in Int
          BY <1>3, <4>2
        <5>2. ~(x > y) /\ (x # y \/ k \notin first)
          BY <4>1
        <5> HIDE DEF x, y
        <5>3. y > x \/ (y = x /\ k \notin first)
          BY <5>1, <5>2
        <5>4. QED
          BY <4>3, <5>3 DEF x, y
      <4>5. Reverse(k) \in ByPair(edge_memory, current, first)
        BY <3>2, <4>1, <4>4 DEF ByPair
      <4>6. QED
        BY <3>2, <4>5
    <3>5. QED
      BY <3>3, <3>4
  <2> DEFINE s == PodFor(j[1], vectors)
             d == PodFor(j[2], vectors)
  <2>3. ServedEdge(j, s, d, edge_memory, "memory") \in G
    BY <2>2 DEF Rendered
  <2>4. WorkloadOf[s] = j[1] /\ WorkloadOf[d] = j[2]
    BY <2>2, PodForSound DEF BothPresent
  <2>5. ServedPair(ServedEdge(j, s, d, edge_memory, "memory")) = Pair(j)
    BY <2>4 DEF ServedPair, ServedEdge, KeyOf, Pair
  <2>6. QED
    BY <2>2, <2>3, <2>5
<1>6. QED
  BY <1>4, <1>5

\* What /graph answers is right in every state of every behaviour: no served edge is
\* below its floor, none names a dead pod or doubles a pair, and after a good pass the
\* backbone is complete (ServedAtFloor, NoGhostNoDouble, BackboneServed).
THEOREM ServedCorrect == Spec => [](ServedAtFloor /\ NoGhostNoDouble /\ BackboneServed)
<1> DEFINE Served == ServedAtFloor /\ NoGhostNoDouble /\ BackboneServed
           Sound == SoundTable(edge_memory)
<1>1. Init => PassInv /\ Served
  BY DEF Init, PassInv, ServedAtFloor, NoGhostNoDouble, BackboneServed, Bootstrap
<1>2. HysteresisSound => Sound
  BY DEF HysteresisSound, SoundTable
<1>3. TypeOK /\ PassInv /\ Served /\ [Next]_vars => Served'
  <2> SUFFICES ASSUME TypeOK, PassInv, Served, [Next]_vars PROVE Served'
    OBVIOUS
  <2> USE DEF ServedAtFloor, NoGhostNoDouble, BackboneServed
  <2>1. ASSUME NEW vecs, NEW es, BeginPass(vecs, es) PROVE Served'
    BY <2>1 DEF BeginPass
  <2>2. ASSUME NEW e, ConfirmEdge(e) PROVE Served'
    BY <2>2 DEF ConfirmEdge
  <2>3. CASE DecayAbsentEdges
    BY <2>3 DEF DecayAbsentEdges
  <2>4. CASE Commit
    BY <2>4 DEF Commit
  <2>5. CASE Render
    <3>1. ServedAtFloor' /\ NoGhostNoDouble' /\ BackboneServed'
      BY <2>5, RenderAtFloor, RenderNoGhost, RenderBackbone
    <3>2. QED
      BY <3>1
  <2>6. CASE Fail
    BY <2>6 DEF Fail, ErrorGraph
  <2>7. CASE Crash
    BY <2>7 DEF Crash, Bootstrap
  <2>8. CASE UNCHANGED vars
    BY <2>8 DEF vars, HeldEdgesOf
  <2>9. QED
    BY <2>1, <2>2, <2>3, <2>4, <2>5, <2>6, <2>7, <2>8 DEF Next, PassStep, StartPass
<1>4. TypeOK /\ Sound /\ PassInv /\ [Next]_vars => PassInv'
  BY PassInvStep
<1> HIDE DEF Served, Sound
<1>5. Spec => []Served
  BY <1>1, <1>2, <1>3, <1>4, TypeCorrect, HysteresisCorrect, PTL DEF Spec
<1>6. QED
  BY <1>5, PTL DEF Served
=============================================================================
