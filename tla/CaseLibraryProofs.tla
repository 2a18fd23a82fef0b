--------------------------- MODULE CaseLibraryProofs ---------------------------
(***************************************************************************)
(* Proofs about CaseLibrary for every set of workloads, every set of       *)
(* passes, every pre-v4 library and all thresholds, and any mix of failed  *)
(* passes, rollbacks and crashes: types, the shape of                      *)
(* families, the agreement of the library with its ledger, that no case is *)
(* opened next to one it belongs to, that an incident is recognised again, *)
(* and that the witness of a promoted case is the coupling of its edges.   *)
(***************************************************************************)
EXTENDS CaseLibrary, FiniteSetTheorems, TLAPS

-----------------------------------------------------------------------------
(* Similarity. *)

\* Sets of workloads and of directed pairs of workloads are finite.
LEMMA FingerprintFinite ==
  ASSUME NEW f \in Fingerprint
  PROVE  IsFiniteSet(f.victims) /\ IsFiniteSet(f.motif)
<1>1. f.victims \in SUBSET Workloads /\ f.motif \in SUBSET (Workloads \X Workloads)
  BY DEF Fingerprint
<1>2. IsFiniteSet(Workloads) /\ IsFiniteSet(Workloads \X Workloads)
  BY GraphsAssumption, FS_Product
<1>3. QED
  BY <1>1, <1>2, FS_Subset

\* A part of a positive whole is at most 60 sixtieths of it, and the whole is all 60.
LEMMA Sixtieths ==
  ASSUME NEW part \in Nat, NEW whole \in Nat \ {0}, part <= whole
  PROVE  /\ (60 * part) \div whole \in 0 .. 60
         /\ part = whole => (60 * part) \div whole = 60
<1> DEFINE q == (60 * part) \div whole
<1>1. q \in Nat /\ whole * q <= 60 * part /\ 60 * part < whole * q + whole
  OBVIOUS
<1> HIDE DEF q
<1>2. whole * q \in Nat /\ 60 * part <= 60 * whole
  BY <1>1
<1>3. ASSUME q > 60 PROVE FALSE
  <2>1. whole * q >= whole * 61
    BY <1>1, <1>3
  <2>2. QED
    BY <1>1, <1>2, <2>1
<1>4. ASSUME part = whole, q < 60 PROVE FALSE
  <2>1. whole * (q + 1) <= whole * 60 /\ whole * (q + 1) = whole * q + whole
    BY <1>1, <1>4
  <2>2. QED
    BY <1>1, <1>2, <1>4, <2>1
<1>5. q \in 0 .. 60 /\ (part = whole => q = 60)
  BY <1>1, <1>3, <1>4
<1>6. QED
  BY <1>5 DEF q

\* _jaccard is between 0 and 1, and 1 of a set with itself.
LEMMA JaccardRange ==
  ASSUME NEW a, NEW b, IsFiniteSet(a), IsFiniteSet(b)
  PROVE  Jaccard60(a, b) \in 0 .. 60 /\ (a = b => Jaccard60(a, b) = 60)
<1>1. CASE a \cup b = {}
  BY <1>1 DEF Jaccard60
<1>2. CASE a \cup b # {}
  <2> DEFINE part == Cardinality(a \cap b)
             whole == Cardinality(a \cup b)
  <2>1. IsFiniteSet(a \cup b)
    BY FS_Union
  <2>2. (a \cap b) \in SUBSET (a \cup b)
    OBVIOUS
  <2>3. whole \in Nat /\ whole # 0
    BY <1>2, <2>1, FS_CardinalityType, FS_EmptySet
  <2>4. part \in Nat /\ part <= whole
    BY <2>1, <2>2, FS_Subset, FS_CardinalityType
  <2>5. a = b => part = whole
    <3>1. a = b => a \cap b = a \cup b
      OBVIOUS
    <3>2. QED
      BY <3>1
  <2>6. Jaccard60(a, b) = (60 * part) \div whole
    BY <1>2 DEF Jaccard60
  <2> HIDE DEF part, whole
  <2>7. QED
    BY <2>3, <2>4, <2>5, <2>6, Sixtieths
<1>3. QED
  BY <1>1, <1>2

\* _case_sim is between 0 and 1, and 1 of a fingerprint with itself.
LEMMA SimRange ==
  ASSUME NEW f \in Fingerprint, NEW h \in Fingerprint
  PROVE  CaseSim(f, h) \in 0 .. SimScale /\ (f = h => CaseSim(f, h) = SimScale)
<1> DEFINE v == Jaccard60(f.victims, h.victims)
           m == Jaccard60(f.motif, h.motif)
           s == IF f.stressor = h.stressor THEN 60 ELSE 0
<1>1. v \in 0 .. 60 /\ m \in 0 .. 60
  BY FingerprintFinite, JaccardRange
<1>2. f = h => v = 60 /\ m = 60 /\ s = 60
  BY FingerprintFinite, JaccardRange
<1>3. CaseSim(f, h) = IF f.witness_kind # h.witness_kind THEN 0 ELSE 40 * v + 20 * s + 40 * m
  BY DEF CaseSim
<1>4. s \in {0, 60}
  OBVIOUS
<1> HIDE DEF v, m, s
<1>5. QED
  BY <1>1, <1>2, <1>3, <1>4 DEF SimScale

-----------------------------------------------------------------------------
(* Fingerprints. *)

\* The number of edges that carry a witness is a natural number, and at most that of all edges.
LEMMA VotesRange ==
  ASSUME NEW g \in Graphs, NEW w
  PROVE  /\ Votes(g, w) \in Nat /\ Cardinality(g.edges) \in Nat
         /\ Votes(g, w) <= Cardinality(g.edges)
         /\ (\A e \in g.edges : w \in e.evidence) => Votes(g, w) = Cardinality(g.edges)
         /\ (\E e \in g.edges : w \notin e.evidence) => Votes(g, w) < Cardinality(g.edges)
<1> DEFINE S == {e \in g.edges : w \in e.evidence}
<1>1. IsFiniteSet(g.edges) /\ S \in SUBSET g.edges
  BY GraphsAssumption
<1>2. /\ IsFiniteSet(S) /\ Cardinality(S) <= Cardinality(g.edges)
      /\ Cardinality(g.edges) = Cardinality(S) => g.edges = S
  BY <1>1, FS_Subset
<1>3. Cardinality(S) \in Nat /\ Cardinality(g.edges) \in Nat
  BY <1>1, <1>2, FS_CardinalityType
<1>4. Votes(g, w) = Cardinality(S)
  BY DEF Votes
<1>5. (\A e \in g.edges : w \in e.evidence) => S = g.edges
  OBVIOUS
<1>6. (\E e \in g.edges : w \notin e.evidence) => S # g.edges
  OBVIOUS
<1> HIDE DEF S
<1>7. QED
  BY <1>2, <1>3, <1>4, <1>5, <1>6

\* Whether a witness beats another one in _dominant_witness: more edges, or first by name.
Beats(g, w, v) ==
  \/ Votes(g, w) > Votes(g, v)
  \/ Votes(g, w) = Votes(g, v) /\ WitnessRank(w) < WitnessRank(v)

LEMMA WitnessesAreFour ==
  /\ Witnesses = {"ebpf", "node", "psi", "pvc"}
  /\ WitnessRank("ebpf") = 1 /\ WitnessRank("node") = 2
  /\ WitnessRank("psi") = 3 /\ WitnessRank("pvc") = 4
BY DEF Witnesses, EvidenceKinds, WitnessRank

\* Beating is a strict order of the witnesses, and total.
LEMMA BeatsIsOrder ==
  ASSUME NEW g \in Graphs, NEW u \in Witnesses, NEW v \in Witnesses, NEW w \in Witnesses
  PROVE  /\ u # v => Beats(g, u, v) \/ Beats(g, v, u)
         /\ Beats(g, u, v) /\ Beats(g, v, w) => Beats(g, u, w)
<1>1. Votes(g, u) \in Nat /\ Votes(g, v) \in Nat /\ Votes(g, w) \in Nat
  BY VotesRange
<1>2. /\ WitnessRank(u) \in Nat /\ WitnessRank(v) \in Nat /\ WitnessRank(w) \in Nat
      /\ WitnessRank(u) = WitnessRank(v) => u = v
  BY WitnessesAreFour
<1>3. QED
  BY <1>1, <1>2 DEF Beats

\* One of the witnesses beats all the others, or there is none.
HasBest(g, S) == S = {} \/ \E w \in S : \A v \in S \ {w} : Beats(g, w, v)

\* A witness more: the best of the others stays the best, or the new one is.
LEMMA BestOfMore ==
  ASSUME NEW g \in Graphs, NEW S \in SUBSET Witnesses, NEW x \in Witnesses, HasBest(g, S)
  PROVE  HasBest(g, S \cup {x})
<1> SUFFICES \E w \in S \cup {x} : \A v \in (S \cup {x}) \ {w} : Beats(g, w, v)
  BY DEF HasBest
<1>1. CASE S = {}
  BY <1>1
<1>2. CASE \E w \in S : \A v \in S \ {w} : Beats(g, w, v)
  <2>1. PICK w \in S : \A v \in S \ {w} : Beats(g, w, v)
    BY <1>2
  <2>2. CASE w = x \/ Beats(g, w, x)
    BY <2>1, <2>2
  <2>3. CASE w # x /\ Beats(g, x, w)
    BY <2>1, <2>3, BeatsIsOrder
  <2>4. QED
    BY <2>1, <2>2, <2>3, BeatsIsOrder
<1>3. QED
  BY <1>1, <1>2 DEF HasBest

\* Every set of witnesses has one that beats the others.
LEMMA BestWitness ==
  ASSUME NEW g \in Graphs, NEW S \in SUBSET Witnesses, S # {}
  PROVE  \E w \in S : \A v \in S \ {w} : Beats(g, w, v)
<1> DEFINE A == S \cap {"ebpf"}
           B == S \cap {"ebpf", "node"}
           C == S \cap {"ebpf", "node", "psi"}
<1>1. \A T \in SUBSET Witnesses : \A x \in Witnesses : HasBest(g, T) => HasBest(g, T \cup {x})
  BY BestOfMore
<1>2. /\ A \in SUBSET Witnesses /\ B \in SUBSET Witnesses /\ C \in SUBSET Witnesses
      /\ A = {} \/ A = {} \cup {"ebpf"}
      /\ B = A \/ B = A \cup {"node"}
      /\ C = B \/ C = B \cup {"psi"}
      /\ S = C \/ S = C \cup {"pvc"}
  BY WitnessesAreFour
<1>3. "ebpf" \in Witnesses /\ "node" \in Witnesses /\ "psi" \in Witnesses /\ "pvc" \in Witnesses
  BY WitnessesAreFour
<1>4. HasBest(g, {})
  BY DEF HasBest
<1> HIDE DEF A, B, C
<1>5. HasBest(g, A)
  BY <1>1, <1>2, <1>3, <1>4
<1>6. HasBest(g, B)
  BY <1>1, <1>2, <1>3, <1>5
<1>7. HasBest(g, C)
  BY <1>1, <1>2, <1>3, <1>6
<1>8. HasBest(g, S)
  BY <1>1, <1>2, <1>3, <1>7
<1>9. QED
  BY <1>8 DEF HasBest

\* _dominant_witness is one that is voted for and beats the others, or none is voted for.
LEMMA DominantBeats ==
  ASSUME NEW g \in Graphs
  PROVE  LET voted == {w \in Witnesses : Votes(g, w) > 0}
         IN \/ voted = {} /\ DominantWitness(g) = NoWitness
            \/ /\ DominantWitness(g) \in voted
               /\ \A v \in voted \ {DominantWitness(g)} : Beats(g, DominantWitness(g), v)
<1> DEFINE voted == {w \in Witnesses : Votes(g, w) > 0}
<1>1. CASE voted = {}
  BY <1>1 DEF DominantWitness
<1>2. CASE voted # {}
  <2>1. \E w \in voted : \A v \in voted \ {w} : Beats(g, w, v)
    BY <1>2, BestWitness
  <2>2. DominantWitness(g) = CHOOSE w \in voted : \A v \in voted \ {w} : Beats(g, w, v)
    BY <1>2 DEF DominantWitness, Beats
  <2> HIDE DEF voted
  <2>3. /\ DominantWitness(g) \in voted
        /\ \A v \in voted \ {DominantWitness(g)} : Beats(g, DominantWitness(g), v)
    BY <2>1, <2>2
  <2>4. QED
    BY <2>3 DEF voted
<1>3. QED
  BY <1>1, <1>2

\* The fingerprint of a pass is one.
LEMMA FingerprintTyped ==
  ASSUME NEW g \in Graphs
  PROVE  FingerprintOf(g) \in Fingerprint
<1>1. g.root \in Workloads /\ g.edges \subseteq Edge /\ g.blast \subseteq Workloads
  BY GraphsAssumption DEF Graph
<1>2. \A e \in g.edges : e.src \in Workloads /\ e.dst \in Workloads
  BY <1>1 DEF Edge
<1>3. Victims(g) \subseteq Workloads
  BY <1>1, <1>2 DEF Victims
<1>4. {<<e.src, e.dst>> : e \in g.edges} \in SUBSET (Workloads \X Workloads)
  BY <1>2
<1>5. DominantWitness(g) \in Witnesses \cup {NoWitness}
  BY DominantBeats
<1>6. QED
  BY <1>1, <1>3, <1>4, <1>5 DEF FingerprintOf, Fingerprint

\* Every edge of a signal has its coupling, and the source's edge has no co-pressure: the coupling
\* has strictly more votes than "psi".
LEMMA CouplingDominates ==
  ASSUME NEW g \in Graphs, Promotable(g)
  PROVE  DominantWitness(g) \in {"pvc", "ebpf", "node"}
<1>1. PICK w \in {"pvc", "node"} : \A h \in Graphs : \A e \in h.edges :
        w \in e.evidence /\ ("write" \in e.evidence => "psi" \notin e.evidence)
  BY CouplingAssumption
<1>2. PICK e \in g.edges : "write" \in e.evidence
  BY DEF Promotable, SourceRooted
<1>3. Votes(g, w) = Cardinality(g.edges) /\ Votes(g, "psi") < Cardinality(g.edges)
  BY <1>1, <1>2, VotesRange
<1>4. Votes(g, "psi") \in Nat /\ Votes(g, w) \in Nat
  BY VotesRange
<1>5. w \in Witnesses /\ w # "psi"
  BY WitnessesAreFour
<1>6. w \in {u \in Witnesses : Votes(g, u) > 0} /\ ~Beats(g, "psi", w)
  BY <1>3, <1>4, <1>5 DEF Beats
<1>7. DominantWitness(g) \in Witnesses /\ DominantWitness(g) # "psi"
  BY <1>5, <1>6, DominantBeats
<1>8. QED
  BY <1>7, WitnessesAreFour

-----------------------------------------------------------------------------
(* Libraries. *)

IdsOf(cs) == {cs[i].id : i \in DOMAIN cs}

Unique(cs) == \A i, j \in DOMAIN cs : cs[i].id = cs[j].id => i = j

Families(cs) ==
  \A i \in DOMAIN cs : \E h \in 1..i : cs[h].id = cs[i].family_id /\ cs[h].family_id = cs[h].id

NoneNear(cs) ==
  \A j \in DOMAIN cs :
    cs[j].id \in {OldCases[n] : n \in DOMAIN OldCases}
    \/ \A i \in 1..(j - 1) : CaseSim(cs[j].id, cs[i].id) < TauMerge

Sound(cs) == cs \in Seq(Case) /\ Unique(cs) /\ Families(cs) /\ NoneNear(cs)

\* The row a scan of the table ends on.
NearestIn(cs, i, f) ==
  /\ i \in DOMAIN cs
  /\ CaseSim(f, cs[i].id) > 0
  /\ \A j \in DOMAIN cs :
       /\ CaseSim(f, cs[j].id) <= CaseSim(f, cs[i].id)
       /\ j < i => CaseSim(f, cs[j].id) < CaseSim(f, cs[i].id)

Recognised(cs, f, id) ==
  \E i \in DOMAIN cs : NearestIn(cs, i, f) /\ CaseSim(f, cs[i].id) >= TauMerge /\ cs[i].id = id

\* The counts of a library with its case of one of the ids written and not yet observed.
Ledger(cs, seen, lost, ids) ==
  /\ IsCount(seen) /\ IsCount(lost)
  /\ DOMAIN seen \subseteq IdsOf(cs) /\ DOMAIN lost \subseteq IdsOf(cs) /\ ids \subseteq IdsOf(cs)
  /\ \A i \in DOMAIN cs :
       cs[i].occurrences = CountOf(seen, cs[i].id) + CountOf(lost, cs[i].id)
                           + (IF cs[i].id \in ids THEN 1 ELSE 0)

\* The similarities of a fingerprint with a library are numbers up to SimScale.
LEMMA SimWithLibrary ==
  ASSUME NEW cs \in Seq(Case), NEW f \in Fingerprint, NEW i \in DOMAIN cs
  PROVE  /\ cs[i] \in Case /\ cs[i].id \in Fingerprint /\ cs[i].family_id \in Fingerprint
         /\ cs[i].occurrences \in Nat \ {0}
         /\ CaseSim(f, cs[i].id) \in 0 .. SimScale
         /\ f = cs[i].id => CaseSim(f, cs[i].id) = SimScale
<1>1. cs[i] \in Case
  OBVIOUS
<1>2. cs[i].id \in Fingerprint /\ cs[i].family_id \in Fingerprint /\ cs[i].occurrences \in Nat \ {0}
  BY <1>1 DEF Case
<1>3. QED
  BY <1>1, <1>2, SimRange

LEMMA Thresholds ==
  /\ TauMerge \in Nat /\ TauFamily \in Nat \ {0} /\ SimScale \in Nat
  /\ TauFamily <= TauMerge /\ TauMerge <= SimScale
<1>1. SimScale \in Nat
  BY DEF SimScale
<1>2. TauFamily \in 1..SimScale /\ TauMerge \in TauFamily..SimScale
  BY TauAssumption
<1>3. QED
  BY <1>1, <1>2

\* When nothing is as near as tau_merge, the fingerprint is new.
LEMMA FarIsNew ==
  ASSUME NEW cs \in Seq(Case), NEW f \in Fingerprint,
         \A i \in DOMAIN cs : CaseSim(f, cs[i].id) < TauMerge
  PROVE  f \notin IdsOf(cs)
<1> SUFFICES ASSUME NEW i \in DOMAIN cs, f = cs[i].id PROVE FALSE
  BY DEF IdsOf
<1>1. CaseSim(f, cs[i].id) = SimScale /\ CaseSim(f, cs[i].id) < TauMerge
  BY SimWithLibrary
<1>2. QED
  BY <1>1, Thresholds

\* The table with one more case, of a family that is there or its own.
Opened(cs, ds, f, family) ==
  /\ ds = Append(cs, [id |-> f, family_id |-> family, occurrences |-> 1])
  /\ family = f \/ \E i \in DOMAIN cs : family = cs[i].family_id
  /\ \A i \in DOMAIN cs : CaseSim(f, cs[i].id) < TauMerge

\* Its rows: the old ones and the new one.
LEMMA OpenedRows ==
  ASSUME NEW cs \in Seq(Case), NEW ds, NEW f \in Fingerprint, NEW family, Opened(cs, ds, f, family)
  PROVE  /\ ds \in Seq(Case) /\ DOMAIN cs = 1 .. Len(cs) /\ Len(cs) \in Nat
         /\ DOMAIN ds = 1 .. Len(cs) + 1
         /\ \A i \in DOMAIN cs : i \in DOMAIN ds /\ i # Len(cs) + 1 /\ ds[i] = cs[i]
         /\ \A i \in DOMAIN ds : i = Len(cs) + 1 \/ i \in DOMAIN cs
         /\ ds[Len(cs) + 1].id = f /\ ds[Len(cs) + 1].family_id = family
         /\ ds[Len(cs) + 1].occurrences = 1
         /\ f \notin IdsOf(cs) /\ IdsOf(ds) = IdsOf(cs) \cup {f}
<1> DEFINE new == [id |-> f, family_id |-> family, occurrences |-> 1]
           n == Len(cs) + 1
<1>1. new.id = f /\ new.family_id = family /\ new.occurrences = 1
  OBVIOUS
<1>2. family \in Fingerprint
  BY SimWithLibrary DEF Opened
<1>3. new \in Case
  BY <1>2 DEF Case
<1>4. ds = Append(cs, new)
  BY DEF Opened
<1> HIDE DEF new
<1>5. /\ ds \in Seq(Case) /\ DOMAIN cs = 1 .. Len(cs) /\ Len(cs) \in Nat /\ DOMAIN ds = 1 .. n
      /\ ds[n] = new /\ \A i \in DOMAIN cs : i \in DOMAIN ds /\ i # n /\ ds[i] = cs[i]
      /\ \A i \in DOMAIN ds : i = n \/ i \in DOMAIN cs
  BY <1>3, <1>4
<1>6. f \notin IdsOf(cs)
  BY FarIsNew DEF Opened
<1>7. IdsOf(ds) = IdsOf(cs) \cup {f}
  <2>1. n \in DOMAIN ds
    BY <1>5
  <2> HIDE DEF n
  <2>2. \A i \in DOMAIN ds : ds[i].id = f \/ (i \in DOMAIN cs /\ ds[i].id = cs[i].id)
    BY <1>1, <1>5
  <2>3. \A i \in DOMAIN cs : i \in DOMAIN ds /\ ds[i].id = cs[i].id
    BY <1>5
  <2>4. ds[n].id = f
    BY <1>1, <1>5
  <2>5. QED
    BY <2>1, <2>2, <2>3, <2>4 DEF IdsOf
<1>8. QED
  BY <1>1, <1>5, <1>6, <1>7

\* Opening a case keeps a library sound, and the incident is recognised as that case.
LEMMA OpenedSound ==
  ASSUME NEW cs, NEW ds, NEW f \in Fingerprint, NEW family, Sound(cs), Opened(cs, ds, f, family)
  PROVE  Sound(ds) /\ Recognised(ds, f, f)
<1>0. PICK n : n = Len(cs) + 1
  OBVIOUS
<1>1. cs \in Seq(Case)
  BY DEF Sound
<1>2. /\ ds \in Seq(Case) /\ DOMAIN cs = 1 .. Len(cs) /\ Len(cs) \in Nat /\ DOMAIN ds = 1 .. n /\ n \in Nat
      /\ \A i \in DOMAIN cs : i \in DOMAIN ds /\ i # n /\ ds[i] = cs[i]
      /\ \A i \in DOMAIN ds : i = n \/ i \in DOMAIN cs
      /\ ds[n].id = f /\ ds[n].family_id = family
      /\ f \notin IdsOf(cs)
  BY <1>0, <1>1, OpenedRows
<1>3. \A i \in DOMAIN cs : CaseSim(f, cs[i].id) < TauMerge
  BY DEF Opened
<1>4. Unique(ds)
  <2>1. ASSUME NEW i \in DOMAIN cs PROVE cs[i].id # f
    BY <1>2 DEF IdsOf
  <2>2. ASSUME NEW i \in DOMAIN ds, NEW j \in DOMAIN ds, ds[i].id = ds[j].id PROVE i = j
    BY <1>2, <2>1, <2>2 DEF Sound, Unique
  <2>3. QED
    BY <2>2 DEF Unique
<1>5. Families(ds)
  <2>1. ASSUME NEW i \in DOMAIN cs, NEW m \in i .. n
        PROVE  \E h \in 1 .. m : ds[h].id = cs[i].family_id /\ ds[h].family_id = ds[h].id
    <3>1. PICK h \in 1 .. i : cs[h].id = cs[i].family_id /\ cs[h].family_id = cs[h].id
      BY DEF Sound, Families
    <3>2. h \in DOMAIN cs /\ h \in 1 .. m
      BY <1>2, <2>1
    <3>3. QED
      BY <1>2, <3>1, <3>2
  <2>2. ASSUME NEW i \in DOMAIN ds
        PROVE  \E h \in 1 .. i : ds[h].id = ds[i].family_id /\ ds[h].family_id = ds[h].id
    <3>1. CASE i \in DOMAIN cs
      <4>1. i \in i .. n
        BY <1>0, <1>2, <2>2, <3>1
      <4>2. QED
        BY <1>2, <2>1, <3>1, <4>1
    <3>2. CASE i = n /\ family = f
      <4>1. n \in 1 .. n
        BY <1>0, <1>2
      <4>2. QED
        BY <1>2, <3>2, <4>1
    <3>3. CASE i = n /\ \E k \in DOMAIN cs : family = cs[k].family_id
      <4>1. PICK k \in DOMAIN cs : family = cs[k].family_id
        BY <3>3
      <4>2. n \in k .. n
        BY <1>0, <1>2, <4>1
      <4>3. QED
        BY <1>2, <2>1, <3>3, <4>1, <4>2
    <3>4. QED
      BY <1>2, <3>1, <3>2, <3>3 DEF Opened
  <2>3. QED
    BY <2>2 DEF Families
<1>6. NoneNear(ds)
  <2>1. ASSUME NEW j \in DOMAIN ds, ds[j].id \notin {OldCases[k] : k \in DOMAIN OldCases}, NEW i \in 1 .. (j - 1)
        PROVE  CaseSim(ds[j].id, ds[i].id) < TauMerge
    <3>1. i \in DOMAIN cs
      BY <1>0, <1>2, <2>1
    <3>2. CASE j = n
      BY <1>2, <1>3, <3>1, <3>2
    <3>3. CASE j \in DOMAIN cs
      BY <1>2, <2>1, <3>1, <3>3 DEF Sound, NoneNear
    <3>4. QED
      BY <1>2, <3>2, <3>3
  <2>2. QED
    BY <2>1 DEF NoneNear
<1>7. Recognised(ds, f, f)
  <2>1. CaseSim(f, ds[n].id) = SimScale
    BY <1>2, SimRange
  <2>2. ASSUME NEW j \in DOMAIN ds PROVE CaseSim(f, ds[j].id) \in 0 .. SimScale
    BY <1>2, SimWithLibrary
  <2>3. ASSUME NEW j \in DOMAIN ds, j < n PROVE CaseSim(f, ds[j].id) < SimScale
    <3>1. j \in DOMAIN cs
      BY <1>0, <1>2, <2>3
    <3>2. CaseSim(f, ds[j].id) < TauMerge
      BY <1>2, <1>3, <3>1
    <3>3. QED
      BY <2>2, <3>2, Thresholds
  <2>4. n \in DOMAIN ds /\ SimScale > 0 /\ SimScale >= TauMerge
    BY <1>0, <1>2, Thresholds DEF SimScale
  <2>5. ASSUME NEW j \in DOMAIN ds
        PROVE  /\ CaseSim(f, ds[j].id) <= CaseSim(f, ds[n].id)
               /\ j < n => CaseSim(f, ds[j].id) < CaseSim(f, ds[n].id)
    BY <2>1, <2>2, <2>3, Thresholds
  <2>6. NearestIn(ds, n, f)
    BY <2>1, <2>4, <2>5 DEF NearestIn
  <2>7. QED
    BY <1>2, <2>1, <2>4, <2>6 DEF Recognised
<1>8. QED
  BY <1>2, <1>4, <1>5, <1>6, <1>7 DEF Sound

\* A new case has occurred once and was never observed.
LEMMA OpenedLedger ==
  ASSUME NEW cs \in Seq(Case), NEW ds, NEW f \in Fingerprint, NEW family, Opened(cs, ds, f, family),
         NEW seen, NEW lost, Ledger(cs, seen, lost, {})
  PROVE  Ledger(ds, seen, lost, {f})
<1>0. PICK n : n = Len(cs) + 1
  OBVIOUS
<1>1. /\ \A i \in DOMAIN cs : ds[i] = cs[i]
      /\ \A i \in DOMAIN ds : i = n \/ i \in DOMAIN cs
      /\ ds[n].id = f /\ ds[n].occurrences = 1
      /\ f \notin IdsOf(cs) /\ IdsOf(ds) = IdsOf(cs) \cup {f}
  BY <1>0, OpenedRows
<1>2. CountOf(seen, f) = 0 /\ CountOf(lost, f) = 0
  BY <1>1 DEF Ledger, CountOf
<1>3. ASSUME NEW i \in DOMAIN ds
      PROVE  ds[i].occurrences = CountOf(seen, ds[i].id) + CountOf(lost, ds[i].id)
                                 + (IF ds[i].id \in {f} THEN 1 ELSE 0)
  <2>1. CASE i = n
    BY <1>1, <1>2, <2>1
  <2>2. CASE i \in DOMAIN cs
    <3>1. cs[i].id \in IdsOf(cs)
      BY <2>2 DEF IdsOf
    <3>2. QED
      BY <1>1, <2>2, <3>1 DEF Ledger
  <2>3. QED
    BY <1>1, <2>1, <2>2
<1>4. QED
  BY <1>1, <1>3 DEF Ledger

\* The table with one more occurrence of a case.
Folded(cs, ds, i) ==
  ds = [cs EXCEPT ![i] = [id |-> cs[i].id, family_id |-> cs[i].family_id,
                          occurrences |-> cs[i].occurrences + 1]]

LEMMA FoldedRows ==
  ASSUME NEW cs \in Seq(Case), NEW ds, NEW i \in DOMAIN cs, Folded(cs, ds, i)
  PROVE  /\ ds \in Seq(Case) /\ DOMAIN ds = DOMAIN cs
         /\ \A j \in DOMAIN cs : ds[j].id = cs[j].id /\ ds[j].family_id = cs[j].family_id
         /\ ds[i].occurrences = cs[i].occurrences + 1
         /\ \A j \in DOMAIN cs : j # i => ds[j].occurrences = cs[j].occurrences
         /\ IdsOf(ds) = IdsOf(cs)
<1>1. PICK more : more = [id |-> cs[i].id, family_id |-> cs[i].family_id,
                          occurrences |-> cs[i].occurrences + 1]
  OBVIOUS
<1>2. cs[i].id \in Fingerprint /\ cs[i].family_id \in Fingerprint /\ cs[i].occurrences \in Nat \ {0}
  <2>1. cs[i] \in Case
    OBVIOUS
  <2>2. QED
    BY <2>1 DEF Case
<1>3. /\ more \in Case /\ more.id = cs[i].id /\ more.family_id = cs[i].family_id
      /\ more.occurrences = cs[i].occurrences + 1
  BY <1>1, <1>2 DEF Case
<1>4. /\ ds \in Seq(Case) /\ DOMAIN ds = DOMAIN cs /\ ds[i] = more
      /\ \A j \in DOMAIN cs : j # i => ds[j] = cs[j]
  BY <1>1, <1>3 DEF Folded
<1>5. \A j \in DOMAIN cs : ds[j].id = cs[j].id /\ ds[j].family_id = cs[j].family_id
  BY <1>3, <1>4
<1>6. IdsOf(ds) = IdsOf(cs)
  BY <1>4, <1>5 DEF IdsOf
<1>7. QED
  BY <1>3, <1>4, <1>5, <1>6

\* Folding an incident into the nearest case keeps a library sound.
LEMMA FoldedSound ==
  ASSUME NEW cs, NEW ds, NEW i, Sound(cs), Folded(cs, ds, i), NEW f, NearestIn(cs, i, f),
         CaseSim(f, cs[i].id) >= TauMerge
  PROVE  Sound(ds) /\ Recognised(ds, f, cs[i].id)
<1>1. cs \in Seq(Case) /\ i \in DOMAIN cs /\ DOMAIN cs = 1 .. Len(cs) /\ Len(cs) \in Nat
  BY DEF Sound, NearestIn
<1>2. /\ ds \in Seq(Case) /\ DOMAIN ds = DOMAIN cs
      /\ \A j \in DOMAIN cs : ds[j].id = cs[j].id /\ ds[j].family_id = cs[j].family_id
  BY <1>1, FoldedRows
<1>3. Unique(ds)
  BY <1>2 DEF Sound, Unique
<1>4. Families(ds)
  <2>1. ASSUME NEW j \in DOMAIN cs
        PROVE  \E h \in 1 .. j : ds[h].id = ds[j].family_id /\ ds[h].family_id = ds[h].id
    <3>1. PICK h \in 1 .. j : cs[h].id = cs[j].family_id /\ cs[h].family_id = cs[h].id
      BY DEF Sound, Families
    <3>2. h \in DOMAIN cs
      BY <1>1
    <3>3. QED
      BY <1>2, <3>1, <3>2
  <2>2. QED
    BY <1>2, <2>1 DEF Families
<1>5. NoneNear(ds)
  <2>1. ASSUME NEW j \in DOMAIN ds, NEW h \in 1 .. (j - 1),
               ds[j].id \notin {OldCases[n] : n \in DOMAIN OldCases}
        PROVE  CaseSim(ds[j].id, ds[h].id) < TauMerge
    <3>1. h \in DOMAIN cs /\ j \in DOMAIN cs
      BY <1>1, <1>2
    <3>2. QED
      BY <1>2, <2>1, <3>1 DEF Sound, NoneNear
  <2>2. QED
    BY <2>1 DEF NoneNear
<1>6. NearestIn(ds, i, f)
  BY <1>2 DEF NearestIn
<1>7. QED
  BY <1>1, <1>2, <1>3, <1>4, <1>5, <1>6 DEF Sound, Recognised

LEMMA FoldedLedger ==
  ASSUME NEW cs \in Seq(Case), NEW ds, NEW i \in DOMAIN cs, Unique(cs), Folded(cs, ds, i),
         NEW seen, NEW lost, Ledger(cs, seen, lost, {})
  PROVE  Ledger(ds, seen, lost, {cs[i].id})
<1>1. /\ DOMAIN ds = DOMAIN cs /\ IdsOf(ds) = IdsOf(cs)
      /\ \A j \in DOMAIN cs : ds[j].id = cs[j].id
      /\ ds[i].occurrences = cs[i].occurrences + 1
      /\ \A j \in DOMAIN cs : j # i => ds[j].occurrences = cs[j].occurrences
  BY FoldedRows
<1>2. cs[i].id \in IdsOf(ds)
  BY <1>1 DEF IdsOf
<1>3. ASSUME NEW j \in DOMAIN ds
      PROVE  /\ cs[j].occurrences = CountOf(seen, cs[j].id) + CountOf(lost, cs[j].id)
             /\ cs[j].occurrences \in Nat
  <2>1. cs[j].occurrences = CountOf(seen, cs[j].id) + CountOf(lost, cs[j].id) + 0
    BY <1>1 DEF Ledger
  <2>2. CountOf(seen, cs[j].id) \in Nat /\ CountOf(lost, cs[j].id) \in Nat
    BY DEF Ledger, IsCount, CountOf
  <2>3. QED
    BY <2>1, <2>2
<1>4. ASSUME NEW j \in DOMAIN ds
      PROVE  ds[j].occurrences = CountOf(seen, ds[j].id) + CountOf(lost, ds[j].id)
                                 + (IF ds[j].id \in {cs[i].id} THEN 1 ELSE 0)
  <2>1. CountOf(seen, cs[j].id) \in Nat /\ CountOf(lost, cs[j].id) \in Nat
    BY DEF Ledger, IsCount, CountOf
  <2>2. CASE j = i
    BY <1>1, <1>3, <2>2
  <2>3. CASE j # i
    <3>1. ds[j].id # cs[i].id
      BY <1>1, <2>3 DEF Unique
    <3>2. QED
      BY <1>1, <1>3, <2>1, <2>3, <3>1
  <2>4. QED
    BY <2>2, <2>3
<1>5. QED
  BY <1>1, <1>2, <1>4 DEF Ledger

\* One more of an id.
LEMMA OneMoreCounts ==
  ASSUME NEW counts, IsCount(counts), NEW id \in Fingerprint
  PROVE  /\ IsCount(OneMore(counts, id))
         /\ DOMAIN OneMore(counts, id) = DOMAIN counts \cup {id}
         /\ \A o : CountOf(counts, o) \in Nat
         /\ \A o : CountOf(OneMore(counts, id), o) = CountOf(counts, o) + (IF o = id THEN 1 ELSE 0)
<1>1. \A o : CountOf(counts, o) \in Nat
  BY DEF IsCount, CountOf
<1>2. DOMAIN OneMore(counts, id) = DOMAIN counts \cup {id}
  BY DEF OneMore
<1>3. \A o \in DOMAIN counts \cup {id} :
        OneMore(counts, id)[o] = CountOf(counts, o) + (IF o = id THEN 1 ELSE 0)
  BY DEF OneMore
<1>4. ASSUME NEW o
      PROVE  CountOf(OneMore(counts, id), o) = CountOf(counts, o) + (IF o = id THEN 1 ELSE 0)
  <2>1. CASE o \in DOMAIN counts \cup {id}
    BY <1>2, <1>3, <2>1 DEF CountOf
  <2>2. CASE o \notin DOMAIN counts \cup {id}
    BY <1>2, <2>2 DEF CountOf
  <2>3. QED
    BY <2>1, <2>2
<1>5. IsCount(OneMore(counts, id))
  <2>1. OneMore(counts, id) \in [DOMAIN counts \cup {id} -> Nat]
    BY <1>1 DEF OneMore
  <2>2. QED
    BY <1>2, <2>1 DEF IsCount
<1>6. QED
  BY <1>1, <1>2, <1>4, <1>5

\* The observation, or the failure that takes its place, settles the account.
LEMMA SettledLedger ==
  ASSUME NEW cs, NEW seen, NEW lost, NEW id \in Fingerprint, Ledger(cs, seen, lost, {id})
  PROVE  Ledger(cs, OneMore(seen, id), lost, {}) /\ Ledger(cs, seen, OneMore(lost, id), {})
<1>1. IsCount(seen) /\ IsCount(lost)
  BY DEF Ledger
<1>2. id \in IdsOf(cs)
  BY DEF Ledger
<1>3. ASSUME NEW i \in DOMAIN cs
      PROVE  /\ cs[i].occurrences = CountOf(OneMore(seen, id), cs[i].id) + CountOf(lost, cs[i].id) + 0
             /\ cs[i].occurrences = CountOf(seen, cs[i].id) + CountOf(OneMore(lost, id), cs[i].id) + 0
  <2>1. PICK o : o = cs[i].id
    OBVIOUS
  <2>2. PICK s \in Nat, l \in Nat : s = CountOf(seen, o) /\ l = CountOf(lost, o)
    BY <1>1, OneMoreCounts
  <2>3. cs[i].occurrences = s + l + (IF o = id THEN 1 ELSE 0)
    BY <2>1, <2>2 DEF Ledger
  <2>4. /\ CountOf(OneMore(seen, id), o) = s + (IF o = id THEN 1 ELSE 0)
        /\ CountOf(OneMore(lost, id), o) = l + (IF o = id THEN 1 ELSE 0)
    BY <1>1, <2>2, OneMoreCounts
  <2>5. QED
    BY <2>1, <2>2, <2>3, <2>4
<1>4. /\ IsCount(OneMore(seen, id)) /\ DOMAIN OneMore(seen, id) = DOMAIN seen \cup {id}
      /\ IsCount(OneMore(lost, id)) /\ DOMAIN OneMore(lost, id) = DOMAIN lost \cup {id}
  BY <1>1, OneMoreCounts
<1>5. QED
  BY <1>1, <1>2, <1>3, <1>4 DEF Ledger

-----------------------------------------------------------------------------
(* The inductive invariant. *)

\* The cases that are written and not observed yet.
Unobserved == {v.case_id : v \in pending}

\* What was registered would be recognised again, and rests on the coupling.
RegisteredWell ==
  \A v \in pending \cup verdict :
    Recognised(cases, v.incident, v.case_id) /\ v.incident.witness_kind \in {"pvc", "ebpf", "node"}

\* A pass has no verdict before its observation is written.
NoVerdictYet == pc \in {"promote", "observe"} => verdict = {}

LibraryInv ==
  /\ TypeOK /\ NoVerdictYet
  /\ Sound(cases) /\ Ledger(cases, observations, torn, Unobserved)
  /\ Sound(disk.cases) /\ Ledger(disk.cases, disk.observations, disk.torn, {})
  /\ RegisteredWell

\* The properties follow from it.
LEMMA LibraryInvImplies ==
  LibraryInv => TypeOK /\ FamilyRooted /\ LedgerAgrees /\ NoNearDuplicate /\ RecognisedAgain /\ WitnessIsCoupling
<1> SUFFICES ASSUME LibraryInv
    PROVE TypeOK /\ FamilyRooted /\ LedgerAgrees /\ NoNearDuplicate /\ RecognisedAgain /\ WitnessIsCoupling
  OBVIOUS
<1>1. TypeOK
  BY DEF LibraryInv
<1>2. FamilyRooted
  BY DEF LibraryInv, Sound, Families, FamilyRooted
<1>3. NoNearDuplicate
  BY DEF LibraryInv, Sound, NoneNear, NoNearDuplicate
<1>4. RecognisedAgain
  BY DEF LibraryInv, RegisteredWell, Recognised, NearestIn, RecognisedAgain, Nearest
<1>5. WitnessIsCoupling
  BY DEF LibraryInv, RegisteredWell, WitnessIsCoupling
<1>6. ASSUME NEW lib, Sound(lib.cases), Ledger(lib.cases, lib.observations, lib.torn, {}) PROVE Agrees(lib)
  <2>1. ASSUME NEW i \in DOMAIN lib.cases
        PROVE  lib.cases[i].occurrences =
                 CountOf(lib.observations, lib.cases[i].id) + CountOf(lib.torn, lib.cases[i].id)
    <3>1. lib.cases[i].occurrences =
            CountOf(lib.observations, lib.cases[i].id) + CountOf(lib.torn, lib.cases[i].id) + 0
      BY <1>6 DEF Ledger
    <3>2. CountOf(lib.observations, lib.cases[i].id) \in Nat /\ CountOf(lib.torn, lib.cases[i].id) \in Nat
      BY <1>6 DEF Ledger, IsCount, CountOf
    <3>3. QED
      BY <3>1, <3>2
  <2>2. Unique(lib.cases) /\ DOMAIN lib.observations \subseteq IdsOf(lib.cases)
    BY <1>6 DEF Sound, Ledger
  <2>3. QED
    BY <2>1, <2>2 DEF Agrees, Unique, IdsOf
<1>7. Agrees(disk)
  BY <1>6 DEF LibraryInv
<1>8. ASSUME pc # "observe" PROVE Agrees(View)
  <2>1. Unobserved = {}
    BY <1>1, <1>8 DEF TypeOK, Unobserved
  <2>2. View.cases = cases /\ View.observations = observations /\ View.torn = torn
    BY DEF View
  <2>3. QED
    BY <1>6, <2>1, <2>2 DEF LibraryInv
<1>9. QED
  BY <1>1, <1>2, <1>3, <1>4, <1>5, <1>7, <1>8 DEF LedgerAgrees

LEMMA LibraryInit == Init => LibraryInv
<1> SUFFICES ASSUME Init PROVE LibraryInv
  OBVIOUS
<1>1. OldCases \in Seq(Fingerprint) /\ \A i, j \in DOMAIN OldCases : OldCases[i] = OldCases[j] => i = j
  BY OldCasesAssumption
<1>2. /\ cases \in Seq(Case)
      /\ \A i \in DOMAIN cases : /\ i \in DOMAIN OldCases /\ cases[i].id = OldCases[i]
                                 /\ cases[i].family_id = cases[i].id /\ cases[i].occurrences = 1
  <2>1. CASE cases = <<>>
    BY <2>1
  <2>2. CASE cases = [i \in DOMAIN OldCases |-> OldCase(OldCases[i])]
    <3>1. DOMAIN OldCases = 1 .. Len(OldCases) /\ Len(OldCases) \in Nat
      BY <1>1
    <3>2. ASSUME NEW f \in Fingerprint
          PROVE  /\ OldCase(f) \in Case /\ OldCase(f).id = f
                 /\ OldCase(f).family_id = f /\ OldCase(f).occurrences = 1
      BY DEF OldCase, Case
    <3>3. \A i \in DOMAIN OldCases : OldCases[i] \in Fingerprint
      BY <1>1
    <3>4. DOMAIN cases = DOMAIN OldCases /\ \A i \in DOMAIN cases : cases[i] = OldCase(OldCases[i])
      BY <2>2
    <3>5. cases \in [1 .. Len(OldCases) -> Case]
      BY <2>2, <3>1, <3>2, <3>3
    <3>6. cases \in Seq(Case)
      BY <3>1, <3>5
    <3>7. QED
      BY <3>2, <3>3, <3>4, <3>6
  <2>3. QED
    BY <2>1, <2>2 DEF Init
<1>3. /\ observations = [id \in Ids |-> 1] /\ torn = <<>> /\ disk = View
      /\ pc = "idle" /\ pending = {} /\ verdict = {}
  BY DEF Init
<1>4. DOMAIN cases = 1 .. Len(cases) /\ Len(cases) \in Nat
  BY <1>2
<1>5. Ids = IdsOf(cases) /\ Ids \subseteq Fingerprint
  <2>1. ASSUME NEW i \in DOMAIN cases PROVE cases[i].id \in Fingerprint
    <3>1. cases[i] \in Case
      BY <1>2
    <3>2. QED
      BY <3>1 DEF Case
  <2>2. QED
    BY <2>1 DEF Ids, IdsOf
<1>6. IsCount(observations) /\ IsCount(torn) /\ DOMAIN observations = Ids /\ DOMAIN torn = {}
  BY <1>3, <1>5 DEF IsCount
<1>7. View.cases = cases /\ View.observations = observations /\ View.torn = torn
  BY DEF View
<1>8. TypeOK
  BY <1>2, <1>3, <1>6, <1>7 DEF TypeOK, IsLibrary
<1>9. Families(cases)
  <2>1. ASSUME NEW i \in DOMAIN cases
        PROVE  i \in 1 .. i /\ cases[i].id = cases[i].family_id /\ cases[i].family_id = cases[i].id
    BY <1>2, <1>4
  <2>2. QED
    BY <2>1 DEF Families
<1>10. Sound(cases)
  BY <1>1, <1>2, <1>9 DEF Sound, Unique, NoneNear
<1>11. Ledger(cases, observations, torn, {})
  <2>1. ASSUME NEW i \in DOMAIN cases
        PROVE  CountOf(observations, cases[i].id) = 1 /\ CountOf(torn, cases[i].id) = 0
    <3>1. cases[i].id \in Ids
      BY DEF Ids
    <3>2. QED
      BY <1>3, <1>6, <3>1 DEF CountOf
  <2>2. QED
    BY <1>2, <1>5, <1>6, <2>1 DEF Ledger
<1>12. Unobserved = {} /\ RegisteredWell /\ NoVerdictYet
  BY <1>3 DEF Unobserved, RegisteredWell, NoVerdictYet
<1>13. QED
  BY <1>3, <1>7, <1>8, <1>10, <1>11, <1>12 DEF LibraryInv

-----------------------------------------------------------------------------
(* The steps. *)

\* A variant or a novel case is opened.
LEMMA OpensCase ==
  ASSUME LibraryInv, NEW g \in Graphs, Variant(g) \/ Novel(g)
  PROVE  \E family, register :
           /\ register \in {"variant", "novel"}
           /\ Opened(cases, cases', FingerprintOf(g), family)
           /\ Register(register, FingerprintOf(g), FingerprintOf(g))
<1> DEFINE f == FingerprintOf(g)
<1>1. f \in Fingerprint
  BY FingerprintTyped
<1>2. TauMerge \in Nat /\ TauFamily \in Nat \ {0} /\ TauFamily <= TauMerge
  BY Thresholds
<1>3. cases \in Seq(Case) /\ IdsOf(cases) = Ids
  BY DEF LibraryInv, Sound, IdsOf, Ids
<1> HIDE DEF f
<1>4. CASE Variant(g)
  <2>1. PICK i \in DOMAIN cases :
          /\ Nearest(i, f)
          /\ CaseSim(f, cases[i].id) \in TauFamily..(TauMerge - 1)
          /\ cases' = Inserted(f, cases[i].family_id)
    BY <1>4 DEF Variant, f
  <2>2. ASSUME NEW j \in DOMAIN cases PROVE CaseSim(f, cases[j].id) < TauMerge
    <3>1. CaseSim(f, cases[j].id) <= CaseSim(f, cases[i].id)
      BY <2>1 DEF Nearest
    <3>2. CaseSim(f, cases[j].id) \in Nat /\ CaseSim(f, cases[i].id) \in Nat
      BY <1>1, <1>3, SimWithLibrary
    <3>3. QED
      BY <1>2, <2>1, <3>1, <3>2
  <2>3. f \notin Ids
    BY <1>1, <1>3, <2>2, FarIsNew
  <2>4. cases' = Append(cases, [id |-> f, family_id |-> cases[i].family_id, occurrences |-> 1])
    BY <2>1, <2>3 DEF Inserted
  <2>5. Opened(cases, cases', f, cases[i].family_id)
    BY <2>2, <2>4 DEF Opened
  <2>6. Register("variant", f, f)
    BY <1>4 DEF Variant, f
  <2>7. QED
    BY <2>5, <2>6 DEF f
<1>5. CASE Novel(g)
  <2>1. \A j \in DOMAIN cases : CaseSim(f, cases[j].id) < TauMerge
    <3>1. CASE NoneSimilar(f)
      BY <1>2, <3>1 DEF NoneSimilar
    <3>2. CASE \E i \in DOMAIN cases : Nearest(i, f) /\ CaseSim(f, cases[i].id) < TauFamily
      <4>1. PICK i \in DOMAIN cases : Nearest(i, f) /\ CaseSim(f, cases[i].id) < TauFamily
        BY <3>2
      <4>2. ASSUME NEW j \in DOMAIN cases PROVE CaseSim(f, cases[j].id) < TauMerge
        <5>1. CaseSim(f, cases[j].id) <= CaseSim(f, cases[i].id)
          BY <4>1 DEF Nearest
        <5>2. CaseSim(f, cases[j].id) \in Nat /\ CaseSim(f, cases[i].id) \in Nat
          BY <1>1, <1>3, SimWithLibrary
        <5>3. QED
          BY <1>2, <4>1, <5>1, <5>2
      <4>3. QED
        BY <4>2
    <3>3. QED
      BY <1>5, <3>1, <3>2 DEF Novel, f
  <2>2. f \notin Ids
    BY <1>1, <1>3, <2>1, FarIsNew
  <2>3. cases' = Append(cases, [id |-> f, family_id |-> f, occurrences |-> 1])
    BY <1>5, <2>2 DEF Novel, Inserted, f
  <2>4. Opened(cases, cases', f, f)
    BY <2>1, <2>3 DEF Opened
  <2>5. Register("novel", f, f)
    BY <1>5 DEF Novel, f
  <2>6. QED
    BY <2>4, <2>5 DEF f
<1>6. QED
  BY <1>4, <1>5

\* A case was written, for an incident that is recognised as it: the pass may go on.
LEMMA RegisterKeeps ==
  ASSUME LibraryInv, pc = "promote", NEW f \in Fingerprint, NEW id \in Fingerprint,
         NEW register \in {"recurrence", "variant", "novel"}, Register(register, f, id),
         Sound(cases'), Ledger(cases', observations, torn, {id}), Recognised(cases', f, id),
         f.witness_kind \in {"pvc", "ebpf", "node"}
  PROVE  LibraryInv'
<1>1. /\ pending' = {[case_register |-> register, incident |-> f, case_id |-> id]} /\ pc' = "observe"
      /\ UNCHANGED <<observations, torn, disk>> /\ verdict' = {} /\ verdict = {}
  BY DEF Register, LibraryInv, NoVerdictYet
<1>2. PICK v \in Verdict : pending' = {v} /\ v.incident = f /\ v.case_id = id
  <2>1. PICK v : v = [case_register |-> register, incident |-> f, case_id |-> id]
    OBVIOUS
  <2>2. v \in Verdict /\ v.incident = f /\ v.case_id = id
    BY <2>1 DEF Verdict
  <2>3. pending' = {v}
    BY <1>1, <2>1
  <2>4. QED
    BY <2>2, <2>3
<1>3. View'.cases = cases' /\ View'.observations = observations /\ View'.torn = torn
  BY <1>1 DEF View
<1>4. TypeOK'
  <2>1. IsLibrary(View')
    BY <1>3 DEF Sound, Ledger, IsLibrary
  <2>2. IsLibrary(disk)
    BY DEF LibraryInv, TypeOK
  <2>3. QED
    BY <1>1, <1>2, <2>1, <2>2 DEF TypeOK
<1>5. Unobserved' = {id}
  BY <1>2 DEF Unobserved
<1>6. RegisteredWell' /\ NoVerdictYet'
  BY <1>1, <1>2 DEF RegisteredWell, NoVerdictYet
<1>7. QED
  BY <1>1, <1>4, <1>5, <1>6 DEF LibraryInv

\* The case update or insert of a pass.
LEMMA PromoteKeeps ==
  ASSUME LibraryInv, pc = "promote", NEW g \in Graphs,
         Recurrence(g) \/ Variant(g) \/ Novel(g)
  PROVE  LibraryInv'
<1>0. PICK f : f = FingerprintOf(g)
  OBVIOUS
<1>1. f \in Fingerprint /\ f.witness_kind \in {"pvc", "ebpf", "node"}
  <2>1. f.witness_kind = DominantWitness(g) /\ Promotable(g)
    BY <1>0 DEF FingerprintOf, Recurrence, Variant, Novel
  <2>2. QED
    BY <1>0, <2>1, FingerprintTyped, CouplingDominates
<1>2. Sound(cases) /\ cases \in Seq(Case) /\ Unique(cases) /\ Ledger(cases, observations, torn, {})
  <2>1. Unobserved = {}
    BY DEF LibraryInv, TypeOK, Unobserved
  <2>2. QED
    BY <2>1 DEF LibraryInv, Sound
<1>3. CASE Variant(g) \/ Novel(g)
  <2>1. PICK family, register :
          /\ register \in {"variant", "novel"}
          /\ Opened(cases, cases', f, family)
          /\ Register(register, f, f)
    BY <1>0, <1>3, OpensCase
  <2>2. PICK cs, ds : cs = cases /\ ds = cases'
    OBVIOUS
  <2>3. Sound(ds) /\ Recognised(ds, f, f)
    BY <1>1, <1>2, <2>1, <2>2, OpenedSound
  <2>4. Ledger(ds, observations, torn, {f})
    BY <1>1, <1>2, <2>1, <2>2, OpenedLedger
  <2>5. QED
    BY <1>1, <2>1, <2>2, <2>3, <2>4, RegisterKeeps
<1>4. CASE Recurrence(g)
  <2>1. PICK i \in DOMAIN cases :
          /\ Nearest(i, f)
          /\ CaseSim(f, cases[i].id) >= TauMerge
          /\ cases' = [cases EXCEPT ![i] = [id |-> cases[i].id,
                                             family_id |-> cases[i].family_id,
                                             occurrences |-> cases[i].occurrences + 1]]
          /\ Register("recurrence", f, cases[i].id)
    BY <1>0, <1>4 DEF Recurrence
  <2>2. PICK cs, ds, id : cs = cases /\ ds = cases' /\ id = cases[i].id
    OBVIOUS
  <2>3. Folded(cs, ds, i) /\ NearestIn(cs, i, f) /\ CaseSim(f, cs[i].id) >= TauMerge
    BY <2>1, <2>2 DEF Folded, Nearest, NearestIn
  <2>4. Sound(ds) /\ Recognised(ds, f, id)
    BY <1>2, <2>2, <2>3, FoldedSound
  <2>5. Ledger(ds, observations, torn, {id})
    BY <1>2, <2>1, <2>2, <2>3, FoldedLedger
  <2>6. id \in Fingerprint /\ Register("recurrence", f, id)
    <3>1. cases[i] \in Case
      BY <1>2
    <3>2. QED
      BY <2>1, <2>2, <3>1 DEF Case
  <2>7. QED
    BY <1>1, <2>2, <2>4, <2>5, <2>6, RegisterKeeps
<1>5. QED
  BY <1>3, <1>4

\* The insert of the observation.
LEMMA ObserveKeeps == LibraryInv /\ Observe => LibraryInv'
<1> SUFFICES ASSUME LibraryInv, Observe PROVE LibraryInv'
  OBVIOUS
<1>1. PICK v \in Verdict : pending = {v} /\ observations' = OneMore(observations, v.case_id)
  BY DEF Observe, LibraryInv, TypeOK
<1>2. /\ verdict' = {v} /\ pending' = {} /\ pc' = "commit" /\ UNCHANGED <<cases, torn, disk>>
  BY <1>1 DEF Observe
<1>3. PICK id, seen : id = v.case_id /\ seen = observations /\ id \in Fingerprint
  BY DEF Verdict
<1>4. Ledger(cases, seen, torn, {id})
  <2>1. Unobserved = {id}
    BY <1>1, <1>3 DEF Unobserved
  <2>2. QED
    BY <1>3, <2>1 DEF LibraryInv
<1>5. Ledger(cases, OneMore(seen, id), torn, {})
  BY <1>3, <1>4, SettledLedger
<1>6. Ledger(cases', observations', torn', {}) /\ Unobserved' = {}
  BY <1>1, <1>2, <1>3, <1>5 DEF Unobserved
<1>7. Sound(cases')
  BY <1>2 DEF LibraryInv
<1>8. TypeOK'
  <2>1. View'.cases = cases' /\ View'.observations = observations' /\ View'.torn = torn'
    BY DEF View
  <2>2. IsLibrary(View')
    BY <1>6, <1>7, <2>1 DEF Sound, Ledger, IsLibrary
  <2>3. IsLibrary(disk')
    BY <1>2 DEF LibraryInv, TypeOK
  <2>4. QED
    BY <1>2, <2>2, <2>3 DEF TypeOK
<1>9. RegisteredWell' /\ NoVerdictYet'
  BY <1>1, <1>2 DEF LibraryInv, RegisteredWell, NoVerdictYet
<1>10. QED
  BY <1>2, <1>6, <1>7, <1>8, <1>9 DEF LibraryInv

\* update_baselines's commit and the pass's own.
LEMMA CommitKeeps ==
  ASSUME LibraryInv, pc # "observe", disk' = View, UNCHANGED <<cases, observations, torn, pending>>,
         pc' \in {"idle", "promote"}, verdict' = verdict \/ verdict' = {}, pc' = "promote" => verdict' = {}
  PROVE  LibraryInv'
<1>1. pending = {} /\ Unobserved = {} /\ Unobserved' = {}
  BY DEF LibraryInv, TypeOK, Unobserved
<1>2. /\ View.cases = cases /\ View.observations = observations /\ View.torn = torn
      /\ View' = View
  BY DEF View
<1>3. Sound(cases) /\ Ledger(cases, observations, torn, {})
  BY <1>1 DEF LibraryInv
<1>4. TypeOK'
  BY <1>1, <1>2 DEF LibraryInv, TypeOK
<1>5. RegisteredWell' /\ NoVerdictYet'
  BY DEF LibraryInv, RegisteredWell, NoVerdictYet
<1>6. disk'.cases = cases /\ disk'.observations = observations /\ disk'.torn = torn
  BY <1>2
<1>7. Sound(disk'.cases) /\ Ledger(disk'.cases, disk'.observations, disk'.torn, {})
  BY <1>3, <1>6
<1>8. Sound(cases') /\ Ledger(cases', observations', torn', Unobserved')
  BY <1>1, <1>3
<1>9. QED
  BY <1>4, <1>5, <1>7, <1>8 DEF LibraryInv

\* A pass that ends here leaves a sound library with settled counts.
LEMMA AbandonedKeeps ==
  ASSUME LibraryInv, Abandoned, Sound(cases'), Ledger(cases', observations', torn', {})
  PROVE  LibraryInv'
<1>1. pc' = "idle" /\ pending' = {} /\ verdict' = {} /\ disk' = disk
  BY DEF Abandoned
<1>2. View'.cases = cases' /\ View'.observations = observations' /\ View'.torn = torn'
  BY DEF View
<1>3. IsLibrary(View')
  BY <1>2 DEF Sound, Ledger, IsLibrary
<1>4. IsLibrary(disk')
  BY <1>1 DEF LibraryInv, TypeOK
<1>5. TypeOK'
  BY <1>1, <1>3, <1>4 DEF TypeOK
<1>6. Unobserved' = {} /\ RegisteredWell' /\ NoVerdictYet'
  BY <1>1 DEF Unobserved, RegisteredWell, NoVerdictYet
<1>7. QED
  BY <1>1, <1>5, <1>6 DEF LibraryInv

LEMMA CrashKeeps == LibraryInv /\ RolledBack /\ Abandoned => LibraryInv'
<1> SUFFICES ASSUME LibraryInv, RolledBack, Abandoned PROVE LibraryInv'
  OBVIOUS
<1>1. Sound(cases') /\ Ledger(cases', observations', torn', {})
  BY DEF LibraryInv, RolledBack
<1>2. QED
  BY <1>1, AbandonedKeeps

\* An error: the open transaction keeps what was written, a case without observation included.
LEMMA FailKeeps == LibraryInv /\ Fail => LibraryInv'
<1> SUFFICES ASSUME LibraryInv, Fail PROVE LibraryInv'
  OBVIOUS
<1>1. Abandoned
  BY DEF Fail
<1>2. CASE RolledBack
  BY <1>1, <1>2, CrashKeeps
<1>3. CASE pc # "observe" /\ UNCHANGED <<cases, observations, torn>>
  <2>1. Unobserved = {}
    BY <1>3 DEF LibraryInv, TypeOK, Unobserved
  <2>2. Sound(cases') /\ Ledger(cases', observations', torn', {})
    BY <1>3, <2>1 DEF LibraryInv
  <2>3. QED
    BY <1>1, <2>2, AbandonedKeeps
<1>4. CASE /\ pc = "observe" /\ \E v \in pending : torn' = OneMore(torn, v.case_id)
           /\ UNCHANGED <<cases, observations>>
  <2>1. PICK v \in Verdict : pending = {v} /\ torn' = OneMore(torn, v.case_id)
    BY <1>4 DEF LibraryInv, TypeOK
  <2>2. PICK id, lost : id = v.case_id /\ lost = torn /\ id \in Fingerprint
    BY DEF Verdict
  <2>3. Unobserved = {id}
    BY <2>1, <2>2 DEF Unobserved
  <2>4. Ledger(cases, observations, lost, {id})
    BY <2>2, <2>3 DEF LibraryInv
  <2>5. Ledger(cases, observations, OneMore(lost, id), {})
    BY <2>2, <2>4, SettledLedger
  <2>6. Sound(cases') /\ Ledger(cases', observations', torn', {})
    BY <1>4, <2>1, <2>2, <2>5 DEF LibraryInv
  <2>7. QED
    BY <1>1, <2>6, AbandonedKeeps
<1>5. QED
  BY <1>2, <1>3, <1>4 DEF Fail

LEMMA StutterKeeps == LibraryInv /\ UNCHANGED vars => LibraryInv'
<1> SUFFICES ASSUME LibraryInv, UNCHANGED vars PROVE LibraryInv'
  OBVIOUS
<1>1. UNCHANGED <<cases, observations, torn, disk, pc, pending, verdict>>
  BY DEF vars
<1>2. View' = View /\ Unobserved' = Unobserved
  BY <1>1 DEF View, Unobserved
<1>3. TypeOK' /\ NoVerdictYet' /\ RegisteredWell'
  BY <1>1, <1>2 DEF LibraryInv, TypeOK, NoVerdictYet, RegisteredWell
<1>4. QED
  BY <1>1, <1>2, <1>3 DEF LibraryInv

LEMMA NotPromotedKeeps ==
  ASSUME LibraryInv, pc = "promote", NEW g, NotPromoted(g)
  PROVE  LibraryInv'
<1>1. pc' = "commit" /\ UNCHANGED <<cases, observations, torn, disk, pending, verdict>>
  BY DEF NotPromoted
<1>2. View' = View /\ Unobserved' = Unobserved
  BY <1>1 DEF View, Unobserved
<1>3. TypeOK' /\ NoVerdictYet' /\ RegisteredWell'
  BY <1>1, <1>2 DEF LibraryInv, TypeOK, NoVerdictYet, RegisteredWell
<1>4. QED
  BY <1>1, <1>2, <1>3 DEF LibraryInv

LEMMA LibraryStep == LibraryInv /\ [Next]_vars => LibraryInv'
<1> SUFFICES ASSUME LibraryInv, [Next]_vars PROVE LibraryInv'
  OBVIOUS
<1>1. CASE BeginPass
  BY <1>1, CommitKeeps DEF BeginPass
<1>2. ASSUME pc = "promote", NEW g \in Graphs, Pass(g) PROVE LibraryInv'
  BY <1>2, NotPromotedKeeps, PromoteKeeps DEF Pass
<1>3. CASE Observe
  BY <1>3, ObserveKeeps
<1>4. CASE Commit
  BY <1>4, CommitKeeps DEF Commit
<1>5. CASE Fail
  BY <1>5, FailKeeps
<1>6. CASE Crash
  BY <1>6, CrashKeeps DEF Crash
<1>7. CASE UNCHANGED vars
  BY <1>7, StutterKeeps
<1>8. QED
  BY <1>1, <1>2, <1>3, <1>4, <1>5, <1>6, <1>7 DEF Next

LEMMA LibraryInvariant == Spec => []LibraryInv
BY LibraryInit, LibraryStep, PTL DEF Spec

-----------------------------------------------------------------------------
(* The theorems. *)

\* Rows, counts and verdicts keep their shape, on the connection and on disk.
THEOREM TypeCorrect == Spec => []TypeOK
BY LibraryInvariant, LibraryInvImplies, PTL

\* Every case's family is headed by a case that was there no later, however the cases came in.
THEOREM FamilyCorrect == Spec => []FamilyRooted
BY LibraryInvariant, LibraryInvImplies, PTL

\* In every committed database and between passes, ids are unique, no observation is without
\* its case, and occurrences are what case_observations counts and the passes that failed
\* between the two writes: no other failure, rollback or crash makes them differ.
THEOREM LedgerCorrect == Spec => []LedgerAgrees
BY LibraryInvariant, LibraryInvImplies, PTL

\* No case is opened next to one it should have been folded into.
THEOREM DuplicateCorrect == Spec => []NoNearDuplicate
BY LibraryInvariant, LibraryInvImplies, PTL

\* The incident just registered would be recognised as the case it was registered under.
THEOREM RecognitionCorrect == Spec => []RecognisedAgain
BY LibraryInvariant, LibraryInvImplies, PTL

\* The dominant witness of a promoted incident is the coupling its edges rest on, never co-pressure.
THEOREM WitnessCorrect == Spec => []WitnessIsCoupling
BY LibraryInvariant, LibraryInvImplies, PTL
=============================================================================
