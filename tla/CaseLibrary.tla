----------------------------- MODULE CaseLibrary ----------------------------
(***************************************************************************)
(* The case library of one signal: GraphMemory._promote_case of            *)
(* correlation/engine/state.py.  A pass whose verdict is rooted in a real  *)
(* source becomes an incident; the incident is folded into the nearest     *)
(* stored case, or opens a new one, as a variant of the nearest case's     *)
(* family or as the first of its own.                                      *)
(*                                                                         *)
(* The case and its observation are two statements of the transaction that *)
(* observe commits at the end of the pass.  An exception leaves what was   *)
(* written in the open transaction, for the next pass to commit: its first *)
(* commit is that of update_baselines.                                     *)
(*                                                                         *)
(* A case's id is the hash of its fingerprint, so the fingerprint stands   *)
(* for it.  Rows are scanned in the order they were inserted.  Similarity  *)
(* is computed exactly in units of 1/SimScale; lead times are left out.    *)
(***************************************************************************)
EXTENDS Integers, Sequences, FiniteSets

CONSTANTS
  Workloads,
  Graphs,      \* what run_pass may hand over: root, edges, blast radius
  OldCases,    \* fingerprints in a pre-v4 database, whose cases have no family
  TauMerge, TauFamily,
  MaxCases,       \* bound on the rows of cases
  MaxOccurrences  \* bound on a case's occurrences

\* Weights of _case_sim (victims .4, stressors .2, motif .4) times 60, which every
\* union of at most six elements divides.
SimScale == 6000

EvidenceKinds == {"stat", "psi", "pvc", "ebpf", "node", "write", "temporal"}

Edge == [src : Workloads, dst : Workloads, evidence : SUBSET EvidenceKinds]

Graph == [root : Workloads, edges : SUBSET Edge, blast : SUBSET Workloads]

Witnesses == EvidenceKinds \ {"stat", "temporal", "write"}

NoWitness == "none"

Fingerprint ==
  [stressor : Workloads, victims : SUBSET Workloads, motif : SUBSET (Workloads \X Workloads),
   witness_kind : Witnesses \cup {NoWitness}]

\* A pass hands over a list of edges.
ASSUME GraphsAssumption ==
  /\ IsFiniteSet(Workloads)
  /\ Graphs \subseteq Graph
  /\ \A g \in Graphs : IsFiniteSet(g.edges)

\* The witnesses of a signal: every edge rests on its one coupling (_witness_for and the gate),
\* and an edge with source evidence never carries co-pressure (_writer_edge).
ASSUME CouplingAssumption ==
  \E w \in {"pvc", "node"} : \A g \in Graphs : \A e \in g.edges :
    w \in e.evidence /\ ("write" \in e.evidence => "psi" \notin e.evidence)

\* The id is the primary key of cases.
ASSUME OldCasesAssumption ==
  /\ OldCases \in Seq(Fingerprint)
  /\ \A i, j \in DOMAIN OldCases : OldCases[i] = OldCases[j] => i = j

ASSUME TauAssumption ==
  /\ TauFamily \in 1..SimScale
  /\ TauMerge \in TauFamily..SimScale
  /\ MaxCases \in Nat
  /\ MaxOccurrences \in Nat \ {0}

VARIABLES
  cases,        \* the rows of cases, in insertion order, as the connection sees them
  observations, \* of each case id, its number of rows in case_observations
  torn,         \* history: of each case id, the passes that failed between the two writes
  disk,         \* these three as they were last committed
  pc,           \* where the pass is: "idle", "promote", "observe", "commit"
  pending,      \* between the two writes: how the pass is being registered
  verdict       \* how the pass was registered: {} before, or if nothing was promoted

vars == <<cases, observations, torn, disk, pc, pending, verdict>>

Case == [id : Fingerprint, family_id : Fingerprint, occurrences : Nat \ {0}]

Verdict == [case_register : {"recurrence", "variant", "novel"},
            incident : Fingerprint, case_id : Fingerprint]

-----------------------------------------------------------------------------
(* What a pass is an instance of. *)

\* Wrong: any outgoing edge will do.
RootedInAnyEdge(g) == \E e \in g.edges : e.src = g.root

\* The ranked root must own an outgoing edge with source evidence.
SourceRooted(g) == \E e \in g.edges : e.src = g.root /\ "write" \in e.evidence

Victims(g) ==
  IF g.blast \ {g.root} # {} THEN g.blast \ {g.root}
  ELSE {e.dst : e \in g.edges} \ {g.root}

Promotable(g) == SourceRooted(g) /\ Victims(g) # {}

Votes(g, w) == Cardinality({e \in g.edges : w \in e.evidence})

\* The names of the physical witnesses in alphabetical order.
WitnessRank(w) ==
  CASE w = "ebpf" -> 1 [] w = "node" -> 2 [] w = "psi" -> 3 [] w = "pvc" -> 4

\* _dominant_witness: most edges, then first by name.
DominantWitness(g) ==
  LET voted == {w \in Witnesses : Votes(g, w) > 0}
  IN IF voted = {} THEN NoWitness
     ELSE CHOOSE w \in voted : \A v \in voted \ {w} :
            \/ Votes(g, w) > Votes(g, v)
            \/ Votes(g, w) = Votes(g, v) /\ WitnessRank(w) < WitnessRank(v)

FingerprintOf(g) ==
  [stressor |-> g.root, victims |-> Victims(g),
   motif |-> {<<e.src, e.dst>> : e \in g.edges}, witness_kind |-> DominantWitness(g)]

\* _jaccard, in sixtieths.
Jaccard60(a, b) ==
  IF a \cup b = {} THEN 60
  ELSE (60 * Cardinality(a \cap b)) \div Cardinality(a \cup b)

\* _case_sim: gated by the witness, then a weighted overlap.
CaseSim(f, h) ==
  IF f.witness_kind # h.witness_kind THEN 0
  ELSE 40 * Jaccard60(f.victims, h.victims)
       + 20 * (IF f.stressor = h.stressor THEN 60 ELSE 0)
       + 40 * Jaccard60(f.motif, h.motif)

\* Wrong: the scan stops at the first similar row.
FirstSimilar(i, f) ==
  /\ i \in DOMAIN cases
  /\ CaseSim(f, cases[i].id) > 0
  /\ \A j \in 1..(i - 1) : CaseSim(f, cases[j].id) = 0

\* The row the scan ends on: the first of those with the greatest positive similarity.
Nearest(i, f) ==
  /\ i \in DOMAIN cases
  /\ CaseSim(f, cases[i].id) > 0
  /\ \A j \in DOMAIN cases :
       /\ CaseSim(f, cases[j].id) <= CaseSim(f, cases[i].id)
       /\ j < i => CaseSim(f, cases[j].id) < CaseSim(f, cases[i].id)

NoneSimilar(f) == \A i \in DOMAIN cases : CaseSim(f, cases[i].id) = 0

-----------------------------------------------------------------------------

Ids == {cases[i].id : i \in DOMAIN cases}

\* INSERT OR IGNORE: a row with the id already there stays as it is.
Inserted(f, family) ==
  IF f \in Ids THEN cases
  ELSE Append(cases, [id |-> f, family_id |-> family, occurrences |-> 1])

\* How often an id is counted, and one more of it.
CountOf(counts, id) == IF id \in DOMAIN counts THEN counts[id] ELSE 0

OneMore(counts, id) ==
  [o \in DOMAIN counts \cup {id} |-> CountOf(counts, o) + (IF o = id THEN 1 ELSE 0)]

\* Wrong: every statement commits by itself.
RegisterCommits(register, f, id) ==
  /\ pending' = {[case_register |-> register, incident |-> f, case_id |-> id]}
  /\ pc' = "observe"
  /\ disk' = [disk EXCEPT !.cases = cases']
  /\ UNCHANGED <<observations, torn, verdict>>

\* The case is written, its observation comes next.
Register(register, f, id) ==
  /\ pending' = {[case_register |-> register, incident |-> f, case_id |-> id]}
  /\ pc' = "observe"
  /\ UNCHANGED <<observations, torn, disk, verdict>>

OldCase(f) == [id |-> f, family_id |-> f, occurrences |-> 1]

View == [cases |-> cases, observations |-> observations, torn |-> torn]

\* A new database, or a pre-v4 one: _migrate makes every case its own family.
Init ==
  /\ cases \in {<<>>, [i \in DOMAIN OldCases |-> OldCase(OldCases[i])]}
  /\ observations = [id \in Ids |-> 1]
  /\ torn = <<>>
  /\ disk = View
  /\ pc = "idle"
  /\ pending = {}
  /\ verdict = {}

\* observe: update_baselines commits first, and with it what a failed pass left behind.
BeginPass ==
  /\ pc = "idle"
  /\ disk' = View
  /\ pc' = "promote"
  /\ verdict' = {}
  /\ UNCHANGED <<cases, observations, torn, pending>>

\* _promote_case returns early: nothing is written.
NotPromoted(g) ==
  /\ ~Promotable(g)
  /\ pc' = "commit"
  /\ UNCHANGED <<cases, observations, torn, disk, pending, verdict>>

\* Wrong: the occurrence is booked under the incident's own id.
RecurrenceUnderOwnId(g) ==
  LET f == FingerprintOf(g)
  IN /\ Promotable(g)
     /\ \E i \in DOMAIN cases :
          /\ Nearest(i, f)
          /\ CaseSim(f, cases[i].id) >= TauMerge
          /\ cases[i].occurrences < MaxOccurrences
          /\ cases' = [cases EXCEPT ![i].occurrences = @ + 1]
          /\ Register("recurrence", f, f)

\* Wrong: folds at the family threshold.
RecurrenceAtFamily(g) ==
  LET f == FingerprintOf(g)
  IN /\ Promotable(g)
     /\ \E i \in DOMAIN cases :
          /\ Nearest(i, f)
          /\ CaseSim(f, cases[i].id) >= TauFamily
          /\ cases[i].occurrences < MaxOccurrences
          /\ cases' = [cases EXCEPT ![i].occurrences = @ + 1]
          /\ Register("recurrence", f, cases[i].id)

\* The UPDATE of the nearest case.
Recurrence(g) ==
  LET f == FingerprintOf(g)
  IN /\ Promotable(g)
     /\ \E i \in DOMAIN cases :
          /\ Nearest(i, f)
          /\ CaseSim(f, cases[i].id) >= TauMerge
          /\ cases[i].occurrences < MaxOccurrences
          /\ cases' = [cases EXCEPT ![i] = [id |-> cases[i].id,
                                             family_id |-> cases[i].family_id,
                                             occurrences |-> cases[i].occurrences + 1]]
          /\ Register("recurrence", f, cases[i].id)

\* Wrong: joins the nearest case instead of its family.
VariantOfNearest(g) ==
  LET f == FingerprintOf(g)
  IN /\ Promotable(g)
     /\ Len(cases) < MaxCases
     /\ \E i \in DOMAIN cases :
          /\ Nearest(i, f)
          /\ CaseSim(f, cases[i].id) \in TauFamily..(TauMerge - 1)
          /\ cases' = Inserted(f, cases[i].id)
     /\ Register("variant", f, f)

\* The INSERT of a case of the nearest case's family.
Variant(g) ==
  LET f == FingerprintOf(g)
  IN /\ Promotable(g)
     /\ Len(cases) < MaxCases
     /\ \E i \in DOMAIN cases :
          /\ Nearest(i, f)
          /\ CaseSim(f, cases[i].id) \in TauFamily..(TauMerge - 1)
          /\ cases' = Inserted(f, cases[i].family_id)
     /\ Register("variant", f, f)

\* The INSERT of the first case of a family.
Novel(g) ==
  LET f == FingerprintOf(g)
  IN /\ Promotable(g)
     /\ Len(cases) < MaxCases
     /\ \/ NoneSimilar(f)
        \/ \E i \in DOMAIN cases : Nearest(i, f) /\ CaseSim(f, cases[i].id) < TauFamily
     /\ cases' = Inserted(f, f)
     /\ Register("novel", f, f)

\* The INSERT of the observation; _promote_case returns.
Observe ==
  /\ pc = "observe"
  /\ \E v \in pending : observations' = OneMore(observations, v.case_id)
  /\ verdict' = pending
  /\ pending' = {}
  /\ pc' = "commit"
  /\ UNCHANGED <<cases, torn, disk>>

Commit ==
  /\ pc = "commit"
  /\ disk' = View
  /\ pc' = "idle"
  /\ UNCHANGED <<cases, observations, torn, pending, verdict>>

\* The transaction and what it wrote are gone.
RolledBack ==
  /\ cases' = disk.cases
  /\ observations' = disk.observations
  /\ torn' = disk.torn

\* The pass failed, loop() goes on with the next one.
Abandoned == pc' = "idle" /\ pending' = {} /\ verdict' = {} /\ UNCHANGED disk

\* An exception in the pass.  The transaction stays open with what was written, be it a
\* case without its observation, unless SQLite rolled it back itself (disk full, I/O).
Fail ==
  /\ pc # "idle"
  /\ \/ /\ pc = "observe"
        /\ \E v \in pending : torn' = OneMore(torn, v.case_id)
        /\ UNCHANGED <<cases, observations>>
     \/ pc # "observe" /\ UNCHANGED <<cases, observations, torn>>
     \/ RolledBack
  /\ Abandoned

\* The process dies and is started again: GraphMemory reopens the file.
Crash == RolledBack /\ Abandoned

Pass(g) == NotPromoted(g) \/ Recurrence(g) \/ Variant(g) \/ Novel(g)

Next ==
  \/ BeginPass
  \/ pc = "promote" /\ \E g \in Graphs : Pass(g)
  \/ Observe
  \/ Commit
  \/ Fail
  \/ Crash

Spec == Init /\ [][Next]_vars

-----------------------------------------------------------------------------
(* Properties. *)

IsCount(counts) == DOMAIN counts \subseteq Fingerprint /\ counts \in [DOMAIN counts -> Nat]

IsLibrary(lib) == lib.cases \in Seq(Case) /\ IsCount(lib.observations) /\ IsCount(lib.torn)

\* The type invariant: rows, counts and verdicts of the right shape on the connection and
\* on disk, and a pass that is being registered between its two writes only (_promote_case).
TypeOK ==
  /\ IsLibrary(View)
  /\ IsLibrary(disk)
  /\ pc \in {"idle", "promote", "observe", "commit"}
  /\ pending \subseteq Verdict /\ verdict \subseteq Verdict
  /\ pending # {} <=> pc = "observe"
  /\ \A v, w \in pending : v = w

\* A case's family is the id of a case that heads its own family and was there no later:
\* copying the nearest row's family_id never builds a chain or a dangling family.
FamilyRooted ==
  \A i \in DOMAIN cases : \E h \in 1..i :
    cases[h].id = cases[i].family_id /\ cases[h].family_id = cases[h].id

\* What case_observations tells of the library: ids are unique, every observation has its
\* case, and a case has occurred as often as it was observed or a pass failed in between.
Agrees(lib) ==
  LET cs == lib.cases
  IN /\ \A i, j \in DOMAIN cs : cs[i].id = cs[j].id => i = j
     /\ DOMAIN lib.observations \subseteq {cs[i].id : i \in DOMAIN cs}
     /\ \A i \in DOMAIN cs :
          cs[i].occurrences = CountOf(lib.observations, cs[i].id) + CountOf(lib.torn, cs[i].id)

\* The ledger agrees with the library, in every committed database and between any two
\* passes: whatever fails and is committed by a later pass, rolled back or lost in a crash,
\* they differ by the passes that failed between the two writes and by nothing else (no
\* INSERT OR IGNORE swallows an incident), and no observation is without its case.
LedgerAgrees == Agrees(disk) /\ (pc # "observe" => Agrees(View))

\* No case is opened next to one it should have been folded into: whatever the order of
\* the incidents, a case added to the library is less than tau_merge like each older one.
NoNearDuplicate ==
  \A j \in DOMAIN cases :
    cases[j].id \in {OldCases[n] : n \in DOMAIN OldCases}
    \/ \A i \in 1..(j - 1) : CaseSim(cases[j].id, cases[i].id) < TauMerge

\* Recognition is stable: the incident just registered, seen again at once, is a
\* recurrence of the very case it was registered under.
RecognisedAgain ==
  \A v \in verdict : \E i \in DOMAIN cases :
    /\ Nearest(i, v.incident)
    /\ CaseSim(v.incident, cases[i].id) >= TauMerge
    /\ cases[i].id = v.case_id

\* The witness gate never splits what one signal sees: every case promoted from the
\* graphs the pipeline builds has the coupling its edges rest on as dominant witness,
\* although the co-pressure tag "psi" is counted too and precedes "pvc" by name.
WitnessIsCoupling == \A v \in verdict : v.incident.witness_kind \in {"pvc", "ebpf", "node"}

=============================================================================
