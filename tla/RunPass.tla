------------------------------- MODULE RunPass -------------------------------
(***************************************************************************)
(* run_pass of engine/pipeline.py with the acceptance gate (engine/gate.py)*)
(* and the choice of lag and direction (engine/lagcorr.py): one pass over  *)
(* the vectors of one signal, from onsets to the accepted edges.           *)
(*                                                                         *)
(* Pods are numbered in the order of their names.  A pod's vector is the   *)
(* z-scores of its residuals; whether it clears its baseline is an input   *)
(* (CorrelationService has the baselines); correlations over the slice are *)
(* chosen when they are computed, in tenths, from lag profiles.  Classes,  *)
(* severities and saturation caps are left out.                            *)
(***************************************************************************)
EXTENDS Detectors, FiniteSets

CONSTANTS
  Inputs,         \* the arguments of a pass: [z, deviates, writes, act, kinds]
  PairProfiles,   \* [fwd, rev]: lag profiles of two signals, in both directions
  SourceProfiles, \* lag profiles of a write signal leading a stall
  Window          \* samples in the correlation slice

VARIABLES
  at,     \* the part of run_pass that comes next
  in,     \* the arguments
  raw,    \* raw_onsets
  centre, \* center_idx as a set of at most one index
  onset,  \* onset_s, in samples
  wonset, \* write_onset_s, in samples
  slice,  \* the first index of the correlation slice
  found,  \* every edge that was accepted, before the deduplication
  edges   \* the edges the pass returns

vars == <<at, in, raw, centre, onset, wonset, slice, found, edges>>

DtS == 5
RPeak == 6
RSrc == 5
RAdj == 4
TemporalTolS == 10
COUPLING_KINDS == {"ebpf", "pvc"}
SOURCE_COUPLING_KINDS == {"ebpf", "pvc", "node"}

Pods(i) == DOMAIN i.z
Samples(i) == Len(i.z[Min(Pods(i))])

\* build_inputs resamples every vector to one grid, no shorter than ANALYSIS_WINDOW; how much a pod
\* writes is the largest absolute value of its write vector, or 0 without one.
ASSUME InputsAssumption ==
  /\ Window \in Nat \ {0}
  /\ \A i \in Inputs :
       /\ i.z \in Seq(Seq(Int)) /\ i.z # <<>>
       /\ i.writes \in [DOMAIN i.writes -> Seq(Int)] /\ DOMAIN i.writes \subseteq Pods(i)
       /\ i.deviates \in [Pods(i) -> BOOLEAN]
       /\ i.act \in [Pods(i) -> Nat]
       /\ Window <= Samples(i)
       /\ \A p \in Pods(i) : Len(i.z[p]) = Samples(i)
       /\ \A p \in DOMAIN i.writes : Len(i.writes[p]) = Samples(i)

\* The correlations, at most one, at the lags that fit the slice.
IsProfile(profile) ==
  /\ DOMAIN profile \subseteq Nat /\ DOMAIN profile # {}
  /\ profile \in [DOMAIN profile -> -10 .. 10]

ASSUME ProfilesAssumption ==
  /\ \A profiles \in PairProfiles : IsProfile(profiles.fwd) /\ IsProfile(profiles.rev)
  /\ \A profile \in SourceProfiles : IsProfile(profile)

Edge(src, dst, r, lag, kind) == [src |-> src, dst |-> dst, r |-> r, lag |-> lag, kind |-> kind]

Ends(e) == {e.src, e.dst}

\* Witness.couples and Witness.couples_source; kinds are of unordered pairs.
Couples(i, p, q) == i.kinds[{p, q}] \cap COUPLING_KINDS # {}
CouplesSource(i, p, q) == i.kinds[{p, q}] \cap SOURCE_COUPLING_KINDS # {}

-----------------------------------------------------------------------------
(* Onsets and the event. *)

\* max(..., key=...): the first of the best.
FirstBest(S, Key(_)) == Min({x \in S : \A y \in S : Key(y) <= Key(x)})

Strongest(onsets) == FirstOf({o \in onsets : \A x \in onsets : Abs(x.z) <= Abs(o.z)})

Closest(onsets, c) == {o \in onsets : \A x \in onsets : Abs(o.idx - Min(c)) <= Abs(x.idx - Min(c))}

Nearest(onsets, c) == FirstOf(IF c = {} THEN onsets ELSE Closest(onsets, c)).idx

\* The pods that have strong onsets and deviate from their baseline.
RawOnsets(i) ==
  [p \in {q \in Pods(i) : StrongOnsets(i.z[q]) # {} /\ i.deviates[q]} |-> StrongOnsets(i.z[p])]

\* Wrong: an isolated noisy pod may give the centre.
CentreAnyPod(i, onsets) == DOMAIN onsets

\* The pods that may give the centre: coupled to another anomalous pod, if any is.
CentrePods(i, onsets) ==
  LET coupled == {p \in DOMAIN onsets : \E q \in DOMAIN onsets \ {p} : Couples(i, p, q)}
  IN IF coupled = {} THEN DOMAIN onsets ELSE coupled

CentreOf(i, onsets) ==
  LET pods == CentrePods(i, onsets)
  IN IF pods = {} THEN {}
     ELSE {Strongest(onsets[FirstBest(pods, LAMBDA p : Abs(Strongest(onsets[p]).z))]).idx}

SliceStart(i, c) ==
  IF c = {} THEN 1
  ELSE Max({1, Min({Min(c) - Window \div 3, Samples(i) - Window + 1})})

-----------------------------------------------------------------------------
(* The gate. *)

LagsS(profile) == DOMAIN profile

Peak(profile, Key(_)) == FirstBest(LagsS(profile), LAMBDA l : Key(profile[l]))

\* adjacent_support: r stays elevated at a configured lag next to the peak.
AdjacentSupport(profile, lag) ==
  LET below == {l \in LagsS(profile) : l < lag}
      above == {l \in LagsS(profile) : l > lag}
  IN \E l \in (IF below = {} THEN {} ELSE {Max(below)}) \cup (IF above = {} THEN {} ELSE {Min(above)}) :
       Abs(profile[l]) >= RAdj

\* best_directed: the stronger direction, the first one on a tie.
BestDirected(p, q, profiles) ==
  LET fwd == Peak(profiles.fwd, Abs)
      rev == Peak(profiles.rev, Abs)
  IN IF Abs(profiles.rev[rev]) > Abs(profiles.fwd[fwd])
     THEN [src |-> q, dst |-> p, lag |-> rev, profile |-> profiles.rev]
     ELSE [src |-> p, dst |-> q, lag |-> fwd, profile |-> profiles.fwd]

InOrder(from, to) == from * DtS <= to * DtS + TemporalTolS

\* accept_edge, as the set of at most one edge.
AcceptEdge(i, d, ons) ==
  LET r == d.profile[d.lag]
      both == {d.src, d.dst} \subseteq DOMAIN ons
  IN {e \in {Edge(d.src, d.dst, r, d.lag, "stat")} :
        /\ r >= RPeak
        /\ AdjacentSupport(d.profile, d.lag)
        /\ Couples(i, d.src, d.dst)
        /\ both => InOrder(ons[d.src], ons[d.dst])
        /\ both /\ d.lag > 0 => (ons[d.dst] - ons[d.src]) * DtS <= 4 * d.lag + TemporalTolS}

\* Wrong: a writer that started after the victim stalled is accused too.
WriterEdgeAnyTime(w, v, profile) ==
  LET lag == Peak(profile, LAMBDA r : r)
  IN {e \in {Edge(w, v, profile[lag], lag, "write")} :
        profile[lag] >= RSrc /\ AdjacentSupport(profile, lag)}

\* _writer_edge, as the set of at most one edge; v is a finding, so both onsets exist.
WriterEdge(w, v, profile) ==
  LET lag == Peak(profile, LAMBDA r : r)
  IN {e \in {Edge(w, v, profile[lag], lag, "write")} :
        /\ profile[lag] >= RSrc
        /\ AdjacentSupport(profile, lag)
        /\ InOrder(wonset[w], onset[v])}

\* Wrong: equals may accuse each other.
OutWritesOrTies(w, v) == in.act[w] >= in.act[v]

OutWrites(w, v) == in.act[w] > in.act[v]

\* The pairs for which the pass tries a source edge.
SourcePairs ==
  {wv \in (DOMAIN wonset) \X (DOMAIN onset) :
     wv[1] # wv[2] /\ CouplesSource(in, wv[1], wv[2]) /\ OutWrites(wv[1], wv[2])}

\* _edge_pref: source evidence first, then the stronger correlation.
EdgePref(e) == <<IF e.kind = "write" THEN 1 ELSE 0, Abs(e.r)>>

Preferred(e, f) ==
  \/ EdgePref(e)[1] > EdgePref(f)[1]
  \/ EdgePref(e)[1] = EdgePref(f)[1] /\ EdgePref(e)[2] > EdgePref(f)[2]

\* Equals keep the earlier one of the list, which is in the order of the sources.
Earlier(e, f) == ~Preferred(f, e) /\ e.src < f.src

\* Wrong: a stall edge and a source edge of one pair both stay.
KeepAll(es) == es

Deduplicated(es) ==
  {e \in es : \A f \in es \ {e} : Ends(e) = Ends(f) => Preferred(e, f) \/ Earlier(e, f)}

-----------------------------------------------------------------------------
(* The pass. *)

NoOnsets == <<>>

Init ==
  /\ at = "idle"
  /\ in \in Inputs
  /\ raw = NoOnsets
  /\ centre = {}
  /\ onset = NoOnsets
  /\ wonset = NoOnsets
  /\ slice = 1
  /\ found = {}
  /\ edges = {}

\* The onsets of every pod, over the whole ring, that its baseline lets through.
Detect ==
  /\ at = "idle"
  /\ raw' = RawOnsets(in)
  /\ at' = "locate"
  /\ UNCHANGED <<in, centre, onset, wonset, slice, found, edges>>

\* The centre of the event, every pod's onset nearest to it, and the slice.
Locate ==
  /\ at = "locate"
  /\ centre' = CentreOf(in, raw)
  /\ onset' = [p \in DOMAIN raw |-> Nearest(raw[p], centre')]
  /\ wonset' = [p \in {q \in DOMAIN in.writes : StrongOnsets(in.writes[q]) # {}} |->
                  Nearest(StrongOnsets(in.writes[p]), centre')]
  /\ slice' = SliceStart(in, centre')
  /\ at' = "pairs"
  /\ UNCHANGED <<in, raw, found, edges>>

\* Bare edges between coupled pods, once anything is anomalous.
PairUp ==
  /\ at = "pairs"
  /\ LET pairs == {pq \in Pods(in) \X Pods(in) :
                     pq[1] < pq[2] /\ Couples(in, pq[1], pq[2]) /\ DOMAIN onset # {}}
     IN \E prof \in [pairs -> PairProfiles] :
          found' = UNION {AcceptEdge(in, BestDirected(pq[1], pq[2], prof[pq]), onset) : pq \in pairs}
  /\ at' = "sources"
  /\ UNCHANGED <<in, raw, centre, onset, wonset, slice, edges>>

\* Source edges from writers to stalled findings, then one edge per pair.
Attribute ==
  /\ at = "sources"
  /\ in.writes # NoOnsets
  /\ \E prof \in [SourcePairs -> SourceProfiles] :
       found' = found \cup UNION {WriterEdge(wv[1], wv[2], prof[wv]) : wv \in SourcePairs}
  /\ edges' = Deduplicated(found')
  /\ at' = "done"
  /\ UNCHANGED <<in, raw, centre, onset, wonset, slice>>

\* A signal without a source signal, or whose source signal has no vector.
NoSources ==
  /\ at = "sources"
  /\ in.writes = NoOnsets
  /\ edges' = found
  /\ at' = "done"
  /\ UNCHANGED <<in, raw, centre, onset, wonset, slice, found>>

Next == Detect \/ Locate \/ PairUp \/ Attribute \/ NoSources

Spec == Init /\ [][Next]_vars

-----------------------------------------------------------------------------
(* Properties. *)

Done == at = "done"

\* The type invariant: edges join two pods with vectors, findings have an onset in the ring.
TypeOK ==
  /\ in \in Inputs
  /\ at \in {"idle", "locate", "pairs", "sources", "done"}
  /\ centre \subseteq 1 .. Samples(in)
  /\ at # "locate" => onset \in [DOMAIN raw -> 1 .. Samples(in)]
  /\ wonset \in [DOMAIN wonset -> 1 .. Samples(in)] /\ DOMAIN wonset \subseteq DOMAIN in.writes
  /\ edges \subseteq found
  /\ \A e \in found : e.src \in Pods(in) /\ e.dst \in Pods(in) /\ e.src # e.dst

\* The recursive sums with their resets alarm exactly where a shift is strong (cusum_onsets).
DetectorExact == at = "idle" => \A p \in Pods(in) : AlarmsAreShifts(in.z[p])

\* When all coupled anomalous pods were hit hardest at one moment, the event is there: each of
\* them is dated by it, whatever isolated pods do and however many other storms the ring still
\* holds, and the slice that is correlated lies in the ring with the event inside (run_pass).
OneEvent ==
  at \in {"pairs", "sources", "done"} =>
    LET hit == {p \in DOMAIN raw : \E q \in DOMAIN raw \ {p} : Couples(in, p, q)}
    IN \A t \in {Strongest(raw[p]).idx : p \in hit} :
         (\A p \in hit : Strongest(raw[p]).idx = t) =>
           /\ \A p \in hit : onset[p] = t
           /\ slice <= t /\ t < slice + Window /\ slice + Window - 1 <= Samples(in)

\* No effect before its cause, up to the tolerance: a writer of a source edge did not start to
\* write after its victim stalled; of a bare edge's ends, when both are findings, the source did
\* not stall after the other.
CauseFirst(e) ==
  /\ e.kind = "write" => InOrder(wonset[e.src], onset[e.dst])
  /\ e.kind = "stat" /\ Ends(e) \subseteq DOMAIN onset => InOrder(onset[e.src], onset[e.dst])

\* What the memory may rely on: nothing anomalous, no edge; an edge joins pods that share a
\* resource, a bare one never only the node; one edge per pair; no effect before its cause
\* (accept_edge, _writer_edge and the deduplication).
EdgesFitMemory ==
  Done =>
    /\ DOMAIN onset = {} => edges = {}
    /\ \A e \in edges :
         /\ IF e.kind = "write" THEN CouplesSource(in, e.src, e.dst) ELSE Couples(in, e.src, e.dst)
         /\ CauseFirst(e)
         /\ \A f \in edges \ {e} : Ends(f) # Ends(e)

\* Source edges never run in a circle, so there is always a first aggressor, and source evidence
\* for a pair decides its direction over any stall correlation (run_pass's source attribution).
SourcesLead ==
  Done =>
    LET sources == {e \in edges : e.kind = "write"}
    IN /\ {e \in found : e.kind = "write"} \subseteq sources
       /\ \A S \in (SUBSET Pods(in)) \ {{}} :
            \E p \in S : \A e \in sources : e.src = p => e.dst \notin S
=============================================================================
