-------------------------- MODULE CorrelationService --------------------------
(***************************************************************************)
(* loop() of correlation/service.py: fetch the window, then run one pass   *)
(* per signal, each against that signal's own memory, and put the merged   *)
(* graph up for GET /graph under the lock.  Any exception ends the pass    *)
(* and puts an error up; signals that were already observed stay           *)
(* committed.                                                              *)
(*                                                                         *)
(* One pod stands for the workloads of a signal.  Its edges in the memory  *)
(* are one number, the heat: EdgeMemory has the rows, with what a failed   *)
(* pass leaves uncommitted; RunPass has onsets and edges, here one choice. *)
(* The order of the two fetches is left out, for /events only seeds the    *)
(* ranking of a pass, which neither the gate nor the merged graph uses.    *)
(***************************************************************************)
EXTENDS Baseline, Functions

CONSTANTS
  SIGNALS,   \* the signals in the order of the loop, as a sequence
  Levels,    \* the levels a signal's pod may show
  RingSize,  \* samples of the grid, n in build_inputs
  MinPoints, \* fewer samples than this are no vector
  MaxHeat    \* bound of the heat

ASSUME ServiceAssumption == RingSize \in Nat /\ MinPoints \in 1 .. RingSize /\ MaxHeat \in Nat

Signals == Range(SIGNALS)

\* ENGINE_SIGNALS names each signal once.
ASSUME SignalsAssumption ==
  /\ SIGNALS \in Seq(Signals)
  /\ \A i, j \in DOMAIN SIGNALS : SIGNALS[i] = SIGNALS[j] => i = j

ASSUME LevelsAssumption == \A s \in Signals : Levels[s] \subseteq Nat

Views == [heat : 0 .. MaxHeat, finding : BOOLEAN]

VARIABLES
  ring,     \* the samples of the signal's current pod, newest last
  base,     \* its row of the table baselines
  heat,     \* its committed edge memory
  todo,     \* the signals this pass still has to do; all of SIGNALS before the fetch
  at,       \* "sleep" before the fetch, "pass" until the merge
  rendered, \* the rendered graphs of this pass
  graph     \* _graph

vars == <<ring, base, heat, todo, at, rendered, graph>>

Graph(status, views) == [status |-> status, views |-> views]

\* The graph of __main__: bootstrap_graph of every memory, merged.
Bootstrap(h) == Graph("boot", [s \in Signals |-> [heat |-> h[s], finding |-> FALSE]])

-----------------------------------------------------------------------------
(* Inputs of a pass. *)

\* One more poll of the aggregator.
Appended(samples, level) ==
  LET all == Append(samples, level)
  IN IF Len(all) > RingSize THEN Tail(all) ELSE all

\* build_inputs puts the samples on the grid, and a gap is no activity; too few are no vector.
Vectors(s) ==
  IF Len(ring[s]) < MinPoints THEN {}
  ELSE {[i \in 1 .. RingSize - Len(ring[s]) |-> 0] \o ring[s]}

\* Where a changepoint detector may see anything at all.
MayAlarm(vec) == \E i \in 2 .. RingSize : vec[i] # vec[i - 1]

-----------------------------------------------------------------------------
(* The loop. *)

NextPass == todo' = SIGNALS /\ at' = "sleep" /\ rendered' = <<>>

Init ==
  /\ ring = [s \in Signals |-> <<>>]
  /\ base = [s \in Signals |-> {}]
  /\ heat = [s \in Signals |-> 0]
  /\ todo = SIGNALS /\ at = "sleep" /\ rendered = <<>>
  /\ graph = Bootstrap(heat)

\* /window: every pod has one more sample since the last pass, or was replaced by a new one.
Fetch ==
  /\ at = "sleep"
  /\ ring' \in [Signals -> UNION {{<<>>} \cup {Appended(ring[s], level) : level \in Levels[s]} : s \in Signals}]
  /\ \A s \in Signals : ring'[s] = <<>> \/ \E level \in Levels[s] : ring'[s] = Appended(ring[s], level)
  /\ at' = "pass"
  /\ UNCHANGED <<base, heat, todo, rendered, graph>>

\* A signal without a vector is left out of this pass and of its graph.
Skip ==
  /\ at = "pass" /\ todo # <<>> /\ Vectors(Head(todo)) = {}
  /\ todo' = Tail(todo)
  /\ UNCHANGED <<ring, base, heat, at, rendered, graph>>

\* Wrong: the heat has no upper bound.
HeatedUncapped(h, edge) == IF edge THEN h + 1 ELSE Max({h - 1, 0})

Heated(h, edge) == IF edge THEN Min({h + 1, MaxHeat}) ELSE Max({h - 1, 0})

\* Wrong: the memory is rendered before the pass has changed it.
ShownBefore(before, after) == before

\* What _render shows of the memory: the rows as the pass leaves them.
Shown(before, after) == after

\* rendered[sig] = ...
Put(views, s, view) == [x \in DOMAIN views \cup {s} |-> IF x = s THEN view ELSE views[x]]

\* One signal: the thresholds are read, the pass runs, observe learns, commits and renders.
PassSignal ==
  /\ at = "pass" /\ todo # <<>>
  /\ LET s == Head(todo)
     IN \E vec \in Vectors(s) :
          /\ \E finding \in {FALSE, MayAlarm(vec) /\ Deviates(base[s], vec)} : \E edge \in {FALSE, finding} :
               LET after == Heated(heat[s], edge)
               IN /\ heat' = [heat EXCEPT ![s] = after]
                  /\ rendered' = Put(rendered, s, [heat |-> Shown(heat[s], after), finding |-> finding])
          /\ base' = [base EXCEPT ![s] = Learned(@, vec)]
  /\ todo' = Tail(todo)
  /\ UNCHANGED <<ring, at, graph>>

\* merge_graphs, and the swap under the lock.
Publish ==
  /\ at = "pass" /\ todo = <<>>
  /\ graph' = Graph("ok", rendered)
  /\ NextPass
  /\ UNCHANGED <<ring, base, heat>>

\* Wrong: the last graph stays up when a pass fails.
OnErrorKeep == graph

OnError == Graph("error", <<>>)

\* A fetch, the parsing, a pass, a statement or the merge raises; the baselines of
\* the signal it was at may be committed already.
Fail ==
  /\ \/ UNCHANGED base
     \/ /\ at = "pass" /\ todo # <<>>
        /\ \E vec \in Vectors(Head(todo)) : base' = [base EXCEPT ![Head(todo)] = Learned(@, vec)]
  /\ graph' = OnError
  /\ NextPass
  /\ UNCHANGED <<ring, heat>>

\* The process dies and starts again from its databases.
Restart ==
  /\ graph' = Bootstrap(heat)
  /\ NextPass
  /\ UNCHANGED <<ring, base, heat>>

Loop == Fetch \/ Skip \/ PassSignal \/ Publish \/ Fail

Next == Loop \/ Restart

\* The loop never blocks for good: fetches time out and exceptions are caught.
Spec == Init /\ [][Next]_vars /\ WF_vars(Loop)

-----------------------------------------------------------------------------
(* Properties. *)

Findings == {s \in DOMAIN graph.views : graph.views[s].finding}

\* The type invariant.
TypeOK ==
  /\ DOMAIN ring = Signals
  /\ \A s \in Signals : ring[s] \in Seq(Levels[s]) /\ Len(ring[s]) <= RingSize
  /\ base \in [Signals -> SUBSET [median : Nat, mad : Nat, n : 1 .. MinN]]
  /\ \A s \in Signals : \A r, q \in base[s] : r = q
  /\ heat \in [Signals -> 0 .. MaxHeat]
  /\ DOMAIN rendered \subseteq Signals /\ rendered \in [DOMAIN rendered -> Views]
  /\ DOMAIN graph.views \subseteq Signals /\ graph.views \in [DOMAIN graph.views -> Views]
  /\ todo \in Seq(Signals)
  /\ graph.status \in {"boot", "ok", "error"} /\ at \in {"sleep", "pass"}

\* GET /graph is a snapshot of committed memory: no half pass, nothing that a crash could take
\* back, no signal older than the others (loop, observe and the swap of _graph).
Served == INSTANCE ServedGraph WITH Heats <- 0 .. MaxHeat, memory <- heat, served <- graph

ServedSpec == Served!Spec

\* A workload whose signal never leaves the band above zero is never an incident, while its
\* baseline is young, old, dragged down by the zeros before a restart, or learned around a failure.
QuietIsSilent ==
  \A s \in Findings : \E level \in Levels[s] : level > DevK * MadFloor

\* pipeline.py says that normal I/O, which stays within the pod's band, is no finding.
SteadyIsSilent ==
  \A s \in Findings : \E low, high \in Levels[s] : high - low > DevK * MadFloor

\* One pass never lifts a mature baseline above the band it had, so a storm is not made normal;
\* and what is mature stays mature (update_baselines).
BandKept ==
  [][\A s \in Signals : Mature(base[s]) =>
       \E r \in base[s], r2 \in base'[s] : r2.median <= Band(r) /\ Mature(base'[s])]_vars

\* When the storms are over for good the findings go, whatever was learned meanwhile and
\* even if every further pass fails (the recency gate and the error graph).
StormEnds ==
  <>[](\A s \in Signals : \A i \in DOMAIN ring[s] : ring[s][i] <= DevK * MadFloor) => <>[](Findings = {})
=============================================================================
