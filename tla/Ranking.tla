------------------------------- MODULE Ranking ------------------------------
(***************************************************************************)
(* The verdict over the merged graph: correlation/engine/merge.py joins    *)
(* the graphs of the signals, correlation/engine/ranking.py ranks the root *)
(* causes by explanatory reach and predicts the blast radius of the first. *)
(*                                                                         *)
(* One behaviour is one call of merge_graphs.  A step of a walk is a turn  *)
(* of one of its two loops: an entry is taken off the frontier, or one of  *)
(* its arcs followed.  Impacts are in units of 1/Scale, weights in tenths; *)
(* scores are doubled, so that the penalty stays exact.                    *)
(***************************************************************************)
EXTENDS Integers, Sequences, FiniteSetsExt

CONSTANTS
  Pods, Signals,
  EdgeLists,   \* the edges of the signals' graphs, joined in the order of the signals
  FindingSets, \* the pods of the signals' findings
  Onset,       \* of each pod, when its finding set in
  NoSignal

Scale == 1000000  \* exact for three hops
CUT == 150000
Never == 1000000  \* onset_s.get(pod, inf)

Edge == [src : Pods, dst : Pods, weight : 1..10, lag : Nat, signal : Signals]

ASSUME PodsAssumption == IsFiniteSet(Pods)

ASSUME EdgeListsAssumption ==
  \A es \in EdgeLists : es \in Seq(Edge) /\ \A i \in DOMAIN es : es[i].src # es[i].dst

ASSUME FindingSetsAssumption == FindingSets \subseteq SUBSET Pods

ASSUME OnsetAssumption == Onset \in [Pods -> 0..(Never - 1)]

ASSUME NoSignalAssumption == NoSignal \notin Signals

VARIABLES
  edges, findings, \* what merge_graphs was given
  graph,    \* the DiGraph: its arcs, each at the place of its first insertion
  pc,       \* "merge", "rank", "walk", "spread" or "done"
  todo,     \* the candidates still to score, the one being walked from among them
  frontier, \* the queue of the walk, headed by the entry whose arcs it follows
  arcs,     \* the places of the arcs still to follow from the entry at its head
  impact,   \* of the pods the walk has reached, the best impact so far
  scores, ranking, blast, active

vars == <<edges, findings, graph, pc, todo, frontier, arcs, impact, scores, ranking, blast, active>>

Entry == [node : Pods, w : 1..Scale, eta : Nat]

Victim == [pod : Pods, impact : CUT..Scale, eta_s : Nat]

NoImpact == [p \in {} |-> 0]

-----------------------------------------------------------------------------
(* The graph. *)

Alike(e, f) == e.src = f.src /\ e.dst = f.dst

\* DiGraph.add_edge, edge by edge: an arc that is there keeps its place and takes the new data.
build_graph(es) ==
  LET first == {i \in DOMAIN es : \A j \in 1..(i - 1) : ~Alike(es[j], es[i])}
  IN [i \in first |-> es[Max({j \in DOMAIN es : Alike(es[j], es[i])})]]

Nodes(g) == UNION {{g[i].src, g[i].dst} : i \in DOMAIN g}

\* Where a node comes in g.nodes, the order of insertion.
Place(p) == Min({2 * i : i \in {k \in DOMAIN graph : graph[k].src = p}}
                  \cup {2 * i + 1 : i \in {k \in DOMAIN graph : graph[k].dst = p}})

\* g.out_edges, none to follow when the frontier is empty.
OutArcs(queue) == {i \in DOMAIN graph : queue # <<>> /\ graph[i].src = Head(queue).node}

\* in_degree > 0: something upstream explains the node.
Explained(p) == \E i \in DOMAIN graph : graph[i].dst = p

OnGraph == findings \cap Nodes(graph)

\* rank_root_causes: without a seed on the graph every node is one.
Seeds == IF OnGraph = {} THEN Nodes(graph) ELSE OnGraph

\* The candidates come in the order of the nodes.
Candidate(ps) == CHOOSE p \in ps : \A q \in ps : Place(p) <= Place(q)

\* One hop: the weight of the arc and the decay of 0.7.
Hop(w, e) == (w * e.weight * 7) \div 100

-----------------------------------------------------------------------------
(* What a walk adds up to. *)

ImpactOn(p) == IF p \in DOMAIN impact THEN impact[p] ELSE 0

Put(reached, p, w) == [q \in DOMAIN reached \cup {p} |-> IF q = p THEN w ELSE reached[q]]

Seen == {Head(ranking)} \cup {blast[i].pod : i \in DOMAIN blast}

Start(p) == [node |-> p, w |-> Scale, eta |-> 0]

\* The impact of the walk on the symptoms.
SeedImpact == MapThenSumSet(LAMBDA s : impact[s], Seeds \cap DOMAIN impact)

\* What a candidate explains of the symptoms, itself if nothing upstream does;
\* halved (not doubled) if something does.
Score(p) ==
  LET explain == SeedImpact + (IF p \in Seeds /\ ~Explained(p) THEN Scale ELSE 0)
  IN IF Explained(p) THEN explain ELSE 2 * explain

OnsetOf(p) == IF p \in findings THEN Onset[p] ELSE Never

\* The key of the stable sort: score, onset, order of insertion.
RanksBefore(p, q) ==
  \/ scores[p] > scores[q]
  \/ scores[p] = scores[q] /\ OnsetOf(p) < OnsetOf(q)
  \/ scores[p] = scores[q] /\ OnsetOf(p) = OnsetOf(q) /\ Place(p) < Place(q)

\* The ranks of r are taken, and whoever is not above a rank comes after it.
IsRanking(r) ==
  /\ IsInjective(r)
  /\ \A i \in DOMAIN r : \A q \in DOMAIN scores \ {r[j] : j \in 1..i} : RanksBefore(r[i], q)

\* By impact, rounded to three decimals as listed; the sort is stable.
ListedBefore(i, j) ==
  LET Rounded(k) == (blast[k].impact + 500) \div 1000
  IN Rounded(i) > Rounded(j) \/ (Rounded(i) = Rounded(j) /\ i < j)

IsByImpact(order) ==
  IsInjective(order) /\ \A i, j \in DOMAIN order : i < j => ListedBefore(order[i], order[j])

\* The signal of the first edge the root owns.
ActiveSignal(root) ==
  LET owned == {i \in DOMAIN edges : edges[i].src = root}
  IN IF owned = {} THEN NoSignal ELSE edges[Min(owned)].signal

-----------------------------------------------------------------------------

Init ==
  /\ edges \in EdgeLists
  /\ findings \in FindingSets
  /\ graph = <<>>
  /\ pc = "merge"
  /\ todo = {}
  /\ frontier = <<>>
  /\ arcs = {}
  /\ impact = NoImpact
  /\ scores = NoImpact
  /\ ranking = <<>>
  /\ blast = <<>>
  /\ active = NoSignal

\* Wrong: findings on no arc do not keep the ranking from starting.
MergeUnguarded ==
  /\ pc = "merge"
  /\ graph' = build_graph(edges)
  /\ todo' = Nodes(graph')
  /\ pc' = IF findings # {} /\ edges # <<>> THEN "rank" ELSE "done"
  /\ UNCHANGED <<edges, findings, frontier, arcs, impact, scores, ranking, blast, active>>

\* merge_graphs up to the ranking, which starts only if a finding is on the graph.
Merge ==
  /\ pc = "merge"
  /\ graph' = build_graph(edges)
  /\ todo' = Nodes(graph')
  /\ pc' = IF findings \cap Nodes(graph') # {} THEN "rank" ELSE "done"
  /\ UNCHANGED <<edges, findings, frontier, arcs, impact, scores, ranking, blast, active>>

\* The start of _forward_impact, from the next candidate.
Explore ==
  /\ pc = "rank"
  /\ todo # {}
  /\ frontier' = <<Start(Candidate(todo))>>
  /\ arcs' = OutArcs(frontier')
  /\ impact' = NoImpact
  /\ pc' = "walk"
  /\ UNCHANGED <<edges, findings, graph, todo, scores, ranking, blast, active>>

\* A walk is done with the entry at the head of its frontier.
NextEntry ==
  /\ pc \in {"walk", "spread"}
  /\ frontier # <<>>
  /\ arcs = {}
  /\ frontier' = Tail(frontier)
  /\ arcs' = OutArcs(frontier')
  /\ UNCHANGED <<edges, findings, graph, pc, todo, impact, scores, ranking, blast, active>>

\* Wrong: the first way to a pod settles its impact.
RelaxFirst ==
  /\ pc = "walk"
  /\ arcs # {}
  /\ LET e == graph[Min(arcs)]
         w == Hop(Head(frontier).w, e)
     IN IF w < CUT \/ e.dst \in DOMAIN impact
        THEN UNCHANGED <<impact, frontier>>
        ELSE /\ impact' = Put(impact, e.dst, w)
             /\ frontier' = Append(frontier, [node |-> e.dst, w |-> w, eta |-> 0])
  /\ arcs' = arcs \ {Min(arcs)}
  /\ UNCHANGED <<edges, findings, graph, pc, todo, scores, ranking, blast, active>>

\* _forward_impact: an arc counts if it improves on what its end is known to suffer.
Relax ==
  /\ pc = "walk"
  /\ arcs # {}
  /\ LET e == graph[Min(arcs)]
         w == Hop(Head(frontier).w, e)
     IN IF w < CUT \/ w <= ImpactOn(e.dst)
        THEN UNCHANGED <<impact, frontier>>
        ELSE /\ impact' = Put(impact, e.dst, w)
             /\ frontier' = Append(frontier, [node |-> e.dst, w |-> w, eta |-> 0])
  /\ arcs' = arcs \ {Min(arcs)}
  /\ UNCHANGED <<edges, findings, graph, pc, todo, scores, ranking, blast, active>>

ScoreCandidate ==
  /\ pc = "walk"
  /\ frontier = <<>>
  /\ LET p == Candidate(todo)
     IN /\ scores' = IF Score(p) > 0 THEN Put(scores, p, Score(p)) ELSE scores
        /\ todo' = todo \ {p}
  /\ pc' = "rank"
  /\ UNCHANGED <<edges, findings, graph, frontier, arcs, impact, ranking, blast, active>>

\* The first three, and the start of blast_radius from the first.
Rank ==
  /\ pc = "rank"
  /\ todo = {}
  /\ ranking' \in [1..Min({3, Cardinality(DOMAIN scores)}) -> DOMAIN scores]
  /\ IsRanking(ranking')
  /\ frontier' = IF ranking' = <<>> THEN <<>> ELSE <<Start(Head(ranking'))>>
  /\ arcs' = OutArcs(frontier')
  /\ pc' = IF ranking' = <<>> THEN "done" ELSE "spread"
  /\ UNCHANGED <<edges, findings, graph, todo, impact, scores, blast, active>>

\* Wrong: the ETA is the lag of the last hop.
InfectLastHop ==
  /\ pc = "spread"
  /\ arcs # {}
  /\ LET e == graph[Min(arcs)]
         w == Hop(Head(frontier).w, e)
     IN IF e.dst \in Seen \/ w < CUT
        THEN UNCHANGED <<blast, frontier>>
        ELSE /\ blast' = Append(blast, [pod |-> e.dst, impact |-> w, eta_s |-> e.lag])
             /\ frontier' = Append(frontier, [node |-> e.dst, w |-> w, eta |-> e.lag])
  /\ arcs' = arcs \ {Min(arcs)}
  /\ UNCHANGED <<edges, findings, graph, pc, todo, impact, scores, ranking, active>>

\* blast_radius: the first way to a pod settles its impact and its ETA.
Infect ==
  /\ pc = "spread"
  /\ arcs # {}
  /\ LET e == graph[Min(arcs)]
         w == Hop(Head(frontier).w, e)
         eta == Head(frontier).eta + e.lag
     IN IF e.dst \in Seen \/ w < CUT
        THEN UNCHANGED <<blast, frontier>>
        ELSE /\ blast' = Append(blast, [pod |-> e.dst, impact |-> w, eta_s |-> eta])
             /\ frontier' = Append(frontier, [node |-> e.dst, w |-> w, eta |-> eta])
  /\ arcs' = arcs \ {Min(arcs)}
  /\ UNCHANGED <<edges, findings, graph, pc, todo, impact, scores, ranking, active>>

\* The end of blast_radius, and the label merge_graphs takes from the root's edges.
Serve ==
  /\ pc = "spread"
  /\ frontier = <<>>
  /\ \E order \in [DOMAIN blast -> DOMAIN blast] :
       /\ IsByImpact(order)
       /\ blast' = [k \in DOMAIN blast |-> blast[order[k]]]
  /\ active' = ActiveSignal(Head(ranking))
  /\ pc' = "done"
  /\ UNCHANGED <<edges, findings, graph, todo, frontier, arcs, impact, scores, ranking>>

Next ==
  Merge \/ Explore \/ NextEntry \/ Relax \/ ScoreCandidate \/ Rank \/ Infect \/ Serve

Spec == Init /\ [][Next]_vars

-----------------------------------------------------------------------------
(* The reference: impact along a given route. *)

\* The ways to leave a pod without visiting another twice.
Routes ==
  {r \in UNION {[1..n -> Pods] : n \in 1..Cardinality(Pods)} : IsInjective(r)}

\* What is left of x at the pod next to it: nothing if an arc is missing.
Step(g, x, p) ==
  LET between == {i \in DOMAIN g : g[i].src = x.node /\ g[i].dst = p}
      e == g[CHOOSE i \in between : TRUE]
  IN IF between = {} THEN [node |-> p, w |-> 0, eta |-> 0]
     ELSE [node |-> p, w |-> Hop(x.w, e), eta |-> x.eta + e.lag]

\* What arrives at each stop of a route.
Along(g, root, route) ==
  LET x[n \in 0..Len(route)] == IF n = 0 THEN Start(root) ELSE Step(g, x[n - 1], route[n])
  IN x

Arrivals(root) == {x \in {Along(graph, root, r)[Len(r)] : r \in Routes} : x.w >= CUT}

BestImpact(root) ==
  [p \in {x.node : x \in Arrivals(root)} |-> Max({x.w : x \in {y \in Arrivals(root) : y.node = p}})]

-----------------------------------------------------------------------------
(* Properties. *)

\* The type invariant of merge_graphs' locals.
TypeOK ==
  /\ edges \in EdgeLists
  /\ findings \in FindingSets
  /\ DOMAIN graph \subseteq Nat /\ graph \in [DOMAIN graph -> Edge]
  /\ pc \in {"merge", "rank", "walk", "spread", "done"}
  /\ todo \subseteq Pods
  /\ frontier \in Seq(Entry)
  /\ arcs \subseteq OutArcs(frontier)
  /\ DOMAIN impact \subseteq Pods /\ impact \in [DOMAIN impact -> CUT..Scale]
  /\ DOMAIN scores \subseteq Pods /\ scores \in [DOMAIN scores -> Nat \ {0}]
  /\ ranking \in Seq(Pods)
  /\ blast \in Seq(Victim)
  /\ active \in Signals \cup {NoSignal}

\* _forward_impact finds the best impact: whatever the order of the arcs, and through
\* cycles, a walk ends with exactly the pods some route reaches above the cut, each
\* with the greatest impact of all routes to it.
ImpactIsBest == pc = "walk" /\ frontier = <<>> => impact = BestImpact(Candidate(todo))

\* A prediction belongs to one route: each pod of blast_radius is listed once, is not the
\* root, and has the impact and the ETA of one and the same route from the root.
BlastIsOneRoute ==
  \A i \in DOMAIN blast :
    /\ blast[i].pod # Head(ranking)
    /\ \A j \in DOMAIN blast : blast[i].pod = blast[j].pod => i = j
    /\ \E x \in Arrivals(Head(ranking)) :
         x.node = blast[i].pod /\ x.w = blast[i].impact /\ x.eta = blast[i].eta_s

\* No blame without a symptom on the graph: the first of the ranking has a finding
\* itself, or its impact reaches a pod with one, so a steady backbone is never blamed
\* for a finding of another signal that no edge touches; and the verdict can be labelled,
\* as the first of the ranking owns an edge whose signal is surfaced (merge_graphs).
RootAccountable ==
  /\ ranking # <<>> =>
       Head(ranking) \in findings \/ DOMAIN BestImpact(Head(ranking)) \cap findings # {}
  /\ pc = "done" /\ ranking # <<>> => active # NoSignal
=============================================================================
