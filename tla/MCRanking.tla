------------------------------ MODULE MCRanking -----------------------------
(* Graphs of one signal among four pods, and of two signals among three.       *)
EXTENDS Ranking

MCOnset == [p \in Pods |-> 10 * (p % 3)]

\* An edge of a pair in either direction, weak or strong; the lag tells routes apart.
Directed(p, q, s) ==
  {[src |-> a, dst |-> b, weight |-> w, lag |-> 5 * (a * a + b), signal |-> s] :
     <<a, b>> \in {<<p, q>>, <<q, p>>}, w \in {5, 10}}

\* run_pass and _render give one edge per pair at most.
Pairs(n) == {<<p, q>> \in (1..n) \X (1..n) : p < q}

\* The graphs of one signal with k edges, listed by pair.
GraphsOf(n, k, s) ==
  {es \in [1..k -> UNION {Directed(pq[1], pq[2], s) : pq \in Pairs(n)}]   :
     \A i \in 1..(k - 1) :
       LET a == {es[i].src, es[i].dst}
           b == {es[i + 1].src, es[i + 1].dst}
       IN \/ Min(a) < Min(b)
          \/ Min(a) = Min(b) /\ Max(a) < Max(b)}

OneSignal == UNION {GraphsOf(4, k, "psi_io") : k \in 1..3}

\* A pair may be coupled twice, the same way or both ways.
TwoSignals ==
  {a \o b : a \in GraphsOf(3, 2, "psi_io"), b \in GraphsOf(3, 1, "psi_cpu")}

Rings ==
  {<<[src |-> 1, dst |-> 2, weight |-> w, lag |-> 5, signal |-> "psi_io"],
     [src |-> 2, dst |-> 3, weight |-> 10, lag |-> 10, signal |-> "psi_io"],
     [src |-> 3, dst |-> 4, weight |-> 10, lag |-> 20, signal |-> "psi_io"],
     [src |-> 1, dst |-> 4, weight |-> v, lag |-> 40, signal |-> "psi_io"]>> \o back :
     w \in {5, 10}, v \in {3, 5, 10},
     back \in {<<>>, <<[src |-> 4, dst |-> 1, weight |-> 10, lag |-> 80, signal |-> "psi_cpu"]>>}}

\* A seeded edge, too weak to carry any impact.
Seeded == {<<[src |-> 3, dst |-> 4, weight |-> 2, lag |-> 0, signal |-> "psi_io"]>>}

Lists == {<<>>} \cup Seeded \cup OneSignal \cup TwoSignals \cup Rings

MCFindings == {{}, {3}, {4}, {1, 2}, {1, 2, 3, 4}}
=============================================================================
