---------------------------- MODULE RankingProofs ----------------------------
(***************************************************************************)
(* Proofs about Ranking for any finite set of pods, any graphs and any     *)
(* findings: a walk ends with the best impacts of all routes, a predicted  *)
(* victim has one route, and a root is accountable.                        *)
(***************************************************************************)
EXTENDS Ranking, FiniteSetTheorems, TLAPS

-----------------------------------------------------------------------------
(* Numbers. *)

\* Every set of natural numbers has a least element.
LEMMA LeastElement ==
  ASSUME NEW T \in SUBSET Nat, T # {}
  PROVE  Min(T) \in T /\ \A k \in T : Min(T) <= k
<1> DEFINE R == {ss \in Nat \X Nat : ss[1] < ss[2]}
<1>1. IsWellFoundedOn(R, Nat)
  BY NatLessThanWellFounded DEF OpToRel
<1>2. PICK m \in T : \A k \in T : ~(<<k, m>> \in R)
  <2> HIDE DEF R
  <2> QED BY <1>1, WFMin
<1>3. ASSUME NEW k \in T PROVE m <= k
  <2>1. k \in Nat /\ m \in Nat /\ ~(<<k, m>> \in R)
    BY <1>2
  <2>2. <<k, m>> \in R <=> k < m
    BY <2>1
  <2>3. QED
    BY <2>1, <2>2
<1>4. QED
  BY <1>3 DEF Min

\* Every set of natural numbers with a bound has a greatest element.
LEMMA GreatestElement ==
  ASSUME NEW n \in Nat, NEW T \in SUBSET (0..n), T # {}
  PROVE  Max(T) \in T /\ \A k \in T : k <= Max(T)
<1> DEFINE U == {n - k : k \in T}
<1>1. U \in SUBSET Nat /\ U # {}
  OBVIOUS
<1>2. Min(U) \in U /\ \A u \in U : Min(U) <= u
  BY <1>1, LeastElement
<1>3. PICK m \in T : Min(U) = n - m
  BY <1>2
<1>4. ASSUME NEW k \in T PROVE k <= m
  <2>1. n - k \in U
    OBVIOUS
  <2>2. n - m <= n - k
    BY <1>2, <1>3, <2>1
  <2>3. QED
    BY <2>2
<1>5. QED
  <2> HIDE DEF U
  <2>1. \E x \in T : \A y \in T : x >= y
    BY <1>4
  <2>2. QED
    BY <2>1 DEF Max

\* A set with 0 that is closed under successors holds every natural number.
LEMMA SetInduction ==
  ASSUME NEW S, 0 \in S, \A n \in Nat : n \in S => n + 1 \in S
  PROVE  \A n \in Nat : n \in S
<1> SUFFICES ASSUME Nat \ S # {} PROVE FALSE
  OBVIOUS
<1>1. PICK m \in Nat \ S : \A k \in Nat \ S : m <= k
  BY LeastElement
<1>2. m - 1 \in Nat /\ m - 1 \in S
  BY <1>1
<1>3. (m - 1) + 1 \in S
  BY <1>2
<1>4. QED
  BY <1>1, <1>3

LEMMA Units ==
  /\ Scale \in Nat /\ CUT \in Nat /\ 0 < CUT /\ CUT <= Scale
BY SMT DEF Scale, CUT

\* A hop never adds impact, and what is left grows with what was there.
LEMMA HopFacts ==
  ASSUME NEW e \in Edge, NEW w \in Nat
  PROVE  /\ Hop(w, e) \in Nat /\ Hop(w, e) <= w
         /\ \A v \in Nat : v <= w => Hop(v, e) <= Hop(w, e)
<1>1. PICK k \in 1..10 : k = e.weight
  BY DEF Edge
<1>2. k \in {1, 2, 3, 4, 5, 6, 7, 8, 9, 10}
  OBVIOUS
<1>3. (w * k * 7) \div 100 \in Nat /\ (w * k * 7) \div 100 <= w
  <2>1. \A m \in Int : m >= 0 => m \div 100 \in Nat /\ 100 * (m \div 100) <= m
    OBVIOUS
  <2>2. w * k * 7 \in Int /\ w * k * 7 >= 0 /\ w * k * 7 <= 100 * w
    BY <1>2
  <2>3. QED
    BY <2>1, <2>2
<1>4. ASSUME NEW v \in Nat, v <= w PROVE (v * k * 7) \div 100 <= (w * k * 7) \div 100
  <2>1. \A m, n \in Int : m <= n => m \div 100 <= n \div 100
    OBVIOUS
  <2>2. v * k * 7 \in Int /\ w * k * 7 \in Int /\ v * k * 7 <= w * k * 7
    BY <1>2, <1>4
  <2>3. QED
    BY <2>1, <2>2
<1>5. QED
  BY <1>1, <1>3, <1>4 DEF Hop

-----------------------------------------------------------------------------
(* Graphs. *)

\* A DiGraph: no pair of nodes has two arcs the same way.
IsGraph(g) ==
  /\ DOMAIN g \subseteq Nat
  /\ g \in [DOMAIN g -> Edge]
  /\ \A i, j \in DOMAIN g : Alike(g[i], g[j]) => i = j

\* build_graph keeps one arc per pair and way, each of them an edge of the list.
LEMMA BuiltGraph ==
  ASSUME NEW es \in Seq(Edge)
  PROVE  /\ IsGraph(build_graph(es))
         /\ \A i \in DOMAIN build_graph(es) : \E j \in DOMAIN es : build_graph(es)[i] = es[j]
<1> DEFINE first == {i \in DOMAIN es : \A j \in 1..(i - 1) : ~Alike(es[j], es[i])}
           last(i) == Max({j \in DOMAIN es : Alike(es[j], es[i])})
           g == build_graph(es)
<1>1. PICK n \in Nat : n = Len(es) /\ DOMAIN es = 1..n
  OBVIOUS
<1>2. g = [i \in first |-> es[last(i)]]
  BY DEF build_graph
<1>3. ASSUME NEW i \in first
      PROVE  last(i) \in DOMAIN es /\ Alike(es[last(i)], es[i]) /\ es[last(i)] \in Edge
  <2> DEFINE same == {j \in DOMAIN es : Alike(es[j], es[i])}
  <2>1. i \in same /\ same \in SUBSET (0..n)
    BY <1>1 DEF Alike
  <2>2. Max(same) \in same
    <3> HIDE DEF same
    <3> QED BY <2>1, GreatestElement
  <2>3. QED
    BY <2>2
<1> HIDE DEF last, g
<1>4. DOMAIN g = first /\ \A i \in first : g[i] = es[last(i)] /\ g[i] \in Edge /\ Alike(g[i], es[i])
  BY <1>2, <1>3
<1>5. ASSUME NEW i \in first, NEW j \in first, Alike(g[i], g[j]), i < j PROVE FALSE
  <2>1. Alike(es[i], es[j])
    BY <1>4, <1>5 DEF Alike
  <2>2. i \in 1..(j - 1)
    BY <1>1, <1>5
  <2>3. QED
    BY <2>1, <2>2
<1>6. ASSUME NEW i \in first, NEW j \in first, Alike(g[i], g[j]) PROVE i = j
  <2>1. i \in Nat /\ j \in Nat /\ Alike(g[j], g[i])
    BY <1>1, <1>6 DEF Alike
  <2>2. ~(i < j) /\ ~(j < i)
    BY <1>5, <1>6, <2>1
  <2>3. QED
    BY <2>1, <2>2
<1>7. DOMAIN g \subseteq Nat
  BY <1>1, <1>4
<1>8. g \in [DOMAIN g -> Edge]
  <2>1. g = [i \in first |-> g[i]]
    BY <1>2, <1>4
  <2>2. QED
    BY <1>4, <2>1
<1>9. IsGraph(g)
  BY <1>4, <1>6, <1>7, <1>8 DEF IsGraph
<1>10. QED
  BY <1>3, <1>4, <1>9 DEF g

\* An entry of a walk, or what is left of one.
Arrived == [node : Pods, w : 0..Scale, eta : Nat]

\* Where there is an arc, the step takes it.
LEMMA StepFacts ==
  ASSUME NEW g, IsGraph(g), NEW x \in Arrived, NEW p \in Pods
  PROVE  /\ Step(g, x, p) \in Arrived /\ Step(g, x, p).node = p
         /\ Step(g, x, p).w <= x.w
         /\ Step(g, x, p).w > 0 => \E k \in DOMAIN g : /\ g[k].src = x.node /\ g[k].dst = p
                                                       /\ Step(g, x, p).w = Hop(x.w, g[k])
         /\ \A k \in DOMAIN g : g[k].src = x.node /\ g[k].dst = p =>
              Step(g, x, p) = [node |-> p, w |-> Hop(x.w, g[k]), eta |-> x.eta + g[k].lag]
<1> DEFINE between == {i \in DOMAIN g : g[i].src = x.node /\ g[i].dst = p}
           c == CHOOSE i \in between : TRUE
<1>1. Step(g, x, p) = IF between = {} THEN [node |-> p, w |-> 0, eta |-> 0]
                      ELSE [node |-> p, w |-> Hop(x.w, g[c]), eta |-> x.eta + g[c].lag]
  BY DEF Step
<1>2. x.w \in 0..Scale /\ x.eta \in Nat
  BY DEF Arrived
<1>3. CASE between = {}
  <2>1. Step(g, x, p) = [node |-> p, w |-> 0, eta |-> 0]
    BY <1>1, <1>3
  <2>2. QED
    BY <1>2, <1>3, <2>1, Units DEF Arrived
<1>4. CASE between # {}
  <2>1. c \in between
    BY <1>4
  <2> HIDE DEF c
  <2>2. Step(g, x, p) = [node |-> p, w |-> Hop(x.w, g[c]), eta |-> x.eta + g[c].lag]
    BY <1>1, <1>4
  <2>3. \A k \in between : k = c
    BY <2>1 DEF IsGraph, Alike
  <2>4. g[c] \in Edge /\ g[c].lag \in Nat
    BY <2>1 DEF IsGraph, Edge
  <2>5. x.w \in Nat
    BY <1>2
  <2>6. Hop(x.w, g[c]) \in Nat /\ Hop(x.w, g[c]) <= x.w
    BY <2>4, <2>5, HopFacts
  <2>7. Hop(x.w, g[c]) \in 0..Scale
    BY <1>2, <2>6, Units
  <2>8. Step(g, x, p) \in Arrived
    BY <1>2, <2>2, <2>4, <2>7 DEF Arrived
  <2>9. QED
    BY <2>1, <2>2, <2>3, <2>6, <2>8
<1>5. QED
  BY <1>3, <1>4

-----------------------------------------------------------------------------
(* Routes. *)

\* x is what arrives at the first n stops of a route.
Stops(g, root, route, n, x) ==
  x = [m \in 0..n |-> IF m = 0 THEN Start(root) ELSE Step(g, x[m - 1], route[m])]

LEMMA StopsExist ==
  ASSUME NEW g, NEW root, NEW route, NEW k \in Nat
  PROVE  \E x : Stops(g, root, route, k, x)
<1> DEFINE S == {m \in Nat : \E x : Stops(g, root, route, m, x)}
<1>1. 0 \in S
  <2> DEFINE x == [m \in 0..0 |-> Start(root)]
  <2>1. \A m \in 0..0 : m = 0
    OBVIOUS
  <2>2. Stops(g, root, route, 0, x)
    BY <2>1 DEF Stops
  <2>3. QED
    BY <2>2
<1>2. ASSUME NEW n \in Nat, n \in S PROVE n + 1 \in S
  <2>1. PICK x : Stops(g, root, route, n, x)
    BY <1>2
  <2> DEFINE y == [m \in 0..(n + 1) |-> IF m = n + 1 THEN Step(g, x[n], route[n + 1]) ELSE x[m]]
  <2>2. x = [m \in 0..n |-> IF m = 0 THEN Start(root) ELSE Step(g, x[m - 1], route[m])]
    BY <2>1 DEF Stops
  <2>3. ASSUME NEW m \in 0..(n + 1)
        PROVE  y[m] = IF m = 0 THEN Start(root) ELSE Step(g, y[m - 1], route[m])
    <3>1. CASE m = n + 1
      <4>1. m # 0 /\ m - 1 = n /\ n \in 0..(n + 1) /\ n # n + 1
        BY <3>1
      <4>2. y[m - 1] = x[n] /\ y[m] = Step(g, x[n], route[n + 1])
        BY <3>1, <4>1
      <4>3. QED
        BY <3>1, <4>1, <4>2
    <3>2. CASE m # n + 1
      <4>1. m \in 0..n /\ y[m] = x[m]
        BY <3>2
      <4>2. x[m] = IF m = 0 THEN Start(root) ELSE Step(g, x[m - 1], route[m])
        BY <2>2, <4>1
      <4>3. m # 0 => m - 1 \in 0..(n + 1) /\ m - 1 # n + 1
        BY <4>1
      <4>4. m # 0 => y[m - 1] = x[m - 1]
        BY <4>3
      <4>5. QED
        BY <4>1, <4>2, <4>4
    <3>3. QED
      BY <3>1, <3>2
  <2>4. y = [m \in 0..(n + 1) |-> y[m]]
    OBVIOUS
  <2>5. Stops(g, root, route, n + 1, y)
    <3> HIDE DEF y
    <3> QED BY <2>3, <2>4 DEF Stops
  <2>6. QED
    BY <2>5
<1>3. \A m \in Nat : m \in S
  <2> HIDE DEF S
  <2> QED BY <1>1, <1>2, SetInduction
<1>4. QED
  BY <1>3

\* What arrives starts at the root and takes one step for each stop.
LEMMA AlongRounds ==
  ASSUME NEW g, NEW root, NEW route \in Seq(Pods)
  PROVE  /\ Along(g, root, route)[0] = Start(root)
         /\ \A n \in 1..Len(route) :
              Along(g, root, route)[n] = Step(g, Along(g, root, route)[n - 1], route[n])
<1> DEFINE x == Along(g, root, route)
<1>1. Len(route) \in Nat
  OBVIOUS
<1>2. Stops(g, root, route, Len(route), x)
  <2>1. x = CHOOSE y : Stops(g, root, route, Len(route), y)
    BY DEF Along, Stops
  <2>2. QED
    BY <1>1, <2>1, StopsExist
<1> HIDE DEF x
<1>3. \A n \in 0..Len(route) : x[n] = IF n = 0 THEN Start(root) ELSE Step(g, x[n - 1], route[n])
  <2> DEFINE body(n) == IF n = 0 THEN Start(root) ELSE Step(g, x[n - 1], route[n])
  <2> HIDE DEF body
  <2>1. x = [n \in 0..Len(route) |-> body(n)]
    BY <1>2 DEF Stops, body
  <2>2. \A n \in 0..Len(route) : x[n] = body(n)
    BY <2>1
  <2>3. QED
    BY <2>2 DEF body
<1>4. 0 \in 0..Len(route) /\ \A n \in 1..Len(route) : n \in 0..Len(route) /\ n # 0
  BY <1>1
<1>5. QED
  BY <1>3, <1>4 DEF x

\* Whatever arrives is at the stop, and less the farther it is.
LEMMA AlongTypes ==
  ASSUME NEW g, IsGraph(g), NEW root \in Pods, NEW route \in Seq(Pods)
  PROVE  /\ \A n \in 0..Len(route) : Along(g, root, route)[n] \in Arrived
         /\ \A n \in 1..Len(route) : /\ Along(g, root, route)[n].node = route[n]
                                     /\ Along(g, root, route)[n].w <= Along(g, root, route)[n - 1].w
<1> DEFINE x == Along(g, root, route)
           S == {m \in Nat : m <= Len(route) => x[m] \in Arrived}
<1>1. Len(route) \in Nat /\ \A n \in 1..Len(route) : route[n] \in Pods
  OBVIOUS
<1>2. x[0] = Start(root) /\ \A n \in 1..Len(route) : x[n] = Step(g, x[n - 1], route[n])
  BY AlongRounds
<1> HIDE DEF x
<1>3. 0 \in S
  BY <1>2, Units DEF Start, Arrived
<1>4. ASSUME NEW m \in Nat, m \in S PROVE m + 1 \in S
  <2> SUFFICES ASSUME m + 1 <= Len(route) PROVE x[m + 1] \in Arrived
    OBVIOUS
  <2>1. m + 1 \in 1..Len(route) /\ (m + 1) - 1 = m /\ m <= Len(route)
    BY <1>1
  <2>2. x[m] \in Arrived /\ x[m + 1] = Step(g, x[m], route[m + 1])
    BY <1>2, <1>4, <2>1
  <2>3. QED
    BY <1>1, <2>1, <2>2, StepFacts
<1>5. \A m \in Nat : m \in S
  <2> HIDE DEF S
  <2> QED BY <1>3, <1>4, SetInduction
<1>6. \A n \in 0..Len(route) : x[n] \in Arrived
  BY <1>1, <1>5
<1>7. ASSUME NEW n \in 1..Len(route) PROVE x[n].node = route[n] /\ x[n].w <= x[n - 1].w
  <2>1. n - 1 \in 0..Len(route)
    BY <1>1
  <2>2. x[n - 1] \in Arrived /\ x[n] = Step(g, x[n - 1], route[n]) /\ route[n] \in Pods
    BY <1>1, <1>2, <1>6, <2>1
  <2>3. QED
    BY <2>2, StepFacts
<1>8. QED
  BY <1>6, <1>7 DEF x

\* A longer route has the same stops first.
LEMMA AlongAppend ==
  ASSUME NEW g, NEW root \in Pods, NEW route \in Seq(Pods), NEW p \in Pods
  PROVE  /\ \A n \in 0..Len(route) : Along(g, root, Append(route, p))[n] = Along(g, root, route)[n]
         /\ Along(g, root, Append(route, p))[Len(route) + 1]
              = Step(g, Along(g, root, route)[Len(route)], p)
<1> DEFINE x == Along(g, root, route)
           longer == Append(route, p)
           y == Along(g, root, longer)
           S == {m \in Nat : m <= Len(route) => y[m] = x[m]}
<1>1. /\ longer \in Seq(Pods) /\ Len(longer) = Len(route) + 1 /\ Len(route) \in Nat
      /\ \A n \in 1..Len(route) : longer[n] = route[n]
      /\ longer[Len(route) + 1] = p
  OBVIOUS
<1>2. x[0] = Start(root) /\ \A n \in 1..Len(route) : x[n] = Step(g, x[n - 1], route[n])
  BY AlongRounds
<1> HIDE DEF x, longer
<1>3. y[0] = Start(root) /\ \A n \in 1..Len(longer) : y[n] = Step(g, y[n - 1], longer[n])
  BY <1>1, AlongRounds
<1> HIDE DEF y
<1>4. 0 \in S
  BY <1>2, <1>3
<1>5. ASSUME NEW m \in Nat, m \in S PROVE m + 1 \in S
  <2> SUFFICES ASSUME m + 1 <= Len(route) PROVE y[m + 1] = x[m + 1]
    OBVIOUS
  <2>1. m + 1 \in 1..Len(route) /\ m + 1 \in 1..Len(longer) /\ (m + 1) - 1 = m /\ m <= Len(route)
    BY <1>1
  <2>2. y[m] = x[m] /\ longer[m + 1] = route[m + 1]
    BY <1>1, <1>5, <2>1
  <2>3. y[m + 1] = Step(g, y[m], longer[m + 1]) /\ x[m + 1] = Step(g, x[m], route[m + 1])
    BY <1>2, <1>3, <2>1
  <2>4. QED
    BY <2>2, <2>3
<1>6. \A m \in Nat : m \in S
  <2> HIDE DEF S
  <2> QED BY <1>4, <1>5, SetInduction
<1>7. \A n \in 0..Len(route) : y[n] = x[n]
  BY <1>1, <1>6
<1>8. y[Len(route) + 1] = Step(g, x[Len(route)], p)
  <2>1. PICK l \in Nat : l = Len(route)
    BY <1>1
  <2>2. l + 1 \in 1..Len(longer) /\ (l + 1) - 1 = l /\ l \in 0..Len(route)
    BY <1>1, <2>1
  <2>3. y[l + 1] = Step(g, y[l], longer[l + 1])
    BY <1>3, <2>2
  <2>4. QED
    BY <1>1, <1>7, <2>1, <2>2, <2>3
<1>9. QED
  BY <1>7, <1>8 DEF x, y, longer

\* The routes are the sequences of one pod or more that visit none twice.
LEMMA RouteFacts ==
  /\ \A r \in Routes : r \in Seq(Pods) /\ Len(r) \in Nat \ {0} /\ IsInjective(r)
  /\ \A r \in Seq(Pods) : r # <<>> /\ IsInjective(r) => r \in Routes
<1>1. ASSUME NEW r \in Routes PROVE r \in Seq(Pods) /\ Len(r) \in Nat \ {0} /\ IsInjective(r)
  <2>1. PICK n \in 1..Cardinality(Pods) : r \in [1..n -> Pods] /\ IsInjective(r)
    BY DEF Routes
  <2>2. n \in Nat \ {0}
    OBVIOUS
  <2>3. r \in Seq(Pods) /\ Len(r) = n
    BY <2>1, <2>2
  <2>4. QED
    BY <2>1, <2>2, <2>3
<1>2. ASSUME NEW r \in Seq(Pods), r # <<>>, IsInjective(r) PROVE r \in Routes
  <2>1. PICK n \in Nat : n = Len(r) /\ n # 0
    BY <1>2
  <2>2. r \in [1..n -> Pods]
    BY <2>1
  <2>3. r \in Injection(1..n, Pods)
    BY <1>2, <2>2 DEF Injection
  <2>4. Cardinality(1..n) <= Cardinality(Pods)
    BY <2>3, PodsAssumption, FS_Injection
  <2>5. Cardinality(1..n) = n
    <3>1. Cardinality(1..n) = IF 1 > n THEN 0 ELSE n - 1 + 1
      BY FS_Interval
    <3>2. QED
      BY <2>1, <3>1
  <2>6. Cardinality(Pods) \in Nat
    BY PodsAssumption, FS_CardinalityType
  <2>7. n \in 1..Cardinality(Pods)
    BY <2>1, <2>4, <2>5, <2>6
  <2>8. QED
    BY <1>2, <2>2, <2>7 DEF Routes
<1>3. QED
  BY <1>1, <1>2

\* An arc from the end of a route to a pod it does not visit prolongs it.
LEMMA Prolonged ==
  ASSUME NEW g, IsGraph(g), NEW root \in Pods, NEW route \in Seq(Pods), IsInjective(route),
         NEW k \in DOMAIN g, g[k].src = Along(g, root, route)[Len(route)].node,
         \A n \in 1..Len(route) : route[n] # g[k].dst
  PROVE  LET longer == Append(route, g[k].dst)
             x == Along(g, root, route)[Len(route)]
         IN /\ longer \in Seq(Pods) /\ longer # <<>> /\ IsInjective(longer)
            /\ Len(longer) = Len(route) + 1 /\ Len(route) \in Nat
            /\ longer[Len(longer)] = g[k].dst
            /\ \A n \in 1..Len(route) : longer[n] = route[n]
            /\ Along(g, root, longer)[Len(longer)]
                 = [node |-> g[k].dst, w |-> Hop(x.w, g[k]), eta |-> x.eta + g[k].lag]
<1>1. PICK p \in Pods : p = g[k].dst
  BY DEF IsGraph, Edge
<1> DEFINE longer == Append(route, p)
           x == Along(g, root, route)[Len(route)]
<1>2. PICK l \in Nat : l = Len(route) /\ DOMAIN route = 1..l
  OBVIOUS
<1>3. /\ longer \in Seq(Pods) /\ longer # <<>> /\ Len(longer) = l + 1 /\ DOMAIN longer = 1..(l + 1)
      /\ \A n \in 1..l : longer[n] = route[n]
      /\ longer[l + 1] = p
  BY <1>2
<1>4. IsInjective(longer)
  <2> HIDE DEF longer
  <2>1. ASSUME NEW a \in 1..(l + 1), NEW b \in 1..(l + 1), longer[a] = longer[b] PROVE a = b
    <3>1. CASE a \in 1..l /\ b \in 1..l
      BY <1>2, <1>3, <2>1, <3>1 DEF IsInjective
    <3>2. CASE a \in 1..l /\ b = l + 1
      <4>1. route[a] = p
        BY <1>3, <2>1, <3>2
      <4>2. QED
        BY <1>1, <1>2, <3>2, <4>1
    <3>3. CASE a = l + 1 /\ b \in 1..l
      <4>1. route[b] = p
        BY <1>3, <2>1, <3>3
      <4>2. QED
        BY <1>1, <1>2, <3>3, <4>1
    <3>4. CASE a = l + 1 /\ b = l + 1
      BY <3>4
    <3>5. (a \in 1..l \/ a = l + 1) /\ (b \in 1..l \/ b = l + 1)
      BY <1>2
    <3>6. QED
      BY <3>1, <3>2, <3>3, <3>4, <3>5
  <2>2. QED
    BY <1>3, <2>1 DEF IsInjective
<1>5. x \in Arrived
  <2>1. l \in 0..l
    BY <1>2
  <2>2. QED
    BY <1>2, <2>1, AlongTypes
<1>6. Along(g, root, longer)[l + 1] = Step(g, x, p)
  BY <1>2, AlongAppend
<1> HIDE DEF x, longer
<1>7. Step(g, x, p) = [node |-> p, w |-> Hop(x.w, g[k]), eta |-> x.eta + g[k].lag]
  <2>1. g[k].src = x.node
    BY DEF x
  <2>2. QED
    BY <1>1, <1>5, <2>1, StepFacts
<1>8. QED
  BY <1>1, <1>2, <1>3, <1>4, <1>6, <1>7 DEF x, longer

-----------------------------------------------------------------------------
(* The walks of _forward_impact. *)

\* The types, and where the values of the locals come from.
LocalsInv ==
  /\ edges \in EdgeLists
  /\ findings \in FindingSets
  /\ IsGraph(graph)
  /\ \A i \in DOMAIN graph : \E j \in DOMAIN edges : graph[i] = edges[j]
  /\ pc \in {"merge", "rank", "walk", "spread", "done"}
  /\ pc \in {"rank", "walk"} => OnGraph # {}
  /\ todo \subseteq Nodes(graph)
  /\ frontier \in Seq(Entry)
  /\ arcs \subseteq OutArcs(frontier)
  /\ DOMAIN impact \subseteq Pods
  /\ impact \in [DOMAIN impact -> CUT..Scale]
  /\ pc = "walk" => todo # {}
  /\ pc = "merge" => frontier = <<>>

\* r is a way to a pod along which each pod is known to suffer at least what is left at its end.
Way(root, r, p, w) ==
  /\ r \in Seq(Pods) /\ IsInjective(r)
  /\ Along(graph, root, r)[Len(r)].node = p
  /\ Along(graph, root, r)[Len(r)].w = w
  /\ \A n \in 1..Len(r) : w <= ImpactOn(r[n])

\* A pod that suffers w has passed it on along the arc at k, or will.
Settled(p, w, k) ==
  graph[k].src = p =>
    \/ Hop(w, graph[k]) >= CUT => ImpactOn(graph[k].dst) >= Hop(w, graph[k])
    \/ \E i \in DOMAIN frontier : frontier[i].node = p /\ frontier[i].w = w /\ (i = 1 => k \in arcs)

WalkFrom(root) ==
  /\ \A i \in DOMAIN frontier : \E r : Way(root, r, frontier[i].node, frontier[i].w)
  /\ \A p \in DOMAIN impact : \E r : r # <<>> /\ Way(root, r, p, impact[p])
  /\ \A k \in DOMAIN graph : Settled(root, Scale, k) /\ \A p \in DOMAIN impact : Settled(p, impact[p], k)

WalkInv == pc = "walk" => \E root \in Pods : root = Candidate(todo) /\ WalkFrom(root)

\* The first of some nodes is one of them.
LEMMA CandidateIsOne ==
  ASSUME LocalsInv, NEW ps \in SUBSET Nodes(graph), ps # {}
  PROVE  Candidate(ps) \in ps /\ Candidate(ps) \in Pods
<1> DEFINE ats(p) == {2 * i : i \in {k \in DOMAIN graph : graph[k].src = p}}
                       \cup {2 * i + 1 : i \in {k \in DOMAIN graph : graph[k].dst = p}}
           T == {Place(p) : p \in ps}
<1>1. DOMAIN graph \subseteq Nat /\ \A k \in DOMAIN graph : graph[k] \in Edge
  BY DEF LocalsInv, IsGraph
<1>2. ASSUME NEW p \in ps PROVE Place(p) \in Nat
  <2>1. ats(p) \in SUBSET Nat
    BY <1>1
  <2>2. ats(p) # {}
    BY DEF Nodes
  <2> HIDE DEF ats
  <2>3. Min(ats(p)) \in Nat
    BY <2>1, <2>2, LeastElement
  <2>4. QED
    BY <2>3 DEF Place, ats
<1>3. T \in SUBSET Nat /\ T # {}
  BY <1>2
<1>4. Min(T) \in T /\ \A k \in T : Min(T) <= k
  <2> HIDE DEF T
  <2> QED BY <1>3, LeastElement
<1>5. \E p \in ps : \A q \in ps : Place(p) <= Place(q)
  BY <1>4
<1>6. Candidate(ps) \in ps
  BY <1>5 DEF Candidate
<1>7. Nodes(graph) \subseteq Pods
  BY <1>1 DEF Nodes, Edge
<1>8. QED
  BY <1>6, <1>7

\* The parts of an entry.
LEMMA EntryFacts ==
  ASSUME NEW e \in Entry
  PROVE  e.node \in Pods /\ e.w \in Nat /\ e.w <= Scale /\ e.eta \in Nat
BY Units DEF Entry

\* What the walk knows a pod to suffer is a number.
LEMMA ImpactTypes ==
  ASSUME LocalsInv
  PROVE  /\ \A p : ImpactOn(p) \in Nat
         /\ \A p \in DOMAIN impact : impact[p] \in Nat /\ CUT <= impact[p] /\ impact[p] <= Scale
<1>1. \A p \in DOMAIN impact : impact[p] \in CUT..Scale
  BY DEF LocalsInv
<1>2. \A p \in DOMAIN impact : impact[p] \in Nat /\ CUT <= impact[p] /\ impact[p] <= Scale
  BY <1>1, Units
<1>3. QED
  BY <1>2 DEF ImpactOn

\* The entry at the head of the frontier and the arc that is followed next.
LEMMA HeadArc ==
  ASSUME LocalsInv, arcs # {}
  PROVE  LET x == Head(frontier)
             k == Min(arcs)
         IN /\ Len(frontier) \in Nat \ {0} /\ frontier # <<>>
            /\ x \in Entry /\ x = frontier[1]
            /\ k \in arcs /\ k \in DOMAIN graph
            /\ graph[k] \in Edge /\ graph[k].src = x.node
            /\ Hop(x.w, graph[k]) \in Nat /\ Hop(x.w, graph[k]) <= x.w
<1>1. DOMAIN graph \subseteq Nat /\ \A k \in DOMAIN graph : graph[k] \in Edge
  BY DEF LocalsInv, IsGraph
<1>2. arcs \in SUBSET Nat /\ \A k \in arcs : k \in DOMAIN graph /\ frontier # <<>> /\ graph[k].src = Head(frontier).node
  BY <1>1 DEF LocalsInv, OutArcs
<1>3. Min(arcs) \in arcs
  BY <1>2, LeastElement
<1>4. frontier # <<>> /\ frontier \in Seq(Entry)
  BY <1>2, <1>3 DEF LocalsInv
<1>5. Len(frontier) \in Nat \ {0} /\ Head(frontier) \in Entry /\ Head(frontier) = frontier[1]
  BY <1>4
<1>6. Head(frontier).w \in Nat
  BY <1>5, EntryFacts
<1>7. QED
  BY <1>1, <1>2, <1>3, <1>4, <1>5, <1>6, HopFacts

\* What the walk knows after it has followed an arc.
LEMMA RelaxFacts ==
  ASSUME LocalsInv, Relax
  PROVE  \E x \in Entry, e \in Edge, w \in Nat :
           /\ x = Head(frontier) /\ e = graph[Min(arcs)]
           /\ w = Hop(x.w, e) /\ w <= x.w
           /\ \A q : ImpactOn(q)' \in Nat /\ ImpactOn(q) <= ImpactOn(q)'
           /\ w >= CUT => ImpactOn(e.dst)' >= w
           /\ \/ UNCHANGED <<impact, frontier>>
              \/ /\ w >= CUT /\ w > ImpactOn(e.dst)
                 /\ impact' = Put(impact, e.dst, w)
                 /\ frontier' = Append(frontier, [node |-> e.dst, w |-> w, eta |-> 0])
<1>1. arcs # {}
  BY DEF Relax
<1>2. PICK x \in Entry : x = Head(frontier)
  BY <1>1, HeadArc
<1>3. PICK e \in Edge : e = graph[Min(arcs)]
  BY <1>1, HeadArc
<1>4. PICK w \in Nat : w = Hop(x.w, e) /\ w <= x.w
  BY <1>1, <1>2, <1>3, HeadArc
<1>5. \A q : ImpactOn(q) \in Nat
  BY ImpactTypes
<1>6. IF w < CUT \/ w <= ImpactOn(e.dst)
      THEN UNCHANGED <<impact, frontier>>
      ELSE /\ impact' = Put(impact, e.dst, w)
           /\ frontier' = Append(frontier, [node |-> e.dst, w |-> w, eta |-> 0])
  BY <1>2, <1>3, <1>4 DEF Relax
<1>7. PICK a \in Nat : a = ImpactOn(e.dst)
  BY <1>5
<1>8. CASE w < CUT \/ w <= a
  <2>1. UNCHANGED <<impact, frontier>>
    BY <1>6, <1>7, <1>8
  <2>2. \A q : ImpactOn(q)' = ImpactOn(q)
    BY <2>1 DEF ImpactOn
  <2>3. \A q : ImpactOn(q)' \in Nat /\ ImpactOn(q) <= ImpactOn(q)'
    BY <1>5, <2>2
  <2>4. w >= CUT => ImpactOn(e.dst)' >= w
    BY <1>7, <1>8, <2>2, Units
  <2>5. QED
    BY <1>2, <1>3, <1>4, <2>1, <2>3, <2>4
<1>9. CASE ~(w < CUT \/ w <= a)
  <2>1. /\ impact' = Put(impact, e.dst, w)
        /\ frontier' = Append(frontier, [node |-> e.dst, w |-> w, eta |-> 0])
    BY <1>6, <1>7, <1>9
  <2>2. \A q : ImpactOn(q)' = IF q = e.dst THEN w ELSE ImpactOn(q)
    BY <2>1 DEF ImpactOn, Put
  <2>3. w >= CUT /\ w > a /\ w >= w
    BY <1>9, Units
  <2>4. ASSUME NEW q PROVE ImpactOn(q)' \in Nat /\ ImpactOn(q) <= ImpactOn(q)'
    <3>1. CASE q = e.dst
      BY <1>7, <2>2, <2>3, <3>1
    <3>2. CASE q # e.dst
      BY <1>5, <2>2, <3>2
    <3>3. QED
      BY <3>1, <3>2
  <2>5. ImpactOn(e.dst)' >= w
    BY <2>2, <2>3
  <2>6. QED
    BY <1>2, <1>3, <1>4, <1>7, <2>1, <2>3, <2>4, <2>5
<1>10. QED
  BY <1>8, <1>9

\* Following an arc settles it for the entry at the head, and unsettles nothing.
LEMMA RelaxSettles ==
  ASSUME LocalsInv, Relax, NEW p, NEW v \in Nat, NEW j \in DOMAIN graph, Settled(p, v, j)
  PROVE  Settled(p, v, j)'
<1>1. arcs # {} /\ arcs' = arcs \ {Min(arcs)} /\ graph' = graph
  BY DEF Relax
<1>2. PICK l \in Nat : l = Len(frontier) /\ DOMAIN frontier = 1..l
  BY DEF LocalsInv
<1>3. \A i \in 1..l : i \in DOMAIN frontier' /\ frontier'[i] = frontier[i]
  <2>1. frontier \in Seq(Entry)
    BY DEF LocalsInv
  <2>2. frontier' = frontier \/ \E y : frontier' = Append(frontier, y)
    BY RelaxFacts
  <2>3. QED
    BY <1>2, <2>1, <2>2
<1>4. PICK f \in Edge : f = graph[j] /\ f = graph'[j]
  BY <1>1 DEF LocalsInv, IsGraph
<1>5. PICK h \in Nat : h = Hop(v, f)
  BY <1>4, HopFacts
<1>6. SUFFICES ASSUME f.src = p
               PROVE  \/ h >= CUT => ImpactOn(f.dst)' >= h
                      \/ \E i \in DOMAIN frontier' : /\ frontier'[i].node = p /\ frontier'[i].w = v
                                                     /\ i = 1 => j \in arcs'
  BY <1>4, <1>5 DEF Settled
<1>7. CASE h >= CUT => ImpactOn(f.dst) >= h
  <2>1. ImpactOn(f.dst) \in Nat /\ ImpactOn(f.dst)' \in Nat /\ ImpactOn(f.dst) <= ImpactOn(f.dst)'
    BY ImpactTypes, RelaxFacts
  <2>2. QED
    BY <1>7, <2>1
<1>8. ASSUME NEW i \in DOMAIN frontier, frontier[i].node = p, frontier[i].w = v, i = 1 => j \in arcs
      PROVE  \/ h >= CUT => ImpactOn(f.dst)' >= h
             \/ \E m \in DOMAIN frontier' : /\ frontier'[m].node = p /\ frontier'[m].w = v
                                            /\ m = 1 => j \in arcs'
  <2>1. CASE i = 1 /\ j = Min(arcs)
    <3>1. v = Head(frontier).w
      BY <1>1, <1>8, <2>1, HeadArc
    <3>2. h >= CUT => ImpactOn(f.dst)' >= h
      BY <1>4, <1>5, <2>1, <3>1, RelaxFacts
    <3>3. QED
      BY <3>2
  <2>2. CASE ~(i = 1 /\ j = Min(arcs))
    <3>1. i = 1 => j \in arcs'
      BY <1>1, <1>8, <2>2
    <3>2. QED
      BY <1>2, <1>3, <1>8, <3>1
  <2>3. QED
    BY <2>1, <2>2
<1>9. QED
  BY <1>4, <1>5, <1>6, <1>7, <1>8 DEF Settled

\* Following an arc keeps the ways known so far.
LEMMA RelaxWays ==
  ASSUME LocalsInv, Relax, NEW root \in Pods, NEW r, NEW p, NEW v \in Nat, Way(root, r, p, v)
  PROVE  Way(root, r, p, v)'
<1>1. PICK g : g = graph /\ g = graph'
  BY DEF Relax
<1>2. \A q : v <= ImpactOn(q) => v <= ImpactOn(q)'
  <2> SUFFICES ASSUME NEW q, v <= ImpactOn(q) PROVE v <= ImpactOn(q)'
    OBVIOUS
  <2>1. ImpactOn(q) \in Nat /\ ImpactOn(q)' \in Nat /\ ImpactOn(q) <= ImpactOn(q)'
    BY ImpactTypes, RelaxFacts
  <2>2. QED
    BY <2>1
<1>3. QED
  BY <1>1, <1>2 DEF Way

\* What an arc improves on is reached by a way prolonged by it.
LEMMA RelaxReaches ==
  ASSUME LocalsInv, Relax, NEW root \in Pods, NEW e \in Edge, NEW w \in Nat, NEW r,
         e = graph[Min(arcs)], w = Hop(Head(frontier).w, e), w > ImpactOn(e.dst), ImpactOn(e.dst)' >= w,
         Way(root, r, Head(frontier).node, Head(frontier).w)
  PROVE  Append(r, e.dst) # <<>> /\ Way(root, Append(r, e.dst), e.dst, w)'
<1>1. PICK g : g = graph /\ g = graph' /\ IsGraph(g)
  BY DEF Relax, LocalsInv
<1>2. PICK x \in Entry, k \in DOMAIN g : /\ x = Head(frontier) /\ k = Min(arcs) /\ e = g[k] /\ e.src = x.node
                                          /\ w = Hop(x.w, e) /\ w <= x.w
  <2>1. arcs # {}
    BY DEF Relax
  <2>2. QED
    BY <1>1, <2>1, HeadArc
<1>3. /\ r \in Seq(Pods) /\ IsInjective(r)
      /\ Along(g, root, r)[Len(r)].node = x.node /\ Along(g, root, r)[Len(r)].w = x.w
      /\ \A n \in 1..Len(r) : x.w <= ImpactOn(r[n])
  BY <1>1, <1>2 DEF Way
<1>4. x.w \in Nat /\ \A q : ImpactOn(q) \in Nat /\ ImpactOn(q)' \in Nat /\ ImpactOn(q) <= ImpactOn(q)'
  BY EntryFacts, ImpactTypes, RelaxFacts
<1>5. ASSUME NEW n \in 1..Len(r) PROVE r[n] # e.dst /\ w <= ImpactOn(r[n])'
  <2>1. PICK a \in Nat, b \in Nat : a = ImpactOn(r[n]) /\ b = ImpactOn(r[n])' /\ a <= b
    BY <1>4
  <2>2. w <= a
    BY <1>2, <1>3, <1>4, <2>1
  <2>3. r[n] # e.dst
    BY <2>1, <2>2
  <2>4. QED
    BY <2>1, <2>2, <2>3
<1> DEFINE longer == Append(r, e.dst)
<1>6. /\ longer \in Seq(Pods) /\ longer # <<>> /\ IsInjective(longer)
      /\ Len(longer) = Len(r) + 1 /\ Len(r) \in Nat
      /\ longer[Len(longer)] = e.dst
      /\ \A n \in 1..Len(r) : longer[n] = r[n]
      /\ Along(g, root, longer)[Len(longer)].node = e.dst
      /\ Along(g, root, longer)[Len(longer)].w = Hop(x.w, e)
  <2>1. g[k].src = Along(g, root, r)[Len(r)].node /\ \A n \in 1..Len(r) : r[n] # g[k].dst
    BY <1>2, <1>3, <1>5
  <2> DEFINE far == Along(g, root, r)[Len(r)]
             end == Along(g, root, Append(r, g[k].dst))[Len(Append(r, g[k].dst))]
  <2>2. /\ Append(r, g[k].dst) \in Seq(Pods) /\ Append(r, g[k].dst) # <<>> /\ IsInjective(Append(r, g[k].dst))
        /\ Len(Append(r, g[k].dst)) = Len(r) + 1 /\ Len(r) \in Nat
        /\ Append(r, g[k].dst)[Len(Append(r, g[k].dst))] = g[k].dst
        /\ \A n \in 1..Len(r) : Append(r, g[k].dst)[n] = r[n]
        /\ end = [node |-> g[k].dst, w |-> Hop(far.w, g[k]), eta |-> far.eta + g[k].lag]
    BY <1>1, <1>2, <1>3, <2>1, Prolonged
  <2>3. longer = Append(r, g[k].dst) /\ far.w = x.w
    BY <1>2, <1>3
  <2> HIDE DEF longer, far
  <2>4. end.node = g[k].dst /\ end.w = Hop(far.w, g[k])
    BY <2>2
  <2> HIDE DEF end
  <2>5. end = Along(g, root, longer)[Len(longer)]
    BY <2>3 DEF end
  <2>6. QED
    BY <1>2, <2>2, <2>3, <2>4, <2>5
<1> HIDE DEF longer
<1>7. ASSUME NEW n \in 1..Len(longer) PROVE w <= ImpactOn(longer[n])'
  <2>1. CASE n \in 1..Len(r)
    BY <1>5, <1>6, <2>1
  <2>2. CASE n = Len(longer)
    BY <1>4, <1>6, <2>2
  <2>3. n \in 1..Len(r) \/ n = Len(longer)
    BY <1>6
  <2>4. QED
    BY <2>1, <2>2, <2>3
<1>8. PICK q : q = longer
  OBVIOUS
<1>9. Way(root, q, e.dst, w)'
  BY <1>1, <1>2, <1>6, <1>7, <1>8 DEF Way
<1>10. QED
  BY <1>6, <1>8, <1>9 DEF longer

\* Following an arc keeps the walk's promises.
LEMMA RelaxWalk ==
  ASSUME LocalsInv, Relax, NEW root \in Pods, WalkFrom(root)
  PROVE  WalkFrom(root)'
<1>1. arcs # {} /\ graph' = graph
  BY DEF Relax
<1>2. PICK x \in Entry, e \in Edge, w \in Nat :
        /\ x = Head(frontier) /\ e = graph[Min(arcs)] /\ w = Hop(x.w, e)
        /\ \/ UNCHANGED <<impact, frontier>>
           \/ /\ w >= CUT /\ w > ImpactOn(e.dst) /\ ImpactOn(e.dst)' >= w
              /\ impact' = Put(impact, e.dst, w)
              /\ frontier' = Append(frontier, [node |-> e.dst, w |-> w, eta |-> 0])
  BY RelaxFacts
<1>3. PICK l \in Nat \ {0} : l = Len(frontier) /\ DOMAIN frontier = 1..l /\ frontier[1] = x
  BY <1>1, <1>2, HeadArc DEF LocalsInv
<1>4. frontier \in Seq(Entry) /\ \A i \in 1..l : frontier[i] \in Entry /\ frontier[i].w \in Nat
  BY <1>3, EntryFacts DEF LocalsInv
<1>5. \A p \in DOMAIN impact : impact[p] \in Nat
  BY ImpactTypes
<1>6. ASSUME NEW i \in 1..l, NEW y \in Entry, y = frontier[i]
      PROVE  \E r : Way(root, r, y.node, y.w)'
  <2>1. y.w \in Nat
    BY EntryFacts
  <2>2. PICK r : Way(root, r, y.node, y.w)
    BY <1>3, <1>6 DEF WalkFrom
  <2>3. Way(root, r, y.node, y.w)'
    BY <2>1, <2>2, RelaxWays
  <2>4. QED
    BY <2>3
<1>7. ASSUME NEW p \in DOMAIN impact, NEW v, v = impact[p]
      PROVE  (\E r : r # <<>> /\ Way(root, r, p, v)') /\ \A k \in DOMAIN graph : Settled(p, v, k)'
  <2>1. v \in Nat
    BY <1>5, <1>7
  <2>2. PICK r : r # <<>> /\ Way(root, r, p, v)
    BY <1>7 DEF WalkFrom
  <2>3. Way(root, r, p, v)'
    BY <2>1, <2>2, RelaxWays
  <2>4. \A k \in DOMAIN graph : Settled(p, v, k)
    BY <1>7 DEF WalkFrom
  <2>5. \A k \in DOMAIN graph : Settled(p, v, k)'
    BY <2>1, <2>4, RelaxSettles
  <2>6. QED
    BY <2>2, <2>3, <2>5
<1>8. \A k \in DOMAIN graph : Settled(root, Scale, k)'
  <2>1. \A k \in DOMAIN graph : Settled(root, Scale, k)
    BY DEF WalkFrom
  <2>2. QED
    BY <2>1, Units, RelaxSettles
<1>9. CASE UNCHANGED <<impact, frontier>>
  <2>1. \A i \in DOMAIN frontier' : \E r : Way(root, r, frontier[i].node, frontier[i].w)'
    BY <1>3, <1>4, <1>6, <1>9
  <2>2. \A p \in DOMAIN impact' : \E r : r # <<>> /\ Way(root, r, p, impact[p])'
    BY <1>7, <1>9
  <2>3. \A k \in DOMAIN graph' : \A p \in DOMAIN impact' : Settled(p, impact[p], k)'
    BY <1>1, <1>7, <1>9
  <2>4. QED
    BY <1>1, <1>8, <2>1, <2>2, <2>3 DEF WalkFrom
<1>10. CASE /\ w >= CUT /\ w > ImpactOn(e.dst) /\ ImpactOn(e.dst)' >= w
            /\ impact' = Put(impact, e.dst, w)
            /\ frontier' = Append(frontier, [node |-> e.dst, w |-> w, eta |-> 0])
  <2>1. PICK d \in Pods : d = e.dst
    BY DEF Edge
  <2>2. DOMAIN impact' = DOMAIN impact \cup {d} /\ impact'[d] = w
        /\ \A p \in DOMAIN impact : p # d => impact'[p] = impact[p]
    BY <1>10, <2>1 DEF Put
  <2>3. /\ DOMAIN frontier' = 1..(l + 1)
        /\ \A i \in 1..l : frontier'[i] = frontier[i]
        /\ frontier'[l + 1].node = d /\ frontier'[l + 1].w = w
    BY <1>3, <1>4, <1>10, <2>1
  <2>4. PICK long : long # <<>> /\ Way(root, long, d, w)'
    <3>1. PICK r : Way(root, r, x.node, x.w)
      BY <1>3 DEF WalkFrom
    <3>2. QED
      BY <1>2, <1>10, <2>1, <3>1, RelaxReaches
  <2>5. \A i \in DOMAIN frontier' : \E r : Way(root, r, frontier[i].node, frontier[i].w)'
    <3> SUFFICES ASSUME NEW i \in 1..(l + 1) PROVE \E r : Way(root, r, frontier[i].node, frontier[i].w)'
      BY <2>3
    <3>1. CASE i = l + 1
      BY <2>3, <2>4, <3>1
    <3>2. CASE i \in 1..l
      BY <1>4, <1>6, <2>3, <3>2
    <3>3. QED
      BY <1>3, <3>1, <3>2
  <2>6. \A p \in DOMAIN impact' : \E r : r # <<>> /\ Way(root, r, p, impact[p])'
    <3> SUFFICES ASSUME NEW p \in DOMAIN impact' PROVE \E r : r # <<>> /\ Way(root, r, p, impact[p])'
      OBVIOUS
    <3>1. CASE p = d
      BY <2>2, <2>4, <3>1
    <3>2. CASE p # d
      BY <1>7, <2>2, <3>2
    <3>3. QED
      BY <3>1, <3>2
  <2>7. ASSUME NEW k \in DOMAIN graph PROVE Settled(d, w, k)'
    <3>1. l + 1 \in DOMAIN frontier' /\ l + 1 # 1
      BY <1>3, <2>3
    <3>2. QED
      BY <2>3, <3>1 DEF Settled
  <2>8. \A k \in DOMAIN graph' : \A p \in DOMAIN impact' : Settled(p, impact[p], k)'
    <3> SUFFICES ASSUME NEW k \in DOMAIN graph, NEW p \in DOMAIN impact' PROVE Settled(p, impact[p], k)'
      BY <1>1
    <3>1. CASE p = d
      BY <2>2, <2>7, <3>1
    <3>2. CASE p # d
      BY <1>7, <2>2, <3>2
    <3>3. QED
      BY <3>1, <3>2
  <2>9. QED
    BY <1>1, <1>8, <2>5, <2>6, <2>8 DEF WalkFrom
<1>11. QED
  BY <1>2, <1>9, <1>10

\* The candidate of a walk stays the same while the walk goes on.
LEMMA SameCandidate ==
  ASSUME graph' = graph, todo' = todo
  PROVE  Candidate(todo)' = Candidate(todo)
BY DEF Candidate, Place

\* A walk starts at its candidate with every arc still to follow.
LEMMA ExploreWalk ==
  ASSUME LocalsInv, Explore
  PROVE  WalkInv'
<1>1. /\ todo # {} /\ graph' = graph /\ todo' = todo
      /\ frontier' = <<Start(Candidate(todo))>> /\ arcs' = OutArcs(frontier') /\ impact' = NoImpact
  BY DEF Explore
<1>2. PICK root \in Pods : root = Candidate(todo) /\ root = Candidate(todo)'
  <2>1. Candidate(todo) \in Pods
    BY <1>1, CandidateIsOne DEF LocalsInv
  <2>2. QED
    BY <1>1, <2>1, SameCandidate
<1>3. PICK g : g = graph /\ g = graph'
  BY <1>1
<1>4. /\ DOMAIN frontier' = {1} /\ frontier'[1].node = root /\ frontier'[1].w = Scale
      /\ frontier' # <<>> /\ Head(frontier').node = root
  BY <1>1, <1>2 DEF Start
<1>5. DOMAIN impact' = {}
  BY <1>1 DEF NoImpact
<1>6. Way(root, <<>>, root, Scale)'
  <2>1. <<>> \in Seq(Pods) /\ Len(<<>>) = 0 /\ IsInjective(<<>>)
    BY DEF IsInjective
  <2>2. Along(g, root, <<>>)[0] = Start(root)
    BY <2>1, AlongRounds
  <2>3. Along(g, root, <<>>)[0].node = root /\ Along(g, root, <<>>)[0].w = Scale
    BY <2>2 DEF Start
  <2>4. 1..Len(<<>>) = {}
    BY <2>1
  <2>5. QED
    BY <1>3, <2>1, <2>3, <2>4 DEF Way
<1>7. ASSUME NEW k \in DOMAIN graph PROVE Settled(root, Scale, k)'
  <2>1. graph[k].src = root => k \in arcs'
    BY <1>1, <1>4 DEF OutArcs
  <2>2. QED
    BY <1>1, <1>4, <2>1 DEF Settled
<1>8. WalkFrom(root)'
  BY <1>1, <1>4, <1>5, <1>6, <1>7 DEF WalkFrom
<1>9. QED
  BY <1>2, <1>8 DEF WalkInv

\* Whoever is done with its arcs leaves the frontier, and the next one has all of its own to follow.
LEMMA NextEntryWalk ==
  ASSUME LocalsInv, NextEntry, NEW root \in Pods, WalkFrom(root)
  PROVE  WalkFrom(root)'
<1>1. /\ frontier # <<>> /\ arcs = {} /\ frontier' = Tail(frontier) /\ arcs' = OutArcs(frontier')
      /\ graph' = graph /\ impact' = impact
  BY DEF NextEntry
<1>2. PICK g : g = graph /\ g = graph'
  BY <1>1
<1>3. PICK l \in Nat \ {0} : l = Len(frontier) /\ DOMAIN frontier = 1..l
  BY <1>1 DEF LocalsInv
<1>4. /\ frontier' \in Seq(Entry) /\ DOMAIN frontier' = 1..(l - 1)
      /\ \A i \in 1..(l - 1) : frontier'[i] = frontier[i + 1] /\ i + 1 \in 1..l
  <2>1. frontier \in Seq(Entry)
    BY DEF LocalsInv
  <2>2. QED
    BY <1>1, <1>3, <2>1
<1>5. \A q : ImpactOn(q)' = ImpactOn(q)
  BY <1>1 DEF ImpactOn
<1>6. \A r, p, v : Way(root, r, p, v) => Way(root, r, p, v)'
  BY <1>2, <1>5 DEF Way
<1>7. ASSUME NEW p, NEW v, NEW k \in DOMAIN graph, Settled(p, v, k)
      PROVE  Settled(p, v, k)'
  <2>1. SUFFICES ASSUME graph[k].src = p, ~(Hop(v, graph[k]) >= CUT => ImpactOn(graph[k].dst) >= Hop(v, graph[k]))
                 PROVE  \E i \in DOMAIN frontier' : /\ frontier'[i].node = p /\ frontier'[i].w = v
                                                    /\ i = 1 => k \in arcs'
    BY <1>1, <1>5 DEF Settled
  <2>2. PICK i \in 1..l : frontier[i].node = p /\ frontier[i].w = v /\ (i = 1 => k \in arcs)
    BY <1>3, <1>7, <2>1 DEF Settled
  <2>3. i # 1
    BY <1>1, <2>2
  <2>4. PICK j \in 1..(l - 1) : i = j + 1
    BY <2>3
  <2>5. frontier'[j].node = p /\ frontier'[j].w = v
    BY <1>4, <2>2, <2>4
  <2>6. j = 1 => k \in arcs'
    <3> SUFFICES ASSUME j = 1 PROVE k \in arcs'
      OBVIOUS
    <3>1. frontier' # <<>> /\ Head(frontier') = frontier'[1]
      BY <1>4, <2>4
    <3>2. QED
      BY <1>1, <2>1, <2>5, <3>1 DEF OutArcs
  <2>7. QED
    BY <1>4, <2>5, <2>6
<1>8. \A i \in DOMAIN frontier' : \E r : Way(root, r, frontier[i].node, frontier[i].w)'
  <2> SUFFICES ASSUME NEW i \in 1..(l - 1) PROVE \E r : Way(root, r, frontier[i].node, frontier[i].w)'
    BY <1>4
  <2>1. PICK y : y = frontier'[i] /\ y = frontier[i + 1] /\ i + 1 \in DOMAIN frontier
    BY <1>3, <1>4
  <2>2. PICK r : Way(root, r, y.node, y.w)
    BY <2>1 DEF WalkFrom
  <2>3. Way(root, r, y.node, y.w)'
    BY <1>6, <2>2
  <2>4. QED
    BY <2>1, <2>3
<1>9. ASSUME NEW p \in DOMAIN impact, NEW v, v = impact[p]
      PROVE  (\E r : r # <<>> /\ Way(root, r, p, v)') /\ \A k \in DOMAIN graph : Settled(p, v, k)'
  <2>1. PICK r : r # <<>> /\ Way(root, r, p, v)
    BY <1>9 DEF WalkFrom
  <2>2. \A k \in DOMAIN graph : Settled(p, v, k)
    BY <1>9 DEF WalkFrom
  <2>3. QED
    BY <1>6, <1>7, <2>1, <2>2
<1>10. \A k \in DOMAIN graph : Settled(root, Scale, k)'
  BY <1>7 DEF WalkFrom
<1>11. QED
  BY <1>1, <1>8, <1>9, <1>10 DEF WalkFrom

\* A walk keeps its promises in every step.
LEMMA WalkStep ==
  ASSUME LocalsInv, WalkInv, [Next]_vars
  PROVE  WalkInv'
<1>1. CASE Explore
  BY <1>1, ExploreWalk
<1>2. CASE NextEntry \/ Relax
  <2>1. graph' = graph /\ todo' = todo /\ pc' = pc
    BY <1>2 DEF NextEntry, Relax
  <2>2. SUFFICES ASSUME pc = "walk" PROVE \E root \in Pods : root = Candidate(todo)' /\ WalkFrom(root)'
    BY <2>1 DEF WalkInv
  <2>3. PICK root \in Pods : root = Candidate(todo) /\ WalkFrom(root)
    BY <2>2 DEF WalkInv
  <2>4. root = Candidate(todo)'
    BY <2>1, <2>3, SameCandidate
  <2>5. WalkFrom(root)'
    BY <1>2, <2>3, NextEntryWalk, RelaxWalk
  <2>6. QED
    BY <2>4, <2>5
<1>3. CASE Merge \/ ScoreCandidate \/ Rank \/ Infect \/ Serve
  <2>1. pc' # "walk"
    BY <1>3 DEF Merge, ScoreCandidate, Rank, Infect, Serve
  <2>2. QED
    BY <2>1 DEF WalkInv
<1>4. CASE UNCHANGED vars
  <2>1. graph' = graph /\ todo' = todo /\ pc' = pc /\ frontier' = frontier /\ arcs' = arcs /\ impact' = impact
    BY <1>4 DEF vars
  <2>2. Candidate(todo)' = Candidate(todo)
    BY <2>1, SameCandidate
  <2>3. \A root : WalkFrom(root) => WalkFrom(root)'
    BY <2>1 DEF WalkFrom, Way, Settled, ImpactOn
  <2>4. QED
    BY <2>1, <2>2, <2>3 DEF WalkInv
<1>5. QED
  BY <1>1, <1>2, <1>3, <1>4 DEF Next

\* When nothing waits on the frontier, no route brings a pod more than it is known to suffer.
LEMMA NoRouteBeats ==
  ASSUME LocalsInv, NEW root \in Pods, WalkFrom(root), frontier = <<>>, NEW r \in Seq(Pods)
  PROVE  \A n \in 1..Len(r) :
           Along(graph, root, r)[n].w >= CUT => ImpactOn(r[n]) >= Along(graph, root, r)[n].w
<1>1. PICK g : g = graph /\ IsGraph(g)
  BY DEF LocalsInv
<1> DEFINE x == Along(g, root, r)
           S == {n \in Nat : n \in 1..Len(r) /\ x[n].w >= CUT => ImpactOn(r[n]) >= x[n].w}
<1>2. /\ x[0] = Start(root)
      /\ \A n \in 0..Len(r) : x[n] \in Arrived
      /\ \A n \in 1..Len(r) : /\ x[n] = Step(g, x[n - 1], r[n])
                              /\ x[n].node = r[n] /\ x[n].w <= x[n - 1].w
  BY <1>1, AlongRounds, AlongTypes
<1> HIDE DEF x
<1>3. Len(r) \in Nat /\ \A n \in 1..Len(r) : r[n] \in Pods
  OBVIOUS
<1>4. \A q : ImpactOn(q) \in Nat
  BY ImpactTypes
<1>5. \A y \in Arrived : y.w \in Nat
  BY Units DEF Arrived
<1>6. ASSUME NEW p, NEW v \in Nat, NEW k \in DOMAIN g, Settled(p, v, k), g[k].src = p
      PROVE  Hop(v, g[k]) >= CUT => ImpactOn(g[k].dst) >= Hop(v, g[k])
  BY <1>1, <1>6 DEF Settled
<1>7. 0 \in S
  BY <1>3
<1>8. ASSUME NEW n \in Nat, n \in S PROVE n + 1 \in S
  <2> SUFFICES ASSUME n + 1 \in 1..Len(r), x[n + 1].w >= CUT PROVE ImpactOn(r[n + 1]) >= x[n + 1].w
    OBVIOUS
  <2>1. (n + 1) - 1 = n /\ n \in 0..Len(r)
    BY <1>3
  <2>2. PICK y \in Arrived, w \in Nat, u \in Nat :
          y = x[n] /\ w = y.w /\ u = x[n + 1].w /\ u <= w /\ u >= CUT
    BY <1>2, <1>5, <2>1
  <2>3. x[n + 1] = Step(g, y, r[n + 1]) /\ r[n + 1] \in Pods
    BY <1>2, <1>3, <2>1, <2>2
  <2>4. w >= CUT /\ u > 0
    BY <2>2, Units
  <2>5. PICK k \in DOMAIN g : g[k].src = y.node /\ g[k].dst = r[n + 1] /\ u = Hop(w, g[k])
    <3>1. PICK p, z : p \in Pods /\ p = r[n + 1] /\ z = Step(g, y, p) /\ z.w = u
      BY <2>2, <2>3
    <3>2. z.w > 0 => \E k \in DOMAIN g : g[k].src = y.node /\ g[k].dst = p /\ z.w = Hop(y.w, g[k])
      BY <1>1, <3>1, StepFacts
    <3>3. QED
      BY <2>2, <2>4, <3>1, <3>2
  <2>6. PICK e \in Edge : e = g[k]
    BY <1>1 DEF IsGraph
  <2>7. PICK v \in Nat : v >= w /\ Settled(y.node, v, k)
    <3>1. CASE n = 0
      <4>1. y.node = root /\ w = Scale
        BY <1>2, <2>2, <3>1 DEF Start
      <4>2. Settled(root, Scale, k)
        BY <1>1 DEF WalkFrom
      <4>3. Scale \in Nat /\ Scale >= w
        BY <4>1, Units
      <4>4. QED
        BY <4>1, <4>2, <4>3
    <3>2. CASE n # 0
      <4>1. n \in 1..Len(r)
        BY <2>1, <3>2
      <4>2. y.node = r[n]
        BY <1>2, <2>2, <4>1
      <4>3. ImpactOn(r[n]) >= w
        BY <1>8, <2>2, <2>4, <4>1
      <4>4. r[n] \in DOMAIN impact
        <5> SUFFICES ASSUME r[n] \notin DOMAIN impact PROVE FALSE
          OBVIOUS
        <5>1. ImpactOn(r[n]) = 0
          BY DEF ImpactOn
        <5>2. QED
          BY <2>4, <4>3, <5>1, Units
      <4>5. ImpactOn(r[n]) = impact[r[n]] /\ Settled(r[n], impact[r[n]], k)
        BY <1>1, <4>4 DEF ImpactOn, WalkFrom
      <4>6. impact[r[n]] \in Nat
        BY <1>4, <4>5
      <4>7. QED
        BY <4>2, <4>3, <4>5, <4>6
    <3>3. QED
      BY <3>1, <3>2
  <2>8. PICK h \in Nat : h = Hop(v, e) /\ u <= h
    <3>1. Hop(v, e) \in Nat /\ Hop(w, e) <= Hop(v, e)
      BY <2>2, <2>6, <2>7, HopFacts
    <3>2. QED
      BY <2>5, <2>6, <3>1
  <2>9. h >= CUT => ImpactOn(r[n + 1]) >= h
    BY <1>6, <2>5, <2>6, <2>7, <2>8
  <2>10. PICK a \in Nat : a = ImpactOn(r[n + 1])
    BY <1>4
  <2>11. a >= u
    BY <2>2, <2>8, <2>9, <2>10, Units
  <2>12. QED
    BY <2>2, <2>10, <2>11
<1>9. \A n \in Nat : n \in S
  <2> HIDE DEF S
  <2> QED BY <1>7, <1>8, SetInduction
<1>10. QED
  BY <1>1, <1>3, <1>9 DEF x

\* When nothing waits on the frontier, what the walk knows is the best of all routes.
LEMMA BestIsKnown ==
  ASSUME LocalsInv, NEW root \in Pods, WalkFrom(root), frontier = <<>>
  PROVE  impact = BestImpact(root)
<1>1. PICK g : g = graph /\ IsGraph(g)
  BY DEF LocalsInv
<1>2. ASSUME NEW x \in Arrivals(root)
      PROVE  x.node \in DOMAIN impact /\ x.w <= impact[x.node]
  <2>1. PICK r \in Routes : x = Along(g, root, r)[Len(r)] /\ x.w >= CUT
    BY <1>1 DEF Arrivals
  <2>2. r \in Seq(Pods) /\ Len(r) \in 1..Len(r) /\ Len(r) \in 0..Len(r)
    BY RouteFacts
  <2>3. x \in Arrived /\ x.node = r[Len(r)]
    BY <1>1, <2>1, <2>2, AlongTypes
  <2>4. PICK w \in Nat : w = x.w /\ w >= CUT
    BY <2>1, <2>3, Units DEF Arrived
  <2>5. ImpactOn(x.node) >= w
    BY <1>1, <2>1, <2>2, <2>3, <2>4, NoRouteBeats
  <2>6. x.node \in DOMAIN impact
    <3> SUFFICES ASSUME x.node \notin DOMAIN impact PROVE FALSE
      OBVIOUS
    <3>1. ImpactOn(x.node) = 0
      BY DEF ImpactOn
    <3>2. QED
      BY <2>4, <2>5, <3>1, Units
  <2>7. ImpactOn(x.node) = impact[x.node] /\ impact[x.node] \in Nat
    BY <2>6, ImpactTypes DEF ImpactOn
  <2>8. impact[x.node] >= w
    BY <2>5, <2>7
  <2>9. QED
    BY <2>4, <2>6, <2>7, <2>8
<1>3. ASSUME NEW p \in DOMAIN impact
      PROVE  \E x \in Arrivals(root) : x.node = p /\ x.w = impact[p]
  <2>1. PICK r : r # <<>> /\ Way(root, r, p, impact[p])
    BY DEF WalkFrom
  <2>2. r \in Routes
    BY <2>1, RouteFacts DEF Way
  <2>3. impact[p] >= CUT
    BY ImpactTypes, Units
  <2>4. Along(graph, root, r)[Len(r)].node = p /\ Along(graph, root, r)[Len(r)].w = impact[p]
    BY <2>1 DEF Way
  <2>5. Along(graph, root, r)[Len(r)] \in Arrivals(root)
    BY <2>2, <2>3, <2>4 DEF Arrivals
  <2>6. QED
    BY <2>4, <2>5
<1>4. {x.node : x \in Arrivals(root)} = DOMAIN impact
  BY <1>2, <1>3
<1>5. ASSUME NEW p \in DOMAIN impact
      PROVE  Max({x.w : x \in {y \in Arrivals(root) : y.node = p}}) = impact[p]
  <2> DEFINE T == {x.w : x \in {y \in Arrivals(root) : y.node = p}}
  <2>1. impact[p] \in T
    BY <1>3
  <2>2. \A v \in T : v <= impact[p]
    BY <1>2
  <2>3. T \subseteq Nat
    <3> SUFFICES ASSUME NEW y \in Arrivals(root) PROVE y.w \in Nat
      OBVIOUS
    <3>1. PICK r \in Routes : y = Along(g, root, r)[Len(r)]
      BY <1>1 DEF Arrivals
    <3>2. r \in Seq(Pods) /\ Len(r) \in 0..Len(r)
      BY RouteFacts
    <3>3. y \in Arrived
      BY <1>1, <3>1, <3>2, AlongTypes
    <3>4. QED
      BY <3>3, Units DEF Arrived
  <2> HIDE DEF T
  <2>4. PICK m \in Nat : m = impact[p]
    BY <2>1, <2>3
  <2>5. m \in T /\ (\A v \in T : m >= v) /\ \A v \in T : v >= m => v = m
    BY <2>1, <2>2, <2>3, <2>4
  <2>6. Max(T) = m
    BY <2>5 DEF Max
  <2>7. QED
    BY <2>4, <2>6 DEF T
<1>6. BestImpact(root) = [p \in DOMAIN impact |-> impact[p]]
  BY <1>4, <1>5 DEF BestImpact
<1>7. impact = [p \in DOMAIN impact |-> impact[p]]
  BY DEF LocalsInv
<1>8. QED
  BY <1>6, <1>7

-----------------------------------------------------------------------------
(* The locals of merge_graphs. *)

\* The entry a walk starts with.
LEMMA StartTypes ==
  ASSUME NEW p \in Pods
  PROVE  Start(p) \in Entry
BY Units DEF Start, Entry

\* A new queue has only arcs of its head to follow.
LEMMA QueueTypes ==
  ASSUME NEW p \in Pods
  PROVE  /\ <<Start(p)>> \in Seq(Entry)
         /\ <<>> \in Seq(Entry)
BY StartTypes

LEMMA MergeLocals ==
  ASSUME LocalsInv, Merge
  PROVE  LocalsInv'
<1>1. PICK es \in Seq(Edge) : es = edges /\ es = edges'
  BY EdgeListsAssumption DEF LocalsInv, Merge
<1>2. PICK g : g = build_graph(es) /\ g = graph'
  BY <1>1 DEF Merge
<1>3. IsGraph(g) /\ \A i \in DOMAIN g : \E j \in DOMAIN es : g[i] = es[j]
  <2>1. IsGraph(build_graph(es)) /\ \A i \in DOMAIN build_graph(es) : \E j \in DOMAIN es : build_graph(es)[i] = es[j]
    BY BuiltGraph
  <2>2. QED
    BY <1>2, <2>1
<1>4. todo' = Nodes(g) /\ (pc' = IF findings \cap Nodes(g) # {} THEN "rank" ELSE "done")
  BY <1>1, <1>2 DEF Merge
<1>5. findings' = findings /\ frontier' = <<>> /\ arcs' = {} /\ impact' = impact
  <2>1. pc = "merge" /\ UNCHANGED <<findings, frontier, arcs, impact>>
    BY DEF Merge
  <2>2. arcs \subseteq OutArcs(frontier) /\ frontier = <<>>
    BY <2>1 DEF LocalsInv
  <2>3. QED
    BY <2>1, <2>2 DEF OutArcs
<1>6. pc' \in {"rank", "walk"} => OnGraph' # {}
  BY <1>2, <1>4, <1>5 DEF OnGraph
<1>7. frontier' \in Seq(Entry)
  BY <1>5
<1>8. edges' \in EdgeLists /\ findings' \in FindingSets
  BY <1>5 DEF LocalsInv, Merge
<1>9. pc' \in {"rank", "done"}
  BY <1>4
<1>10. arcs' \subseteq OutArcs(frontier)'
  BY <1>5
<1>11. DOMAIN impact' \subseteq Pods /\ impact' \in [DOMAIN impact' -> CUT..Scale]
  BY <1>5 DEF LocalsInv
<1>12. QED
  BY <1>1, <1>2, <1>3, <1>4, <1>6, <1>7, <1>8, <1>9, <1>10, <1>11 DEF LocalsInv

\* A walk that starts, goes on or ends leaves the graph alone.
LEMMA SameGraph ==
  ASSUME LocalsInv, UNCHANGED <<edges, findings, graph>>
  PROVE  /\ edges' \in EdgeLists /\ findings' \in FindingSets /\ IsGraph(graph')
         /\ \A i \in DOMAIN graph' : \E j \in DOMAIN edges' : graph'[i] = edges'[j]
         /\ OnGraph' = OnGraph
BY DEF LocalsInv, OnGraph

LEMMA ExploreLocals ==
  ASSUME LocalsInv, Explore
  PROVE  LocalsInv'
<1>1. /\ UNCHANGED <<edges, findings, graph>> /\ todo' = todo /\ todo # {} /\ pc = "rank" /\ pc' = "walk"
      /\ frontier' = <<Start(Candidate(todo))>> /\ arcs' = OutArcs(frontier') /\ impact' = NoImpact
  BY DEF Explore
<1>2. frontier' \in Seq(Entry)
  <2>1. Candidate(todo) \in Pods
    BY <1>1, CandidateIsOne DEF LocalsInv
  <2>2. QED
    BY <1>1, <2>1, QueueTypes
<1>3. arcs' \subseteq OutArcs(frontier)'
  BY <1>1 DEF OutArcs
<1>4. DOMAIN impact' \subseteq Pods /\ impact' \in [DOMAIN impact' -> CUT..Scale]
  BY <1>1 DEF NoImpact
<1>5. todo' \subseteq Nodes(graph')
  BY <1>1 DEF LocalsInv
<1>6. QED
  BY <1>1, <1>2, <1>3, <1>4, <1>5, SameGraph DEF LocalsInv

LEMMA NextEntryLocals ==
  ASSUME LocalsInv, NextEntry
  PROVE  LocalsInv'
<1>1. /\ UNCHANGED <<edges, findings, graph>> /\ todo' = todo /\ pc' = pc /\ impact' = impact
      /\ frontier # <<>> /\ frontier' = Tail(frontier) /\ arcs' = OutArcs(frontier')
  BY DEF NextEntry
<1>2. frontier' \in Seq(Entry)
  BY <1>1 DEF LocalsInv
<1>3. arcs' \subseteq OutArcs(frontier)'
  BY <1>1 DEF OutArcs
<1>4. QED
  BY <1>1, <1>2, <1>3, SameGraph DEF LocalsInv

\* Both walks append at most one entry, and leave the head where it is.
LEMMA Appended ==
  ASSUME LocalsInv, arcs # {}, graph' = graph, arcs' = arcs \ {Min(arcs)},
         frontier' = frontier \/ \E y \in Entry : frontier' = Append(frontier, y)
  PROVE  frontier' \in Seq(Entry) /\ arcs' \subseteq OutArcs(frontier)'
<1>1. frontier \in Seq(Entry) /\ frontier # <<>>
  BY HeadArc DEF LocalsInv
<1>2. frontier' \in Seq(Entry) /\ frontier' # <<>> /\ Head(frontier') = Head(frontier)
  <2>1. CASE frontier' = frontier
    BY <1>1, <2>1
  <2>2. ASSUME NEW y \in Entry, frontier' = Append(frontier, y)
        PROVE  frontier' \in Seq(Entry) /\ frontier' # <<>> /\ Head(frontier') = Head(frontier)
    BY <1>1, <2>2
  <2>3. QED
    BY <2>1, <2>2
<1>3. arcs \subseteq OutArcs(frontier)
  BY DEF LocalsInv
<1>4. OutArcs(frontier)' = OutArcs(frontier)
  BY <1>1, <1>2 DEF OutArcs
<1>5. QED
  BY <1>2, <1>3, <1>4

LEMMA RelaxLocals ==
  ASSUME LocalsInv, Relax
  PROVE  LocalsInv'
<1>1. /\ UNCHANGED <<edges, findings, graph>> /\ todo' = todo /\ pc' = pc
      /\ pc = "walk"
      /\ arcs # {} /\ arcs' = arcs \ {Min(arcs)}
  BY DEF Relax
<1>2. PICK e \in Edge, w \in Nat :
        /\ w <= Scale
        /\ \/ UNCHANGED <<impact, frontier>>
           \/ /\ w >= CUT /\ impact' = Put(impact, e.dst, w)
              /\ frontier' = Append(frontier, [node |-> e.dst, w |-> w, eta |-> 0])
  <2>1. PICK x \in Entry, e \in Edge, w \in Nat :
          /\ w <= x.w
          /\ \/ UNCHANGED <<impact, frontier>>
             \/ /\ w >= CUT /\ impact' = Put(impact, e.dst, w)
                /\ frontier' = Append(frontier, [node |-> e.dst, w |-> w, eta |-> 0])
    BY RelaxFacts
  <2>2. w <= Scale
    BY <2>1, EntryFacts, Units
  <2>3. QED
    BY <2>1, <2>2
<1>3. e.dst \in Pods
  BY DEF Edge
<1>4. frontier' = frontier \/ \E y \in Entry : frontier' = Append(frontier, y)
  <2>1. w >= CUT => [node |-> e.dst, w |-> w, eta |-> 0] \in Entry
    BY <1>2, <1>3, Units DEF Entry
  <2>2. QED
    BY <1>2, <2>1
<1>5. frontier' \in Seq(Entry) /\ arcs' \subseteq OutArcs(frontier)'
  BY <1>1, <1>4, Appended
<1>6. DOMAIN impact' \subseteq Pods /\ impact' \in [DOMAIN impact' -> CUT..Scale]
  <2>1. CASE UNCHANGED impact
    BY <2>1 DEF LocalsInv
  <2>2. CASE w >= CUT /\ impact' = Put(impact, e.dst, w)
    <3>1. w \in CUT..Scale
      BY <1>2, <2>2, Units
    <3>2. DOMAIN impact \subseteq Pods /\ \A p \in DOMAIN impact : impact[p] \in CUT..Scale
      BY DEF LocalsInv
    <3>3. QED
      BY <1>3, <2>2, <3>1, <3>2 DEF Put
  <2>3. QED
    BY <1>2, <2>1, <2>2
<1>7. QED
  BY <1>1, <1>5, <1>6, SameGraph DEF LocalsInv

LEMMA ScoreLocals ==
  ASSUME LocalsInv, ScoreCandidate
  PROVE  LocalsInv'
<1>1. /\ UNCHANGED <<edges, findings, graph>> /\ frontier' = frontier /\ arcs' = arcs /\ impact' = impact
      /\ pc = "walk" /\ pc' = "rank" /\ todo' \subseteq todo
  BY DEF ScoreCandidate
<1>2. OutArcs(frontier)' = OutArcs(frontier)
  BY <1>1 DEF OutArcs
<1>3. arcs' \subseteq OutArcs(frontier)' /\ frontier' \in Seq(Entry)
  BY <1>1, <1>2 DEF LocalsInv
<1>4. todo' \subseteq Nodes(graph')
  BY <1>1 DEF LocalsInv
<1>5. DOMAIN impact' \subseteq Pods /\ impact' \in [DOMAIN impact' -> CUT..Scale]
  BY <1>1 DEF LocalsInv
<1>6. OnGraph # {} \/ pc' = "done"
  BY <1>1 DEF LocalsInv
<1>7. QED
  BY <1>1, <1>3, <1>4, <1>5, <1>6, SameGraph DEF LocalsInv

LEMMA RankLocals ==
  ASSUME LocalsInv, Rank, DOMAIN scores \subseteq Pods
  PROVE  LocalsInv' /\ ranking' \in Seq(DOMAIN scores)
<1>1. /\ UNCHANGED <<edges, findings, graph, todo, impact>> /\ pc' \in {"spread", "done"}
      /\ ranking' \in [1..Min({3, Cardinality(DOMAIN scores)}) -> DOMAIN scores]
      /\ frontier' = (IF ranking' = <<>> THEN <<>> ELSE <<Start(Head(ranking'))>>)
      /\ arcs' = OutArcs(frontier')
  BY DEF Rank
<1>2. ranking' \in Seq(DOMAIN scores)
  <2>1. Cardinality(DOMAIN scores) \in Nat
    BY PodsAssumption, FS_Subset, FS_CardinalityType
  <2>2. {3, Cardinality(DOMAIN scores)} \in SUBSET Nat
    BY <2>1
  <2>3. PICK n \in Nat : n = Min({3, Cardinality(DOMAIN scores)})
    BY <2>2, LeastElement
  <2>4. ranking' \in [1..n -> DOMAIN scores]
    BY <1>1, <2>3
  <2>5. QED
    BY <2>4
<1>3. frontier' \in Seq(Entry)
  <2>1. CASE ranking' = <<>>
    BY <1>1, <2>1
  <2>2. CASE ranking' # <<>>
    <3>1. Head(ranking') \in Pods
      BY <1>2, <2>2
    <3>2. QED
      BY <1>1, <2>2, <3>1, QueueTypes
  <2>3. QED
    BY <2>1, <2>2
<1>4. arcs' \subseteq OutArcs(frontier)'
  BY <1>1 DEF OutArcs
<1>5. QED
  BY <1>1, <1>2, <1>3, <1>4, SameGraph DEF LocalsInv

\* The pod at the end of the arc, and what reaches it.
LEMMA InfectFacts ==
  ASSUME LocalsInv, Infect
  PROVE  \E x \in Entry, e \in Edge, w \in Nat :
           /\ x = Head(frontier) /\ e = graph[Min(arcs)]
           /\ w = Hop(x.w, e) /\ w <= Scale /\ x.eta + e.lag \in Nat /\ e.dst \in Pods
           /\ \/ UNCHANGED <<blast, frontier>>
              \/ /\ e.dst \notin Seen /\ w \in CUT..Scale
                 /\ blast' = Append(blast, [pod |-> e.dst, impact |-> w, eta_s |-> x.eta + e.lag])
                 /\ frontier' = Append(frontier, [node |-> e.dst, w |-> w, eta |-> x.eta + e.lag])
<1>1. arcs # {}
  BY DEF Infect
<1>2. PICK x \in Entry : x = Head(frontier)
  BY <1>1, HeadArc
<1>3. PICK e \in Edge : e = graph[Min(arcs)]
  BY <1>1, HeadArc
<1>4. PICK w \in Nat : w = Hop(x.w, e) /\ w <= x.w
  BY <1>1, <1>2, <1>3, HeadArc
<1>5. w <= Scale /\ x.eta + e.lag \in Nat /\ e.dst \in Pods
  <2>1. x.w \in Nat /\ x.w <= Scale /\ x.eta \in Nat
    BY EntryFacts
  <2>2. e.lag \in Nat /\ e.dst \in Pods
    BY DEF Edge
  <2>3. QED
    BY <1>4, <2>1, <2>2, Units
<1>6. IF e.dst \in Seen \/ w < CUT
      THEN UNCHANGED <<blast, frontier>>
      ELSE /\ blast' = Append(blast, [pod |-> e.dst, impact |-> w, eta_s |-> x.eta + e.lag])
           /\ frontier' = Append(frontier, [node |-> e.dst, w |-> w, eta |-> x.eta + e.lag])
  BY <1>2, <1>3, <1>4 DEF Infect
<1>7. ~(w < CUT) => w \in CUT..Scale
  BY <1>5, Units
<1>8. QED
  BY <1>2, <1>3, <1>4, <1>5, <1>6, <1>7

LEMMA InfectLocals ==
  ASSUME LocalsInv, Infect
  PROVE  LocalsInv'
<1>1. /\ UNCHANGED <<edges, findings, graph>> /\ todo' = todo /\ pc' = pc /\ impact' = impact
      /\ pc = "spread"
      /\ arcs # {} /\ arcs' = arcs \ {Min(arcs)}
  BY DEF Infect
<1>2. frontier' = frontier \/ \E y \in Entry : frontier' = Append(frontier, y)
  <2>1. PICK p, w, eta : /\ p \in Pods /\ w \in Nat /\ w <= Scale /\ eta \in Nat
                         /\ \/ UNCHANGED <<blast, frontier>>
                            \/ /\ w \in CUT..Scale
                               /\ frontier' = Append(frontier, [node |-> p, w |-> w, eta |-> eta])
    BY InfectFacts
  <2>2. w \in CUT..Scale => [node |-> p, w |-> w, eta |-> eta] \in Entry
    BY <2>1, Units DEF Entry
  <2>3. QED
    BY <2>1, <2>2
<1>3. frontier' \in Seq(Entry) /\ arcs' \subseteq OutArcs(frontier)'
  BY <1>1, <1>2, Appended
<1>4. QED
  BY <1>1, <1>3, SameGraph DEF LocalsInv

LEMMA ServeLocals ==
  ASSUME LocalsInv, Serve
  PROVE  LocalsInv'
<1>1. /\ UNCHANGED <<edges, findings, graph>> /\ todo' = todo /\ frontier' = frontier /\ arcs' = arcs
      /\ impact' = impact /\ pc' = "done"
  BY DEF Serve
<1>2. OutArcs(frontier)' = OutArcs(frontier)
  BY <1>1 DEF OutArcs
<1>3. arcs' \subseteq OutArcs(frontier)' /\ frontier' \in Seq(Entry)
  BY <1>1, <1>2 DEF LocalsInv
<1>4. todo' \subseteq Nodes(graph')
  BY <1>1 DEF LocalsInv
<1>5. DOMAIN impact' \subseteq Pods /\ impact' \in [DOMAIN impact' -> CUT..Scale]
  BY <1>1 DEF LocalsInv
<1>6. OnGraph # {} \/ pc' = "done"
  BY <1>1 DEF LocalsInv
<1>7. QED
  BY <1>1, <1>3, <1>4, <1>5, <1>6, SameGraph DEF LocalsInv

-----------------------------------------------------------------------------
(* The verdict. *)

\* A candidate that scores explains a symptom, and owns an edge.
Accountable(p) ==
  /\ p \in findings \/ DOMAIN BestImpact(p) \cap findings # {}
  /\ \E j \in DOMAIN edges : edges[j].src = p

\* r is a way to x through pods that are predicted already.
Spreads(g, root, seen, r, x) ==
  /\ r \in Seq(Pods) /\ IsInjective(r)
  /\ Along(g, root, r)[Len(r)] = x
  /\ \A n \in 1..Len(r) : r[n] \in seen

\* Each of the victims is predicted once, by a route from the root.
Victims(g, root, b) ==
  \A i \in DOMAIN b :
    /\ b[i].pod # root
    /\ \A j \in DOMAIN b : b[i].pod = b[j].pod => i = j
    /\ \E r \in Routes : Along(g, root, r)[Len(r)]
                           = [node |-> b[i].pod, w |-> b[i].impact, eta |-> b[i].eta_s]

SpreadInv ==
  /\ Victims(graph, Head(ranking), blast)
  /\ pc = "spread" =>
       /\ ranking # <<>>
       /\ \A i \in DOMAIN frontier : \E r : Spreads(graph, Head(ranking), Seen, r, frontier[i])

VerdictInv ==
  /\ DOMAIN scores \subseteq Pods
  /\ scores \in [DOMAIN scores -> Nat \ {0}]
  /\ \A p \in DOMAIN scores : Accountable(p)
  /\ ranking \in Seq(DOMAIN scores)
  /\ pc = "merge" => DOMAIN scores = {}
  /\ pc \in {"merge", "rank", "walk"} => ranking = <<>> /\ blast = <<>> /\ active = NoSignal
  /\ blast \in Seq(Victim)
  /\ active \in Signals \cup {NoSignal}
  /\ pc = "done" /\ ranking # <<>> => active # NoSignal

\* What is best, and who is accountable, depends on the graph alone.
LEMMA SameBest ==
  ASSUME graph' = graph, NEW p
  PROVE  Arrivals(p)' = Arrivals(p) /\ BestImpact(p)' = BestImpact(p)
<1>1. PICK g : g = graph /\ g = graph'
  OBVIOUS
<1>2. Arrivals(p)' = Arrivals(p)
  BY <1>1 DEF Arrivals
<1>3. QED
  BY <1>2 DEF BestImpact


\* g adds f up over each set of D, one chosen element after the other.
Sums(D, f, g) ==
  g = [s \in D |-> IF s = {} THEN 0 ELSE f[CHOOSE x \in s : TRUE] + g[s \ {CHOOSE x \in s : TRUE}]]

Total(f, S) == (CHOOSE g : Sums(SUBSET S, f, g))[S]

\* The subsets of S with n elements at most.
Parts(S, n) == {s \in SUBSET S : Cardinality(s) <= n}

LEMMA PartsFacts ==
  ASSUME NEW S, IsFiniteSet(S), NEW n \in Nat
  PROVE  /\ {} \in Parts(S, n) /\ Parts(S, 0) = {{}} /\ Parts(S, n) \subseteq Parts(S, n + 1)
         /\ \A s \in Parts(S, n + 1) : s # {} => s \ {CHOOSE x \in s : TRUE} \in Parts(S, n)
<1>1. \A s \in SUBSET S : IsFiniteSet(s) /\ Cardinality(s) \in Nat /\ (Cardinality(s) = 0 <=> s = {})
  BY FS_Subset, FS_CardinalityType, FS_EmptySet
<1>2. {} \in Parts(S, n) /\ Parts(S, 0) = {{}} /\ Parts(S, n) \subseteq Parts(S, n + 1)
  BY <1>1 DEF Parts
<1>3. ASSUME NEW s \in Parts(S, n + 1), s # {}
      PROVE  s \ {CHOOSE x \in s : TRUE} \in Parts(S, n)
  <2>1. PICK c \in s : c = CHOOSE x \in s : TRUE
    BY <1>3
  <2>2. s \in SUBSET S /\ IsFiniteSet(s) /\ Cardinality(s) <= n + 1 /\ Cardinality(s) \in Nat
    BY <1>1 DEF Parts
  <2>3. Cardinality(s \ {c}) = Cardinality(s) - 1
    BY <2>1, <2>2, FS_RemoveElement
  <2>4. Cardinality(s \ {c}) <= n
    BY <2>2, <2>3
  <2>5. s \ {c} \in Parts(S, n)
    BY <2>2, <2>4 DEF Parts
  <2>6. QED
    BY <2>1, <2>5
<1>4. QED
  BY <1>2, <1>3

LEMMA SumsExist ==
  ASSUME NEW S, IsFiniteSet(S), NEW f, NEW k \in Nat
  PROVE  \E g : Sums(Parts(S, k), f, g)
<1> DEFINE N == {n \in Nat : \E g : Sums(Parts(S, n), f, g)}
<1>1. 0 \in N
  <2> DEFINE g == [s \in Parts(S, 0) |-> 0]
  <2>1. \A s \in Parts(S, 0) : s = {}
    BY PartsFacts
  <2>2. Sums(Parts(S, 0), f, g)
    BY <2>1 DEF Sums
  <2>3. QED
    BY <2>2
<1>2. ASSUME NEW n \in Nat, n \in N PROVE n + 1 \in N
  <2>1. PICK g : Sums(Parts(S, n), f, g)
    BY <1>2
  <2>2. PICK D, E : D = Parts(S, n) /\ E = Parts(S, n + 1)
    OBVIOUS
  <2>3. D \subseteq E /\ \A s \in E : s # {} => s \ {CHOOSE x \in s : TRUE} \in D
    BY <2>2, PartsFacts
  <2> DEFINE add(v, s) == IF s = {} THEN 0 ELSE f[CHOOSE x \in s : TRUE] + v[s \ {CHOOSE x \in s : TRUE}]
             h == [s \in E |-> add(g, s)]
  <2>4. g = [s \in D |-> add(g, s)]
    BY <2>1, <2>2 DEF Sums
  <2>5. \A s \in D : h[s] = g[s]
    <3> HIDE DEF add
    <3> QED BY <2>3, <2>4
  <2>6. ASSUME NEW s \in E PROVE h[s] = add(h, s)
    <3> HIDE DEF h
    <3>1. h[s] = add(g, s)
      BY DEF h
    <3>2. CASE s = {}
      BY <3>1, <3>2
    <3>3. CASE s # {}
      BY <2>3, <2>5, <3>1, <3>3
    <3>4. QED
      BY <3>2, <3>3
  <2>7. h = [s \in E |-> add(h, s)]
    <3>1. h = [s \in E |-> h[s]]
      OBVIOUS
    <3> HIDE DEF h, add
    <3> QED BY <2>6, <3>1
  <2>8. Sums(E, f, h)
    <3> HIDE DEF h
    <3> QED BY <2>7 DEF Sums
  <2>9. QED
    BY <2>2, <2>8
<1>3. \A n \in Nat : n \in N
  <2> HIDE DEF N
  <2> QED BY <1>1, <1>2, SetInduction
<1>4. QED
  BY <1>3

\* A sum of numbers over a finite set is a number; over no set, 0.
LEMMA SumFacts ==
  ASSUME NEW S, IsFiniteSet(S), NEW f, \A s \in S : f[s] \in Nat
  PROVE  /\ Total(f, S) \in Nat
         /\ S = {} => Total(f, S) = 0
<1> DEFINE iter == CHOOSE g : Sums(SUBSET S, f, g)
           N == {n \in Nat : \A s \in Parts(S, n) : iter[s] \in Nat}
<1>1. PICK m \in Nat : m = Cardinality(S)
  BY FS_CardinalityType
<1>2. Parts(S, m) = SUBSET S
  BY <1>1, FS_Subset DEF Parts
<1>3. Sums(SUBSET S, f, iter)
  <2>1. \E g : Sums(Parts(S, m), f, g)
    BY <1>1, SumsExist
  <2>2. \E g : Sums(SUBSET S, f, g)
    BY <1>2, <2>1
  <2>3. QED
    BY <2>2
<1>4. Total(f, S) = iter[S]
  BY DEF Total
<1> HIDE DEF iter
<1>5. /\ iter[{}] = 0
      /\ \A s \in SUBSET S : s # {} =>
           iter[s] = f[CHOOSE x \in s : TRUE] + iter[s \ {CHOOSE x \in s : TRUE}]
  <2> DEFINE add(s) == IF s = {} THEN 0 ELSE f[CHOOSE x \in s : TRUE] + iter[s \ {CHOOSE x \in s : TRUE}]
  <2>1. iter = [s \in SUBSET S |-> add(s)]
    BY <1>3 DEF Sums
  <2> HIDE DEF add
  <2>2. \A s \in SUBSET S : iter[s] = add(s)
    BY <2>1
  <2>3. QED
    BY <2>2 DEF add
<1>6. 0 \in N
  <2>1. Parts(S, 0) = {{}}
    BY PartsFacts
  <2>2. iter[{}] \in Nat
    <3>1. iter[{}] = 0
      BY <1>5
    <3>2. QED
      BY <3>1
  <2>3. \A s \in Parts(S, 0) : s = {}
    BY <2>1
  <2>4. \A s \in Parts(S, 0) : iter[s] \in Nat
    BY <2>2, <2>3
  <2>5. QED
    BY <2>4
<1>7. ASSUME NEW n \in Nat, n \in N PROVE n + 1 \in N
  <2> SUFFICES ASSUME NEW s \in Parts(S, n + 1) PROVE iter[s] \in Nat
    OBVIOUS
  <2>1. CASE s = {}
    BY <1>5, <2>1
  <2>2. CASE s # {}
    <3>1. PICK c \in s : c = CHOOSE x \in s : TRUE
      BY <2>2
    <3>2. s \in SUBSET S
      BY DEF Parts
    <3>3. s \ {c} \in Parts(S, n)
      BY <2>2, <3>1, PartsFacts
    <3>4. f[c] \in Nat /\ iter[s \ {c}] \in Nat
      BY <1>7, <3>1, <3>2, <3>3
    <3>5. iter[s] = f[c] + iter[s \ {c}]
      BY <1>5, <2>2, <3>1, <3>2
    <3>6. QED
      BY <3>4, <3>5
  <2>3. QED
    BY <2>1, <2>2
<1>8. m \in N
  <2> HIDE DEF N
  <2> QED BY <1>6, <1>7, SetInduction
<1>9. iter[S] \in Nat
  BY <1>2, <1>8
<1>10. S = {} => iter[S] = 0
  BY <1>5
<1>11. QED
  BY <1>4, <1>9, <1>10

\* What arrives anywhere has left the root along an arc.
LEMMA FirstArc ==
  ASSUME NEW g, IsGraph(g), NEW root \in Pods, NEW r \in Seq(Pods), r # <<>>,
         Along(g, root, r)[Len(r)].w > 0
  PROVE  \E k \in DOMAIN g : g[k].src = root
<1> SUFFICES ASSUME \A k \in DOMAIN g : g[k].src # root PROVE FALSE
  OBVIOUS
<1> DEFINE x == Along(g, root, r)
           S == {n \in Nat : n \in 1..Len(r) => x[n].w = 0}
<1>1. /\ x[0] = Start(root)
      /\ \A n \in 0..Len(r) : x[n] \in Arrived
      /\ \A n \in 1..Len(r) : x[n] = Step(g, x[n - 1], r[n]) /\ x[n].w <= x[n - 1].w
  BY AlongRounds, AlongTypes
<1>2. x[Len(r)].w > 0
  OBVIOUS
<1> HIDE DEF x
<1>3. Len(r) \in Nat /\ Len(r) # 0 /\ \A n \in 1..Len(r) : r[n] \in Pods
  OBVIOUS
<1>4. \A y \in Arrived : y.w \in Nat
  BY Units DEF Arrived
<1>5. 0 \in S
  OBVIOUS
<1>6. ASSUME NEW n \in Nat, n \in S PROVE n + 1 \in S
  <2> SUFFICES ASSUME n + 1 \in 1..Len(r) PROVE x[n + 1].w = 0
    OBVIOUS
  <2>1. (n + 1) - 1 = n /\ n \in 0..Len(r) /\ n + 1 \in 0..Len(r) /\ (n # 0 => n \in 1..Len(r))
    BY <1>3
  <2>2. PICK u \in Nat, v \in Nat : u = x[n + 1].w /\ v = x[n].w /\ u <= v
    BY <1>1, <1>4, <2>1
  <2>3. CASE n = 0
    <3>1. PICK p, y, z : /\ p \in Pods /\ y \in Arrived /\ y = x[0] /\ z = Step(g, y, p) /\ z.w = u
                         /\ y.node = root
      BY <1>1, <1>3, <2>1, <2>2, <2>3 DEF Start
    <3>2. z.w > 0 => \E k \in DOMAIN g : g[k].src = y.node /\ g[k].dst = p /\ z.w = Hop(y.w, g[k])
      BY <3>1, StepFacts
    <3>3. QED
      BY <2>2, <3>1, <3>2
  <2>4. CASE n # 0
    BY <1>6, <2>1, <2>2, <2>4
  <2>5. QED
    BY <2>3, <2>4
<1>7. Len(r) \in S
  <2> HIDE DEF S
  <2> QED BY <1>3, <1>5, <1>6, SetInduction
<1>8. Len(r) \in 1..Len(r)
  BY <1>3
<1>9. QED
  BY <1>2, <1>7, <1>8

\* The score of a candidate is a number, and without impact on a symptom the candidate is one itself.
LEMMA ScoreFacts ==
  ASSUME LocalsInv, NEW p
  PROVE  /\ Score(p) \in Nat
         /\ Score(p) > 0 => Seeds \cap DOMAIN impact # {} \/ (p \in Seeds /\ ~Explained(p))
<1>1. PICK S : S = Seeds \cap DOMAIN impact
  OBVIOUS
<1>2. IsFiniteSet(S) /\ \A s \in S : impact[s] \in Nat
  <2>1. S \subseteq Pods
    BY <1>1 DEF LocalsInv
  <2>2. \A s \in S : impact[s] \in Nat
    BY <1>1, ImpactTypes
  <2>3. QED
    BY <2>1, <2>2, PodsAssumption, FS_Subset
<1>3. PICK n \in Nat : n = SeedImpact /\ (S = {} => n = 0)
  <2>1. SeedImpact = Total(impact, Seeds \cap DOMAIN impact)
    BY DEF SeedImpact, MapThenSumSet, MapThenFoldSet, Total, Sums
  <2>2. Total(impact, S) \in Nat /\ (S = {} => Total(impact, S) = 0)
    BY <1>2, SumFacts
  <2>3. QED
    BY <1>1, <2>1, <2>2
<1>4. Score(p) = LET all == n + (IF p \in Seeds /\ ~Explained(p) THEN Scale ELSE 0)
                 IN IF Explained(p) THEN all ELSE 2 * all
  BY <1>3 DEF Score
<1>5. Score(p) \in Nat
  BY <1>4, Units
<1>6. ASSUME S = {}, ~(p \in Seeds /\ ~Explained(p)) PROVE Score(p) = 0
  BY <1>3, <1>4, <1>6
<1>7. QED
  BY <1>1, <1>5, <1>6

\* Who scores is accountable.
LEMMA ScoreAccountable ==
  ASSUME LocalsInv, NEW p \in Pods, WalkFrom(p), frontier = <<>>, pc = "walk", Score(p) > 0,
         p \in Nodes(graph)
  PROVE  Accountable(p)
<1>1. Seeds \subseteq findings
  BY DEF LocalsInv, Seeds, OnGraph
<1>2. impact = BestImpact(p)
  BY BestIsKnown
<1>3. \A k \in DOMAIN graph : \E j \in DOMAIN edges : edges[j] = graph[k]
  BY DEF LocalsInv
<1>4. CASE Seeds \cap DOMAIN impact # {}
  <2>1. PICK q \in DOMAIN impact : q \in findings
    BY <1>1, <1>4
  <2>2. DOMAIN BestImpact(p) \cap findings # {}
    BY <1>2, <2>1
  <2>3. PICK r : r # <<>> /\ Way(p, r, q, impact[q])
    BY <2>1 DEF WalkFrom
  <2>4. impact[q] > 0
    BY <2>1, ImpactTypes, Units
  <2>5. \E k \in DOMAIN graph : graph[k].src = p
    <3>1. IsGraph(graph) /\ r \in Seq(Pods) /\ Along(graph, p, r)[Len(r)].w > 0
      BY <2>3, <2>4 DEF Way, LocalsInv
    <3>2. QED
      BY <2>3, <3>1, FirstArc
  <2>6. QED
    BY <1>3, <2>2, <2>5 DEF Accountable
<1>5. CASE p \in Seeds /\ ~Explained(p)
  <2>1. PICK k \in DOMAIN graph : p \in {graph[k].src, graph[k].dst}
    BY DEF Nodes
  <2>2. graph[k].src = p
    BY <1>5, <2>1 DEF Explained
  <2>3. QED
    BY <1>1, <1>3, <1>5, <2>2 DEF Accountable
<1>6. QED
  BY <1>4, <1>5, ScoreFacts

\* A step of any action keeps the types of the locals.
LEMMA LocalsStep ==
  ASSUME LocalsInv, DOMAIN scores \subseteq Pods, [Next]_vars
  PROVE  LocalsInv'
<1>1. CASE UNCHANGED vars
  <2>1. /\ UNCHANGED <<edges, findings, graph>> /\ todo' = todo /\ frontier' = frontier /\ arcs' = arcs
        /\ impact' = impact /\ pc' = pc
    BY <1>1 DEF vars
  <2>2. OutArcs(frontier)' = OutArcs(frontier)
    BY <2>1 DEF OutArcs
  <2>3. arcs' \subseteq OutArcs(frontier)' /\ todo' \subseteq Nodes(graph')
    BY <2>1, <2>2 DEF LocalsInv
  <2>4. QED
    BY <2>1, <2>3, SameGraph DEF LocalsInv
<1>2. QED
  BY <1>1, MergeLocals, ExploreLocals, NextEntryLocals, RelaxLocals, ScoreLocals, RankLocals,
     InfectLocals, ServeLocals DEF Next

\* Who is accountable stays so while the graph, the edges and the findings do.
LEMMA SameAccount ==
  ASSUME UNCHANGED <<edges, findings, graph>>, NEW p, Accountable(p)
  PROVE  Accountable(p)'
<1>1. BestImpact(p)' = BestImpact(p)
  BY SameBest
<1>2. QED
  BY <1>1 DEF Accountable

LEMMA ScoreVerdict ==
  ASSUME LocalsInv, WalkInv, VerdictInv, ScoreCandidate
  PROVE  VerdictInv'
<1>1. /\ UNCHANGED <<edges, findings, graph>> /\ ranking' = ranking /\ blast' = blast /\ active' = active
      /\ pc = "walk" /\ frontier = <<>> /\ pc' = "rank"
  BY DEF ScoreCandidate
<1>2. PICK p \in Pods : p = Candidate(todo) /\ WalkFrom(p)
  BY <1>1 DEF WalkInv
<1>3. p \in Nodes(graph)
  <2>1. todo # {} /\ todo \in SUBSET Nodes(graph)
    BY <1>1 DEF LocalsInv
  <2>2. QED
    BY <1>2, <2>1, CandidateIsOne
<1>4. PICK s \in Nat : s = Score(p)
  BY ScoreFacts
<1>5. scores' = IF s > 0 THEN Put(scores, p, s) ELSE scores
  BY <1>2, <1>4 DEF ScoreCandidate
<1>6. s > 0 => Accountable(p)
  BY <1>1, <1>2, <1>3, <1>4, ScoreAccountable
<1>7. /\ DOMAIN scores' \subseteq Pods /\ scores' \in [DOMAIN scores' -> Nat \ {0}]
      /\ \A q \in DOMAIN scores' : Accountable(q)
  <2>1. DOMAIN scores \subseteq Pods /\ \A q \in DOMAIN scores : scores[q] \in Nat \ {0} /\ Accountable(q)
    BY DEF VerdictInv
  <2>2. CASE s > 0
    <3>1. /\ DOMAIN scores' = DOMAIN scores \cup {p}
          /\ \A q \in DOMAIN scores' : scores'[q] = IF q = p THEN s ELSE scores[q]
          /\ scores' = [q \in DOMAIN scores' |-> scores'[q]]
      BY <1>5, <2>2 DEF Put
    <3>2. \A q \in DOMAIN scores' : scores'[q] \in Nat \ {0}
      BY <2>1, <2>2, <3>1
    <3>3. QED
      BY <1>6, <2>1, <2>2, <3>1, <3>2
  <2>3. CASE ~(s > 0)
    <3>1. scores' = scores
      BY <1>5, <2>3
    <3>2. QED
      BY <2>1, <3>1 DEF VerdictInv
  <2>4. QED
    BY <2>2, <2>3
<1>8. \A q \in DOMAIN scores' : Accountable(q)'
  BY <1>1, <1>7, SameAccount
<1>9. /\ ranking' = <<>> /\ blast' = <<>> /\ active' = NoSignal
  BY <1>1 DEF VerdictInv
<1>10. ranking' \in Seq(DOMAIN scores') /\ blast' \in Seq(Victim)
  BY <1>9
<1>11. QED
  BY <1>1, <1>7, <1>8, <1>9, <1>10 DEF VerdictInv

LEMMA ServeVerdict ==
  ASSUME LocalsInv, SpreadInv, VerdictInv, Serve
  PROVE  VerdictInv'
<1>1. /\ UNCHANGED <<edges, findings, graph>> /\ ranking' = ranking /\ scores' = scores
      /\ pc = "spread" /\ pc' = "done" /\ active' = ActiveSignal(Head(ranking))
  BY DEF Serve
<1>2. PICK root : root = Head(ranking) /\ root \in DOMAIN scores
  <2>1. ranking # <<>> /\ ranking \in Seq(DOMAIN scores)
    BY <1>1 DEF SpreadInv, VerdictInv
  <2>2. QED
    BY <2>1
<1>3. PICK es \in Seq(Edge) : es = edges
  BY EdgeListsAssumption DEF LocalsInv
<1>4. active' \in Signals
  <2> DEFINE owned == {i \in DOMAIN es : es[i].src = root}
  <2>1. owned # {}
    <3>1. Accountable(root)
      BY <1>2 DEF VerdictInv
    <3>2. QED
      BY <1>3, <3>1 DEF Accountable
  <2>2. DOMAIN es \subseteq Nat /\ \A i \in DOMAIN es : es[i].signal \in Signals
    <3>1. \A i \in DOMAIN es : es[i] \in Edge
      OBVIOUS
    <3>2. QED
      BY <3>1 DEF Edge
  <2>3. active' = es[Min(owned)].signal
    BY <1>1, <1>2, <1>3, <2>1 DEF ActiveSignal
  <2>4. owned \in SUBSET Nat
    BY <2>2
  <2> HIDE DEF owned
  <2>5. Min(owned) \in owned
    BY <2>1, <2>4, LeastElement
  <2>6. Min(owned) \in DOMAIN es
    BY <2>5 DEF owned
  <2>7. QED
    BY <2>2, <2>3, <2>6
<1>5. blast' \in Seq(Victim)
  <2>1. PICK order \in [DOMAIN blast -> DOMAIN blast] : blast' = [k \in DOMAIN blast |-> blast[order[k]]]
    BY DEF Serve
  <2>2. PICK b \in Seq(Victim) : b = blast
    BY DEF VerdictInv
  <2>3. PICK n \in Nat : DOMAIN b = 1..n /\ \A k \in 1..n : b[k] \in Victim
    OBVIOUS
  <2>4. blast' \in [1..n -> Victim]
    BY <2>1, <2>2, <2>3
  <2>5. QED
    BY <2>4
<1>6. \A q \in DOMAIN scores' : Accountable(q)'
  <2>1. \A q \in DOMAIN scores : Accountable(q)
    BY DEF VerdictInv
  <2>2. QED
    BY <1>1, <2>1, SameAccount
<1>7. active' # NoSignal
  BY <1>4, NoSignalAssumption
<1>8. QED
  BY <1>1, <1>4, <1>5, <1>6, <1>7 DEF VerdictInv

\* The other actions but the merge leave the scores, the ranking and the label alone.
LEMMA VerdictStep ==
  ASSUME LocalsInv, WalkInv, SpreadInv, VerdictInv, [Next]_vars
  PROVE  VerdictInv'
<1>1. CASE Merge
  <2>1. /\ scores' = scores /\ ranking' = ranking /\ blast' = blast /\ active' = active
        /\ pc = "merge" /\ pc' \in {"rank", "done"}
    BY <1>1 DEF Merge
  <2>2. DOMAIN scores' = {} /\ ranking' = <<>> /\ blast' = <<>> /\ active' = NoSignal
    BY <2>1 DEF VerdictInv
  <2>3. scores' \in [DOMAIN scores' -> Nat \ {0}] /\ ranking' \in Seq(DOMAIN scores') /\ blast' \in Seq(Victim)
    BY <2>1, <2>2 DEF VerdictInv
  <2>4. QED
    BY <2>1, <2>2, <2>3 DEF VerdictInv
<1>2. CASE Explore \/ NextEntry \/ Relax \/ Rank \/ Infect \/ UNCHANGED vars
  <2>1. UNCHANGED <<edges, findings, graph>> /\ scores' = scores /\ active' = active
    BY <1>2 DEF Explore, NextEntry, Relax, Rank, Infect, vars
  <2>2. \A q \in DOMAIN scores' : Accountable(q)'
    <3>1. \A q \in DOMAIN scores : Accountable(q)
      BY DEF VerdictInv
    <3>2. QED
      BY <2>1, <3>1, SameAccount
  <2>3. /\ ranking' \in Seq(DOMAIN scores)
        /\ pc' = "merge" => pc = "merge"
        /\ pc' \in {"rank", "walk"} => pc \in {"rank", "walk"}
        /\ pc' # "spread" => blast' = blast
        /\ pc' \in {"merge", "rank", "walk"} => ranking' = ranking
        /\ pc' = "done" => ranking' = <<>> \/ (pc = "done" /\ ranking' = ranking)
    <3>1. CASE Rank
      <4>1. pc' \in {"spread", "done"} /\ blast' = blast /\ (pc' = "done" => ranking' = <<>>)
        BY <3>1 DEF Rank
      <4>2. ranking' \in Seq(DOMAIN scores)
        BY <3>1, RankLocals DEF VerdictInv
      <4>3. QED
        BY <4>1, <4>2
    <3>2. CASE Explore \/ NextEntry \/ Relax \/ UNCHANGED vars
      <4>1. /\ blast' = blast /\ ranking' = ranking /\ (pc' = pc \/ (pc = "rank" /\ pc' = "walk"))
        BY <3>2 DEF Explore, NextEntry, Relax, vars
      <4>2. QED
        BY <4>1 DEF VerdictInv
    <3>3. CASE Infect
      <4>1. ranking' = ranking /\ pc = "spread" /\ pc' = "spread"
        BY <3>3 DEF Infect
      <4>2. QED
        BY <4>1 DEF VerdictInv
    <3>4. QED
      BY <1>2, <3>1, <3>2, <3>3
  <2>4. blast' \in Seq(Victim)
    <3>1. CASE Infect
      <4>1. PICK p, w, eta : /\ p \in Pods /\ w \in Nat /\ eta \in Nat
                             /\ \/ blast' = blast
                                \/ /\ w \in CUT..Scale
                                   /\ blast' = Append(blast, [pod |-> p, impact |-> w, eta_s |-> eta])
        BY <3>1, InfectFacts
      <4>2. w \in CUT..Scale => [pod |-> p, impact |-> w, eta_s |-> eta] \in Victim
        BY <4>1 DEF Victim
      <4>3. blast \in Seq(Victim)
        BY DEF VerdictInv
      <4>4. QED
        BY <4>1, <4>2, <4>3
    <3>2. CASE Explore \/ NextEntry \/ Relax \/ Rank \/ UNCHANGED vars
      BY <3>2 DEF Explore, NextEntry, Relax, Rank, vars, VerdictInv
    <3>3. QED
      BY <1>2, <3>1, <3>2
  <2>5. QED
    BY <2>1, <2>2, <2>3, <2>4 DEF VerdictInv
<1>3. QED
  BY <1>1, <1>2, ScoreVerdict, ServeVerdict DEF Next

-----------------------------------------------------------------------------
(* The walk of blast_radius. *)

\* The next turn starts from an entry that waited with the others.
LEMMA NextEntrySpread ==
  ASSUME LocalsInv, SpreadInv, NextEntry
  PROVE  SpreadInv'
<1>1. PICK root, seen, g : root = Head(ranking) /\ seen = Seen /\ g = graph
  OBVIOUS
<1>2. graph' = g /\ pc' = pc /\ ranking' = ranking /\ blast' = blast /\ frontier # <<>> /\ frontier' = Tail(frontier)
  BY <1>1 DEF NextEntry
<1>3. Head(ranking') = root /\ Seen' = seen
  BY <1>1, <1>2 DEF Seen
<1>4. Victims(g, root, blast')
  BY <1>1, <1>2 DEF SpreadInv
<1>5. ASSUME pc = "spread", NEW i \in DOMAIN frontier'
      PROVE  \E r : Spreads(g, root, seen, r, frontier'[i])
  <2>1. frontier \in Seq(Entry)
    BY DEF LocalsInv
  <2>2. i + 1 \in DOMAIN frontier /\ frontier'[i] = frontier[i + 1]
    BY <1>2, <2>1
  <2>3. \E r : Spreads(g, root, seen, r, frontier[i + 1])
    BY <1>1, <1>5, <2>2 DEF SpreadInv
  <2>4. QED
    BY <2>2, <2>3
<1>6. pc = "spread" => ranking' # <<>>
  BY <1>2 DEF SpreadInv
<1>7. QED
  BY <1>2, <1>3, <1>4, <1>5, <1>6 DEF SpreadInv

\* A new victim prolongs the route to the head of the frontier.
LEMMA InfectSpread ==
  ASSUME LocalsInv, SpreadInv, VerdictInv, Infect
  PROVE  SpreadInv'
<1>1. PICK root, seen, g : root = Head(ranking) /\ seen = Seen /\ g = graph
  OBVIOUS
<1>2. /\ graph' = g /\ ranking' = ranking /\ pc = "spread" /\ pc' = "spread" /\ arcs # {}
  BY <1>1 DEF Infect
<1>3. /\ Victims(g, root, blast) /\ ranking # <<>>
      /\ \A i \in DOMAIN frontier : \E r : Spreads(g, root, seen, r, frontier[i])
  BY <1>1, <1>2 DEF SpreadInv
<1>4. PICK x \in Entry, e \in Edge, w \in Nat :
        /\ x = Head(frontier) /\ e = graph[Min(arcs)] /\ w = Hop(x.w, e)
        /\ \/ UNCHANGED <<blast, frontier>>
           \/ /\ e.dst \notin seen
              /\ blast' = Append(blast, [pod |-> e.dst, impact |-> w, eta_s |-> x.eta + e.lag])
              /\ frontier' = Append(frontier, [node |-> e.dst, w |-> w, eta |-> x.eta + e.lag])
  BY <1>1, InfectFacts
<1>5. CASE UNCHANGED <<blast, frontier>>
  <2>1. Seen' = seen
    BY <1>1, <1>2, <1>5 DEF Seen
  <2>2. QED
    BY <1>1, <1>2, <1>3, <1>5, <2>1 DEF SpreadInv
<1>6. ASSUME NEW v, NEW y,
             v = [pod |-> e.dst, impact |-> w, eta_s |-> x.eta + e.lag],
             y = [node |-> e.dst, w |-> w, eta |-> x.eta + e.lag],
             e.dst \notin seen, blast' = Append(blast, v), frontier' = Append(frontier, y)
      PROVE  SpreadInv'
  <2>1. PICK b \in Seq(Victim), n \in Nat : b = blast /\ n = Len(b) /\ DOMAIN b = 1..n
    BY DEF VerdictInv
  <2>2. /\ DOMAIN blast' = 1..(n + 1) /\ blast'[n + 1] = v
        /\ \A i \in 1..n : blast'[i] = b[i]
    BY <1>6, <2>1
  <2>3. root \in seen /\ \A i \in 1..n : b[i].pod \in seen
    BY <1>1, <2>1 DEF Seen
  <2>4. Seen' = seen \cup {e.dst}
    <3>1. {blast'[i].pod : i \in DOMAIN blast'} = {b[i].pod : i \in DOMAIN b} \cup {e.dst}
      <4>1. v.pod = e.dst /\ n + 1 \in 1..(n + 1)
        BY <1>6
      <4>2. \A i \in 1..(n + 1) : i \in 1..n \/ i = n + 1
        OBVIOUS
      <4>3. \A i \in 1..n : i \in 1..(n + 1)
        OBVIOUS
      <4>4. QED
        BY <2>1, <2>2, <4>1, <4>2, <4>3
    <3>2. QED
      BY <1>1, <1>2, <2>1, <3>1 DEF Seen
  <2>5. PICK k \in DOMAIN g : e = g[k] /\ g[k].src = x.node /\ IsGraph(g)
    BY <1>1, <1>2, <1>4, HeadArc DEF LocalsInv
  <2>6. PICK r : Spreads(g, root, seen, r, x)
    <3>1. Len(frontier) \in Nat \ {0} /\ x = frontier[1]
      BY <1>2, <1>4, HeadArc
    <3>2. 1 \in DOMAIN frontier
      BY <3>1 DEF LocalsInv
    <3>3. QED
      BY <1>3, <3>1, <3>2
  <2>7. root \in Pods
    BY <1>1, <1>3 DEF VerdictInv
  <2>8. PICK longer : /\ longer \in Seq(Pods) /\ longer # <<>> /\ IsInjective(longer)
                      /\ \A m \in 1..Len(longer) : longer[m] \in seen \cup {e.dst}
                      /\ Along(g, root, longer)[Len(longer)] = y
    <3>1. /\ r \in Seq(Pods) /\ IsInjective(r) /\ Along(g, root, r)[Len(r)] = x
          /\ \A m \in 1..Len(r) : r[m] \in seen
      BY <2>6 DEF Spreads
    <3>2. \A m \in 1..Len(r) : r[m] # g[k].dst
      BY <1>6, <2>5, <3>1
    <3> DEFINE q == Append(r, g[k].dst)
    <3>3. /\ q \in Seq(Pods) /\ q # <<>> /\ IsInjective(q)
          /\ Len(q) = Len(r) + 1 /\ Len(r) \in Nat /\ q[Len(q)] = g[k].dst
          /\ \A m \in 1..Len(r) : q[m] = r[m]
          /\ Along(g, root, q)[Len(q)] = [node |-> g[k].dst, w |-> Hop(x.w, g[k]), eta |-> x.eta + g[k].lag]
      BY <2>5, <2>7, <3>1, <3>2, Prolonged
    <3> HIDE DEF q
    <3>4. Along(g, root, q)[Len(q)] = y
      BY <1>4, <1>6, <2>5, <3>3
    <3>5. \A m \in 1..Len(q) : q[m] \in seen \cup {e.dst}
      <4>1. \A m \in 1..Len(q) : m \in 1..Len(r) \/ m = Len(q)
        BY <3>3
      <4>2. QED
        BY <2>5, <3>1, <3>3, <4>1
    <3>6. QED
      BY <3>3, <3>4, <3>5
  <2>9. Victims(g, root, blast')
    <3>1. \A i \in 1..n : /\ b[i].pod # root /\ b[i].pod # e.dst
                          /\ \A j \in 1..n : b[i].pod = b[j].pod => i = j
                          /\ \E q \in Routes : Along(g, root, q)[Len(q)]
                               = [node |-> b[i].pod, w |-> b[i].impact, eta |-> b[i].eta_s]
      BY <1>3, <1>6, <2>1, <2>3 DEF Victims
    <3>2. v.pod = e.dst /\ v.pod # root /\ y = [node |-> v.pod, w |-> v.impact, eta |-> v.eta_s]
      BY <1>6, <2>3
    <3>3. longer \in Routes
      BY <2>8, RouteFacts
    <3>4. ASSUME NEW i \in 1..(n + 1)
          PROVE  /\ blast'[i].pod # root
                 /\ \A j \in 1..(n + 1) : blast'[i].pod = blast'[j].pod => i = j
                 /\ \E q \in Routes : Along(g, root, q)[Len(q)]
                      = [node |-> blast'[i].pod, w |-> blast'[i].impact, eta |-> blast'[i].eta_s]
      <4>1. \A j \in 1..(n + 1) : j \in 1..n \/ j = n + 1
        OBVIOUS
      <4>2. CASE i \in 1..n
        BY <2>2, <3>1, <3>2, <4>1, <4>2
      <4>3. CASE i = n + 1
        BY <2>2, <2>8, <3>1, <3>2, <3>3, <4>1, <4>3
      <4>4. QED
        BY <4>1, <4>2, <4>3
    <3>5. QED
      BY <2>2, <3>4 DEF Victims
  <2>10. \A i \in DOMAIN frontier' : \E q : Spreads(g, root, seen \cup {e.dst}, q, frontier'[i])
    <3>1. frontier \in Seq(Entry)
      BY DEF LocalsInv
    <3>2. \A i \in DOMAIN frontier' : frontier'[i] = y \/ (i \in DOMAIN frontier /\ frontier'[i] = frontier[i])
      BY <1>6, <3>1
    <3>3. Spreads(g, root, seen \cup {e.dst}, longer, y)
      BY <2>8 DEF Spreads
    <3>4. \A q, z : Spreads(g, root, seen, q, z) => Spreads(g, root, seen \cup {e.dst}, q, z)
      BY DEF Spreads
    <3>5. QED
      BY <1>3, <3>2, <3>3, <3>4
  <2>11. QED
    BY <1>1, <1>2, <1>3, <2>4, <2>9, <2>10 DEF SpreadInv
<1>7. QED
  BY <1>4, <1>5, <1>6

\* At the start only the root waits on the frontier.
LEMMA RankSpread ==
  ASSUME LocalsInv, SpreadInv, VerdictInv, Rank
  PROVE  SpreadInv'
<1>1. PICK g : g = graph /\ g = graph'
  BY DEF Rank
<1>2. blast' = <<>>
  BY DEF Rank, VerdictInv
<1>3. Victims(g, Head(ranking'), blast')
  BY <1>2 DEF Victims
<1>4. ASSUME pc' = "spread" PROVE ranking' # <<>> /\ frontier' = <<Start(Head(ranking'))>>
  BY <1>4 DEF Rank
<1>5. ASSUME pc' = "spread", NEW i \in DOMAIN frontier'
      PROVE  \E r : Spreads(g, Head(ranking'), Seen', r, frontier'[i])
  <2>1. PICK root : root = Head(ranking')
    OBVIOUS
  <2>2. frontier'[i] = Start(root)
    BY <1>4, <1>5, <2>1
  <2>3. Along(g, root, <<>>)[0] = Start(root)
    <3>1. <<>> \in Seq(Pods)
      OBVIOUS
    <3>2. PICK none \in Seq(Pods) : none = <<>>
      BY <3>1
    <3>3. Along(g, root, none)[0] = Start(root)
      BY AlongRounds
    <3>4. QED
      BY <3>2, <3>3
  <2>4. Spreads(g, root, Seen', <<>>, Start(root))
    BY <2>3 DEF Spreads, IsInjective
  <2>5. QED
    BY <2>1, <2>2, <2>4
<1>6. QED
  BY <1>1, <1>3, <1>4, <1>5 DEF SpreadInv

\* Sorting the victims keeps each of them once.
LEMMA ServeSpread ==
  ASSUME LocalsInv, SpreadInv, VerdictInv, Serve
  PROVE  SpreadInv'
<1>1. graph' = graph /\ ranking' = ranking /\ pc' = "done"
  BY DEF Serve
<1>2. PICK root, g, b : root = Head(ranking) /\ g = graph /\ b = blast
  OBVIOUS
<1>3. PICK order \in [DOMAIN b -> DOMAIN b] : IsInjective(order) /\ blast' = [k \in DOMAIN b |-> b[order[k]]]
  BY <1>2 DEF Serve, IsByImpact
<1>4. \A i, j \in DOMAIN b : order[i] = order[j] => i = j
  BY <1>3 DEF IsInjective
<1>5. Victims(g, root, b)
  BY <1>2 DEF SpreadInv
<1>6. Victims(g, root, blast')
  BY <1>3, <1>4, <1>5 DEF Victims
<1>7. QED
  BY <1>1, <1>2, <1>6 DEF SpreadInv

LEMMA SpreadStep ==
  ASSUME LocalsInv, SpreadInv, VerdictInv, [Next]_vars
  PROVE  SpreadInv'
<1>1. CASE Merge \/ Explore \/ Relax \/ ScoreCandidate
  <2>1. pc' # "spread" /\ blast' = <<>>
    BY <1>1 DEF Merge, Explore, Relax, ScoreCandidate, VerdictInv
  <2>2. Victims(graph', Head(ranking'), blast')
    BY <2>1 DEF Victims
  <2>3. QED
    BY <2>1, <2>2 DEF SpreadInv
<1>2. CASE UNCHANGED vars
  <2>1. graph' = graph /\ ranking' = ranking /\ blast' = blast /\ frontier' = frontier /\ pc' = pc
    BY <1>2 DEF vars
  <2>2. Seen' = Seen
    BY <2>1 DEF Seen
  <2>3. QED
    BY <2>1, <2>2 DEF SpreadInv
<1>3. QED
  BY <1>1, <1>2, NextEntrySpread, InfectSpread, RankSpread, ServeSpread DEF Next

-----------------------------------------------------------------------------
(* The theorems. *)

IInv == LocalsInv /\ WalkInv /\ VerdictInv /\ SpreadInv

LEMMA InitInv ==
  ASSUME Init
  PROVE  IInv
<1>1. /\ edges \in EdgeLists /\ findings \in FindingSets /\ graph = <<>> /\ pc = "merge" /\ todo = {}
      /\ frontier = <<>> /\ arcs = {} /\ impact = NoImpact /\ scores = NoImpact
      /\ ranking = <<>> /\ blast = <<>> /\ active = NoSignal
  BY DEF Init
<1>2. IsGraph(graph) /\ DOMAIN graph = {}
  BY <1>1 DEF IsGraph
<1>3. DOMAIN NoImpact = {} /\ \A S : NoImpact \in [DOMAIN NoImpact -> S]
  BY DEF NoImpact
<1>4. LocalsInv
  <2>1. frontier \in Seq(Entry) /\ impact \in [DOMAIN impact -> CUT..Scale] /\ DOMAIN impact = {}
    BY <1>1, <1>3
  <2>2. QED
    BY <1>1, <1>2, <2>1 DEF LocalsInv
<1>5. WalkInv
  BY <1>1 DEF WalkInv
<1>6. VerdictInv
  <2>1. scores \in [DOMAIN scores -> Nat \ {0}] /\ DOMAIN scores = {}
    BY <1>1, <1>3
  <2>2. ranking \in Seq(DOMAIN scores) /\ blast \in Seq(Victim)
    BY <1>1
  <2>3. QED
    BY <1>1, <2>1, <2>2 DEF VerdictInv
<1>7. SpreadInv
  BY <1>1 DEF SpreadInv, Victims
<1>8. QED
  BY <1>4, <1>5, <1>6, <1>7 DEF IInv

LEMMA Inductive == Spec => []IInv
<1>1. Init => IInv
  BY InitInv
<1>2. IInv /\ [Next]_vars => IInv'
  <2> SUFFICES ASSUME IInv, [Next]_vars PROVE IInv'
    OBVIOUS
  <2>1. LocalsInv'
    BY LocalsStep DEF IInv, VerdictInv
  <2>2. WalkInv' /\ VerdictInv' /\ SpreadInv'
    BY WalkStep, VerdictStep, SpreadStep DEF IInv
  <2>3. QED
    BY <2>1, <2>2 DEF IInv
<1>3. QED
  BY <1>1, <1>2, PTL DEF Spec

\* merge_graphs' locals keep their types: an impact is between the cut and one, a score
\* that is kept is positive, and the label of the verdict is a signal or none.
THEOREM TypeCorrect == Spec => []TypeOK
<1>1. IInv => TypeOK
  <2> SUFFICES ASSUME LocalsInv, VerdictInv PROVE TypeOK
    BY DEF IInv
  <2>1. DOMAIN graph \subseteq Nat /\ graph \in [DOMAIN graph -> Edge] /\ Nodes(graph) \subseteq Pods
    BY DEF LocalsInv, IsGraph, Nodes, Edge
  <2>2. ranking \in Seq(Pods)
    BY DEF VerdictInv
  <2>3. QED
    BY <2>1, <2>2 DEF TypeOK, LocalsInv, VerdictInv
<1>2. QED
  BY <1>1, Inductive, PTL

\* _forward_impact is right on every graph, cyclic or not: once nothing waits on the
\* frontier, impact holds exactly the pods some route reaches above the cut, each with
\* the most any route brings it.
THEOREM ImpactCorrect == Spec => []ImpactIsBest
<1>1. IInv => ImpactIsBest
  BY BestIsKnown DEF IInv, WalkInv, ImpactIsBest
<1>2. QED
  BY <1>1, Inductive, PTL

\* blast_radius predicts no pod twice and never the root, and the impact and the ETA it
\* gives a pod belong to one and the same route from the root.
THEOREM BlastCorrect == Spec => []BlastIsOneRoute
<1>1. IInv => BlastIsOneRoute
  <2> SUFFICES ASSUME IInv PROVE BlastIsOneRoute
    OBVIOUS
  <2>1. PICK root, g, b : root = Head(ranking) /\ g = graph /\ b = blast
    OBVIOUS
  <2>2. Victims(g, root, b) /\ b \in Seq(Victim)
    BY <2>1 DEF IInv, SpreadInv, VerdictInv
  <2>3. ASSUME NEW i \in DOMAIN b
        PROVE  \E x \in Arrivals(root) : x.node = b[i].pod /\ x.w = b[i].impact /\ x.eta = b[i].eta_s
    <3>1. PICK r \in Routes : Along(g, root, r)[Len(r)]
                                = [node |-> b[i].pod, w |-> b[i].impact, eta |-> b[i].eta_s]
      BY <2>2 DEF Victims
    <3>2. b[i] \in Victim
      BY <2>2
    <3>3. b[i].impact >= CUT
      BY <3>2, Units DEF Victim
    <3>4. Along(g, root, r)[Len(r)] \in Arrivals(root)
      BY <2>1, <3>1, <3>3 DEF Arrivals
    <3>5. QED
      BY <3>1, <3>4
  <2>4. \A i \in DOMAIN b : b[i].pod # root /\ \A j \in DOMAIN b : b[i].pod = b[j].pod => i = j
    BY <2>2 DEF Victims
  <2>5. QED
    BY <2>1, <2>3, <2>4 DEF BlastIsOneRoute
<1>2. QED
  BY <1>1, Inductive, PTL

\* merge_graphs blames no one without a symptom on the graph: the first of the ranking has
\* a finding or its impact reaches one, and it owns the edge that labels the verdict.
THEOREM RootCorrect == Spec => []RootAccountable
<1>1. IInv => RootAccountable
  <2> SUFFICES ASSUME VerdictInv PROVE RootAccountable
    BY DEF IInv
  <2>1. ranking # <<>> => Head(ranking) \in DOMAIN scores
    BY DEF VerdictInv
  <2>2. \A p \in DOMAIN scores : p \in findings \/ DOMAIN BestImpact(p) \cap findings # {}
    BY DEF VerdictInv, Accountable
  <2>3. QED
    BY <2>1, <2>2 DEF RootAccountable, VerdictInv
<1>2. QED
  BY <1>1, Inductive, PTL
=============================================================================
