--------------------------- MODULE AggregatorProofs ---------------------------
(***************************************************************************)
(* Proofs about Aggregator for every pack, set of pods, ring capacity and  *)
(* number of polls: types, that /window holds exactly the newest samples   *)
(* of each series, that /events serves the newest events in order, and     *)
(* that every event is backed by the window.                               *)
(***************************************************************************)
EXTENDS Aggregator, FiniteSetTheorems, TLAPS

-----------------------------------------------------------------------------
(* The bounded sequences behind /window and /events. *)

\* Sequences of one length with the same elements are equal.
LEMMA SameSequence ==
  ASSUME NEW S, NEW p \in Seq(S), NEW q \in Seq(S), Len(p) = Len(q), \A k \in 1 .. Len(p) : p[k] = q[k]
  PROVE  p = q
OBVIOUS

\* append and cut, below the bound: nothing is cut.
LEMMA LastOfShort ==
  ASSUME NEW S, NEW r \in Seq(S), NEW x \in S, NEW n \in Nat \ {0}, Len(r) < n
  PROVE  LastOf(Append(r, x), n) = Append(r, x)
<1>1. Len(Append(r, x)) = Len(r) + 1 /\ Len(r) \in Nat
  OBVIOUS
<1>2. ~(Len(Append(r, x)) > n)
  BY <1>1
<1>3. QED
  BY <1>2 DEF LastOf

\* append and cut, at the bound: the oldest element goes.
LEMMA LastOfFull ==
  ASSUME NEW S, NEW r \in Seq(S), NEW x \in S, NEW n \in Nat \ {0}, Len(r) = n
  PROVE  LastOf(Append(r, x), n) = Append(Tail(r), x)
<1> DEFINE a == Append(r, x)
           cut == SubSeq(a, 2, n + 1)
           b == Append(Tail(r), x)
<1>1. a \in Seq(S) /\ Len(a) = n + 1
  OBVIOUS
<1>2. a[n + 1] = x /\ \A i \in 1 .. n : a[i] = r[i]
  OBVIOUS
<1>3. Tail(r) \in Seq(S) /\ Len(Tail(r)) = n - 1 /\ \A i \in 1 .. n - 1 : Tail(r)[i] = r[i + 1]
  OBVIOUS
<1>4. b \in Seq(S) /\ Len(b) = n /\ b[n] = x /\ \A i \in 1 .. n - 1 : b[i] = Tail(r)[i]
  BY <1>3
<1>5. LastOf(a, n) = IF Len(a) > n THEN SubSeq(a, Len(a) - n + 1, Len(a)) ELSE a
  BY DEF LastOf
<1> HIDE DEF a, b
<1>6. cut \in Seq(S) /\ Len(cut) = n /\ \A i \in 1 .. n : cut[i] = a[i + 1]
  BY <1>1
<1>7. LastOf(a, n) = cut
  BY <1>1, <1>5
<1> HIDE DEF cut
<1>8. ASSUME NEW i \in 1 .. n PROVE cut[i] = b[i]
  <2>1. CASE i = n
    BY <1>2, <1>4, <1>6, <2>1
  <2>2. CASE i # n
    <3>1. i \in 1 .. n - 1 /\ i + 1 \in 1 .. n
      BY <2>2
    <3>2. QED
      BY <1>2, <1>3, <1>4, <1>6, <3>1
  <2>3. QED
    BY <2>1, <2>2
<1>9. cut = b
  BY <1>4, <1>6, <1>8, SameSequence
<1>10. QED
  BY <1>7, <1>9 DEF a, b

\* A cut sequence is no longer than its bound, and cutting before an append changes nothing.
LEMMA LastOfLastOf ==
  ASSUME NEW S, NEW p \in Seq(S), NEW x \in S, NEW n \in Nat \ {0}
  PROVE  /\ LastOf(p, n) \in Seq(S) /\ Len(LastOf(p, n)) <= n
         /\ LastOf(Append(LastOf(p, n), x), n) = LastOf(Append(p, x), n)
<1> DEFINE c == LastOf(p, n)
           m == Len(p)
           left == LastOf(Append(c, x), n)
           right == LastOf(Append(p, x), n)
           a == Append(p, x)
<1>1. m \in Nat
  OBVIOUS
<1>2. CASE ~(m > n)
  <2>1. c = p
    BY <1>2 DEF LastOf
  <2>2. QED
    BY <1>1, <1>2, <2>1
<1>3. CASE m > n
  <2>1. c = SubSeq(p, m - n + 1, m)
    BY <1>3 DEF LastOf
  <2>2. /\ c \in Seq(S) /\ Len(c) = n
        /\ \A i \in 1 .. n : c[i] = p[m - n + i]
    BY <1>1, <1>3, <2>1
  <2>3. /\ left \in Seq(S) /\ Len(left) = n
        /\ \A i \in 1 .. n - 1 : left[i] = c[i + 1]
        /\ left[n] = x
    <3>1. PICK r \in Seq(S) : r = c /\ Len(r) = n
      BY <2>2
    <3>2. LastOf(Append(r, x), n) = Append(Tail(r), x)
      BY <3>1, LastOfFull
    <3>3. Tail(r) \in Seq(S) /\ Len(Tail(r)) = n - 1 /\ \A i \in 1 .. n - 1 : Tail(r)[i] = r[i + 1]
      BY <3>1
    <3>4. PICK q : q = Append(Tail(r), x)
      OBVIOUS
    <3>5. q \in Seq(S) /\ Len(q) = n /\ q[n] = x /\ \A i \in 1 .. n - 1 : q[i] = r[i + 1]
      BY <3>3, <3>4
    <3>6. left = q
      BY <3>1, <3>2, <3>4
    <3>7. QED
      BY <3>1, <3>5, <3>6
  <2>4. a \in Seq(S) /\ Len(a) = m + 1 /\ \A i \in 1 .. m + 1 : a[i] = IF i = m + 1 THEN x ELSE p[i]
    BY <1>1
  <2>5. right = SubSeq(a, m - n + 2, m + 1)
    <3>1. right = IF Len(a) > n THEN SubSeq(a, Len(a) - n + 1, Len(a)) ELSE a
      BY DEF LastOf
    <3> HIDE DEF a, right, m
    <3>2. m + 1 > n /\ (m + 1) - n + 1 = m - n + 2
      BY <1>1, <1>3
    <3>3. QED
      BY <2>4, <3>1, <3>2
  <2>6. /\ right \in Seq(S) /\ Len(right) = n
        /\ \A i \in 1 .. n : right[i] = a[m - n + i + 1]
    <3> HIDE DEF a, right, m
    <3> QED BY <1>1, <1>3, <2>4, <2>5
  <2>7. ASSUME NEW i \in 1 .. n PROVE left[i] = right[i]
    <3> HIDE DEF a, right, m, c, left
    <3>1. m - n + i + 1 \in 1 .. m + 1 /\ (m - n + i + 1 = m + 1 <=> i = n)
      BY <1>1, <1>3
    <3>2. right[i] = IF i = n THEN x ELSE p[m - n + i + 1]
      BY <2>4, <2>6, <3>1
    <3>3. i # n => /\ i \in 1 .. n - 1 /\ i + 1 \in 1 .. n
                  /\ c[i + 1] = p[m - n + (i + 1)] /\ m - n + (i + 1) = m - n + i + 1
      BY <1>1, <1>3, <2>2
    <3>4. QED
      BY <2>3, <3>2, <3>3
  <2>8. left = right
    <3> HIDE DEF left, right
    <3> QED BY <2>3, <2>6, <2>7
  <2>9. QED
    BY <2>2, <2>8
<1>4. QED
  BY <1>2, <1>3

-----------------------------------------------------------------------------
(* Events. *)

\* What the poller is at.
PollerShape == samples # <<>> => query \in 1 .. Len(Pack)

\* What is not published yet is the end of what was found.
Pending ==
  /\ Len(events) <= Len(emitted)
  /\ \A k \in DOMAIN events : events[k] = emitted[Len(emitted) - Len(events) + k]

EventInv == TypeOK /\ PollerShape /\ Pending /\ EventsInOrder

LEMMA PackFacts ==
  /\ Len(Pack) \in Nat /\ DOMAIN Pack = 1 .. Len(Pack)
  /\ \A k \in 1 .. Len(Pack) : Pack[k] \in ToSet(Pack)
BY PackAssumption

\* Finding an event appends it to both histories, and nothing is published by it.
LEMMA FoundKeeps ==
  ASSUME EventInv, NEW e \in Event, events' = Append(events, e), emitted' = Append(emitted, e), recent' = recent
  PROVE  Pending' /\ EventsInOrder' /\ events' \in Seq(Event) /\ emitted' \in Seq(Event)
<1>1. events \in Seq(Event) /\ emitted \in Seq(Event)
  BY DEF EventInv, TypeOK
<1>2. PICK m \in Nat : m = Len(events)
  BY <1>1
<1>3. PICK n \in Nat : n = Len(emitted)
  BY <1>1
<1>4. m <= n /\ \A k \in 1 .. m : events[k] = emitted[n - m + k]
  <2>1. DOMAIN events = 1 .. m
    BY <1>1, <1>2
  <2>2. QED
    BY <1>2, <1>3, <2>1 DEF EventInv, Pending
<1>5. /\ events' \in Seq(Event) /\ Len(events') = m + 1 /\ DOMAIN events' = 1 .. m + 1
      /\ \A k \in 1 .. m + 1 : events'[k] = IF k = m + 1 THEN e ELSE events[k]
  BY <1>1, <1>2
<1>6. /\ emitted' \in Seq(Event) /\ Len(emitted') = n + 1
      /\ \A k \in 1 .. n + 1 : emitted'[k] = IF k = n + 1 THEN e ELSE emitted[k]
  BY <1>1, <1>3
<1>7. ASSUME NEW k \in 1 .. m + 1 PROVE events'[k] = emitted'[(n + 1) - (m + 1) + k]
  <2>1. (n + 1) - (m + 1) + k = n - m + k /\ n - m + k \in 1 .. n + 1 /\ (n - m + k = n + 1 <=> k = m + 1)
    BY <1>4
  <2>2. emitted'[n - m + k] = IF k = m + 1 THEN e ELSE emitted[n - m + k]
    BY <1>6, <2>1
  <2>3. k # m + 1 => k \in 1 .. m
    OBVIOUS
  <2>4. QED
    BY <1>4, <1>5, <2>1, <2>2, <2>3
<1>8. Pending'
  <2>1. Len(events') <= Len(emitted')
    BY <1>4, <1>5, <1>6
  <2>2. DOMAIN events' = 1 .. m + 1 /\ Len(emitted') - Len(events') = (n + 1) - (m + 1)
    BY <1>5, <1>6
  <2>3. ASSUME NEW k \in DOMAIN events' PROVE events'[k] = emitted'[Len(emitted') - Len(events') + k]
    BY <1>7, <2>2
  <2>4. QED
    BY <2>1, <2>3 DEF Pending
<1>9. Published' = Published
  <2>1. PICK j \in 0 .. n : j = n - m
    BY <1>4
  <2>2. SubSeq(emitted', 1, j) = SubSeq(emitted, 1, j)
    <3>1. /\ SubSeq(emitted', 1, j) \in Seq(Event) /\ Len(SubSeq(emitted', 1, j)) = j
          /\ \A k \in 1 .. j : SubSeq(emitted', 1, j)[k] = emitted'[k]
      BY <1>6, <2>1
    <3>2. /\ SubSeq(emitted, 1, j) \in Seq(Event) /\ Len(SubSeq(emitted, 1, j)) = j
          /\ \A k \in 1 .. j : SubSeq(emitted, 1, j)[k] = emitted[k]
      BY <1>1, <1>3, <2>1
    <3>3. \A k \in 1 .. j : emitted'[k] = emitted[k]
      BY <1>6, <2>1
    <3>4. QED
      BY <3>1, <3>2, <3>3, SameSequence
  <2>3. Len(emitted') - Len(events') = j /\ Len(emitted) - Len(events) = j
    BY <1>2, <1>3, <1>5, <1>6, <2>1
  <2>4. QED
    BY <2>2, <2>3 DEF Published
<1>10. EventsInOrder'
  BY <1>9 DEF EventInv, EventsInOrder
<1>11. QED
  BY <1>5, <1>6, <1>8, <1>10

\* Publishing the first pending event appends it to what was published.
LEMMA PublishKeeps ==
  ASSUME EventInv, events # <<>>, events' = Tail(events), emitted' = emitted,
         recent' = LastOf(Append(recent, Head(events)), MaxRecent)
  PROVE  Pending' /\ EventsInOrder' /\ events' \in Seq(Event) /\ recent' \in Seq(Event)
<1>1. events \in Seq(Event) /\ emitted \in Seq(Event)
  BY DEF EventInv, TypeOK
<1>2. PICK m \in Nat \ {0} : m = Len(events)
  BY <1>1
<1>3. PICK n \in Nat : n = Len(emitted)
  BY <1>1
<1>4. m <= n /\ \A k \in 1 .. m : events[k] = emitted[n - m + k]
  <2>1. DOMAIN events = 1 .. m
    BY <1>1, <1>2
  <2>2. QED
    BY <1>2, <1>3, <2>1 DEF EventInv, Pending
<1>5. /\ events' \in Seq(Event) /\ Len(events') = m - 1 /\ DOMAIN events' = 1 .. m - 1
      /\ \A k \in 1 .. m - 1 : events'[k] = events[k + 1]
  BY <1>1, <1>2
<1>6. Pending'
  <2>1. ASSUME NEW k \in 1 .. m - 1 PROVE events'[k] = emitted'[n - (m - 1) + k]
    <3>1. k + 1 \in 1 .. m /\ n - m + (k + 1) = n - (m - 1) + k
      BY <1>4
    <3>2. QED
      BY <1>4, <1>5, <3>1
  <2>2. Len(events') = m - 1 /\ Len(emitted') = n /\ m - 1 <= n
    BY <1>3, <1>4, <1>5
  <2>3. QED
    BY <1>5, <2>1, <2>2 DEF Pending
<1>7. PICK j \in 0 .. n - 1 : j = n - m
  BY <1>4
<1>8. PICK p : p = SubSeq(emitted, 1, j)
  OBVIOUS
<1>9. Published = p
  <2>1. Len(emitted) - Len(events) = j
    BY <1>2, <1>3, <1>7
  <2>2. QED
    BY <1>8, <2>1 DEF Published
<1>10. PICK e \in Event : e = Head(events)
  BY <1>1, <1>2
<1>11. e = emitted[j + 1]
  <2>1. e = events[1]
    BY <1>1, <1>2, <1>10
  <2>2. 1 \in 1 .. m /\ n - m + 1 = j + 1
    BY <1>2, <1>3, <1>7
  <2>3. QED
    BY <1>4, <2>1, <2>2
<1>12. p \in Seq(Event) /\ Len(p) = j /\ \A k \in 1 .. j : p[k] = emitted[k]
  BY <1>1, <1>3, <1>7, <1>8
<1>13. Published' = Append(p, e)
  <2>1. Published' = SubSeq(emitted, 1, j + 1)
    <3>1. Len(emitted') - Len(events') = j + 1
      BY <1>2, <1>3, <1>5, <1>7
    <3>2. QED
      BY <3>1 DEF Published
  <2>2. /\ SubSeq(emitted, 1, j + 1) \in Seq(Event) /\ Len(SubSeq(emitted, 1, j + 1)) = j + 1
        /\ \A k \in 1 .. j + 1 : SubSeq(emitted, 1, j + 1)[k] = emitted[k]
    BY <1>1, <1>3, <1>7
  <2>3. /\ Append(p, e) \in Seq(Event) /\ Len(Append(p, e)) = j + 1
        /\ \A k \in 1 .. j + 1 : Append(p, e)[k] = IF k = j + 1 THEN e ELSE p[k]
    BY <1>12
  <2>4. \A k \in 1 .. j + 1 : SubSeq(emitted, 1, j + 1)[k] = Append(p, e)[k]
    BY <1>11, <1>12, <2>2, <2>3
  <2>5. QED
    BY <2>1, <2>2, <2>3, <2>4, SameSequence
<1>14. recent = LastOf(p, MaxRecent)
  BY <1>9 DEF EventInv, EventsInOrder
<1>15. MaxRecent \in Nat \ {0}
  BY CapAssumption
<1>16. recent' = LastOf(Append(p, e), MaxRecent)
  BY <1>10, <1>12, <1>14, <1>15, LastOfLastOf
<1>17. recent' \in Seq(Event)
  <2>1. Append(p, e) \in Seq(Event)
    BY <1>12
  <2>2. QED
    BY <1>10, <1>15, <1>16, <2>1, LastOfLastOf
<1>18. QED
  BY <1>5, <1>6, <1>13, <1>16, <1>17 DEF EventsInOrder

-----------------------------------------------------------------------------
(* Rings. *)

\* A ring keeps the newest samples of the times T, in order.
Kept(r, T) ==
  /\ Len(r) <= Cap
  /\ \A i, j \in DOMAIN r : i < j => r[i].ts < r[j].ts
  /\ \A i \in DOMAIN r : r[i].ts \in T
  /\ \A t \in T : (\E i \in DOMAIN r : r[i].ts = t) \/ (Len(r) = Cap /\ t < r[1].ts)

\* A sample above the threshold is in the ring, or the ring is full of newer ones.
Backs(r, t) == [ts |-> t, high |-> TRUE] \in ToSet(r) \/ (Len(r) = Cap /\ r[1].ts > t)

LEMMA AtMost ==
  ASSUME NEW m \in Nat, NEW n \in Nat
  PROVE  (m <= n => m < n \/ m = n) /\ (m < n => m # n)
OBVIOUS

LEMMA SampleTimes ==
  ASSUME NEW r \in Seq(Sample), NEW i \in DOMAIN r
  PROVE  r[i].ts \in Nat /\ r[i].ts \in Int /\ i \in 1 .. Len(r) /\ i \in Int
<1>1. r[i] \in Sample
  OBVIOUS
<1>2. QED
  BY <1>1 DEF Sample

\* Adding a later sample keeps the newest, and what was backed stays backed.
LEMMA KeptAppend ==
  ASSUME NEW r \in Seq(Sample), NEW T \in SUBSET Nat, Kept(r, T),
         NEW x \in Sample, \A t \in T : t < x.ts,
         NEW q, q = LastOf(Append(r, x), Cap)
  PROVE  /\ q \in Seq(Sample) /\ Kept(q, T \cup {x.ts}) /\ x \in ToSet(q)
         /\ \A t \in Nat : Backs(r, t) => Backs(q, t)
<1>1. Cap \in Nat \ {0} /\ x.ts \in Nat /\ x.ts \in Int
  BY CapAssumption DEF Sample
<1>2. Len(r) \in Nat /\ Len(r) <= Cap /\ DOMAIN r = 1 .. Len(r)
  BY DEF Kept
<1>3. \A i \in 1 .. Len(r) : r[i] \in Sample /\ r[i].ts \in Int /\ r[i].ts \in T /\ r[i].ts < x.ts
  BY <1>2, SampleTimes DEF Kept
<1>4. \A i, j \in 1 .. Len(r) : i < j => r[i].ts < r[j].ts
  BY <1>2 DEF Kept
<1>5. \A t \in T : (\E i \in 1 .. Len(r) : r[i].ts = t) \/ (Len(r) = Cap /\ t < r[1].ts)
  BY <1>2 DEF Kept
<1>6. CASE Len(r) < Cap
  <2>1. q = Append(r, x)
    BY <1>1, <1>6, LastOfShort
  <2>2. /\ q \in Seq(Sample) /\ Len(q) = Len(r) + 1 /\ DOMAIN q = 1 .. Len(r) + 1
        /\ q[Len(r) + 1] = x /\ \A i \in 1 .. Len(r) : q[i] = r[i]
    BY <2>1
  <2>3. \A i \in 1 .. Len(r) + 1 : i = Len(r) + 1 \/ i \in 1 .. Len(r)
    BY <1>2
  <2>4. ASSUME NEW i \in DOMAIN q, NEW j \in DOMAIN q, i < j PROVE q[i].ts < q[j].ts
    <3>1. i \in 1 .. Len(r)
      BY <1>2, <2>2, <2>4
    <3>2. CASE j = Len(r) + 1
      BY <1>3, <2>2, <3>1, <3>2
    <3>3. CASE j \in 1 .. Len(r)
      BY <1>4, <2>2, <2>4, <3>1, <3>3
    <3>4. QED
      BY <2>2, <2>3, <3>2, <3>3
  <2>5. ASSUME NEW i \in DOMAIN q PROVE q[i].ts \in T \cup {x.ts}
    BY <1>3, <2>2, <2>3
  <2>6. ASSUME NEW t \in T \cup {x.ts} PROVE \E i \in DOMAIN q : q[i].ts = t
    <3>1. CASE t = x.ts
      BY <1>2, <2>2, <3>1
    <3>2. CASE t \in T
      <4>1. PICK i \in 1 .. Len(r) : r[i].ts = t
        BY <1>5, <1>6, <3>2
      <4>2. i \in DOMAIN q /\ q[i].ts = t
        BY <1>2, <2>2, <4>1
      <4>3. QED
        BY <4>2
    <3>3. QED
      BY <3>1, <3>2
  <2>7. Kept(q, T \cup {x.ts})
    <3>1. Len(q) <= Cap
      BY <1>1, <1>2, <1>6, <2>2
    <3>2. \A i, j \in DOMAIN q : i < j => q[i].ts < q[j].ts
      BY <2>4
    <3>3. \A i \in DOMAIN q : q[i].ts \in T \cup {x.ts}
      BY <2>5
    <3>4. \A t \in T \cup {x.ts} : \E i \in DOMAIN q : q[i].ts = t
      BY <2>6
    <3>5. QED
      BY <3>1, <3>2, <3>3, <3>4 DEF Kept
  <2>8. x \in ToSet(q) /\ ToSet(r) \subseteq ToSet(q)
    <3>1. Len(r) + 1 \in DOMAIN q
      BY <1>2, <2>2
    <3>2. \A i \in DOMAIN r : i \in DOMAIN q /\ q[i] = r[i]
      BY <1>2, <2>2
    <3>3. QED
      BY <2>2, <3>1, <3>2 DEF ToSet
  <2>9. ASSUME NEW t \in Nat, Backs(r, t) PROVE Backs(q, t)
    <3>1. [ts |-> t, high |-> TRUE] \in ToSet(r)
      <4>1. Len(r) # Cap
        <5>1. Len(r) \in Nat /\ Cap \in Nat /\ Len(r) < Cap
          BY <1>1, <1>2, <1>6
        <5>2. QED
          BY <5>1, AtMost
      <4>2. QED
        BY <2>9, <4>1 DEF Backs
    <3>2. QED
      BY <2>8, <3>1 DEF Backs
  <2>10. q \in Seq(Sample)
    BY <2>2
  <2>11. QED
    BY <2>7, <2>8, <2>9, <2>10
<1>7. CASE Len(r) = Cap
  <2>1. q = Append(Tail(r), x)
    BY <1>1, <1>7, LastOfFull
  <2>2. Tail(r) \in Seq(Sample) /\ Len(Tail(r)) = Cap - 1 /\ \A i \in 1 .. Cap - 1 : Tail(r)[i] = r[i + 1]
    BY <1>1, <1>7
  <2>3. /\ q \in Seq(Sample) /\ Len(q) = Cap /\ DOMAIN q = 1 .. Cap
        /\ q[Cap] = x /\ \A i \in 1 .. Cap - 1 : q[i] = r[i + 1]
    BY <1>1, <2>1, <2>2
  <2>4. \A i \in 1 .. Cap : i = Cap \/ i \in 1 .. Cap - 1
    BY <1>1
  <2>5. ASSUME NEW i \in 1 .. Cap - 1
        PROVE  /\ i + 1 \in 1 .. Cap /\ q[i] = r[i + 1] /\ r[i + 1].ts \in T /\ r[i + 1].ts \in Int
               /\ r[i + 1].ts < x.ts
    BY <1>1, <1>3, <1>7, <2>3
  <2>6. ASSUME NEW i \in DOMAIN q, NEW j \in DOMAIN q, i < j PROVE q[i].ts < q[j].ts
    <3>1. i \in 1 .. Cap - 1 /\ q[i] = r[i + 1] /\ i + 1 \in 1 .. Len(r)
      BY <1>1, <1>7, <2>3, <2>5, <2>6
    <3>2. CASE j = Cap
      BY <2>3, <2>5, <3>1, <3>2
    <3>3. CASE j \in 1 .. Cap - 1
      <4>1. j + 1 \in 1 .. Len(r) /\ i + 1 < j + 1 /\ q[j] = r[j + 1]
        BY <1>1, <1>7, <2>3, <2>5, <2>6, <3>3
      <4>2. QED
        BY <1>4, <3>1, <4>1
    <3>4. QED
      BY <2>3, <2>4, <3>2, <3>3
  <2>7. ASSUME NEW i \in DOMAIN q PROVE q[i].ts \in T \cup {x.ts}
    BY <2>3, <2>4, <2>5
  <2>8. 1 \in 1 .. Len(r) /\ 1 \in DOMAIN q /\ r[1].ts \in Int
    BY <1>1, <1>3, <1>7, <2>3
  <2>9. r[1].ts < q[1].ts /\ q[1].ts \in Int
    <3>1. CASE Cap = 1
      BY <1>1, <1>3, <2>3, <2>8, <3>1
    <3>2. CASE Cap # 1
      <4>1. 1 \in 1 .. Cap - 1 /\ q[1] = r[2] /\ 2 \in 1 .. Len(r) /\ r[2].ts \in Int
        BY <1>1, <1>3, <1>7, <2>3, <3>2
      <4>2. QED
        BY <1>4, <2>8, <4>1
    <3>3. QED
      BY <3>1, <3>2
  <2>10. \A i \in 2 .. Cap : i - 1 \in DOMAIN q /\ q[i - 1] = r[i]
    <3>1. \A i \in 2 .. Cap : i - 1 \in 1 .. Cap - 1 /\ (i - 1) + 1 = i
      BY <1>1
    <3>2. QED
      BY <2>3, <3>1
  <2>11. ASSUME NEW t \in T \cup {x.ts} PROVE (\E i \in DOMAIN q : q[i].ts = t) \/ t < q[1].ts
    <3>1. CASE t = x.ts
      BY <1>1, <2>3, <3>1
    <3>2. CASE t \in T
      <4>1. t \in Int
        BY <1>1, <3>2
      <4>2. CASE \E i \in 1 .. Len(r) : r[i].ts = t
        <5>1. PICK i \in 1 .. Len(r) : r[i].ts = t
          BY <4>2
        <5>2. i = 1 \/ i \in 2 .. Cap
          BY <1>1, <1>7
        <5>3. QED
          BY <2>9, <2>10, <5>1, <5>2
      <4>3. CASE t < r[1].ts
        BY <2>8, <2>9, <4>1, <4>3
      <4>4. QED
        BY <1>5, <3>2, <4>2, <4>3
    <3>3. QED
      BY <3>1, <3>2
  <2>12. Kept(q, T \cup {x.ts})
    <3>1. Len(q) <= Cap
      BY <1>1, <2>3
    <3>2. \A i, j \in DOMAIN q : i < j => q[i].ts < q[j].ts
      BY <2>6
    <3>3. \A i \in DOMAIN q : q[i].ts \in T \cup {x.ts}
      BY <2>7
    <3>4. \A t \in T \cup {x.ts} : (\E i \in DOMAIN q : q[i].ts = t) \/ (Len(q) = Cap /\ t < q[1].ts)
      BY <2>3, <2>11
    <3>5. QED
      BY <3>1, <3>2, <3>3, <3>4 DEF Kept
  <2>13. x \in ToSet(q)
    BY <1>1, <2>3 DEF ToSet
  <2>14. ASSUME NEW t \in Nat, Backs(r, t) PROVE Backs(q, t)
    <3>1. t \in Int
      BY <1>1
    <3>2. CASE [ts |-> t, high |-> TRUE] \in ToSet(r)
      <4>1. PICK i \in DOMAIN r : r[i] = [ts |-> t, high |-> TRUE]
        BY <3>2 DEF ToSet
      <4>2. CASE i = 1
        <5>1. r[1].ts = t
          BY <4>1, <4>2
        <5>2. QED
          BY <2>3, <2>9, <5>1, <3>1 DEF Backs
      <4>3. CASE i # 1
        <5>1. i \in 2 .. Cap
          BY <1>2, <1>7, <4>3
        <5>2. QED
          BY <2>10, <4>1, <5>1 DEF Backs, ToSet
      <4>4. QED
        BY <4>2, <4>3
    <3>3. CASE r[1].ts > t
      BY <2>3, <2>8, <2>9, <3>1, <3>3 DEF Backs
    <3>4. QED
      BY <2>14, <3>2, <3>3 DEF Backs
  <2>15. q \in Seq(Sample)
    BY <2>3
  <2>16. QED
    BY <2>12, <2>13, <2>14, <2>15
<1>8. Len(r) < Cap \/ Len(r) = Cap
  <2>1. Len(r) \in Nat /\ Cap \in Nat /\ Len(r) <= Cap
    BY <1>1, <1>2
  <2>2. QED
    BY <2>1, AtMost
<1>9. QED
  BY <1>6, <1>7, <1>8

\* The times of a ring that keeps the newest are the newest.
LEMMA KeptIsNewest ==
  ASSUME NEW r \in Seq(Sample), NEW m \in Nat, NEW T \in SUBSET (1 .. m), Kept(r, T)
  PROVE  {r[i].ts : i \in DOMAIN r} = NewestOf(T, Cap)
<1> DEFINE W == {r[i].ts : i \in DOMAIN r}
           later(t) == {u \in T : u > t}
<1>1. Cap \in Nat \ {0} 
  BY CapAssumption
<1>2. Len(r) \in Nat /\ Len(r) <= Cap /\ DOMAIN r = 1 .. Len(r)
  BY DEF Kept
<1>3. \A i \in 1 .. Len(r) : r[i].ts \in Int /\ r[i].ts \in T
  BY <1>2, SampleTimes DEF Kept
<1>4. \A i, j \in 1 .. Len(r) : i < j => r[i].ts < r[j].ts
  BY <1>2 DEF Kept
<1>5. IsFiniteSet(W) /\ Cardinality(W) = Len(r)
  <2> DEFINE f == [i \in 1 .. Len(r) |-> r[i].ts]
  <2>1. f \in [1 .. Len(r) -> W]
    BY <1>2
  <2>2. ASSUME NEW i \in 1 .. Len(r), NEW j \in 1 .. Len(r), f[i] = f[j] PROVE i = j
    <3>1. r[i].ts = r[j].ts /\ r[i].ts \in Int /\ i \in Int /\ j \in Int
      BY <1>3, <2>2
    <3>2. ~(i < j) /\ ~(j < i)
      BY <1>4, <3>1
    <3>3. QED
      BY <3>1, <3>2
  <2>3. \A w \in W : \E i \in 1 .. Len(r) : f[i] = w
    BY <1>2
  <2>4. f \in Bijection(1 .. Len(r), W)
    <3> HIDE DEF f, W
    <3>1. f \in Injection(1 .. Len(r), W)
      BY <2>1, <2>2 DEF Injection, IsInjective
    <3>2. f \in Surjection(1 .. Len(r), W)
      BY <2>1, <2>3 DEF Surjection
    <3>3. QED
      BY <3>1, <3>2 DEF Bijection
  <2>5. ExistsBijection(1 .. Len(r), W)
    <3> HIDE DEF f, W
    <3> QED BY <2>4 DEF ExistsBijection
  <2>6. QED
    <3> HIDE DEF W
    <3> QED BY <1>2, <2>5, FS_NatBijection, FS_CountingElements
<1>6. W \subseteq T
  BY <1>2, <1>3
<1>7. IsFiniteSet(T)
  <2>1. IsFiniteSet(1 .. m)
    <3>1. 1 \in Int /\ m \in Int
      BY <1>1
    <3>2. QED
      BY <3>1, FS_Interval
  <2>2. QED
    BY <2>1, FS_Subset
<1>8. \A t \in T : t \in Int
  BY <1>1
<1>9. ASSUME NEW t \in W PROVE Cardinality(later(t)) < Cap
  <2>1. PICK i \in 1 .. Len(r) : r[i].ts = t
    BY <1>2
  <2>2. r[1].ts <= t
    <3>1. CASE i = 1
      BY <1>3, <2>1, <3>1
    <3>2. CASE i # 1
      <4>1. 1 \in 1 .. Len(r) /\ 1 < i
        BY <1>2, <3>2
      <4>2. QED
        BY <1>3, <1>4, <2>1, <4>1
    <3>3. QED
      BY <3>1, <3>2
  <2>3. ASSUME NEW u \in later(t) PROVE u \in W \ {t}
    <3>0. 1 \in 1 .. Len(r)
      BY <1>2, <2>1
    <3>1. u \in T /\ u > t /\ u \in Int /\ t \in Int /\ r[1].ts \in Int
      <4>1. u \in T /\ u > t
        BY <2>3
      <4>2. r[1].ts \in Int
        BY <1>3, <3>0
      <4>3. t \in Int
        BY <1>3, <2>1
      <4>4. QED
        BY <1>8, <4>1, <4>2, <4>3
    <3>2. ~(u < r[1].ts)
      BY <2>2, <3>1
    <3>3. \E j \in DOMAIN r : r[j].ts = u
      BY <3>1, <3>2 DEF Kept
    <3>4. QED
      BY <3>1, <3>3
  <2>4. IsFiniteSet(W \ {t}) /\ Cardinality(W \ {t}) = Len(r) - 1
    <3> HIDE DEF W
    <3> QED BY <1>5, <1>9, FS_RemoveElement
  <2>5. later(t) \in SUBSET (W \ {t})
    BY <2>3
  <2>6. Cardinality(later(t)) <= Len(r) - 1 /\ Cardinality(later(t)) \in Nat
    <3> HIDE DEF W, later
    <3> QED BY <2>4, <2>5, FS_Subset, FS_CardinalityType
  <2>7. QED
    BY <1>1, <1>2, <2>6
<1>10. ASSUME NEW t \in T, t \notin W PROVE ~(Cardinality(later(t)) < Cap)
  <2>1. Len(r) = Cap /\ t < r[1].ts
    BY <1>10 DEF Kept
  <2>2. ASSUME NEW w \in W PROVE w \in later(t)
    <3>1. PICK i \in 1 .. Len(r) : r[i].ts = w
      BY <1>2
    <3>2. i = 1 \/ (1 \in 1 .. Len(r) /\ 1 < i)
      BY <1>2
    <3>3. r[1].ts <= w /\ w \in Int /\ r[1].ts \in Int
      BY <1>1, <1>2, <1>3, <1>4, <2>1, <3>1, <3>2
    <3>4. QED
      BY <1>3, <1>8, <2>1, <3>1, <3>3
  <2>3. W \in SUBSET later(t) /\ later(t) \in SUBSET T
    BY <2>2
  <2>4. Cardinality(W) <= Cardinality(later(t)) /\ Cardinality(later(t)) \in Nat
    <3> HIDE DEF W, later
    <3> QED BY <1>7, <2>3, FS_Subset, FS_CardinalityType
  <2>5. QED
    BY <1>1, <1>5, <2>1, <2>4
<1>11. W = {t \in T : Cardinality(later(t)) < Cap}
  <2> HIDE DEF W, later
  <2> QED BY <1>6, <1>9, <1>10
<1>12. QED
  BY <1>11 DEF NewestOf

-----------------------------------------------------------------------------
(* The inductive invariant. *)

\* What the loop has not added yet are the last numbers given, in order, each of the series
\* of its pod and the current query.
Waiting ==
  /\ Len(samples) <= now
  /\ \A i \in DOMAIN samples : samples[i].ts = now - Len(samples) + i
  /\ \A i \in DOMAIN samples : \A s \in Series :
       samples[i].ts \in answers[s] <=> s = <<samples[i].pod, Pack[query]>>

Rings == \A s \in Series : Kept(ring[s], Answered(s))

AggInv ==
  /\ TypeOK
  /\ PollerShape
  /\ Pending
  /\ EventsInOrder
  /\ Waiting
  /\ Rings
  /\ EventsBacked

\* A step that leaves rings, samples and histories alone disturbs no ring.
LEMMA IdleKeeps ==
  ASSUME AggInv, UNCHANGED <<ring, now, samples, answers, emitted>>
  PROVE  Rings' /\ EventsBacked'
<1>1. \A s \in Series : Answered(s)' = Answered(s)
  BY DEF Answered
<1>2. QED
  BY <1>1 DEF AggInv, Rings, EventsBacked

\* The invariant says of the poller's place only where it may have samples.
LEMMA MoveKeeps ==
  ASSUME AggInv, samples = <<>>, UNCHANGED <<ring, recent, now, samples, events, answers, emitted>>,
         poll' \in 0 .. MaxPolls, query' \in 0 .. Len(Pack) + 1
  PROVE  AggInv'
<1>1. TypeOK'
  BY DEF AggInv, TypeOK
<1>2. PollerShape' /\ Pending' /\ EventsInOrder'
  BY DEF AggInv, PollerShape, Pending, EventsInOrder, Published
<1>3. Waiting'
  <2>1. samples' = <<>> /\ DOMAIN samples = {} /\ Len(samples) = 0
    OBVIOUS
  <2>2. QED
    BY <2>1 DEF AggInv, Waiting
<1>4. Rings' /\ EventsBacked'
  BY IdleKeeps
<1>5. QED
  BY <1>1, <1>2, <1>3, <1>4 DEF AggInv

LEMMA InitHolds == Init => AggInv
<1> SUFFICES ASSUME Init PROVE AggInv
  OBVIOUS
<1>1. /\ MaxPolls \in Nat /\ Len(Pack) \in Nat /\ MaxRecent \in Nat \ {0} /\ Cap \in Nat \ {0}
  BY PackFacts, CapAssumption
<1>2. TypeOK
  BY <1>1 DEF Init, TypeOK
<1>3. PollerShape /\ Pending /\ Waiting
  BY DEF Init, PollerShape, Pending, Waiting
<1>4. EventsInOrder
  <2>1. Published = <<>>
    BY DEF Init, Published
  <2>2. LastOf(<<>>, MaxRecent) = <<>>
    BY <1>1 DEF LastOf
  <2>3. QED
    BY <2>1, <2>2 DEF Init, EventsInOrder
<1>5. Rings
  <2>1. ASSUME NEW s \in Series PROVE Kept(ring[s], Answered(s))
    <3>1. ring[s] = <<>> /\ Answered(s) = {}
      BY DEF Init, Answered
    <3>2. Kept(<<>>, {})
      BY <1>1 DEF Kept
    <3>3. QED
      BY <3>1, <3>2
  <2>2. QED
    BY <2>1 DEF Rings
<1>6. EventsBacked
  BY DEF Init, EventsBacked
<1>7. QED
  BY <1>2, <1>3, <1>4, <1>5, <1>6 DEF AggInv

LEMMA TickKeeps == AggInv /\ Tick => AggInv'
<1> SUFFICES ASSUME AggInv, Tick PROVE AggInv'
  OBVIOUS
<1>1. Len(Pack) \in Nat /\ MaxPolls \in Nat
  BY PackFacts, CapAssumption
<1>2. samples = <<>>
  BY <1>1 DEF AggInv, PollerShape, Tick
<1>3. poll' \in 0 .. MaxPolls /\ query' \in 0 .. Len(Pack) + 1
  BY <1>1 DEF AggInv, TypeOK, Tick
<1>4. QED
  BY <1>2, <1>3, MoveKeeps DEF Tick

LEMMA QueryFailsKeeps == AggInv /\ QueryFails => AggInv'
<1> SUFFICES ASSUME AggInv, QueryFails PROVE AggInv'
  OBVIOUS
<1>1. Len(Pack) \in Nat
  BY PackFacts
<1>2. poll' \in 0 .. MaxPolls /\ query' \in 0 .. Len(Pack) + 1
  BY <1>1 DEF AggInv, TypeOK, QueryFails, Querying
<1>3. QED
  BY <1>2, MoveKeeps DEF QueryFails, Querying

LEMMA EndPollKeeps == AggInv /\ EndPoll => AggInv'
<1> SUFFICES ASSUME AggInv, EndPoll PROVE AggInv'
  OBVIOUS
<1>1. Len(Pack) \in Nat
  BY PackFacts
<1>2. samples = <<>>
  BY <1>1 DEF AggInv, PollerShape, EndPoll
<1>3. poll' \in 0 .. MaxPolls /\ query' \in 0 .. Len(Pack) + 1
  BY <1>1 DEF AggInv, TypeOK, EndPoll
<1>4. QED
  BY <1>2, <1>3, MoveKeeps DEF EndPoll

LEMMA PublishStepKeeps == AggInv /\ Publish => AggInv'
<1> SUFFICES ASSUME AggInv, Publish PROVE AggInv'
  OBVIOUS
<1>1. UNCHANGED <<ring, poll, now, query, samples, answers, emitted>>
  BY DEF Publish
<1>2. Pending' /\ EventsInOrder' /\ events' \in Seq(Event) /\ recent' \in Seq(Event)
  BY <1>1, PublishKeeps DEF AggInv, EventInv, Publish
<1>3. TypeOK'
  BY <1>1, <1>2 DEF AggInv, TypeOK
<1>4. PollerShape' /\ Waiting'
  BY <1>1 DEF AggInv, PollerShape, Waiting
<1>5. Rings' /\ EventsBacked'
  BY <1>1, IdleKeeps
<1>6. QED
  BY <1>2, <1>3, <1>4, <1>5 DEF AggInv

\* A vector's results get the numbers after now, and each goes to one series.
LEMMA QueryAnswersKeeps ==
  ASSUME AggInv, Querying, NEW vector \in Vectors[Pack[query]], QueryAnswers(vector)
  PROVE  AggInv'
<1>1. /\ Len(Pack) \in Nat /\ query \in 1 .. Len(Pack) /\ samples = <<>> /\ Pack[query] \in ToSet(Pack)
      /\ UNCHANGED <<ring, recent, poll, query, events, emitted>>
  BY PackFacts DEF QueryAnswers, Querying
<1>2. vector \in Seq(Pods \X BOOLEAN)
  BY <1>1, VectorsAssumption
<1>3. PICK n \in Nat : n = Len(vector) /\ DOMAIN vector = 1 .. n
  BY <1>2
<1>4. \A i \in 1 .. n : vector[i] \in Pods \X BOOLEAN
  BY <1>2, <1>3
<1>5. now \in Nat /\ now' = now + n /\ now' \in Nat
  BY <1>3 DEF AggInv, TypeOK, QueryAnswers
<1>6. samples' = [i \in 1 .. n |-> [pod |-> vector[i][1], ts |-> now + i, high |-> vector[i][2]]]
  BY <1>3 DEF QueryAnswers
<1>7. samples' \in Seq(Result) /\ Len(samples') = n /\ DOMAIN samples' = 1 .. n
  <2>1. \A i \in 1 .. n : [pod |-> vector[i][1], ts |-> now + i, high |-> vector[i][2]] \in Result
    BY <1>4, <1>5 DEF Result
  <2>2. samples' \in [1 .. n -> Result]
    BY <1>6, <2>1
  <2>3. QED
    BY <1>3, <2>2
<1>8. ASSUME NEW s \in Series
      PROVE  answers'[s] = IF s[2] = Pack[query] THEN answers[s] \cup NumbersOf(vector, s[1]) ELSE answers[s]
  BY DEF QueryAnswers
<1>9. \A s \in Series : answers[s] \subseteq 1 .. now
  BY DEF AggInv, TypeOK
<1>10. \A p : NumbersOf(vector, p) = {now + i : i \in {j \in 1 .. n : vector[j][1] = p}}
  BY <1>3 DEF NumbersOf
<1>11. \A p : NumbersOf(vector, p) \subseteq 1 .. now'
  BY <1>5, <1>10
<1>12. TypeOK'
  <2>1. ASSUME NEW s \in Series PROVE answers'[s] \in SUBSET (1 .. now')
    <3>1. answers[s] \subseteq 1 .. now'
      BY <1>3, <1>5, <1>9
    <3>2. NumbersOf(vector, s[1]) \subseteq 1 .. now'
      BY <1>11
    <3>3. answers[s] \cup NumbersOf(vector, s[1]) \subseteq 1 .. now'
      BY <3>1, <3>2
    <3>4. CASE s[2] = Pack[query]
      <4>1. answers'[s] = answers[s] \cup NumbersOf(vector, s[1])
        BY <1>8, <3>4
      <4>2. QED
        BY <3>3, <4>1
    <3>5. CASE s[2] # Pack[query]
      <4>1. answers'[s] = answers[s]
        BY <1>8, <3>5
      <4>2. QED
        BY <3>1, <4>1
    <3>6. QED
      BY <3>4, <3>5
  <2>2. answers' \in [Series -> SUBSET (1 .. now')]
    BY <2>1 DEF QueryAnswers
  <2>3. QED
    BY <1>1, <1>5, <1>7, <2>2 DEF AggInv, TypeOK
<1>13. PollerShape' /\ Pending' /\ EventsInOrder'
  BY <1>1 DEF AggInv, PollerShape, Pending, EventsInOrder, Published
<1>14. Waiting'
  <2>1. ASSUME NEW i \in 1 .. n
        PROVE  samples'[i].ts = now + i /\ samples'[i].pod = vector[i][1]
    BY <1>6
  <2>2. ASSUME NEW i \in 1 .. n, NEW s \in Series
        PROVE  now + i \in answers'[s] <=> s = <<vector[i][1], Pack[query]>>
    <3>1. now + i \notin answers[s]
      BY <1>5, <1>9
    <3>2. now + i \in NumbersOf(vector, s[1]) <=> vector[i][1] = s[1]
      <4>1. \A j \in 1 .. n : now + j = now + i => j = i
        BY <1>5
      <4>2. QED
        BY <1>10, <4>1
    <3>3. s = <<s[1], s[2]>>
      BY DEF Series
    <3>4. CASE s[2] = Pack[query]
      <4>1. answers'[s] = answers[s] \cup NumbersOf(vector, s[1])
        BY <1>8, <3>4
      <4>2. now + i \in answers'[s] <=> vector[i][1] = s[1]
        BY <3>1, <3>2, <4>1
      <4>3. QED
        BY <3>3, <3>4, <4>2
    <3>5. CASE s[2] # Pack[query]
      <4>1. answers'[s] = answers[s]
        BY <1>8, <3>5
      <4>2. s # <<vector[i][1], Pack[query]>>
        BY <3>5
      <4>3. QED
        BY <3>1, <4>1, <4>2
    <3>6. QED
      BY <3>4, <3>5
  <2>3. now' - Len(samples') = now
    BY <1>5, <1>7
  <2>4. Len(samples') <= now'
    BY <1>5, <1>7
  <2>5. \A i \in DOMAIN samples' : samples'[i].ts = now' - Len(samples') + i
    BY <1>7, <2>1, <2>3
  <2>6. \A i \in DOMAIN samples' : \A s \in Series :
          samples'[i].ts \in answers'[s] <=> s = <<samples'[i].pod, Pack[query']>>
    BY <1>1, <1>7, <2>1, <2>2
  <2>7. QED
    BY <1>1, <2>4, <2>5, <2>6 DEF Waiting
<1>15. Rings'
  <2>1. ASSUME NEW s \in Series PROVE Kept(ring'[s], Answered(s)')
    <3>1. Answered(s) = answers[s]
      <4>1. Len(samples) = 0
        BY <1>1
      <4>2. QED
        BY <1>5, <1>9, <4>1 DEF Answered
    <3>2. Answered(s)' = {t \in answers'[s] : t <= now}
      BY <1>5, <1>7 DEF Answered
    <3>3. \A p : \A t \in NumbersOf(vector, p) : ~(t <= now)
      BY <1>5, <1>10
    <3>4. Answered(s)' = answers[s]
      <4>1. \A t \in answers[s] : t <= now
        BY <1>5, <1>9
      <4>2. CASE s[2] = Pack[query]
        <5>1. answers'[s] = answers[s] \cup NumbersOf(vector, s[1])
          BY <1>8, <4>2
        <5>2. QED
          BY <3>2, <3>3, <4>1, <5>1
      <4>3. CASE s[2] # Pack[query]
        <5>1. answers'[s] = answers[s]
          BY <1>8, <4>3
        <5>2. QED
          BY <3>2, <4>1, <5>1
      <4>4. QED
        BY <4>2, <4>3
    <3>5. QED
      BY <1>1, <3>1, <3>4 DEF AggInv, Rings
  <2>2. QED
    BY <2>1 DEF Rings
<1>16. EventsBacked'
  BY <1>1 DEF AggInv, EventsBacked
<1>17. QED
  BY <1>12, <1>13, <1>14, <1>15, <1>16 DEF AggInv

\* Adding the next sample settles its number for its series, and nothing for any other.
LEMMA AddSampleKeeps ==
  ASSUME AggInv, samples # <<>>, NEW a, a = Head(samples), AddSample(a)
  PROVE  AggInv'
<1>0. PICK x, mine : x = [ts |-> a.ts, high |-> a.high] /\ mine = <<a.pod, Pack[query]>>
  OBVIOUS
<1>1. /\ Len(Pack) \in Nat /\ query \in 1 .. Len(Pack) /\ Pack[query] \in ToSet(Pack)
      /\ now \in Nat /\ samples \in Seq(Result)
  BY PackFacts DEF AggInv, PollerShape, TypeOK
<1>2. PICK n \in Nat \ {0} : n = Len(samples) /\ DOMAIN samples = 1 .. n /\ n <= now
  BY <1>1 DEF AggInv, Waiting
<1>3. a = samples[1] /\ a \in Result /\ a.pod \in Pods /\ a.high \in BOOLEAN
  <2>1. a = samples[1]
    OBVIOUS
  <2>2. a \in Result
    BY <1>1, <1>2, <2>1
  <2>3. QED
    BY <2>1, <2>2 DEF Result
<1>4. a.ts = now - n + 1 /\ a.ts \in Nat
  BY <1>1, <1>2, <1>3 DEF AggInv, Waiting
<1>5. mine \in Series /\ x \in Sample /\ x.ts = a.ts
  BY <1>0, <1>1, <1>3, <1>4 DEF Series, Sample
<1>6. /\ samples' = Tail(samples)
      /\ query' = IF n = 1 THEN query + 1 ELSE query
      /\ UNCHANGED <<recent, poll, now, answers>>
  BY <1>2 DEF AddSample, Consume
<1>7. /\ samples' \in Seq(Result) /\ Len(samples') = n - 1 /\ DOMAIN samples' = 1 .. n - 1
      /\ \A i \in 1 .. n - 1 : samples'[i] = samples[i + 1]
  BY <1>1, <1>2, <1>6
<1>8. ring \in [Series -> Seq(Sample)] /\ ring' = [ring EXCEPT ![mine] = LastOf(Append(@, x), Cap)]
  BY <1>0 DEF AggInv, TypeOK, AddSample, Added
<1>9. /\ ring'[mine] = LastOf(Append(ring[mine], x), Cap)
      /\ \A s \in Series : s # mine => ring'[s] = ring[s]
  BY <1>5, <1>8
<1>10. ASSUME NEW s \in Series PROVE a.ts \in answers[s] <=> s = mine
  BY <1>0, <1>2, <1>3 DEF AggInv, Waiting
<1>11. ASSUME NEW s \in Series
       PROVE  /\ Answered(s) = {t \in answers[s] : t <= now - n}
              /\ Answered(s)' = {t \in answers[s] : t <= now - n + 1}
              /\ answers[s] \subseteq Nat
  <2>1. now' - Len(samples') = now - n + 1
    BY <1>1, <1>2, <1>6, <1>7
  <2>2. answers[s] \subseteq 1 .. now
    BY DEF AggInv, TypeOK
  <2>3. QED
    BY <1>1, <1>2, <1>6, <2>1, <2>2 DEF Answered
<1>12. PICK T \in SUBSET Nat : T = Answered(mine) /\ \A t \in T : t < a.ts
  <2>1. Answered(mine) \subseteq Nat
    BY <1>5, <1>11
  <2>2. ASSUME NEW t \in Answered(mine) PROVE t < a.ts
    BY <1>1, <1>2, <1>4, <1>5, <1>11
  <2>3. QED
    BY <2>1, <2>2
<1>13. Answered(mine)' = T \cup {a.ts}
  <2>1. a.ts \in answers[mine]
    BY <1>5, <1>10
  <2>2. \A t \in Nat : t <= now - n + 1 <=> t <= now - n \/ t = now - n + 1
    BY <1>1, <1>2
  <2>3. QED
    BY <1>4, <1>5, <1>11, <1>12, <2>1, <2>2
<1>14. ASSUME NEW s \in Series, s # mine PROVE Answered(s)' = Answered(s)
  <2>1. a.ts \notin answers[s]
    BY <1>10, <1>14
  <2>2. \A t \in Nat : t <= now - n + 1 <=> t <= now - n \/ t = now - n + 1
    BY <1>1, <1>2
  <2>3. QED
    BY <1>4, <1>11, <2>1, <2>2
<1>15. /\ ring'[mine] \in Seq(Sample) /\ Kept(ring'[mine], Answered(mine)') /\ x \in ToSet(ring'[mine])
       /\ \A t \in Nat : Backs(ring[mine], t) => Backs(ring'[mine], t)
  <2>0. PICK r \in Seq(Sample), y \in Sample : r = ring[mine] /\ y = x
    BY <1>5, <1>8
  <2>1. PICK q : r = ring[mine] /\ y = x /\ q = ring'[mine]
    BY <2>0
  <2>2. y.ts = a.ts
    BY <1>5, <2>1
  <2>3. q = LastOf(Append(r, y), Cap)
    BY <1>9, <2>1
  <2>4. Kept(r, T) /\ \A t \in T : t < y.ts
    BY <1>5, <1>12, <2>1, <2>2 DEF AggInv, Rings
  <2>5. /\ q \in Seq(Sample) /\ Kept(q, T \cup {y.ts}) /\ y \in ToSet(q)
        /\ \A t \in Nat : Backs(r, t) => Backs(q, t)
    BY <2>3, <2>4, KeptAppend
  <2>6. T \cup {y.ts} = Answered(mine)'
    BY <1>13, <2>2
  <2>7. QED
    BY <2>1, <2>5, <2>6
<1>16. ring' \in [Series -> Seq(Sample)]
  BY <1>8, <1>9, <1>15
<1>17. Rings'
  <2>1. ASSUME NEW s \in Series PROVE Kept(ring'[s], Answered(s)')
    <3>1. CASE s = mine
      BY <1>15, <3>1
    <3>2. CASE s # mine
      BY <1>9, <1>14, <3>2 DEF AggInv, Rings
    <3>3. QED
      BY <3>1, <3>2
  <2>2. QED
    BY <2>1 DEF Rings
<1>18. Waiting'
  <2>1. Len(samples') <= now' /\ now' = now
    BY <1>1, <1>2, <1>6, <1>7
  <2>2. ASSUME NEW i \in 1 .. n - 1
        PROVE  /\ samples'[i].ts = now - (n - 1) + i
               /\ \A s \in Series : samples'[i].ts \in answers[s] <=> s = <<samples'[i].pod, Pack[query']>>
    <3>1. i + 1 \in 1 .. n /\ samples'[i] = samples[i + 1] /\ query' = query
      BY <1>2, <1>6, <1>7
    <3>2. samples[i + 1].ts = now - n + (i + 1)
      BY <1>2, <3>1 DEF AggInv, Waiting
    <3>3. \A s \in Series : samples[i + 1].ts \in answers[s] <=> s = <<samples[i + 1].pod, Pack[query]>>
      BY <1>2, <3>1 DEF AggInv, Waiting
    <3>4. now - n + (i + 1) = now - (n - 1) + i
      BY <1>1, <1>2
    <3>5. QED
      BY <3>1, <3>2, <3>3, <3>4
  <2>3. \A i \in DOMAIN samples' : samples'[i].ts = now' - Len(samples') + i
    BY <1>7, <2>1, <2>2
  <2>4. \A i \in DOMAIN samples' : \A s \in Series :
          samples'[i].ts \in answers'[s] <=> s = <<samples'[i].pod, Pack[query']>>
    BY <1>6, <1>7, <2>2
  <2>5. QED
    BY <2>1, <2>3, <2>4 DEF Waiting
<1>19. Breach(a) => EventOf(a) \in Event
  BY <1>1, <1>3, <1>4 DEF Breach, EventOf, Event
<1>20. /\ Breach(a) => events' = Append(events, EventOf(a)) /\ emitted' = Append(emitted, EventOf(a))
       /\ ~Breach(a) => UNCHANGED <<events, emitted>>
  BY DEF AddSample, Found
<1>21. Pending' /\ EventsInOrder' /\ events' \in Seq(Event) /\ emitted' \in Seq(Event)
  <2>1. CASE Breach(a)
    BY <1>6, <1>19, <1>20, <2>1, FoundKeeps DEF AggInv, EventInv
  <2>2. CASE ~Breach(a)
    BY <1>6, <1>20, <2>2 DEF AggInv, TypeOK, Pending, EventsInOrder, Published
  <2>3. QED
    BY <2>1, <2>2
<1>22. TypeOK'
  BY <1>1, <1>6, <1>7, <1>16, <1>21 DEF AggInv, TypeOK
<1>23. PollerShape'
  BY <1>1, <1>6, <1>7 DEF PollerShape
<1>24. ASSUME NEW e \in Event, Backs(ring[<<e.pod, e.signal>>], e.ts)
       PROVE  Backs(ring'[<<e.pod, e.signal>>], e.ts)
  <2>1. <<e.pod, e.signal>> \in Series /\ e.ts \in Nat
    BY PackAssumption DEF Event, Series
  <2>2. CASE <<e.pod, e.signal>> = mine
    BY <1>15, <1>24, <2>1, <2>2
  <2>3. CASE <<e.pod, e.signal>> # mine
    BY <1>9, <1>24, <2>1, <2>3
  <2>4. QED
    BY <2>2, <2>3
<1>25. Breach(a) => Backs(ring'[mine], a.ts)
  <2>1. ASSUME Breach(a) PROVE x = [ts |-> a.ts, high |-> TRUE]
    <3>1. a.high = TRUE
      BY <1>3, <2>1 DEF Breach
    <3>2. QED
      BY <1>0, <3>1
  <2>2. QED
    BY <1>15, <2>1 DEF Backs
<1>26. EventsBacked'
  <2>1. \A l \in DOMAIN emitted : emitted[l] \in Event /\ Backs(ring[<<emitted[l].pod, emitted[l].signal>>], emitted[l].ts)
    BY DEF AggInv, TypeOK, EventsBacked, Backs
  <2>2. ASSUME NEW l \in DOMAIN emitted'
        PROVE  Backs(ring'[<<emitted'[l].pod, emitted'[l].signal>>], emitted'[l].ts)
    <3>1. CASE l \in DOMAIN emitted /\ emitted'[l] = emitted[l]
      <4>1. PICK e \in Event : e = emitted[l] /\ Backs(ring[<<e.pod, e.signal>>], e.ts)
        BY <2>1, <3>1
      <4>2. QED
        BY <1>24, <3>1, <4>1
    <3>2. CASE Breach(a) /\ emitted'[l] = EventOf(a)
      <4>1. emitted'[l].pod = a.pod /\ emitted'[l].signal = Pack[query] /\ emitted'[l].ts = a.ts
        BY <3>2 DEF EventOf
      <4>2. QED
        BY <1>0, <1>25, <3>2, <4>1
    <3>3. \/ l \in DOMAIN emitted /\ emitted'[l] = emitted[l]
          \/ Breach(a) /\ emitted'[l] = EventOf(a)
      <4>1. emitted \in Seq(Event)
        BY DEF AggInv, TypeOK
      <4>2. CASE Breach(a)
        BY <1>19, <1>20, <4>1, <4>2
      <4>3. CASE ~Breach(a)
        BY <1>20, <4>3
      <4>4. QED
        BY <4>2, <4>3
    <3>4. QED
      BY <3>1, <3>2, <3>3
  <2>3. QED
    BY <2>2 DEF EventsBacked, Backs
<1>27. QED
  BY <1>17, <1>18, <1>21, <1>22, <1>23, <1>26 DEF AggInv

LEMMA StutterKeeps ==
  ASSUME AggInv, UNCHANGED vars
  PROVE  AggInv'
<1>1. UNCHANGED <<ring, recent, poll, now, query, samples, events, answers, emitted>>
  BY DEF vars
<1>2. TypeOK' /\ PollerShape' /\ Pending' /\ EventsInOrder' /\ Waiting'
  BY <1>1 DEF AggInv, TypeOK, PollerShape, Pending, EventsInOrder, Published, Waiting
<1>3. Rings' /\ EventsBacked'
  BY <1>1, IdleKeeps
<1>4. QED
  BY <1>2, <1>3 DEF AggInv

LEMMA NextKeeps == AggInv /\ [Next]_vars => AggInv'
<1> SUFFICES ASSUME AggInv, [Next]_vars PROVE AggInv'
  OBVIOUS
<1>1. CASE PromAnswers
  BY <1>1, QueryAnswersKeeps, QueryFailsKeeps DEF PromAnswers
<1>2. CASE Tick
  BY <1>2, TickKeeps
<1>3. CASE samples # <<>> /\ AddSample(Head(samples))
  BY <1>3, AddSampleKeeps
<1>4. CASE Publish
  BY <1>4, PublishStepKeeps
<1>5. CASE EndPoll
  BY <1>5, EndPollKeeps
<1>6. CASE UNCHANGED vars
  BY <1>6, StutterKeeps
<1>7. QED
  BY <1>1, <1>2, <1>3, <1>4, <1>5, <1>6 DEF Next, PollerStep

LEMMA AggInvHolds == Spec => []AggInv
<1> QED BY InitHolds, NextKeeps, PTL DEF Spec

-----------------------------------------------------------------------------
(* The results. *)

\* Rings, events and the poller's place have their types (main, Ring.Add, evalEvents).
THEOREM TypeCorrect == Spec => []TypeOK
<1>1. AggInv => TypeOK
  BY DEF AggInv
<1>2. QED
  BY <1>1, AggInvHolds, PTL

\* At every moment /window serves, of each series, exactly the newest Cap samples the loop has
\* added, once each and oldest first, however many results of one poll it gets (Ring.Add).
THEOREM WindowCorrect == Spec => []WindowSlides
<1>1. AggInv => WindowSlides
  <2> SUFFICES ASSUME AggInv, NEW s \in Series
      PROVE  /\ {ring[s][i].ts : i \in DOMAIN ring[s]} = NewestOf(Answered(s), Cap)
             /\ \A i, j \in DOMAIN ring[s] : i < j => ring[s][i].ts < ring[s][j].ts
    BY DEF WindowSlides
  <2>1. PICK m \in Nat : m = now
    BY DEF AggInv, TypeOK
  <2>2. PICK r \in Seq(Sample), T \in SUBSET (1 .. m) : r = ring[s] /\ T = Answered(s)
    <3>1. answers[s] \in SUBSET (1 .. now) /\ ring[s] \in Seq(Sample)
      BY DEF AggInv, TypeOK
    <3>2. QED
      BY <2>1, <3>1 DEF Answered
  <2>3. Kept(r, T)
    BY <2>2 DEF AggInv, Rings
  <2>4. {r[i].ts : i \in DOMAIN r} = NewestOf(T, Cap)
    BY <2>3, KeptIsNewest
  <2>5. \A i, j \in DOMAIN r : i < j => r[i].ts < r[j].ts
    BY <2>3 DEF Kept
  <2>6. QED
    BY <2>2, <2>4, <2>5
<1>2. QED
  BY <1>1, AggInvHolds, PTL

\* /events always serves the newest published events in the order they were found
\* (main's publishing loop).
THEOREM EventsCorrect == Spec => []EventsInOrder
<1>1. AggInv => EventsInOrder
  BY DEF AggInv
<1>2. QED
  BY <1>1, AggInvHolds, PTL

\* Every event is backed by its sample in the window until Cap newer samples of the
\* series have replaced it (Ring.Add before evalEvents).
THEOREM BackedCorrect == Spec => []EventsBacked
<1>1. AggInv => EventsBacked
  BY DEF AggInv
<1>2. QED
  BY <1>1, AggInvHolds, PTL
===============================================================================
