--------------------------- MODULE TelemetryProofs ---------------------------
(***************************************************************************)
(* Proofs about TelemetryPath, and with it TelemetryIngest, for all sizes  *)
(* of the queue and the batch, any number of readings, polls and repeated  *)
(* arrivals: the types, that an arrival becomes at most one row and rows   *)
(* are in the order of arrival, and that the counter claims no row the     *)
(* table does not have.                                                    *)
(***************************************************************************)
EXTENDS TelemetryPath, FiniteSetTheorems, TLAPS

-----------------------------------------------------------------------------
(* The type invariant. *)

\* A sequence of numbers up to m is one of numbers up to n, if n is no smaller.
LEMMA SeqUpTo ==
  ASSUME NEW m \in Nat, NEW n \in Nat, m <= n, NEW s \in Seq(1 .. m)
  PROVE  s \in Seq(1 .. n)
<1>1. \A i \in DOMAIN s : s[i] \in 1 .. n
  OBVIOUS
<1>2. QED
  BY <1>1

\* A step of telemetry-ingest keeps the types; the MQTT callback drops a reading rather than
\* let the queue grow, and the writer stops taking when the batch is full.
LEMMA IngestTypeStep == IngestTypeOK /\ IngestStep => IngestTypeOK'
<1> SUFFICES ASSUME IngestTypeOK, IngestStep PROVE IngestTypeOK'
  OBVIOUS
<1> USE IngestAssumption DEF IngestTypeOK, mqttVars, writerVars
<1>0. CASE Reading
  <2>1. sent \in Nat /\ sent' \in Nat /\ sent <= sent' /\ sent' \in 0 .. MaxReadings
    BY <1>0 DEF Reading
  <2>2. arrivals \in Seq(1 .. sent')
    BY <2>1, SeqUpTo
  <2>3. QED
    BY <1>0, <2>1, <2>2 DEF Reading
<1>1. CASE Arrival
  <2>1. PICK r \in 1 .. sent : arrivals' = Append(arrivals, r)
    BY <1>1 DEF Arrival
  <2>2. PICK m \in Nat : m = Len(arrivals) /\ m + 1 \in Nat /\ m + 1 <= MaxArrivals
    BY <1>1 DEF Arrival
  <2>3. arrivals' \in Seq(1 .. sent) /\ Len(arrivals') = m + 1
    BY <2>1, <2>2
  <2>4. /\ Q \in Seq(1 .. m + 1) /\ batch \in Seq(1 .. m + 1) /\ readings \in Seq(1 .. m + 1)
        /\ Len(Q) <= QueueMax /\ Len(batch) <= BatchMax
    BY <2>2, SeqUpTo
  <2>5. Q' \in {Q, Append(Q, m + 1)} /\ (Len(Q) = QueueMax => Q' = Q)
    BY <1>1, <2>2 DEF Arrival, Queued
  <2>6. Q' \in Seq(1 .. m + 1) /\ Len(Q') <= QueueMax
    <3>1. CASE Q' = Q
      BY <2>4, <3>1
    <3>2. CASE Q' = Append(Q, m + 1) /\ Len(Q) # QueueMax
      <4>1. m + 1 \in 1 .. m + 1 /\ Len(Q) \in Nat /\ Len(Q) + 1 <= QueueMax
        BY <2>2, <2>4, <3>2
      <4>2. QED
        BY <2>4, <3>2, <4>1
    <3>3. QED
      BY <2>5, <3>1, <3>2
  <2>7. old \in 0 .. m + 1
    BY <2>2
  <2>8. UNCHANGED <<sent, old, mqtt, writer, batch, readings, INSERTED, QDEPTH>>
    BY <1>1 DEF Arrival
  <2>9. QED
    BY <2>2, <2>3, <2>4, <2>6, <2>7, <2>8
<1>2. CASE TimePasses
  BY <1>2 DEF TimePasses
<1>3. CASE Subscribe
  BY <1>3 DEF Subscribe
<1>4. CASE BrokerLost
  BY <1>4 DEF BrokerLost
<1>5. CASE Connect
  BY <1>5 DEF Connect
<1>6. CASE Take
  BY <1>6 DEF Take
<1>7. CASE Commit
  BY <1>7 DEF Commit
<1>8. CASE Count
  BY <1>8 DEF Count
<1>9. CASE WriteFails
  BY <1>9 DEF WriteFails
<1>10. CASE IngestRestarts
  BY <1>10 DEF IngestRestarts
<1>11. QED
  BY <1>0, <1>1, <1>2, <1>3, <1>4, <1>5, <1>6, <1>7, <1>8, <1>9, <1>10 DEF IngestStep

\* Every reachable state is well-typed: the queue and the batch keep their limits, and a poll
\* counts tries exactly while it sends.
THEOREM TypeCorrect == Spec => []TypeOK
<1>1. Init => TypeOK
  BY IngestAssumption, DispatcherAssumption DEF Init, IngestInit, TypeOK, IngestTypeOK
<1>2. TypeOK /\ [Next]_vars => TypeOK'
  <2> SUFFICES ASSUME TypeOK, [Next]_vars PROVE TypeOK'
    OBVIOUS
  <2> USE DispatcherAssumption DEF TypeOK
  <2>1. CASE IngestStep /\ UNCHANGED pollVars
    BY <2>1, IngestTypeStep DEF pollVars
  <2>2. ASSUME NEW p \in Polls, PollStep(p), UNCHANGED ingestVars PROVE TypeOK'
    <3>1. IngestTypeOK'
      BY <2>2 DEF IngestTypeOK, ingestVars, mqttVars, writerVars
    <3>2. QED
      BY <2>2, <3>1 DEF PollStep, StartPoll, ConnectDb, Query, DbFails, GatewayFails, NextTry, Alert, Goto
  <2>3. ASSUME NEW p \in Polls, Deliver(p), UNCHANGED ingestVars PROVE TypeOK'
    <3>1. IngestTypeOK'
      BY <2>3 DEF IngestTypeOK, ingestVars, mqttVars, writerVars
    <3>2. QED
      BY <2>3, <3>1 DEF Deliver, NextTry, Goto
  <2>4. CASE DispatcherRestarts /\ UNCHANGED ingestVars
    BY <2>4 DEF DispatcherRestarts, IngestTypeOK, ingestVars, mqttVars, writerVars
  <2>5. CASE UNCHANGED vars
    BY <2>5 DEF vars, IngestTypeOK, ingestVars, pollVars, mqttVars, writerVars
  <2>6. QED
    BY <2>1, <2>2, <2>3, <2>4, <2>5 DEF Next
<1>3. QED
  BY <1>1, <1>2, PTL DEF Spec

-----------------------------------------------------------------------------
(* Arrivals are written at most once and in order. *)

\* Every arrival of s was before every arrival of t.
Before(s, t) == \A i \in DOMAIN s, j \in DOMAIN t : s[i] < t[j]

\* s holds no arrival that is still to come.
UpTo(s, n) == \A i \in DOMAIN s : s[i] <= n

\* An arrival is in one place of the path at a time, and no place is overtaken: the table, the
\* batch until its commit, the queue, and what is still to come.
PathInOrder ==
  /\ Increasing(readings) /\ Increasing(batch) /\ Increasing(Q)
  /\ Before(batch, Q) /\ Before(readings, Q)
  /\ writer # "committed" => Before(readings, batch)
  /\ writer = "connecting" => batch = <<>>
  /\ UpTo(readings, Len(arrivals)) /\ UpTo(batch, Len(arrivals)) /\ UpTo(Q, Len(arrivals))

\* What a queue holds after one more arrival (Q.put_nowait).
LEMMA OneMoreInQueue ==
  ASSUME NEW m \in Nat, NEW q \in Seq(1 .. m), NEW r, r = Append(q, m + 1)
  PROVE  /\ DOMAIN r = 1 .. Len(q) + 1 /\ r[Len(q) + 1] = m + 1 /\ Len(q) \in Nat
         /\ DOMAIN q = 1 .. Len(q) /\ \A i \in DOMAIN q : r[i] = q[i]
<1>1. q \in Seq(1 .. m + 1) /\ m + 1 \in 1 .. m + 1
  <2>1. 1 .. m \subseteq 1 .. m + 1
    OBVIOUS
  <2>2. QED
    BY <2>1
<1>2. QED
  BY <1>1

\* What it holds when the writer has taken one (Q.get).
LEMMA OneLessInQueue ==
  ASSUME NEW m \in Nat, NEW q \in Seq(1 .. m), q # <<>>
  PROVE  /\ Head(q) = q[1] /\ 1 \in DOMAIN q
         /\ \A i \in DOMAIN Tail(q) :
              i \in Nat /\ 1 < i + 1 /\ i + 1 \in DOMAIN q /\ Tail(q)[i] = q[i + 1]
OBVIOUS

\* The numbers along the path are natural numbers.
LEMMA ArrivalNumbers ==
  ASSUME IngestTypeOK
  PROVE  /\ Len(arrivals) \in Nat
         /\ \A i \in DOMAIN Q : Q[i] \in Nat
         /\ \A i \in DOMAIN batch : batch[i] \in Nat
         /\ \A i \in DOMAIN readings : readings[i] \in Nat
<1>1. ASSUME NEW n \in Nat, NEW s \in Seq(1 .. n), NEW i \in DOMAIN s PROVE s[i] \in Nat
  OBVIOUS
<1>2. /\ arrivals \in Seq(1 .. sent) /\ Q \in Seq(1 .. Len(arrivals))
      /\ batch \in Seq(1 .. Len(arrivals)) /\ readings \in Seq(1 .. Len(arrivals))
  BY DEF IngestTypeOK
<1>3. QED
  BY <1>1, <1>2

\* No step of telemetry-ingest disturbs the order of the path: a committed batch is dropped,
\* never put back (writer).
LEMMA PathStep == IngestTypeOK /\ PathInOrder /\ IngestStep => PathInOrder'
<1> SUFFICES ASSUME IngestTypeOK, PathInOrder, IngestStep PROVE PathInOrder'
  OBVIOUS
<1> USE DEF IngestTypeOK, PathInOrder, Increasing, Before, UpTo, mqttVars, writerVars
<1>0. CASE Reading
  BY <1>0 DEF Reading
<1>1. CASE Arrival
  <2>0. PICK m \in Nat : m = Len(arrivals)
    OBVIOUS
  <2>1. Len(arrivals') = m + 1 /\ UNCHANGED <<readings, batch, writer>>
    BY <1>1, <2>0 DEF Arrival
  <2>2. /\ \A i \in DOMAIN Q : Q[i] \in Nat
        /\ \A i \in DOMAIN batch : batch[i] \in Nat
        /\ \A i \in DOMAIN readings : readings[i] \in Nat
    BY ArrivalNumbers
  <2>3. UpTo(readings, m + 1) /\ UpTo(batch, m + 1)
    BY <2>0, <2>2
  <2>4. CASE Q' = Q
    <3>1. UpTo(Q, m + 1)
      BY <2>0, <2>2
    <3>2. QED
      BY <2>1, <2>3, <2>4, <3>1
  <2>5. CASE Q' = Append(Q, m + 1)
    <3>0. Q \in Seq(1 .. m)
      BY <2>0
    <3>1. /\ DOMAIN Q' = 1 .. Len(Q) + 1 /\ Q'[Len(Q) + 1] = m + 1 /\ Len(Q) \in Nat
          /\ DOMAIN Q = 1 .. Len(Q) /\ \A i \in DOMAIN Q : Q'[i] = Q[i]
      <4> HIDE DEF IngestTypeOK, PathInOrder
      <4>1. QED
        BY <2>5, <3>0, OneMoreInQueue
    <3> HIDE DEF IngestTypeOK
    <3>2. UpTo(Q', m + 1) /\ Increasing(Q')
      BY <2>0, <2>2, <3>1
    <3>3. Before(batch, Q') /\ Before(readings, Q')
      BY <2>0, <2>2, <3>1
    <3>4. QED
      BY <2>1, <2>3, <3>2, <3>3
  <2>6. QED
    BY <1>1, <2>0, <2>4, <2>5 DEF Arrival, Queued
<1>2. CASE TimePasses
  BY <1>2 DEF TimePasses
<1>3. CASE Subscribe
  BY <1>3 DEF Subscribe
<1>4. CASE BrokerLost
  BY <1>4 DEF BrokerLost
<1>5. CASE Connect
  BY <1>5 DEF Connect
<1>6. CASE Take
  <2>1. /\ Q # <<>> /\ batch' = Append(batch, Head(Q)) /\ Q' = Tail(Q)
        /\ writer = "filling" /\ UNCHANGED <<readings, writer, arrivals>>
    BY <1>6 DEF Take
  <2>a. Q \in Seq(1 .. Len(arrivals)) /\ Len(arrivals) \in Nat
    BY ArrivalNumbers
  <2>2. Head(Q) = Q[1] /\ 1 \in DOMAIN Q
    BY <2>1, <2>a, OneLessInQueue
  <2>3. \A i \in DOMAIN Q' : i + 1 \in DOMAIN Q /\ Q'[i] = Q[i + 1]
    BY <2>1, <2>a, OneLessInQueue
  <2>4. \A i \in DOMAIN batch' :
          \/ /\ batch'[i] = Q[1]
             /\ i = Len(batch) + 1
          \/ /\ i \in DOMAIN batch
             /\ batch'[i] = batch[i]
    BY <2>1, <2>2
  <2>5. /\ \A i \in DOMAIN Q : Q[i] \in Nat
        /\ \A i \in DOMAIN batch : batch[i] \in Nat
        /\ \A i \in DOMAIN readings : readings[i] \in Nat
    BY ArrivalNumbers
  <2>6. DOMAIN Q \subseteq Nat /\ DOMAIN batch = 1 .. Len(batch) /\ Len(batch) \in Nat
    OBVIOUS
  <2>7. \A i \in DOMAIN Q' : i \in Nat /\ 1 < i + 1
    BY <2>1, <2>a, OneLessInQueue
  <2> HIDE DEF IngestTypeOK
  <2>8. Increasing(Q') /\ Before(readings, Q') /\ UpTo(Q', Len(arrivals))
    BY <2>3, <2>6, <2>7
  <2>9. Increasing(batch')
    BY <2>2, <2>4, <2>5, <2>6
  <2>10. Before(batch', Q')
    <3>1. ASSUME NEW i \in DOMAIN batch', NEW j \in DOMAIN Q' PROVE batch'[i] < Q'[j]
      <4>1. CASE batch'[i] = Q[1]
        BY <2>2, <2>3, <2>6, <2>7, <4>1
      <4>2. CASE i \in DOMAIN batch /\ batch'[i] = batch[i]
        BY <2>3, <4>2
      <4>3. QED
        BY <2>4, <4>1, <4>2
    <3>2. QED
      BY <3>1
  <2>11. Before(readings, batch') /\ UpTo(batch', Len(arrivals))
    BY <2>1, <2>2, <2>4
  <2>12. QED
    BY <2>1, <2>8, <2>9, <2>10, <2>11
<1>7. CASE Commit
  <2>1. readings' = readings \o batch /\ writer = "filling" /\ writer' = "committed" /\ UNCHANGED <<batch, Q, arrivals>>
    BY <1>7 DEF Commit
  <2>2. \A i \in DOMAIN readings' :
          \/ i \in DOMAIN readings /\ readings'[i] = readings[i]
          \/ i \notin DOMAIN readings /\ i - Len(readings) \in DOMAIN batch /\ readings'[i] = batch[i - Len(readings)]
    BY <2>1
  <2>3. /\ DOMAIN readings = 1 .. Len(readings) /\ DOMAIN batch = 1 .. Len(batch)
        /\ Len(readings) \in Nat /\ Len(batch) \in Nat /\ DOMAIN readings' \subseteq Nat
    BY <2>1
  <2> HIDE DEF IngestTypeOK
  <2>4. Increasing(readings')
    <3>1. ASSUME NEW i \in DOMAIN readings', NEW j \in DOMAIN readings', i < j
          PROVE  readings'[i] < readings'[j]
      <4>1. CASE j \in DOMAIN readings
        BY <2>2, <2>3, <3>1, <4>1
      <4>2. CASE i \in DOMAIN readings /\ j \notin DOMAIN readings
        BY <2>1, <2>2, <4>2
      <4>3. CASE i \notin DOMAIN readings /\ j \notin DOMAIN readings
        <5>1. i - Len(readings) < j - Len(readings)
          BY <2>3, <3>1
        <5>2. QED
          BY <2>2, <4>3, <5>1
      <4>4. QED
        BY <2>3, <3>1, <4>1, <4>2, <4>3
    <3>2. QED
      BY <3>1
  <2>5. Before(readings', Q') /\ UpTo(readings', Len(arrivals'))
    BY <2>1, <2>2
  <2>6. QED
    BY <2>1, <2>4, <2>5
<1>8. CASE Count
  BY <1>8 DEF Count
<1>9. CASE WriteFails
  BY <1>9 DEF WriteFails
<1>10. CASE IngestRestarts
  BY <1>10 DEF IngestRestarts
<1>11. QED
  BY <1>0, <1>1, <1>2, <1>3, <1>4, <1>5, <1>6, <1>7, <1>8, <1>9, <1>10 DEF IngestStep

\* No reading is in the table more often than it arrived: different rows are different arrivals.
LEMMA RowsOfArrivals ==
  ASSUME IngestTypeOK, Increasing(readings), NEW r \in 1 .. sent
  PROVE  Cardinality(RowsOf(r)) <= Cardinality(ArrivalsOf(r))
<1> DEFINE f == [i \in RowsOf(r) |-> readings[i]]
<1>1. /\ DOMAIN readings = 1 .. Len(readings) /\ Len(readings) \in Nat
      /\ DOMAIN arrivals = 1 .. Len(arrivals) /\ Len(arrivals) \in Nat
      /\ \A i \in DOMAIN readings : readings[i] \in 1 .. Len(arrivals)
  BY DEF IngestTypeOK
<1>2. f \in [RowsOf(r) -> ArrivalsOf(r)]
  BY <1>1 DEF RowsOf, ArrivalsOf
<1>3. ASSUME NEW i \in RowsOf(r), NEW j \in RowsOf(r), readings[i] = readings[j] PROVE i = j
  <2>1. /\ i \in 1 .. Len(readings) /\ j \in 1 .. Len(readings)
        /\ readings[i] \in Nat /\ readings[j] \in Nat
    BY <1>1 DEF RowsOf
  <2>2. ~(i < j) /\ ~(j < i)
    BY <1>1, <1>3, <2>1 DEF Increasing
  <2>3. QED
    BY <1>1, <2>1, <2>2
<1>4. f \in Injection(RowsOf(r), ArrivalsOf(r))
  BY <1>2, <1>3 DEF Injection, IsInjective
<1>5. IsFiniteSet(ArrivalsOf(r))
  <2>1. IsFiniteSet(1 .. Len(arrivals)) /\ ArrivalsOf(r) \subseteq 1 .. Len(arrivals)
    BY <1>1, FS_Interval DEF ArrivalsOf
  <2>2. QED
    BY <2>1, FS_Subset
<1>6. QED
  BY <1>4, <1>5, FS_Injection

\* Whatever is lost on the way, rows are in the order of arrival, and no reading is in the table
\* more often than it arrived.
THEOREM OrderCorrect == Spec => []WrittenOnceInOrder
<1>1. Init => PathInOrder
  BY DEF Init, IngestInit, PathInOrder, Increasing, Before, UpTo
<1>2. TypeOK /\ PathInOrder /\ [Next]_vars => PathInOrder'
  <2> SUFFICES ASSUME TypeOK, PathInOrder, [Next]_vars PROVE PathInOrder'
    OBVIOUS
  <2>1. CASE IngestStep
    BY <2>1, PathStep DEF TypeOK
  <2>2. CASE UNCHANGED ingestVars
    BY <2>2 DEF PathInOrder, Increasing, Before, UpTo, ingestVars, mqttVars, writerVars
  <2>3. QED
    BY <2>1, <2>2 DEF Next, vars
<1>3. TypeOK /\ PathInOrder => WrittenOnceInOrder
  BY RowsOfArrivals DEF TypeOK, PathInOrder, WrittenOnceInOrder
<1>4. QED
  BY <1>1, <1>2, <1>3, TypeCorrect, PTL DEF Spec

-----------------------------------------------------------------------------
(* The counter. *)

\* The counter of this process never claims a row the table does not have, as a batch is counted
\* only after its commit was answered.
THEOREM CounterCorrect == Spec => []CountedIsWritten
<1>1. Init => CountedIsWritten
  BY DEF Init, IngestInit, CountedIsWritten
<1>2. TypeOK /\ CountedIsWritten /\ [Next]_vars => CountedIsWritten'
  <2> SUFFICES ASSUME TypeOK, CountedIsWritten, [Next]_vars PROVE CountedIsWritten'
    OBVIOUS
  <2> USE DEF TypeOK, IngestTypeOK, CountedIsWritten, mqttVars, writerVars
  <2>1. CASE IngestStep
    <3>1. CASE Commit
      <4>1. Len(readings') = Len(readings) + Len(batch) /\ Len(batch) \in Nat
        BY <3>1 DEF Commit
      <4>2. QED
        BY <3>1, <4>1 DEF Commit
    <3>2. CASE Count
      BY <3>2 DEF Count
    <3>3. CASE Reading \/ Arrival \/ TimePasses \/ Subscribe \/ BrokerLost \/ Connect \/ Take
      BY <3>3 DEF Reading, Arrival, TimePasses, Subscribe, BrokerLost, Connect, Take
    <3>4. CASE WriteFails \/ IngestRestarts
      BY <3>4 DEF WriteFails, IngestRestarts
    <3>5. QED
      BY <2>1, <3>1, <3>2, <3>3, <3>4 DEF IngestStep
  <2>2. CASE UNCHANGED ingestVars
    BY <2>2 DEF ingestVars
  <2>3. QED
    BY <2>1, <2>2 DEF Next, vars
<1>3. QED
  BY <1>1, <1>2, TypeCorrect, PTL DEF Spec
=============================================================================
