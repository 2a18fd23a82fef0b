--------------------------- MODULE TelemetryIngest ---------------------------
(***************************************************************************)
(* workloads/telemetry-ingest/main.py: the MQTT thread puts readings into  *)
(* a bounded queue, the writer thread takes batches from it and inserts    *)
(* them into the table readings, one transaction per batch.                *)
(*                                                                         *)
(* The sensors publish with QoS 1 and the gateway reconnects by itself, so *)
(* a reading may arrive again, or behind later ones.  A row stands for one *)
(* arrival, and arrivals are numbered: a row's ts is the time of it, so    *)
(* which rows are of the last minute only depends on that number.          *)
(***************************************************************************)
EXTENDS Naturals, Sequences, FiniteSets

CONSTANTS
  MaxReadings, \* bound on the readings the sensors send
  MaxArrivals, \* bound on their arrivals
  QueueMax,    \* Q.maxsize, 50000 in the code
  BatchMax     \* rows of a batch, 500 in the code

ASSUME IngestAssumption ==
  MaxReadings \in Nat /\ MaxArrivals \in Nat /\ QueueMax \in Nat \ {0} /\ BatchMax \in Nat \ {0}

VARIABLES
  sent,       \* readings the sensors have sent
  arrivals,   \* history: which reading each call of on_msg was about
  old,        \* how many arrivals are older than a minute
  mqtt,       \* "connecting", then "subscribed"; "mute" after an automatic reconnect
  Q,          \* the queue
  writer,     \* "connecting", "filling" a batch, or "committed" and not yet counted
  batch,      \* what the writer holds
  readings,   \* the table, in the order of its inserts
  INSERTED,   \* the counter ingest_rows_total of this process
  QDEPTH      \* the gauge ingest_queue_depth

mqttVars == <<sent, arrivals, old, mqtt>>
writerVars == <<writer, batch, readings, INSERTED, QDEPTH>>
ingestVars == <<mqttVars, Q, writerVars>>

IngestInit ==
  /\ sent = 0 /\ arrivals = <<>> /\ old = 0
  /\ mqtt = "connecting" /\ writer = "connecting"
  /\ Q = <<>> /\ batch = <<>> /\ readings = <<>>
  /\ INSERTED = 0 /\ QDEPTH = 0

-----------------------------------------------------------------------------
(* The sensors, the clock and the MQTT thread. *)

\* Wrong: the queue has no limit.
QueuedAlways(n) == Append(Q, n)

\* on_msg: put_nowait, or drop.
Queued(n) == IF Len(Q) < QueueMax THEN Append(Q, n) ELSE Q

\* A sensor publishes; a reading that never arrives is lost.
Reading ==
  /\ sent < MaxReadings
  /\ sent' = sent + 1
  /\ UNCHANGED <<arrivals, old, mqtt, Q, writerVars>>

\* on_msg is called for a reading, be it the first time or not: nothing tells it.
Arrival ==
  /\ mqtt = "subscribed" /\ Len(arrivals) < MaxArrivals
  /\ \E r \in 1 .. sent : arrivals' = Append(arrivals, r)
  /\ Q' = Queued(Len(arrivals) + 1)
  /\ UNCHANGED <<sent, old, mqtt, writerVars>>

TimePasses ==
  /\ old' \in old + 1 .. Len(arrivals)
  /\ UNCHANGED <<sent, arrivals, mqtt, Q, writerVars>>

\* connect, then subscribe, once for the loop_forever that follows.
Subscribe ==
  /\ mqtt = "connecting"
  /\ mqtt' = "subscribed"
  /\ UNCHANGED <<sent, arrivals, old, Q, writerVars>>

\* loop_forever reconnects with a clean session and does not subscribe again, or on_msg raised
\* (a payload that is no text) and the loop of __main__ starts over.
BrokerLost ==
  /\ mqtt = "subscribed"
  /\ mqtt' \in {"mute", "connecting"}
  /\ UNCHANGED <<sent, arrivals, old, Q, writerVars>>

-----------------------------------------------------------------------------
(* The writer thread. *)

Connect ==
  /\ writer = "connecting"
  /\ writer' = "filling"
  /\ UNCHANGED <<mqttVars, Q, batch, readings, INSERTED, QDEPTH>>

\* Q.get, then get_nowait while the batch has room and its second is not over.
Take ==
  /\ writer = "filling" /\ Q # <<>> /\ Len(batch) < BatchMax
  /\ batch' = Append(batch, Head(Q))
  /\ Q' = Tail(Q)
  /\ UNCHANGED <<mqttVars, writer, readings, INSERTED, QDEPTH>>

\* executemany and commit, as soon as the queue is empty, the batch full or its second over.
Commit ==
  /\ writer = "filling" /\ batch # <<>>
  /\ readings' = readings \o batch
  /\ writer' = "committed"
  /\ UNCHANGED <<mqttVars, Q, batch, INSERTED, QDEPTH>>

Count ==
  /\ writer = "committed"
  /\ INSERTED' = INSERTED + Len(batch)
  /\ QDEPTH' = Len(Q)
  /\ batch' = <<>>
  /\ writer' = "filling"
  /\ UNCHANGED <<mqttVars, Q, readings>>

\* Wrong: the batch goes back to the queue.
WriteFailsRetries ==
  /\ writer \in {"filling", "committed"} /\ batch # <<>>
  /\ Q' = batch \o Q
  /\ batch' = <<>>
  /\ writer' = "connecting"
  /\ UNCHANGED <<mqttVars, readings, INSERTED, QDEPTH>>

\* Wrong: the rows are counted whatever became of them.
WriteFailsCounts ==
  /\ writer \in {"filling", "committed"} /\ batch # <<>>
  /\ INSERTED' = INSERTED + Len(batch)
  /\ batch' = <<>>
  /\ writer' = "connecting"
  /\ UNCHANGED <<mqttVars, Q, readings, QDEPTH>>

\* An exception of the database, of the commit's answer as well: the batch is dropped.
WriteFails ==
  /\ writer \in {"filling", "committed"} /\ batch # <<>>
  /\ batch' = <<>>
  /\ writer' = "connecting"
  /\ UNCHANGED <<mqttVars, Q, readings, INSERTED, QDEPTH>>

\* The process restarts: queue, batch and counters are gone.
IngestRestarts ==
  /\ mqtt' = "connecting" /\ writer' = "connecting"
  /\ Q' = <<>> /\ batch' = <<>>
  /\ INSERTED' = 0 /\ QDEPTH' = 0
  /\ UNCHANGED <<sent, arrivals, old, readings>>

IngestStep ==
  \/ Reading \/ Arrival \/ TimePasses \/ Subscribe \/ BrokerLost
  \/ Connect \/ Take \/ Commit \/ Count \/ WriteFails \/ IngestRestarts

-----------------------------------------------------------------------------
Increasing(s) == \A i, j \in DOMAIN s : i < j => s[i] < s[j]

IngestTypeOK ==
  /\ sent \in 0 .. MaxReadings
  /\ arrivals \in Seq(1 .. sent) /\ Len(arrivals) <= MaxArrivals
  /\ old \in 0 .. Len(arrivals)
  /\ mqtt \in {"connecting", "subscribed", "mute"}
  /\ writer \in {"connecting", "filling", "committed"}
  /\ Q \in Seq(1 .. Len(arrivals)) /\ Len(Q) <= QueueMax
  /\ batch \in Seq(1 .. Len(arrivals)) /\ Len(batch) <= BatchMax
  /\ readings \in Seq(1 .. Len(arrivals))
  /\ INSERTED \in Nat /\ QDEPTH \in 0 .. QueueMax

ArrivalsOf(r) == {n \in DOMAIN arrivals : arrivals[n] = r}

RowsOf(r) == {i \in DOMAIN readings : arrivals[readings[i]] = r}

\* The path adds no duplicate and no disorder of its own, whatever is lost on the way (a failed
\* insert whose commit did happen, a full queue, a restart): rows are inserted in the order of
\* arrival, and a reading is in the table at most as often as it arrived (on_msg and writer).
WrittenOnceInOrder ==
  /\ Increasing(readings)
  /\ \A r \in 1 .. sent : Cardinality(RowsOf(r)) <= Cardinality(ArrivalsOf(r))

\* The counter an operator reads never claims a row the table does not have, nor does the process
\* count a row it has not committed (writer).
CountedIsWritten ==
  /\ INSERTED <= Len(readings)
  /\ writer = "committed" => INSERTED + Len(batch) <= Len(readings)
=============================================================================
