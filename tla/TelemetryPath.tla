---------------------------- MODULE TelemetryPath ----------------------------
(***************************************************************************)
(* workloads/alert-dispatcher/index.js, which polls the table that         *)
(* telemetry-ingest fills and posts alerts to the gateway: three tries at  *)
(* once, no back-off, and polls that do not wait for each other.           *)
(***************************************************************************)
EXTENDS TelemetryIngest

CONSTANTS
  Polls,   \* bound on the polls under way at once
  Low,     \* rows of the last minute below which ingest has stalled, 1000 in the code
  MaxTries \* attempts of an alert, 3 in the code

ASSUME DispatcherAssumption == Low \in Nat \ {0} /\ MaxTries \in Nat \ {0}

VARIABLES
  poll,  \* where each poll is: "none", "connect", "query" or "send"
  tries, \* attempts of the alert it sends
  told   \* history: an alert has arrived since rows were last coming in

pollVars == <<poll, tries>>
vars == <<ingestVars, pollVars, told>>

Init ==
  /\ IngestInit
  /\ poll = [p \in Polls |-> "none"]
  /\ tries = [p \in Polls |-> 0]
  /\ told = FALSE

\* Rows of the last minute.
RecentRows == {i \in DOMAIN readings : readings[i] > old}
Stalled == Cardinality(RecentRows) < Low

Goto(p, where) == poll' = [poll EXCEPT ![p] = where]

Alert(p) == Goto(p, "send") /\ tries' = [tries EXCEPT ![p] = 1]

-----------------------------------------------------------------------------
\* The interval is over, whatever became of the polls before.
StartPoll(p) ==
  /\ poll[p] = "none"
  /\ Goto(p, "connect") /\ UNCHANGED tries

ConnectDb(p) ==
  /\ poll[p] = "connect"
  /\ Goto(p, "query") /\ UNCHANGED tries

\* Wrong: counts all rows.
CountedEver == Len(readings)

\* count(*) over the last minute.
Counted == Cardinality(RecentRows)

\* The flood alert, above the rates that sensors reach, is left out.
Query(p) ==
  /\ poll[p] = "query"
  /\ IF Counted < Low
     THEN Alert(p)
     ELSE Goto(p, "none") /\ UNCHANGED tries

\* The connection times out or the query fails: db-unreachable.
DbFails(p) ==
  /\ poll[p] \in {"connect", "query"}
  /\ Alert(p)

\* A try that failed: again at once, or no more.
NextTry(p) ==
  IF tries[p] < MaxTries
  THEN tries' = [tries EXCEPT ![p] = @ + 1] /\ UNCHANGED poll
  ELSE tries' = [tries EXCEPT ![p] = 0] /\ Goto(p, "none")

\* The alert arrives; its answer is read, or comes after the second is over.
Deliver(p) ==
  /\ poll[p] = "send"
  /\ told' = TRUE
  /\ \/ tries' = [tries EXCEPT ![p] = 0] /\ Goto(p, "none")
     \/ NextTry(p)

GatewayFails(p) == poll[p] = "send" /\ NextTry(p)

\* The dispatcher restarts: every poll under way is gone.
DispatcherRestarts ==
  /\ poll' = [p \in Polls |-> "none"]
  /\ tries' = [p \in Polls |-> 0]

PollStep(p) == StartPoll(p) \/ ConnectDb(p) \/ Query(p) \/ DbFails(p) \/ GatewayFails(p)

\* Once rows come in again, what was told is about an earlier stall.
Forgotten == told' = (told /\ Stalled')

Next ==
  \/ IngestStep /\ UNCHANGED pollVars /\ Forgotten
  \/ \E p \in Polls : PollStep(p) /\ UNCHANGED <<ingestVars, told>>
  \/ \E p \in Polls : Deliver(p) /\ UNCHANGED ingestVars
  \/ DispatcherRestarts /\ UNCHANGED <<ingestVars, told>>

\* The interval fires again and again, and whatever a poll waits for is answered or fails; nothing
\* is assumed of telemetry-ingest.
Spec ==
  /\ Init /\ [][Next]_vars
  /\ \A p \in Polls : WF_vars((PollStep(p) /\ UNCHANGED <<ingestVars, told>>)
                              \/ (Deliver(p) /\ UNCHANGED ingestVars))

-----------------------------------------------------------------------------
(* Properties. *)

\* The type invariant; the queue and the batch keep their limits.
TypeOK ==
  /\ IngestTypeOK
  /\ poll \in [Polls -> {"none", "connect", "query", "send"}]
  /\ tries \in [Polls -> 0 .. MaxTries]
  /\ \A p \in Polls : tries[p] > 0 <=> poll[p] = "send"

GatewayIsDown == \E p \in Polls : GatewayFails(p)

\* A stall of ingest, whatever its cause (the database, the broker, a lost subscription, a restart),
\* is alarmed, unless it ends by itself, once the gateway takes alerts and the dispatcher stays up:
\* neither a failed query nor polls that overlap keep it from being told (poll and send).
StallIsTold ==
  <>[][~GatewayIsDown /\ ~DispatcherRestarts]_pollVars => (Stalled ~> told \/ ~Stalled)
=============================================================================
