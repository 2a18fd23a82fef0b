----------------------------- MODULE Aggregator -----------------------------
(***************************************************************************)
(* The L2 aggregator, aggregator/main.go.  One goroutine polls Prometheus  *)
(* at every tick: it runs the pack's queries in order, adds each sample to *)
(* its series in the ring, collects threshold events, and afterwards       *)
(* publishes them one by one.  The handlers of /window and /events take    *)
(* their own locks, so they may run between any two of these steps.        *)
(*                                                                         *)
(* Samples are numbered in the order promQuery parses them, which is what  *)
(* their ts is.  A query that does not sum by pod returns several results  *)
(* of one pod in one poll, one per container or interface: all of them go  *)
(* to one series.  Results without a pod label are skipped and left out    *)
(* here, and so is the z-score, which only annotates an event.             *)
(***************************************************************************)
EXTENDS Integers, Sequences, FiniteSets, SequencesExt

CONSTANTS
  Pods,
  Pack,      \* the signals of queries.yaml, in order
  Vectors,   \* the vectors that the query of each signal may return
  Ruled,     \* the signals with a threshold, and in the event schema
  Cap,       \* ring capacity: window_min * 60 / interval_s
  MaxRecent, \* events kept for /events (256)
  MaxPolls   \* bound on the number of polls

\* queries.yaml maps each signal to one query.
ASSUME PackAssumption ==
  /\ Pack \in Seq(ToSet(Pack))
  /\ \A i, j \in DOMAIN Pack : Pack[i] = Pack[j] => i = j
  /\ Ruled \subseteq ToSet(Pack)

\* A result: its pod, and whether it is above a threshold.
ASSUME VectorsAssumption ==
  \A signal \in ToSet(Pack) : \A vector \in Vectors[signal] :
    vector \in Seq(Pods \X BOOLEAN) /\ vector # <<>>

ASSUME CapAssumption ==
  /\ Cap \in Nat \ {0}
  /\ MaxRecent \in Nat \ {0}
  /\ MaxPolls \in Nat

VARIABLES
  ring,    \* of each series (pod, signal): its samples, oldest first
  recent,  \* what /events answers with
  poll,    \* the number of the current or last poll
  now,     \* the number of the last sample
  query,   \* the query the poller is at: 0 between polls, Len(Pack) + 1 when done
  samples, \* what the current query returned and the loop has not added yet
  events,  \* what this poll found and has not published yet
  answers, \* history: the samples Prometheus returned for each series, by their numbers
  emitted  \* history: every event, in the order it was found

vars == <<ring, recent, poll, now, query, samples, events, answers, emitted>>

Series == Pods \X ToSet(Pack)

\* s.Value > thr, or not.
Sample == [ts : Nat, high : BOOLEAN]

Result == [pod : Pods, ts : Nat, high : BOOLEAN]

Event == [pod : Pods, signal : Ruled, ts : Nat]

\* The type invariant: rings and events hold what the pack's queries returned (evalEvents).
TypeOK ==
  /\ ring \in [Series -> Seq(Sample)]
  /\ recent \in Seq(Event)
  /\ poll \in 0..MaxPolls
  /\ now \in Nat
  /\ query \in 0..(Len(Pack) + 1)
  /\ samples \in Seq(Result)
  /\ events \in Seq(Event)
  /\ answers \in [Series -> SUBSET (1..now)]
  /\ emitted \in Seq(Event)

Init ==
  /\ ring = [s \in Series |-> <<>>]
  /\ recent = <<>>
  /\ poll = 0
  /\ now = 0
  /\ query = 0
  /\ samples = <<>>
  /\ events = <<>>
  /\ answers = [s \in Series |-> {}]
  /\ emitted = <<>>

-----------------------------------------------------------------------------

\* append, then x = x[len(x)-n:] if it is longer than n
LastOf(seq, n) == IF Len(seq) > n THEN SubSeq(seq, Len(seq) - n + 1, Len(seq)) ELSE seq

\* time.Tick: the next poll starts once the previous one has published.
Tick ==
  /\ query = 0
  /\ poll < MaxPolls
  /\ poll' = poll + 1
  /\ query' = 1
  /\ UNCHANGED <<ring, recent, now, samples, events, answers, emitted>>

Querying == query \in 1..Len(Pack) /\ samples = <<>>

\* The numbers of a vector's results of one pod.
NumbersOf(vector, p) == {now + i : i \in {j \in DOMAIN vector : vector[j][1] = p}}

\* promQuery returns: every result of the vector, in its order.
QueryAnswers(vector) ==
  /\ Querying
  /\ samples' = [i \in DOMAIN vector |-> [pod |-> vector[i][1], ts |-> now + i, high |-> vector[i][2]]]
  /\ now' = now + Len(vector)
  /\ answers' = [s \in Series |->
       IF s[2] = Pack[query] THEN answers[s] \cup NumbersOf(vector, s[1]) ELSE answers[s]]
  /\ UNCHANGED <<ring, recent, poll, query, events, emitted>>

\* promQuery fails, or has no samples: on to the next signal.
QueryFails ==
  /\ Querying
  /\ query' = query + 1
  /\ UNCHANGED <<ring, recent, poll, now, samples, events, answers, emitted>>

Breach(a) == a.high /\ Pack[query] \in Ruled

EventOf(a) == [pod |-> a.pod, signal |-> Pack[query], ts |-> a.ts]

\* The last sample of an answer ends the query.
Consume ==
  /\ samples' = Tail(samples)
  /\ query' = IF Len(samples) = 1 THEN query + 1 ELSE query
  /\ UNCHANGED <<recent, poll, now, answers>>

Found(a) ==
  /\ events' = IF Breach(a) THEN Append(events, EventOf(a)) ELSE events
  /\ emitted' = IF Breach(a) THEN Append(emitted, EventOf(a)) ELSE emitted

Added(s, a) == ring' = [ring EXCEPT ![s] = LastOf(Append(@, [ts |-> a.ts, high |-> a.high]), Cap)]

\* Wrong: a breaching sample is kept out of the window.
AddSampleUnlessBreach(a) ==
  /\ IF Breach(a) THEN UNCHANGED ring ELSE Added(<<a.pod, Pack[query]>>, a)
  /\ Found(a)
  /\ Consume

\* Wrong: the samples of all signals of a pod end up in one series.
AddSampleToFirst(a) ==
  /\ Added(<<a.pod, Pack[1]>>, a)
  /\ Found(a)
  /\ Consume

\* ring.Add, then the threshold rule.
AddSample(a) ==
  /\ Added(<<a.pod, Pack[query]>>, a)
  /\ Found(a)
  /\ Consume

\* Wrong: the newest event is published first.
PublishLast ==
  /\ query = Len(Pack) + 1
  /\ events # <<>>
  /\ recent' = LastOf(Append(recent, Last(events)), MaxRecent)
  /\ events' = Front(events)
  /\ UNCHANGED <<ring, poll, now, query, samples, answers, emitted>>

\* One event of the poll goes to stdout, to /events and to L3's optional POST.
Publish ==
  /\ query = Len(Pack) + 1
  /\ events # <<>>
  /\ recent' = LastOf(Append(recent, Head(events)), MaxRecent)
  /\ events' = Tail(events)
  /\ UNCHANGED <<ring, poll, now, query, samples, answers, emitted>>

EndPoll ==
  /\ query = Len(Pack) + 1
  /\ events = <<>>
  /\ query' = 0
  /\ UNCHANGED <<ring, recent, poll, now, samples, events, answers, emitted>>

PromAnswers == (Querying /\ \E vector \in Vectors[Pack[query]] : QueryAnswers(vector)) \/ QueryFails

PollerStep == Tick \/ (samples # <<>> /\ AddSample(Head(samples))) \/ Publish \/ EndPoll

Next == PromAnswers \/ PollerStep

Spec == Init /\ [][Next]_vars

-----------------------------------------------------------------------------
(* Properties. *)

\* What /window serves between two samples: each series holds exactly the newest Cap
\* samples of those Prometheus ever returned for it and the loop has come to, once each and
\* oldest first, whichever queries failed, whichever pods went missing in between, and
\* however many results of one poll belong to one series (Ring.Add).
Answered(s) == {t \in answers[s] : t <= now - Len(samples)}

NewestOf(times, n) == {t \in times : Cardinality({u \in times : u > t}) < n}

WindowSlides ==
  \A s \in Series :
    /\ {ring[s][i].ts : i \in DOMAIN ring[s]} = NewestOf(Answered(s), Cap)
    /\ \A i, j \in DOMAIN ring[s] : i < j => ring[s][i].ts < ring[s][j].ts

\* /events serves the newest events in the order they were found: no concurrent poll,
\* cap or failed query drops, repeats or reorders one (main's publishing loop).
Published == SubSeq(emitted, 1, Len(emitted) - Len(events))

EventsInOrder == recent = LastOf(Published, MaxRecent)

\* Every event found is backed by evidence in the window: its sample is in the ring and
\* above the threshold, or Cap newer samples of the same series have pushed it out.
EventsBacked ==
  \A n \in DOMAIN emitted :
    LET e == emitted[n]
        r == ring[<<e.pod, e.signal>>]
    IN \/ [ts |-> e.ts, high |-> TRUE] \in ToSet(r)
       \/ Len(r) = Cap /\ r[1].ts > e.ts

=============================================================================
