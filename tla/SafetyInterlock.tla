-------------------------- MODULE SafetyInterlock --------------------------
(***************************************************************************)
(* The safety interlock, workloads/safety-interlock/main.go: an MQTT       *)
(* callback that notes each heartbeat of the critical-control relay, and a *)
(* goroutine that looks once a second whether the last one is too old.     *)
(* They share two atomics, last and tripped, and nothing makes two         *)
(* operations on them one step.                                            *)
(*                                                                         *)
(* silence is now - last in ticks of the clock, up to Limit + 1: longer    *)
(* silences are alike to the code.                                         *)
(***************************************************************************)
EXTENDS Naturals

CONSTANT Limit \* the silence that is still tolerated, 3 s

ASSUME LimitAssumption == Limit \in Nat \ {0}

VARIABLES
  relay,    \* whether the relay publishes heartbeats: "up" or "down"
  link,     \* "connecting", then "subscribed"; "mute" after an automatic reconnect
  silence,  \* now - last
  tripped,  \* what /state answers: SAFE_MODE or ARMED
  callback, \* "ready", or "stored" between its two stores
  ticker    \* "ready", or "tripping" between its test and its store

vars == <<relay, link, silence, tripped, callback, ticker>>

\* The type invariant; the goroutine is started after the subscription (main).
TypeOK ==
  /\ relay \in {"up", "down"}
  /\ link \in {"connecting", "subscribed", "mute"}
  /\ silence \in 0..(Limit + 1)
  /\ tripped \in BOOLEAN
  /\ callback \in {"ready", "stored"}
  /\ ticker \in {"ready", "tripping"}
  /\ link = "connecting" => callback = "ready" /\ ticker = "ready" /\ ~tripped

\* last is stored before the first attempt to connect.
Init ==
  /\ relay \in {"up", "down"}
  /\ link = "connecting"
  /\ silence = 0
  /\ tripped = FALSE
  /\ callback = "ready"
  /\ ticker = "ready"

Overdue == silence > Limit

Clock ==
  /\ ~Overdue
  /\ silence' = silence + 1
  /\ UNCHANGED <<relay, link, tripped, callback, ticker>>

\* The relay process stops, hangs or starts again.
RelayChanges ==
  /\ relay' = IF relay = "up" THEN "down" ELSE "up"
  /\ UNCHANGED <<link, silence, tripped, callback, ticker>>

\* Connect succeeds after any number of attempts, and Subscribe follows.
Subscribe ==
  /\ link = "connecting"
  /\ link' = "subscribed"
  /\ UNCHANGED <<relay, silence, tripped, callback, ticker>>

\* SetAutoReconnect: the client comes back with a clean session, and main does not
\* subscribe again.
Reconnect ==
  /\ link = "subscribed"
  /\ link' = "mute"
  /\ UNCHANGED <<relay, silence, tripped, callback, ticker>>

\* A heartbeat is delivered: last.Store.
Beat ==
  /\ relay = "up" /\ link = "subscribed" /\ callback = "ready"
  /\ silence' = 0
  /\ callback' = "stored"
  /\ UNCHANGED <<relay, link, tripped, ticker>>

\* Wrong: the callback does not rearm.
KeepTripped ==
  /\ callback = "stored"
  /\ callback' = "ready"
  /\ UNCHANGED <<relay, link, silence, tripped, ticker>>

\* tripped.Store(false)
Rearm ==
  /\ callback = "stored"
  /\ tripped' = FALSE
  /\ callback' = "ready"
  /\ UNCHANGED <<relay, link, silence, ticker>>

\* The condition of the ticker's if.
Check ==
  /\ link # "connecting" /\ ticker = "ready"
  /\ Overdue /\ ~tripped
  /\ ticker' = "tripping"
  /\ UNCHANGED <<relay, link, silence, tripped, callback>>

\* Wrong: the goroutine ends with its first trip.
TripOnce ==
  /\ ticker = "tripping"
  /\ tripped' = TRUE
  /\ ticker' = "ended"
  /\ UNCHANGED <<relay, link, silence, callback>>

\* tripped.Store(true), and the line in the log.
Trip ==
  /\ ticker = "tripping"
  /\ tripped' = TRUE
  /\ ticker' = "ready"
  /\ UNCHANGED <<relay, link, silence, callback>>

Program == Rearm \/ Check \/ Trip

Next == Clock \/ RelayChanges \/ Subscribe \/ Reconnect \/ Beat \/ Program

Spec == Init /\ [][Next]_vars

\* Time passes, the two goroutines run, the broker is eventually reached and a
\* relay that is up keeps beating.
FairSpec ==
  /\ Spec
  /\ WF_vars(Clock) /\ WF_vars(Subscribe) /\ WF_vars(Beat)
  /\ WF_vars(Rearm) /\ WF_vars(Check) /\ WF_vars(Trip)

-----------------------------------------------------------------------------
(* Properties. *)

\* "trips to safe-mode on misses": once the relay is down for good, the interlock ends
\* in safe mode and stays there, however its last beat interleaves with the ticker.
LossTrips == <>[](relay = "down") => <>[]tripped

\* A beating relay is never locked out: as long as beats arrive, the interlock is
\* armed again and again.
BeatsRearm == <>[](relay = "up" /\ link = "subscribed") => []<>~tripped

=============================================================================
