--------------------------- MODULE ScenarioConsole ---------------------------
(***************************************************************************)
(* POST /api/scenarios/{sid}/trigger and /reset of api/main.py, on a       *)
(* thread pool, for the scenarios with steps that can interleave: S2,      *)
(* which deletes the job log-archiver-s2, waits until the name is free and *)
(* creates the job again, and S1, which arms the cooling monitor.  S5 is   *)
(* one PATCH and is left out.  Every call to the cluster may fail, also    *)
(* after it took effect, and then the request ends with an error.          *)
(***************************************************************************)
EXTENDS CoolingMonitor, ApiThreads

CONSTANT
  MaxRounds \* rounds _trigger_s2 waits for the old job, 20 in the code

ASSUME ConsoleAssumption == MaxRounds \in Nat \ {0}

VARIABLES
  job,    \* the job object of the cluster: "none", "running", "complete" or "deleting"
  doing,  \* where a request is in its handler
  rounds, \* rounds a trigger of S2 has waited
  result, \* how the thread's last request ended
  rival   \* history: another request created the job while this trigger was under way

consoleVars == <<job, doing, rounds, result, rival>>
systemVars == <<coolingVars, consoleVars>>

ConsoleInit ==
  /\ CoolingInit
  /\ job \in {"none", "complete"}
  /\ doing = [t \in Threads |-> "idle"]
  /\ rounds = [t \in Threads |-> 0]
  /\ result = [t \in Threads |-> "none"]
  /\ rival = [t \in Threads |-> FALSE]

Goto(t, where) == doing' = [doing EXCEPT ![t] = where]

End(t, how) == Goto(t, "idle") /\ result' = [result EXCEPT ![t] = how]

-----------------------------------------------------------------------------
(* The cluster. *)

\* Background deletion: the object goes at once or stays until its finalizers are done.
DeleteJob ==
  IF job = "none" THEN UNCHANGED job ELSE job' \in {"none", "deleting"}

ClusterStep ==
  /\ \/ job = "running" /\ job' = "complete"
     \/ job = "deleting" /\ job' = "none"
  /\ UNCHANGED <<coolingVars, doing, rounds, result, rival>>

-----------------------------------------------------------------------------
(* The handlers. *)

ScenarioRequest(t) ==
  /\ doing[t] = "idle"
  /\ \E where \in {"flush", "delete", "reset"} : Goto(t, where)
  /\ rounds' = [rounds EXCEPT ![t] = 0]
  /\ result' = [result EXCEPT ![t] = "none"]
  /\ rival' = [rival EXCEPT ![t] = FALSE]
  /\ UNCHANGED <<coolingVars, job>>

\* S1: arms the monitor over HTTP, whose answer may be lost; nobody answers while its pod is down.
Flush(t) ==
  /\ doing[t] = "flush"
  /\ \/ Arm /\ \E how \in {"armed", "error"} : End(t, how)
     \/ ~MonitorUp /\ End(t, "error") /\ UNCHANGED coolingVars
  /\ UNCHANGED <<job, rounds, rival>>

\* The DELETE of a trigger; 404 is fine.
Delete(t) ==
  /\ doing[t] = "delete"
  /\ DeleteJob
  /\ Goto(t, "wait")
  /\ UNCHANGED <<coolingVars, rounds, result, rival>>

\* Wrong: posts after the first look, whatever it saw.
EnoughAtOnce(t) == job = "none" \/ rounds[t] < MaxRounds

\* The wait ends when the name is free, or after the last round.
Enough(t) == job = "none" \/ rounds[t] = MaxRounds

\* Wrong: deletes and waits again after the last round.
WaitRetries(t) ==
  /\ doing[t] = "wait"
  /\ \/ job = "none" /\ Goto(t, "post") /\ UNCHANGED rounds
     \/ ~Enough(t) /\ rounds' = [rounds EXCEPT ![t] = @ + 1] /\ UNCHANGED doing
     \/ Enough(t) /\ job # "none" /\ Goto(t, "delete") /\ rounds' = [rounds EXCEPT ![t] = 0]
  /\ UNCHANGED <<coolingVars, job, result, rival>>

\* GET of the job, half a second apart; then the CronJob is read.
Wait(t) ==
  /\ doing[t] = "wait"
  /\ IF Enough(t)
     THEN Goto(t, "post") /\ UNCHANGED rounds
     ELSE rounds' = [rounds EXCEPT ![t] = @ + 1] /\ UNCHANGED doing
  /\ UNCHANGED <<coolingVars, job, result, rival>>

\* POST of the new job; a name that is taken answers 409.
Post(t) ==
  /\ doing[t] = "post"
  /\ IF job = "none"
     THEN /\ job' = "running"
          /\ rival' = [u \in Threads |-> rival[u] \/ (u # t /\ doing[u] \in {"delete", "wait", "post"})]
          /\ \E how \in {"fired", "error"} : End(t, how)
     ELSE End(t, "conflict") /\ UNCHANGED <<job, rival>>
  /\ UNCHANGED <<coolingVars, rounds>>

\* Reset of S2.
Reset(t) ==
  /\ doing[t] = "reset"
  /\ DeleteJob
  /\ End(t, "reset")
  /\ UNCHANGED <<coolingVars, rounds, rival>>

\* A call fails before the handler's last one, or without effect; a failed DELETE may have worked.
CallFails(t) ==
  /\ doing[t] # "idle"
  /\ UNCHANGED job \/ (doing[t] \in {"delete", "reset"} /\ DeleteJob)
  /\ End(t, "error")
  /\ UNCHANGED <<coolingVars, rounds, rival>>

Handler(t) == Flush(t) \/ Delete(t) \/ Wait(t) \/ Post(t) \/ Reset(t)

ConsoleNext ==
  \/ \E t \in Threads : ScenarioRequest(t) \/ Handler(t) \/ CallFails(t)
  \/ ClusterStep
  \/ (MainLoop \/ MonitorEnvironment) /\ UNCHANGED consoleVars

\* Handlers go on, as every call is answered or times out; no call has to fail, and the cluster
\* may keep a job that is being deleted for good.
ConsoleSpec ==
  /\ ConsoleInit /\ [][ConsoleNext]_systemVars
  /\ \A t \in Threads : WF_systemVars(Handler(t))
  /\ WF_systemVars(MainLoop /\ UNCHANGED consoleVars)

-----------------------------------------------------------------------------
(* Properties. *)

\* The type invariant.
ConsoleTypeOK ==
  /\ CoolingTypeOK
  /\ job \in {"none", "running", "complete", "deleting"}
  /\ doing \in [Threads -> {"idle", "flush", "delete", "wait", "post", "reset"}]
  /\ rounds \in [Threads -> 0 .. MaxRounds]
  /\ result \in [Threads -> {"none", "armed", "fired", "conflict", "reset", "error"}]
  /\ rival \in [Threads -> BOOLEAN]

\* The wait does what its comment says, "avoid 409": a trigger only fails on the name if another
\* trigger took it meanwhile, or the old job outlived all the rounds (_trigger_s2).
ConflictNeedsRival ==
  \A t \in Threads : result[t] = "conflict" => rival[t] \/ rounds[t] = MaxRounds

\* Every request ends, although a job may be stuck in deletion and triggers and resets of other
\* threads keep taking and freeing the name (_trigger_s2, trigger and reset_scenario).
RequestsEnd == \A t \in Threads : doing[t] # "idle" ~> doing[t] = "idle"
=============================================================================
