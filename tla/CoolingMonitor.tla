--------------------------- MODULE CoolingMonitor ---------------------------
(***************************************************************************)
(* The S1 trigger of workloads/cooling-monitor/main.py: the flag FLUSH on  *)
(* the shared volume, which the HTTP thread and the scenario scripts       *)
(* create, the reset script deletes and the main loop tests and removes in *)
(* two steps before it runs fio.  The idle journal is left out.            *)
(***************************************************************************)
VARIABLES
  flag, \* os.path.exists(FLUSH_FLAG)
  main, \* where the main loop is
  owed  \* history: somebody armed S1 and neither a storm nor a reset came since

coolingVars == <<flag, main, owed>>

MonitorUp == main # "dead"

CoolingInit == flag = FALSE /\ main = "look" /\ owed = FALSE

\* POST /flush, or the touch of scenarios/S1/trigger.sh.
Arm ==
  /\ MonitorUp
  /\ flag' = TRUE /\ owed' = TRUE
  /\ UNCHANGED main

\* The rm -f of scenarios/S1/reset.sh; it does not stop what is already taken.
ResetScript ==
  /\ MonitorUp
  /\ flag' = FALSE
  /\ owed' = (owed /\ main = "start")
  /\ UNCHANGED main

Look ==
  /\ main = "look" /\ flag
  /\ main' = "remove"
  /\ UNCHANGED <<flag, owed>>

\* os.remove; without the file it raises, and the main thread ends with the process.
Remove ==
  /\ main = "remove"
  /\ main' = IF flag THEN "start" ELSE "dead"
  /\ flag' = FALSE
  /\ UNCHANGED owed

\* subprocess.run: whoever armed S1 before this gets this storm, also when it runs another later.
StartFio ==
  /\ main = "start"
  /\ main' = "fio"
  /\ owed' = FALSE
  /\ UNCHANGED flag

\* Wrong: the flag is cleaned up once more after the storm.
StormOverClears ==
  /\ main = "fio"
  /\ main' = "look"
  /\ flag' = FALSE
  /\ UNCHANGED owed

StormOver ==
  /\ main = "fio"
  /\ main' = "look"
  /\ UNCHANGED <<flag, owed>>

\* The pod is killed: only what was taken and not started is lost.
MonitorDies ==
  /\ MonitorUp
  /\ main' = "dead"
  /\ owed' = (owed /\ flag)
  /\ UNCHANGED flag

\* The kubelet restarts the container; the flag is on the volume.
MonitorRestarts ==
  /\ main = "dead"
  /\ main' = "look"
  /\ UNCHANGED <<flag, owed>>

\* The main loop and its restarts always go on; fio ends after its runtime.
MainLoop == Look \/ Remove \/ StartFio \/ StormOver \/ MonitorRestarts

MonitorEnvironment == ResetScript \/ MonitorDies

-----------------------------------------------------------------------------
CoolingTypeOK ==
  /\ flag \in BOOLEAN /\ owed \in BOOLEAN
  /\ main \in {"look", "remove", "start", "fio", "dead"}

\* Whoever arms S1 gets a storm, through overlapping triggers, triggers during a storm, a reset
\* between the test and the removal of the flag, and kills, once the pod is no longer killed;
\* unless a reset takes it back or the pod dies just after taking the flag (main and do_POST).
ArmedRuns == <>[][~MonitorDies]_main => (owed ~> ~owed)
=============================================================================
