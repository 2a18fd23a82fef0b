----------------------------- MODULE ServedGraph -----------------------------
(***************************************************************************)
(* What GET /graph promises, whatever the loop behind it does: an answer   *)
(* is a snapshot.  It is an error without a graph, or it shows, for all    *)
(* the signals in it at once, the memory as it is committed at the moment  *)
(* the graph is put there.  After a restart it shows every signal, and no  *)
(* finding.                                                                *)
(***************************************************************************)
CONSTANTS Signals, Heats

VARIABLES
  memory, \* what is committed for a signal
  served  \* the answer to GET /graph

servedVars == <<memory, served>>

Snapshot(status, signals, finding) ==
  [status |-> status, views |-> [s \in signals |-> [heat |-> memory[s], finding |-> finding[s]]]]

Silent == [s \in Signals |-> FALSE]

Init ==
  /\ memory \in [Signals -> Heats]
  /\ served = Snapshot("boot", Signals, Silent)

\* A pass commits what it learned of a signal; nobody sees it yet.
Commit(s) ==
  /\ \E h \in Heats : memory' = [memory EXCEPT ![s] = h]
  /\ UNCHANGED served

\* A whole pass is shown.
Answer ==
  /\ \E signals \in SUBSET Signals : \E finding \in [signals -> BOOLEAN] :
       served' = Snapshot("ok", signals, finding)
  /\ UNCHANGED memory

Fail == served' = Snapshot("error", {}, Silent) /\ UNCHANGED memory

Restart == served' = Snapshot("boot", Signals, Silent) /\ UNCHANGED memory

Next == (\E s \in Signals : Commit(s)) \/ Answer \/ Fail \/ Restart

Spec == Init /\ [][Next]_servedVars
=============================================================================
