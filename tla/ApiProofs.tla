------------------------------ MODULE ApiProofs ------------------------------
(***************************************************************************)
(* Proofs about the two sets of endpoints of api/main.py that threads of   *)
(* one pool run at once, for any finite number of threads.  Scenarios:     *)
(* types, when a trigger of S2 may find its job's name taken, and that no  *)
(* storm of S1 gets lost.  Narrative, for any set of verdicts: types, that *)
(* every answer has the shape of the verdict its request read, and the     *)
(* bound on the cache that no lock guards.                                 *)
(***************************************************************************)
EXTENDS ScenarioConsole, NarrativeCache, FiniteSetTheorems, TLAPS

-----------------------------------------------------------------------------
(* The scenario console. *)

\* A step of the cooling monitor keeps its types.
LEMMA CoolingTypeStep ==
  CoolingTypeOK /\ (MainLoop \/ MonitorEnvironment \/ Arm \/ UNCHANGED coolingVars) => CoolingTypeOK'
BY DEF CoolingTypeOK, MainLoop, MonitorEnvironment, Arm, MonitorUp, ResetScript, MonitorDies, MonitorRestarts,
       Look, Remove, StartFio, StormOver, coolingVars

\* Every reachable state is well-typed; no trigger waits more than MaxRounds rounds.
THEOREM ConsoleTypeCorrect == ConsoleSpec => []ConsoleTypeOK
<1> USE ConsoleAssumption DEF ConsoleTypeOK, Goto, End
<1>1. ConsoleInit => ConsoleTypeOK
  <2> SUFFICES ASSUME ConsoleInit PROVE ConsoleTypeOK
    OBVIOUS
  <2>1. CoolingTypeOK
    BY DEF ConsoleInit, CoolingInit, CoolingTypeOK
  <2>2. 0 \in 0 .. MaxRounds
    OBVIOUS
  <2>3. QED
    BY <2>1, <2>2 DEF ConsoleInit
<1>2. ConsoleTypeOK /\ [ConsoleNext]_systemVars => ConsoleTypeOK'
  <2> SUFFICES ASSUME ConsoleTypeOK, [ConsoleNext]_systemVars PROVE ConsoleTypeOK'
    OBVIOUS
  <2>1. ASSUME NEW t \in Threads, ScenarioRequest(t) PROVE ConsoleTypeOK'
    BY <2>1, CoolingTypeStep DEF ScenarioRequest
  <2>2. ASSUME NEW t \in Threads, Flush(t) PROVE ConsoleTypeOK'
    <3>1. CoolingTypeOK'
      BY <2>2, CoolingTypeStep DEF Flush
    <3>2. QED
      BY <2>2, <3>1 DEF Flush
  <2>3. ASSUME NEW t \in Threads, Delete(t) PROVE ConsoleTypeOK'
    BY <2>3, CoolingTypeStep DEF Delete, DeleteJob
  <2>4. ASSUME NEW t \in Threads, Wait(t) PROVE ConsoleTypeOK'
    BY <2>4, CoolingTypeStep DEF Wait, Enough
  <2>5. ASSUME NEW t \in Threads, Post(t) PROVE ConsoleTypeOK'
    BY <2>5, CoolingTypeStep DEF Post
  <2>6. ASSUME NEW t \in Threads, Reset(t) PROVE ConsoleTypeOK'
    BY <2>6, CoolingTypeStep DEF Reset, DeleteJob
  <2>7. ASSUME NEW t \in Threads, CallFails(t) PROVE ConsoleTypeOK'
    BY <2>7, CoolingTypeStep DEF CallFails, DeleteJob
  <2>8. CASE ClusterStep
    BY <2>8, CoolingTypeStep DEF ClusterStep
  <2>9. CASE (MainLoop \/ MonitorEnvironment) /\ UNCHANGED consoleVars
    BY <2>9, CoolingTypeStep DEF consoleVars
  <2>10. CASE UNCHANGED systemVars
    BY <2>10, CoolingTypeStep DEF systemVars, consoleVars
  <2>11. QED
    BY <2>1, <2>2, <2>3, <2>4, <2>5, <2>6, <2>7, <2>8, <2>9, <2>10 DEF ConsoleNext, Handler
<1>3. QED
  BY <1>1, <1>2, PTL DEF ConsoleSpec

\* A trigger that is about to post has seen the name free and nobody took it since, or somebody
\* did, or it has waited all its rounds.
PostInv ==
  \A t \in Threads : doing[t] = "post" => job = "none" \/ rival[t] \/ rounds[t] = MaxRounds

\* A trigger only fails on the job's name if another request took it meanwhile, or the old job
\* outlived all the rounds.
THEOREM ConflictCorrect == ConsoleSpec => []ConflictNeedsRival
<1> DEFINE Inv == PostInv /\ ConflictNeedsRival
<1> USE DEF ConsoleTypeOK, PostInv, ConflictNeedsRival, Goto, End
<1>1. ConsoleInit => Inv
  BY DEF ConsoleInit
<1>2. ConsoleTypeOK /\ Inv /\ [ConsoleNext]_systemVars => Inv'
  <2> SUFFICES ASSUME ConsoleTypeOK, Inv, [ConsoleNext]_systemVars PROVE Inv'
    OBVIOUS
  <2>1. ASSUME NEW t \in Threads, ScenarioRequest(t) PROVE Inv'
    BY <2>1 DEF ScenarioRequest
  <2>2. ASSUME NEW t \in Threads, Flush(t) PROVE Inv'
    BY <2>2 DEF Flush
  <2>3. ASSUME NEW t \in Threads, Delete(t) PROVE Inv'
    BY <2>3 DEF Delete, DeleteJob
  <2>4. ASSUME NEW t \in Threads, Wait(t) PROVE Inv'
    BY <2>4 DEF Wait, Enough
  <2>5. ASSUME NEW t \in Threads, Post(t) PROVE Inv'
    BY <2>5 DEF Post
  <2>6. ASSUME NEW t \in Threads, Reset(t) PROVE Inv'
    BY <2>6 DEF Reset, DeleteJob
  <2>7. ASSUME NEW t \in Threads, CallFails(t) PROVE Inv'
    BY <2>7 DEF CallFails, DeleteJob
  <2>8. CASE ClusterStep
    BY <2>8 DEF ClusterStep
  <2>9. CASE UNCHANGED consoleVars
    BY <2>9 DEF consoleVars
  <2>10. QED
    BY <2>1, <2>2, <2>3, <2>4, <2>5, <2>6, <2>7, <2>8, <2>9 DEF ConsoleNext, Handler, systemVars
<1>3. QED
  BY <1>1, <1>2, ConsoleTypeCorrect, PTL DEF ConsoleSpec

-----------------------------------------------------------------------------
(* The storms of the cooling monitor. *)

\* A storm that somebody is owed is on its way: its flag is on the volume, or the main loop has
\* taken the flag and not started fio yet.  So a kill only loses what was just taken.
OwedIsHeld == owed => flag \/ main = "start"

\* Overlapping triggers, resets between the test and the removal of the flag, and kills never
\* leave a storm owed that nothing will start (main and do_POST, the safety half of ArmedRuns).
THEOREM OwedCorrect == ConsoleSpec => []OwedIsHeld
<1> USE DEF OwedIsHeld
<1>1. ConsoleInit => OwedIsHeld
  BY DEF ConsoleInit, CoolingInit
<1>2. ConsoleTypeOK /\ OwedIsHeld /\ [ConsoleNext]_systemVars => OwedIsHeld'
  <2> SUFFICES ASSUME ConsoleTypeOK, OwedIsHeld, [ConsoleNext]_systemVars PROVE OwedIsHeld'
    OBVIOUS
  <2>1. CASE MainLoop
    BY <2>1 DEF MainLoop, Look, Remove, StartFio, StormOver, MonitorRestarts, ConsoleTypeOK, CoolingTypeOK
  <2>2. CASE MonitorEnvironment
    BY <2>2 DEF MonitorEnvironment, ResetScript, MonitorDies, ConsoleTypeOK, CoolingTypeOK
  <2>3. CASE Arm
    BY <2>3 DEF Arm
  <2>4. CASE UNCHANGED coolingVars
    BY <2>4 DEF coolingVars
  <2>5. QED
    BY <2>1, <2>2, <2>3, <2>4
       DEF ConsoleNext, systemVars, ScenarioRequest, Handler, Flush, Delete, Wait, Post, Reset, CallFails, ClusterStep
<1>3. QED
  BY <1>1, <1>2, ConsoleTypeCorrect, PTL DEF ConsoleSpec

-----------------------------------------------------------------------------
(* The narrative cache: types, and the shape of answers. *)

\* Every reachable state is well-typed; a thread past the lookup has a verdict, so neither the
\* read of the cache nor the store lacks the signature it works with.
THEOREM TypeCorrect == Spec => []TypeOK
<1> USE DEF TypeOK, Statuses, Reply, Signatures, Finish, Continue
<1>1. Init => TypeOK
  BY DEF Init
<1>2. TypeOK /\ [Next]_vars => TypeOK'
  <2> SUFFICES ASSUME TypeOK, [Next]_vars PROVE TypeOK'
    OBVIOUS
  <2>1. CASE EngineMoves
    BY <2>1 DEF EngineMoves
  <2>2. ASSUME NEW t \in Threads, EngineDown(t) PROVE TypeOK'
    BY <2>2 DEF EngineDown
  <2>3. ASSUME NEW t \in Threads, Steady(t) PROVE TypeOK'
    BY <2>3 DEF Steady
  <2>4. ASSUME NEW t \in Threads, ReadGraph(t) PROVE TypeOK'
    BY <2>4 DEF ReadGraph
  <2>5. ASSUME NEW t \in Threads, Lookup(t) PROVE TypeOK'
    BY <2>5 DEF Lookup
  <2>6. ASSUME NEW t \in Threads, ReadCache(t) PROVE TypeOK'
    <3>1. UNCHANGED <<engine, cache, read>> /\ at' = [at EXCEPT ![t] = "idle"]
      BY <2>6 DEF ReadCache
    <3>2. \E status \in Statuses : \E texts \in SUBSET Verdicts :
            reply' = [reply EXCEPT ![t] = Reply(status, texts)]
      BY <2>6 DEF ReadCache
    <3>3. QED
      BY <3>1, <3>2
  <2>7. ASSUME NEW t \in Threads, ModelAnswers(t) PROVE TypeOK'
    BY <2>7 DEF ModelAnswers
  <2>8. ASSUME NEW t \in Threads, ModelFails(t) PROVE TypeOK'
    BY <2>8 DEF ModelFails
  <2>9. ASSUME NEW t \in Threads, ClearCache(t) PROVE TypeOK'
    BY <2>9 DEF ClearCache
  <2>10. ASSUME NEW t \in Threads, Store(t) PROVE TypeOK'
    BY <2>10 DEF Store
  <2>11. CASE UNCHANGED vars
    BY <2>11 DEF vars
  <2>12. QED
    BY <2>1, <2>2, <2>3, <2>4, <2>5, <2>6, <2>7, <2>8, <2>9, <2>10, <2>11 DEF Next, Request, Serve
<1>3. QED
  BY <1>1, <1>2, PTL DEF Spec

\* Whichever thread wrote an entry, it is under the signature of its own verdict.
CacheOwnShape == \A s \in DOMAIN cache : SigOf(cache[s]) = s

\* A text that is served has the shape of the verdict the request read, whichever thread wrote it.
THEOREM ShapeCorrect == Spec => []AnswersOwnShape
<1> DEFINE Inv == CacheOwnShape /\ AnswersOwnShape
<1> USE DEF CacheOwnShape, AnswersOwnShape, TypeOK, Reply, Finish, Continue
<1>1. Init => Inv
  BY DEF Init
<1>2. TypeOK /\ Inv /\ [Next]_vars => Inv'
  <2> SUFFICES ASSUME TypeOK, Inv, [Next]_vars PROVE Inv'
    OBVIOUS
  <2>1. CASE EngineMoves
    BY <2>1 DEF EngineMoves
  <2>2. ASSUME NEW t \in Threads, EngineDown(t) \/ Steady(t) \/ ReadGraph(t) PROVE Inv'
    BY <2>2 DEF EngineDown, Steady, ReadGraph
  <2>3. ASSUME NEW t \in Threads, Lookup(t) \/ ModelAnswers(t) PROVE Inv'
    BY <2>3 DEF Lookup, ModelAnswers
  <2>4. ASSUME NEW t \in Threads, ReadCache(t) PROVE Inv'
    BY <2>4 DEF ReadCache
  <2>5. ASSUME NEW t \in Threads, ModelFails(t) PROVE Inv'
    BY <2>5 DEF ModelFails
  <2>6. ASSUME NEW t \in Threads, ClearCache(t) PROVE Inv'
    BY <2>6 DEF ClearCache
  <2>7. ASSUME NEW t \in Threads, Store(t) PROVE Inv'
    BY <2>7 DEF Store
  <2>8. CASE UNCHANGED vars
    BY <2>8 DEF vars
  <2>9. QED
    BY <2>1, <2>2, <2>3, <2>4, <2>5, <2>6, <2>7, <2>8 DEF Next, Request, Serve
<1>3. QED
  BY <1>1, <1>2, TypeCorrect, PTL DEF Spec

-----------------------------------------------------------------------------
(* The bound on the narrative cache. *)

\* One step of a thread into or out of its store changes the set of storing threads by that thread.
LEMMA StoringAfter ==
  ASSUME TypeOK, NEW t \in Threads, NEW where, at' = [at EXCEPT ![t] = where]
  PROVE  StoringThreads' = IF where = "store" THEN StoringThreads \cup {t}
                                                    ELSE StoringThreads \ {t}
BY DEF TypeOK, StoringThreads

\* What the bound rests on: there are finitely many entries to count.
BoundInv == IsFiniteSet(DOMAIN cache) /\ CacheBounded

\* A step that leaves the cache alone and does not bring its thread to the store keeps the bound.
LEMMA BoundHeld ==
  ASSUME BoundInv, StoringThreads' \subseteq StoringThreads, cache' = cache
  PROVE  BoundInv'
<1>1. IsFiniteSet(StoringThreads)
  BY ThreadsAssumption, FS_Subset DEF StoringThreads
<1>2. IsFiniteSet(StoringThreads') /\ Cardinality(StoringThreads') <= Cardinality(StoringThreads)
  BY <1>1, FS_Subset
<1>3. /\ Cardinality(StoringThreads) \in Nat /\ Cardinality(StoringThreads') \in Nat
      /\ Cardinality(DOMAIN cache) \in Nat /\ Cardinality(Threads) \in Nat
  BY <1>1, <1>2, ThreadsAssumption, FS_CardinalityType DEF BoundInv
<1>4. QED
  BY <1>2, <1>3 DEF BoundInv, CacheBounded

\* Although clearing and storing are two steps, the cache never holds more entries than there are
\* threads that are not about to store.
THEOREM BoundCorrect == Spec => []CacheBounded
<1>1. Init => BoundInv
  <2> SUFFICES ASSUME Init PROVE BoundInv
    OBVIOUS
  <2>1. DOMAIN cache = {} /\ StoringThreads = {}
    BY DEF Init, StoringThreads
  <2>2. QED
    BY <2>1, FS_EmptySet, FS_CardinalityType, ThreadsAssumption DEF BoundInv, CacheBounded
<1>2. TypeOK /\ BoundInv /\ [Next]_vars => BoundInv'
  <2> SUFFICES ASSUME TypeOK, BoundInv, [Next]_vars PROVE BoundInv'
    OBVIOUS
  <2>1. ASSUME NEW t \in Threads,
               \/ Request(t) \/ Lookup(t) \/ ReadCache(t)
               \/ ModelAnswers(t) \/ ModelFails(t)
        PROVE  BoundInv'
    <3>1. /\ cache' = cache
          /\ \E where \in {"idle", "lookup", "read", "generate", "clear"} :
               at' = [at EXCEPT ![t] = where]
      BY <2>1 DEF Request, EngineDown, Steady, ReadGraph, Lookup,
                  ReadCache, ModelAnswers, ModelFails, Finish, Continue
    <3>2. StoringThreads' \subseteq StoringThreads
      BY <3>1, StoringAfter
    <3>3. QED
      BY <3>1, <3>2, BoundHeld
  <2>2. ASSUME NEW t \in Threads, ClearCache(t) PROVE BoundInv'
    <3>1. DOMAIN cache' = {}
      BY <2>2 DEF ClearCache
    <3>2. StoringThreads' \in SUBSET Threads
      BY DEF StoringThreads
    <3>3. IsFiniteSet(StoringThreads') /\ Cardinality(StoringThreads') <= Cardinality(Threads)
      BY <3>2, ThreadsAssumption, FS_Subset
    <3>4. IsFiniteSet(DOMAIN cache') /\ Cardinality(DOMAIN cache') = 0
      BY <3>1, FS_EmptySet
    <3>5. Cardinality(StoringThreads') \in Nat /\ Cardinality(Threads) \in Nat
      BY <3>3, ThreadsAssumption, FS_CardinalityType
    <3>6. QED
      BY <3>3, <3>4, <3>5 DEF BoundInv, CacheBounded
  <2>3. ASSUME NEW t \in Threads, Store(t) PROVE BoundInv'
    <3>1. PICK v \in read[t] : DOMAIN cache' = DOMAIN cache \cup {SigOf(v)}
      BY <2>3 DEF Store
    <3>2. t \in StoringThreads /\ StoringThreads' = StoringThreads \ {t}
      <4>1. at[t] = "store" /\ at' = [at EXCEPT ![t] = "idle"]
        BY <2>3 DEF Store, Finish
      <4>2. StoringThreads' = StoringThreads \ {t}
        BY <4>1, StoringAfter
      <4>3. QED
        BY <4>1, <4>2 DEF StoringThreads
    <3>3. IsFiniteSet(StoringThreads)
      BY ThreadsAssumption, FS_Subset DEF StoringThreads
    <3>4. Cardinality(StoringThreads') = Cardinality(StoringThreads) - 1
      BY <3>2, <3>3, FS_RemoveElement
    <3>5. /\ IsFiniteSet(DOMAIN cache')
          /\ Cardinality(DOMAIN cache') <= Cardinality(DOMAIN cache) + 1
      <4>1. IsFiniteSet(DOMAIN cache) /\ Cardinality(DOMAIN cache) \in Nat
        BY FS_CardinalityType DEF BoundInv
      <4>2. /\ IsFiniteSet(DOMAIN cache \cup {SigOf(v)})
            /\ Cardinality(DOMAIN cache \cup {SigOf(v)}) =
                 IF SigOf(v) \in DOMAIN cache THEN Cardinality(DOMAIN cache) ELSE Cardinality(DOMAIN cache) + 1
        BY <4>1, FS_AddElement
      <4>3. QED
        BY <3>1, <4>1, <4>2
    <3>6. /\ Cardinality(StoringThreads) \in Nat /\ Cardinality(DOMAIN cache) \in Nat
          /\ Cardinality(DOMAIN cache') \in Nat /\ Cardinality(Threads) \in Nat
      BY <3>3, <3>5, ThreadsAssumption, FS_CardinalityType DEF BoundInv
    <3>7. QED
      BY <3>4, <3>5, <3>6 DEF BoundInv, CacheBounded
  <2>4. CASE EngineMoves \/ UNCHANGED vars
    <3>1. cache' = cache /\ StoringThreads' = StoringThreads
      BY <2>4 DEF EngineMoves, vars, StoringThreads
    <3>2. QED
      BY <3>1, BoundHeld
  <2>5. QED
    BY <2>1, <2>2, <2>3, <2>4 DEF Next, Serve
<1>3. BoundInv => CacheBounded
  BY DEF BoundInv
<1>4. QED
  BY <1>1, <1>2, <1>3, TypeCorrect, PTL DEF Spec
=============================================================================
