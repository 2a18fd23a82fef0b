--------------------------- MODULE NarrativeCache ---------------------------
(***************************************************************************)
(* GET /api/narrative of api/main.py.  Concurrent requests share the       *)
(* module-level dict _NARR_CACHE without a lock.  The interpreter makes    *)
(* one dict operation atomic, and nothing larger.                          *)
(*                                                                         *)
(* A verdict is its signature (_verdict_signature) and the parts the       *)
(* signature leaves out; a text is the verdict it was written for.         *)
(***************************************************************************)
EXTENDS ApiThreads

CONSTANT
  Verdicts \* pairs of a signature and what it leaves out: ETAs, blast radius, evidence

\* _verdict_signature
SigOf(v) == v[1]

Signatures == {SigOf(v) : v \in Verdicts}

VARIABLES
  engine, \* what the engine answers now: a set of at most one verdict
  cache,  \* _NARR_CACHE: for some signatures the verdict the text was written for
  at,     \* where a thread is in narrative()
  read,   \* the verdict a thread works on, {} before it has one
  reply   \* how a thread's last request ended, [status, texts]

vars == <<engine, cache, at, read, reply>>

Statuses == {"none", "steady", "unavailable", "llm", "fallback", "error"}

Reply(status, texts) == [status |-> status, texts |-> texts]

\* The type invariant; a thread past the lookup has a verdict (narrative).
TypeOK ==
  /\ engine \subseteq Verdicts
  /\ DOMAIN cache \subseteq Signatures
  /\ cache \in [DOMAIN cache -> Verdicts]
  /\ at \in [Threads -> {"idle", "lookup", "read", "generate", "clear", "store"}]
  /\ read \in [Threads -> SUBSET Verdicts]
  /\ reply \in [Threads -> [status : Statuses, texts : SUBSET Verdicts]]
  /\ \A t \in Threads : at[t] # "idle" => read[t] # {}

Init ==
  /\ engine = {}
  /\ cache = <<>>
  /\ at = [t \in Threads |-> "idle"]
  /\ read = [t \in Threads |-> {}]
  /\ reply = [t \in Threads |-> Reply("none", {})]

\* The engine's verdict changes, or it has no root cause to name: {}.
EngineMoves ==
  /\ engine' \in {{}} \cup {{v} : v \in Verdicts}
  /\ engine' # engine
  /\ UNCHANGED <<cache, at, read, reply>>

Finish(t, status, texts) ==
  /\ at' = [at EXCEPT ![t] = "idle"]
  /\ reply' = [reply EXCEPT ![t] = Reply(status, texts)]

Continue(t, where) ==
  /\ at' = [at EXCEPT ![t] = where]
  /\ UNCHANGED reply

\* graph() raises 503 when the engine does not answer.
EngineDown(t) ==
  /\ at[t] = "idle"
  /\ Finish(t, "unavailable", {})
  /\ read' = [read EXCEPT ![t] = {}]
  /\ UNCHANGED <<engine, cache>>

\* No root: the forecast or the steady line, without model or cache.
Steady(t) ==
  /\ at[t] = "idle"
  /\ engine = {}
  /\ Finish(t, "steady", {})
  /\ read' = [read EXCEPT ![t] = {}]
  /\ UNCHANGED <<engine, cache>>

\* A verdict with a root: its signature is computed.
ReadGraph(t) ==
  /\ at[t] = "idle"
  /\ engine # {}
  /\ read' = [read EXCEPT ![t] = engine]
  /\ Continue(t, "lookup")
  /\ UNCHANGED <<engine, cache>>

\* if sig in _NARR_CACHE
Lookup(t) ==
  /\ at[t] = "lookup"
  /\ \E v \in read[t] : Continue(t, IF SigOf(v) \in DOMAIN cache THEN "read" ELSE "generate")
  /\ UNCHANGED <<engine, cache, read>>

\* c = _NARR_CACHE[sig]: KeyError, a 500, if the entry has gone meanwhile.
ReadCache(t) ==
  /\ at[t] = "read"
  /\ \E v \in read[t] :
       IF SigOf(v) \in DOMAIN cache THEN Finish(t, "llm", {cache[SigOf(v)]})
                                    ELSE Finish(t, "error", {})
  /\ UNCHANGED <<engine, cache, read>>

\* Wrong: a failed model call is looked up again instead of falling back.
ModelFailsRetries(t) ==
  /\ at[t] = "generate"
  /\ Continue(t, "lookup")
  /\ UNCHANGED <<engine, cache, read>>

\* _ollama answers, or fails or times out and the template stands in.
ModelAnswers(t) ==
  /\ at[t] = "generate"
  /\ Continue(t, "clear")
  /\ UNCHANGED <<engine, cache, read>>

ModelFails(t) ==
  /\ at[t] = "generate"
  /\ Finish(t, "fallback", read[t])
  /\ UNCHANGED <<engine, cache, read>>

\* Wrong: the cache is never emptied.
ClearNothing(t) ==
  /\ at[t] = "clear"
  /\ Continue(t, "store")
  /\ UNCHANGED <<engine, cache, read>>

\* _NARR_CACHE.clear()
ClearCache(t) ==
  /\ at[t] = "clear"
  /\ cache' = <<>>
  /\ Continue(t, "store")
  /\ UNCHANGED <<engine, read>>

\* Wrong: stored under the signature the engine has by now.
StoreUnderCurrent(t) ==
  /\ at[t] = "store"
  /\ \E v \in read[t], now \in engine :
       cache' = [s \in DOMAIN cache \cup {SigOf(now)} |-> IF s = SigOf(now) THEN v ELSE cache[s]]
  /\ Finish(t, "llm", read[t])
  /\ UNCHANGED <<engine, read>>

\* _NARR_CACHE[sig] = out
Store(t) ==
  /\ at[t] = "store"
  /\ \E v \in read[t] :
       cache' = [s \in DOMAIN cache \cup {SigOf(v)} |-> IF s = SigOf(v) THEN v ELSE cache[s]]
  /\ Finish(t, "llm", read[t])
  /\ UNCHANGED <<engine, read>>

Request(t) == EngineDown(t) \/ Steady(t) \/ ReadGraph(t)

Serve(t) ==
  Lookup(t) \/ ReadCache(t) \/ ModelAnswers(t) \/ ModelFails(t) \/ ClearCache(t) \/ Store(t)

Next == EngineMoves \/ \E t \in Threads : Request(t) \/ Serve(t)

Spec == Init /\ [][Next]_vars

\* A thread that serves a request keeps running; the model call has a timeout.
FairSpec == Spec /\ \A t \in Threads : WF_vars(Serve(t))

-----------------------------------------------------------------------------
(* Properties. *)

\* A model or template text that is served has the shape of the verdict the request
\* read, whichever thread wrote the text and whatever the engine says meanwhile.
AnswersOwnShape ==
  \A t \in Threads : at[t] = "idle" =>
    \A text \in reply[t].texts : \E v \in read[t] : SigOf(text) = SigOf(v)

\* The cache is emptied before each store, but not in one step: threads that cleared
\* together store together.  It never holds more entries than threads that are not
\* about to store.
StoringThreads == {t \in Threads : at[t] = "store"}

CacheBounded ==
  Cardinality(DOMAIN cache) + Cardinality(StoringThreads) <= Cardinality(Threads)

\* Every request that begins is answered.
EveryRequestEnds == \A t \in Threads : at[t] # "idle" ~> at[t] = "idle"

\* "so the verdict never depends on the model": whatever the model does and however
\* requests overlap, a request that got a verdict is answered with a text.
AlwaysAnswered == \A t \in Threads : reply[t].status # "error"
=============================================================================
