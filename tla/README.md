# Formal models of the causal AIOps prototype

The repository watches a small simulated factory on Kubernetes, decides which
pod causes a resource disturbance, and shows the verdict. These TLA+ modules
model the parts that keep state: what they hold, what each step changes, and what
must never go wrong. TLC checks them on small instances; TLAPS proves most of
their safety for every instance. Paths are relative to `src/`.

## The system

| Layer | Part | State | Operations | Talks to |
|---|---|---|---|---|
| L0 | workloads (`workloads/*`) | queues, flags, atomics | MQTT callbacks, timers, HTTP triggers | MQTT broker, TimescaleDB, the shared disk |
| L1 | Prometheus | metrics | scrape, query | L0, L2 |
| L2 | aggregator (`aggregator/main.go`) | ring of samples per pod and signal, recent events | poll; serve `/window`, `/events` | L1, L3 |
| L3 | correlation service (`correlation/service.py`) | the served graph, one memory per signal | one pass per interval; serve `/graph` | L2, L4 |
| L3 | edge memory, case library, baselines (`correlation/engine/state.py`) | SQLite tables | `observe`: learn, seed, confirm, decay, promote, commit, render | called by the service |
| L3 | correlation pass (`pipeline.py`, `gate.py`, `detectors.py`, `lagcorr.py`, `ranking.py`, `merge.py`) | none | `run_pass`, `merge_graphs` | pure functions |
| L4 | API (`api/main.py`) | narrative cache | proxies, `/api/narrative`, scenario console | L3, Ollama, Kubernetes |
| L4 | dashboard (`dashboard/app`) | last answers | refresh every 5 s | API |

Data flows upwards by polling; nothing is pushed except the optional event POST of
L2. The service runs all passes on one thread, so the memories see no concurrency;
they see failures in the middle of a pass and restarts. Concurrency proper is in
the aggregator (a poller and two handlers), the API (a thread pool) and the
workloads (callbacks and timers).

What makes the parts correct:

- edge memory: tags agree with numbers (hysteresis), floors survive everything,
  rows without data are held, the served graph is complete, free of ghosts and
  doubles, and settles when nothing happens;
- case library: families are rooted, the ledger agrees with the library up to passes that
  failed between its two writes, no near-duplicates, recognition is stable;
- baselines and service: what is served is a snapshot of committed memory, storms are
  neither learned nor shown after they end, and a quiet workload is no incident;
- correlation pass: it finds the one event the coupled pods share, never dates an
  effect before its cause, be it a stall or a writer, and source edges always leave a first aggressor;
- aggregator: the window is exactly the newest samples of each series, events are in order and
  backed by samples;
- ranking: the walks compute the best impact, every prediction is one real route, and
  the pod blamed explains a symptom that is on the graph;
- narrative: the answer fits the verdict read by the request, always comes, and the
  cache stays small;
- console and cooling monitor: every request ends, a name conflict has a rival, and
  whoever arms S1 gets a storm;
- telemetry: rows are written once per arrival and in the order of arrival, and a stall of
  ingest is told;
- interlock: a lost heartbeat trips, a live one rearms.

## Modules

### EdgeMemory (core), MCEdgeMemory, EdgeMemoryProofs

One instance is the memory of one signal. `edge_memory` is the SQL table as the
connection sees it, `disk` the table as committed. A pass of `GraphMemory.observe` is

    BeginPass          update_baselines' commit, the inputs, _seed_structural
    ConfirmEdge        _confirm_edge for one accepted edge
    DecayAbsentEdges   _decay_absent_edges
    Commit, Render     the commit, and _render as the served graph

`Fail` is an exception anywhere in between: `loop` serves an error and the
transaction stays open, to be committed by the next pass's `update_baselines`
(or was rolled back by SQLite). `Crash` restarts from `disk`. The pass's input, which pods have a vector
and which edges `run_pass` accepted, is any set of coupled pods with at most one
edge per pod pair. Confidences are integers in units of `1/Scale`, rounded
down, except that a positive one stays positive when it fades (`Fade`): the code's product
never reaches zero either, so a row whose floor is zero never comes to rest on it. The configuration of the `psi_io` memory has a prior and floors, the one of
`psi_cpu` and `psi_mem` has neither (`SameNode`). Old databases: `_migrate` adds
`base_conf = 0` to pre-v3 rows. Which of two opposite rows with equal confidence is
rendered depends on rowids that `INSERT OR REPLACE` renews, so the choice is open
(`ReadOrders`).

`served` is the graph of this signal; merging signals is not part of this module.

### CaseLibrary, MCCaseLibrary, CaseLibraryProofs

`_promote_case`, from the early returns to the ledger row. Similarity is exact, in
sixtieths of a hundredth (`SimScale`), because unions of up to six elements divide
60. The graphs offered are those `run_pass` builds on the disk signal: source
edges tagged `write`, cascades tagged `psi`, blast radii that reach all or part of
the victims. `Init` includes a pre-v4 library.

    BeginPass                    update_baselines' commit, leftovers included
    NotPromoted                  an early return
    Recurrence, Variant, Novel   the UPDATE or INSERT of the case
    Observe                      the INSERT into case_observations
    Commit                       the pass's commit

`Fail` is an exception at any of these points: what was written stays in the open transaction,
be it a case without its observation, or SQLite has rolled it back. `Crash` restarts from
`disk`. The history `torn` counts the passes that failed between the two writes of a case and
were not rolled back.

### Ranking, MCRanking, RankingProofs

`merge_graphs` with `build_graph`, `rank_root_causes` and `blast_radius`. One behaviour
is one call, and a step is one turn of a loop:

    Merge           joins the edges, builds the graph and decides whether to rank
    Explore         the start of _forward_impact from the next candidate
    Relax           the inner loop of _forward_impact: one arc out of the head of the frontier
    ScoreCandidate  _forward_impact has returned: the candidate's score, if there is one
    Rank            the sort, and the start of blast_radius from the first
    Infect          the inner loop of blast_radius: one arc out of the head of its frontier
    NextEntry       the outer loop of either walk: the head is popped
    Serve           the sort by impact, and the label of the verdict

The entry whose arcs are followed stays at the head of `frontier` until they are done. The
graph is a function from the places of first insertion to edges, which is how a `DiGraph`
orders its nodes and arcs; `todo` is the set of candidates still to score, taken in that
order (`Candidate`). The two sorts are the sequences that satisfy what a stable sort by the
key promises (`IsRanking`, `IsByImpact`); exactly one does. The same functions rank the
graph of one signal in `run_pass` and `_render`. The reference, `Arrivals`, follows every
route that visits no pod twice. The counters in `meta` are left out.

### Detectors, RunPass, MCRunPass, RunPassProofs

`Detectors` is `cusum_onsets` over z-scores in half units (the allowance 0.5, the alarm
level 5 and the floor 3 of `run_pass` are integers then), with `_backtrack`; the EWMA and
the scale of the residuals are floating-point estimators, so z-scores are inputs. The
reference definition, `AlarmsAreShifts`, knows no running sums and no resets: `Drift` adds
the z-scores up from the start, and a sample alarms when the drift since some sample after
the last alarm exceeds the alarm level.

`RunPass` is `run_pass` up to the edges, one behaviour per call:

    Detect      raw_onsets: strong onsets of pods that deviate from their baseline
    Locate      the event's centre, each pod's nearest onset, the correlation slice
    PairUp      best_directed and accept_edge for every coupled pair
    Attribute   _writer_edge for every writer and stalled finding, and the deduplication
    NoSources   a signal without source vectors

A pair's lag profile, the correlations at the configured lags in tenths, is chosen when it
is computed. Whether a pod deviates is an input here and computed in `Baseline`. `EdgesFitMemory` promises the edges `EdgeMemory` accepts as inputs (`AcceptableEdges`), each
with its cause first: up to the tolerance, and where both are dated, the source of a stall edge
stalls no later than its target, and the writer of a write edge surges no later than its victim
stalls (`CauseFirst`).

### Baseline, CorrelationService, ServedGraph, MCCorrelationService, CorrelationServiceProofs

`Baseline` has `update_baselines`, `baseline_threshold` and the recency gate as operators
on one row, in units of the MAD floor. `CorrelationService` is `loop`: `Fetch` shifts the
rings and may replace pods, `Skip` passes over a signal without vectors, `PassSignal` reads
the threshold, passes, learns, observes and renders, `Publish` swaps the graph, `Fail` is
any exception (with the baselines of the current signal committed or not), `Restart` is a new
process. One pod stands for the workloads of a signal, and its edge memory is one number
that an accepted edge raises and a pass without one lowers: `EdgeMemory` has the rows.

`ServedGraph` is the abstract specification of `GET /graph`: whatever is committed when, an
answer is an error, or shows committed memory as it is at the moment of the answer, for all
its signals at once; after a restart it shows every signal without findings. The
refinement `Served` maps `memory` to `heat` and `served` to `graph`; `PassSignal` is the
abstract `Commit`, which nobody sees, and fetches, skips and learning stutter.

### CoolingMonitor, ScenarioConsole, ApiThreads, ApiProofs

`CoolingMonitor` is the path of S1: the flag on the shared volume, set by the HTTP thread
and by `scenarios/S1/trigger.sh`, removed by `reset.sh`, and tested and removed in two steps
by the main loop. A reset between the two ends the process (`os.remove` raises), and the
kubelet starts it again. `ScenarioConsole` extends it with the requests of the API's thread
pool: S2's delete, its rounds of waiting, the read of the CronJob (joined with the last
round) and the post, reset, and S1's arming. Jobs may stay in deletion as long as the cluster
likes; a call may fail before or after its effect.

### TelemetryIngest, TelemetryPath, TelemetryProofs

`TelemetryIngest` is the MQTT thread, the bounded queue and the writer. `Commit` is the
database's commit, `Count` the arrival of its answer, and `WriteFails` an exception before
either. The sensors publish with QoS 1, so `Arrival` is a call of `on_msg` for any reading that
was sent, again or behind later ones as the broker likes. Arrivals are numbered, queue, batch
and table hold these numbers, and the history `arrivals` says which reading each one brought.
The table's retention policy (`workloads/timescaledb/init.sql:15`) is left out: `readings` are
the rows ever inserted. `TelemetryPath` adds the dispatcher, whose polls overlap: each connects, counts the
rows of the last minute and sends an alert up to three times at once. A row's `ts` is its
arrival, so which rows are recent depends on these numbers alone (`old`).

### NarrativeCache, MCNarrativeCache, ApiProofs

`GET /api/narrative` on several threads. A verdict is a signature and a detail the
signature leaves out, a text is the verdict it was written for. Each step is one
dict operation or one external call.

### Aggregator, MCAggregator, AggregatorProofs

The polling goroutine, sample by sample and event by event; `/window` and `/events`
may answer in every state. A query's answer is a vector in `Vectors`. A query that is not
summed by pod (`queries.yaml:6,9,10,17`) returns a result for each container or interface,
and all results of a pod go to the same ring. Samples are numbered in the order `promQuery`
parses them. `answers` and `emitted` are history variables: the numbers Prometheus returned
for each series, and every event found.

### SafetyInterlock

The MQTT callback's two stores, the ticker's test and store, the clock, the relay,
and the connection with its automatic reconnect.

## Runs

| Run | Shows | Bounds, and why they suffice |
|---|---|---|
| `EdgeMemory_pair` | all properties of the edge memory | two workloads give both directions of a pair and one backbone row; tenths represent the default configuration; `MaxHits` 2 tells one confirmation from two |
| `CaseLibrary` | all properties of the library | ten graphs, three cases: enough for a family of three, and for an incident near two of them; counts up to two, so that torn and observed occurrences mix; failures, roll-backs and crashes at every statement |
| `Ranking` | the walks find what the routes say; nobody is blamed without a symptom | four pods give a detour that beats a direct edge; two signals give cycles and doubled edges; weights 2, 3, 5 and 10 tenths lie on both sides of the cut after one, two and three hops |
| `NarrativeCache` | answers fit, the cache is bounded, every request ends | two threads and three verdicts, two of which have the same signature |
| `NarrativeCache_race` | **finding**: KeyError between test and read | |
| `Aggregator` | window and events | capacity 2 and three polls: every series can slide, with gaps; a poll brings up to three samples of one series, more than the ring holds |
| `SafetyInterlock` | losses trip, beats rearm | half-second ticks; silences beyond the limit are alike |
| `RunPass` | the detector alarms exactly at shifts, the event is one, edges fit the memory with causes first, sources lead | every series of seven samples over four z-scores on one pod; three pods on one disk, on one node or with an isolated third, five shapes with up to two storms each, warm-up and slice of three samples; profiles that agree, oppose, lead backwards or stand alone |
| `CorrelationService` | the service implements `ServedGraph`; quiet is silent, bands are kept, storms end | one signal that may storm to five times the smallest band and one inside that band; rings of three samples, so that zeros, storms and replaced pods mix in one vector; maturity after two updates; heat of at most one |
| `CorrelationService_padding` | **finding**: a steady level above the smallest band is a finding | ring of five, so that zeros are still the median when the baseline matures |
| `ScenarioConsole` | conflicts have a rival, requests end, armed means stormed | two threads; two rounds of waiting tell the first from the last |
| `TelemetryPath` | a row per arrival at most and in order, honest counter, stalls are told | two readings and three arrivals, so that one comes twice or behind the other, against a queue and a batch of two: the queue overflows and a batch fills; two polls overlap, two tries |

The memories of `psi_cpu` and `psi_mem` (`SameNode`, no prior, no floor) and workloads with
several pods have no run of their own: the proofs cover their safety, their settling is not
checked. `TypeOK` is a property of the runs of `EdgeMemory`, `CorrelationService` and
`TelemetryPath`; of the other modules it is proved (`TypeCorrect`), except in `SafetyInterlock`, where
it only documents the state.

A run marked *finding* checks what a comment or document says; TLC refutes it. The
operators commented `Wrong:` are seeded errors: each property was seen to fail with
one of them in place of the definition it follows.

`CHECK_DEADLOCK FALSE` stands where `merge_graphs` and `run_pass` return (`Ranking`, `RunPass`)
and where the bound `MaxPolls` stops the aggregator.

### Fairness

- `EdgeMemory`: weak fairness of the pass as a whole. `loop` never ends while the
  process lives, and every exception leads to the next pass. Nothing is assumed
  about failures; `QuietSettles` speaks of behaviours in which passes eventually succeed.
- `NarrativeCache`: weak fairness of each thread serving a request; the model call
  has a timeout.
- `CorrelationService`: weak fairness of the loop, whose fetches time out and whose
  exceptions are caught. Nothing is assumed about which passes succeed: `StormEnds` holds even
  if all fail from some point on.
- `ScenarioConsole`: weak fairness of each handler, as every call has a timeout, and of the
  cooling monitor's own steps and restarts. The cluster owes nothing. `ArmedRuns` assumes that
  the pod is not killed for ever.
- `TelemetryPath`: weak fairness of each poll, none of `telemetry-ingest` or the database's
  success: a query is answered or fails. (`index.js` bounds only the connection; a query on a
  silent connection ends with TCP's own timeout.) `StallIsTold` assumes that the gateway and
  the dispatcher stay up from some point on.
- `SafetyInterlock`: time passes, goroutines run, the broker is reached
  eventually, and a relay that is up keeps beating while the subscription lasts.

## Proofs

TLAPS checks eight modules of proofs: every invariant and action property that a passing
run checks is a theorem. `ApiProofs` holds those of both sets of endpoints that share the
API's thread pool (`ApiThreads`). A theorem holds for every value of the constants
that satisfies the named assumptions of its module, `TypeCorrect` is `Spec => []TypeOK`
everywhere (`ConsoleTypeCorrect` for the console's `ConsoleSpec`), and bounds that keep TLC's state spaces finite are parameters.

**EdgeMemory**, for all workloads, pods, couplings, old tables and configurations with
thresholds in order and a prior below the show threshold and not above alpha
(`NamesAssumption`, `BackboneAssumption`, `ConfigAssumption`, `OldTablesAssumption`).

- `TypeCorrect`: `TypeOK` is inductive by itself. The work is in the arithmetic:
  growing and fading stay within 0..Scale, and fading never grows (`GrowBounds`, `FadeBounds`,
  from lemmas on integer division).
- `HysteresisCorrect`: `HysteresisSound` is inductive relative to `TypeOK`; one
  lemma per table operation shows that sound rows stay sound.
- `FloorsCorrect`: no committed floor is lowered. What is on disk is always below
  what the connection sees (`FloorsGrow`, `FloorsKeptOrder`), and only the
  connection's table is ever committed.
- `AbsentCorrect`: within a pass the row of a pair without data at one end is left alone, because
  accepted edges join pods with vectors (`TypeOK`) and the decay asks for both ends.
- `ServedCorrect`: the strengthening `PassInv` says what has been done at each
  point of a pass: before decay only freshly seeded floors may exceed a
  confidence, after it none does, and every shared pair has a row with a floor. It is
  needed because `ServedAtFloor` and `BackboneServed` speak of the graph, which is
  computed from a table that is below its floors for part of each pass.

**CorrelationService**, for all signals named once (`SignalsAssumption`), all levels
(`LevelsAssumption`), ring sizes and baseline parameters.

- `TypeCorrect` and `QuietCorrect`, from `ServiceInv`: what a pass has still to do is distinct
  and not rendered (`OnceEach`), what it has rendered is what is committed
  (`RenderedIsCommitted`), and only a signal with a level outside the smallest band has a
  finding (`FindingsAreLoud`). The last rests on `DeviatesIsLoud`: whatever has been learned,
  the band is no smaller than the smallest one, and a percentile is no larger than the
  largest sample. The two before it are what the refinement needs: an exception or a restart
  may come in the middle of a pass.
- `BandCorrect` proves the action property `BandKept`.
- `ServedCorrect` proves the refinement of `ServedGraph`, step by step: `PassSignal` is
  `Commit`, `Publish` is `Answer`, `Fail` and `Restart` are themselves, the rest stutters.

**RunPass** with `Detectors`, for all series over one grid no shorter than the slice
(`InputsAssumption`), all couplings, and correlations of at most one at the lags that fit the
slice (`ProfilesAssumption`).

- The invariant `PassInv` says what the pass knows after each part, in terms of its inputs:
  `EventCorrect`, `EdgesCorrect` and `SourcesCorrect` follow from it in the states where the
  part is done.
- `EventCorrect`: the strongest onset among the coupled pods is one of theirs (`CentreFacts`),
  so if they agree on a moment it is the centre, their nearest onsets are there, and
  the slice holds it (`SliceHolds`).
- `EdgesCorrect`: stall edges are dated and coupled by the gate, source edges by the writer's
  test of its surge against the stall, and of two edges of one pair at most one survives the deduplication (`OneOfPair`).
- `SourcesCorrect`: a set of pods has one that writes the most (`LargestValue`), and nothing in
  the set accuses it.
- `TypeCorrect` needs that `cusum_onsets` dates its onsets in the series. Its loop is a
  recursive function; `RoundsExist` shows that there is one, for every length, and
  `OnsetTypes` what its values are.
- `DetectorCorrect` proves `DetectorExact` for every series, whatever its length and however
  often the detector starts again. By induction on the samples (`LoopJudges`), each running sum
  is the largest drift since the last alarm (`Tops`, `Tracks`), so it exceeds the alarm level
  exactly if the reference sees a shift (`TopsShift`), and the samples so far have been judged
  as the reference judges them (`Judged`).

**Ranking**, for any finite set of pods (`PodsAssumption`), any lists of edges without loops
(`EdgeListsAssumption`), any findings and onsets. All four theorems follow from `IInv`.

- `ImpactCorrect` proves that a walk finds the best of all routes, on any graph. `WalkInv` has
  two halves. Nothing is invented: each entry and each known impact has a route that brings
  it, along which every pod already suffers at least as much (`Way`); that is why an arc that
  improves on a pod's impact never leads back to a stop of its own route, and the longer route
  visits no pod twice (`RelaxReaches`). Nothing is forgotten: an arc out of a pod that suffers
  w has passed w on, or an entry for w still waits to do so (`Settled`). When nothing waits,
  induction along a route shows that no route brings more than is known (`NoRouteBeats`), as
  a hop passes on no less of more (`HopFacts`).
- `BlastCorrect`: `SpreadInv` gives each waiting entry a route through pods that are predicted
  already (`Spreads`), so a new victim, which is none of them, prolongs it (`Prolonged`).
- `RootCorrect`: a candidate only scores if it is a symptom that nothing explains, or if its
  walk has reached one; in both cases an arc leaves it (`FirstArc`), and that arc is an edge
  of the list (`BuiltGraph`). `VerdictInv` keeps this of all scores while further
  candidates are walked. The sum of the impacts is taken apart by induction on finite sets
  (`SumFacts`).
- `TypeCorrect`: impacts between the cut and one, and positive scores, from the same.

**CaseLibrary**, for all old libraries without a repeated id (`OldCasesAssumption`: it is the
primary key), all similarity thresholds in order, and graphs whose edges all rest on their
signal's coupling, those with source evidence without co-pressure (`CouplingAssumption`, what
`_witness_for`, the gate and `_writer_edge` build). `FamilyCorrect`, `LedgerCorrect`,
`DuplicateCorrect`, `RecognitionCorrect` and `WitnessCorrect` all follow from `LibraryInv`. It says
of the connection's library and of the one on disk that families and distances are right (`Sound`)
and that the ledger agrees (`Ledger`), on the connection up to the one case whose observation is
still to come (`Unobserved`), and of the case being registered that it would be recognised
(`RegisteredWell`). The disk's half is needed because a crash or a roll-back makes it the
connection's. The properties support each other: that no `INSERT OR IGNORE` is swallowed needs
that the nearest case is too far to be the same fingerprint, which is similarity one only by
`SimRange`.

**Aggregator**, for all packs without a repeated query (`PackAssumption`), all vectors a query may
return, however many results a pod has in one (`VectorsAssumption`), capacities and numbers of polls.
`EventsCorrect` needs `Pending` (what is not published yet is the end of what was found),
`WindowCorrect` and `BackedCorrect` need `Waiting` (what the loop has not added yet are the
last numbers given out, each an answer for its own series and no other) and `Rings` (each ring
is the newest of the samples its series has been given, in order, also between two results of one
query). Together they are `AggInv`.

**NarrativeCache** (in `ApiProofs`), for any finite number of threads. `ShapeCorrect` needs that the cache's
entries have their key's shape (`CacheOwnShape`). `BoundCorrect` is about threads that stand
between clearing and storing; `BoundInv` counts them.

**ScenarioConsole** with `CoolingMonitor` (in `ApiProofs`), for any finite number of threads and any
number of rounds.
`ConflictCorrect` needs `PostInv`: a trigger about to post has seen the name free and nobody
took it since, or somebody did, or all rounds are over. `OwedCorrect` is the safety half of
`ArmedRuns`: an owed storm is on the volume or in the main loop's hand, whatever the order of
triggers, resets and kills.

**Telemetry** (`TelemetryPath` and `TelemetryIngest`), for any queue, batch and number of
readings, arrivals and polls. `OrderCorrect` needs `PathInOrder`: table, batch and queue hold
increasing numbers of arrivals, each part before the next, except that a committed batch is still
in the writer's hand. Then the rows of a reading are an injection into its arrivals
(`RowsOfArrivals`). `CounterCorrect` is about the moment between the commit and the counter.

Recurring arguments: sums and series are reasoned about through sets of natural numbers, whose
least element (`LeastElement`) gives induction (`SetInduction`) where the library's theorems
take an operator as a parameter, and largest values.

Only model-checked:

- liveness (`QuietSettles`, `EveryRequestEnds`, `LossTrips`, `BeatsRearm`, `StormEnds`,
  `RequestsEnd`, `ArmedRuns`, `StallIsTold`): the prover has no rules for fairness;
- `SafetyInterlock`, whose properties are of this kind;
- the implied uniqueness of the sorts of `Ranking`: that `Rank` and `Serve` are never stuck is
  seen in the run, whose verdicts all reach "done".

## Known differences between documents and code

Two are runs (`NarrativeCache_race`, `CorrelationService_padding`). The others:

- Edge memory: two pods of a workload confirm a workload pair twice in one pass, and its
  confidence grows twice (`DESIGN_stateful_engine_and_case_library.md:82` has one step).
- Case library: a pass that fails between the case and its observation leaves the ledger one
  short when the next pass commits the open transaction, where "the full per-incident history
  still lives in case_observations" (`correlation/engine/state.py:565`).
- Aggregator: a pod with several results in each poll fills its ring that many times faster, so
  the ring covers less than its "15-min" (`aggregator/main.go:2`).
- Aggregator: `http.Get` has no timeout, so a query that is never answered ends all
  polling (`aggregator/main.go:1`, "every interval_s").
- Safety interlock: a beat between the ticker's test and its store leaves safe mode on with
  a fresh heartbeat until the next beat.
- Ranking: an explained pod's score is only halved, so a pod in the middle of a weak chain is
  ranked above its explainer (`BOOK.md:729`).
- Detector: back-tracking may date an onset inside the warm-up that is "never flagged"
  (`detectors.py:37`), two alarms of one long shift share an onset, and the `zpeak` of an "up"
  onset may be negative, when the sample of the alarm itself is low.
- Telemetry: the depth gauge is only set after a commit, so while the database hangs it stays
  flat instead of rising (`telemetry-ingest/main.py:3`), and after a batch is lost it keeps the
  depth before the loss. After an automatic reconnect to the broker nothing subscribes again.
  A reading that QoS 1 delivers twice becomes two rows, as neither `on_msg` nor the table
  (`workloads/timescaledb/init.sql:4`) has a key, and its rows are in order of arrival only.

Less clear-cut: families are
assigned by the nearest case only, in the order of incidents, where
`DESIGN_stateful_engine_and_case_library.md` calls them agglomerative. A cached
narrative text stays when only ETAs or the blast radius change, because the
signature is the verdict's shape. The aggregator's rings are trimmed by their own
additions only, so the series of a dead pod outlives the fifteen minutes of
`aggregator/main.go:2`. `blast_radius` follows the first route to a pod where the ranking
follows the best, so a pod the root is credited with may be missing from it
(`EXPLANATIONS.md:197` calls it the same forward walk). Two signals' edges of the same
direction overwrite each other in `build_graph`, so contending on a second resource
may lower an aggressor's score (`merge.py:8` says it wins).

## Not modelled

Floating-point statistics (EWMA, scales, correlations, shape classes, forecasts) beyond
their control flow; prompt, template and layout text; stateless API proxies; the dashboard,
whose one hazard, a slow refresh that overwrites a newer one, is repaired by the next
refresh; load generators; deployment and operator scripts. `PROJECT.json` lists every part
with the reason.

## Plan

1. An abstract bounded log that the aggregator's rings and events implement.
2. The safety half of `SafetyInterlock`: what the heartbeat's age says of safe mode between
   the ticker's steps.
