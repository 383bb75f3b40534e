# Cirq: models, model checking and proofs

This directory holds TLA+ models of the parts of Cirq that keep state and whose
correctness depends on the order in which things happen, TLC configurations that
check them on small instances, and TLAPS proofs of what matters most for instances
of any size. Source lines are those of the repository in `../src`; `PROJECT.json`
maps every definition to the lines it models.

## 1. The system

Cirq is a Python library to build quantum circuits, transform them, and run them on
simulators and on remote processors. Most of it is values and numerics (gates,
matrices, decompositions, simulators). State, order and failure come into play in the
parts below.

| component | state | operations | interacts with | what is hard | what makes it correct |
|---|---|---|---|---|---|
| **StreamManager** (`cirq_google/engine/stream_manager.py`) | message counter, response demultiplexer, bounded request queue, stream coroutine, one execution coroutine per job | `submit`, `stop`, cancel of a returned future; coroutines on an asyncio thread | gRPC stream; Quantum Engine; `EngineClient` | two threads, broken streams, lost and late messages, a full queue, objects replaced under running coroutines | every submission ends, once, with the answer for its own job; no request is lost |
| AsyncioExecutor (`asyncio_executor.py`) | a loop thread, a singleton | `submit`, `instance` | StreamManager, EngineClient | threads | coroutines run one at a time |
| **Engine job client** (`engine_job.py`, `engine.py`, `engine_client.py`) | cached job, cached results, stream future | results, polling, failure, labels, recreation | StreamManager or unary RPCs | replies assigned after others have run, lost replies, retries, a job created again | a failure is never reported as a result; cached data are the job's; it runs once |
| **Processor sampler, collector** (`processor_sampler.py`, `work/collector.py`) | a limiter; jobs queued and running | run batches, collect | engine jobs | errors of one job among several | limits are kept, all results are delivered or the error is |
| **Local engine** (`abstract_local_processor.py`, `simulated_local_job.py`) | reservations, schedule, job state | reserve, update, remove, run, cancel | worker thread | races with the worker, splitting of time slots | the schedule says of every time what the reservations say |
| **Circuit** (`circuits/circuit.py`, `moment.py`) | list of moments, placement cache, lazily computed properties | append and insert with five strategies, insert at a frontier, batch edits, item edits | every transformer | index arithmetic while the list changes, caches kept over edits | order of non-commuting operations is kept; caches never lie |
| **Greedy qubit manager** (`ops/greedy_qubit_manager.py`) | used set, free list, size | `qalloc`, `qborrow`, `qfree`, `resize` | transformers, decompositions | long sequences of calls | a qubit is in use or free, once |
| **Qubit management transformer** (`transformers/qubit_management_transformers.py`) | map of temporary qubits, qubits to free | one pass over the operations | the qubit manager, the circuit's lifespans | when a qubit is given back | a borrowed or allocated qubit is exclusive while needed |
| **Routing** (`transformers/routing`) | logical-to-physical map and its inverse, time steps | swap, route | device graph | termination, map consistency | the routed circuit respects the device and computes the same |
| **Transformer primitives** (`transformers/align.py`, `stratify.py`, `transformer_primitives.py`, `synchronize_terminal_measurements.py`) | (functional) | align, stratify, merge, move measurements; unroll, map | circuits | operations that stay while others move | order of non-commuting operations is kept |
| Simulators, gates, protocols, linear algebra, experiments | numerical values | | | floating point | numerical |
| IonQ, AQT, Pasqal clients; workflow runtime | HTTP polling, files | | web services | retries | |
| Serialization, visualisation, generated API, tools | none | | | | |

Those in bold are modelled at present. Section 6 says what comes next and section 7
what is left out.

## 2. Modules

    JobService                      what submit() promises
      ^ implemented by
    StreamManager                   MCStreamManager, StreamManager_proofs
    EngineJob                       one job and its callers, over a future that keeps
                                    JobService's promise; MCEngineJob, EngineJob_proofs
    SimulatedLocalJob               a job and its worker thread
      `- Collector                  a collection through a sampler's limiter
    LocalSchedule                   reservations and time slots
    ProcessorSampler                programs packed into simulated jobs
      `- LocalEngine                these three in use; MCLocalEngine, LocalEngine_proofs
    Placement                       moments, conflicts, the two ways to find a place
      |- PlacementCache             append with a cache; MCPlacementCache, PlacementCache_proofs
      `- Insertion                  insertion, as operators
           `- Repacking             transformers that move operations, as operators
                `- Circuit          all edits; MCCircuit, Circuit_proofs, Repacking_proofs
    GreedyQubitManager              the pool
      `- AncillaMapping             the transformer, on top of the manager; MCAncillaMapping,
                                    AncillaMapping_proofs, which has the pool's proofs too
    DeviceGraph                     what the router asks of networkx
      |- LineInitialMapper          the placement on lines
      |- MappingManager             the two arrays and swaps
      `- RouteCQC                   time steps, choice of swaps, the loop; MCRouteCQC,
                                    Routing_proofs

### StreamManager and JobService

State: the variables are the fields of `StreamManager` and `ResponseDemux`, the program
counters of the coroutines, and the server's programs, jobs, requests and responses.
`stop()` replaces the demultiplexer and the queue by new objects while coroutines may
hold the old ones; both are numbered by an *epoch*.

Actions: an action on the asyncio thread is the code between two awaits. `ExecStart`,
`ExecPut`, `ExecRetryBrokenStream`, `ExecRetryError`, `ExecReturn`, `ExecCancelled`,
`ExecCancelJob` are `_manage_execution`; `StreamOpen`, `StreamResponse`, `StreamBreak`,
`StreamNotify`, `StreamEnd`, `StreamEndUnsolicited`, `StreamCancelled`, `StreamClose`
are `_manage_stream`; `IterForward`, `IterStop` are `_request_iterator`. The caller's
thread runs `Submit`, `ExecCancel`, and `stop()`, which is cut at every access to shared
state: `StopCancelStream`, `StopNotify`, `StopClear`, `StopResetDemux`,
`StopResetQueue`. `StopResetQueue` waits for the loop thread (`.result()`), which has by
then run the cancellation scheduled before it. The loop of `publish_exception` over the
subscribers is one step.

The environment is external: `IterDie` (gRPC drops the iterator of a dead stream, now or
later), `ServerHandle` and `ServerLose` (the server answers by which programs and jobs
exist; a request on a broken stream is carried out or lost), `StreamBreak`. A stream
whose requests have ended is ended by the server (`StreamEnd`).

`JobService` is the abstract specification: a submission begins, its job may be made,
and it ends once, answered about its own job or with an exception.

### EngineJob

State: the fields of one `EngineJob` (`_job`, `_results`, `job_id`,
`_job_result_future`, `_recreate_job`), where each caller is in its call, and the
service's program and jobs. A unary call is sent, served and answered in three steps,
because the coroutine that awaits the answer assigns it to the object after others have
run. A caller asks for results (`CallResults`: the future, polling, recreation, fetch),
for the status or another field (`CallStatus`, `CallInner`), or updates the description or
labels (`CallUpdate`); `Cancel` and `Delete` are acknowledged at once.
`Retry` is `_run_retry_async`. The service (external) refuses (`Unavailable`), carries out
a request and loses the reply (`ReplyLost`), and receives the stream's request at any time,
also after the stream has failed (`StreamCreate`), which `JobService` allows.

### SimulatedLocalJob, Collector, LocalSchedule, ProcessorSampler, LocalEngine

`SimulatedLocalJob` is the job's fields against its worker: each assignment of the thread
that another can see is a step. `Collector` composes it with `collect_async` and
the limiter of `_run_sweep_async`: tasks of one duet scope run on one thread and give way
where they await. The duet library is external: the limiter's places, the collector's
buffer that is emptied before its error is raised, and a scope that interrupts its tasks
when it is left by an exception. `LocalSchedule` has one action for each reservation call;
times are `0..MaxTime`, and a slot without start or end reaches to the border.
`ProcessorSampler` has `run_batch_async` as operators, with what a simulated job returns:
the job's own repetition of sweeps or of its program (`JobSweeps`, `JobPrograms`), the pairs
its sampler makes of them (`Sampled`), the one list they are put into (`JobResults`), and the
two reasons to refuse it (`Refused`). A request has the sweeps that `to_sweeps` makes of its
params: one for a sweep or a resolver, as many as it has for a list. `LocalEngine` explores the
three parts one at a time (`part`), since they share no state. The loops of
`_insert_reservation_into` and `run_batch_async` are functions of the number of turns taken.

### DeviceGraph, LineInitialMapper, MappingManager, RouteCQC

`DeviceGraph` defines what networkx computes (distances, shortest paths, centre,
breadth-first order); where its order is not defined by the graph, any order is taken.
`LineInitialMapper` is pure. `MappingManager` holds `_logical_to_physical` and
`_physical_to_logical` and exchanges two entries of each at a swap. `RouteCQC` begins with
a call (`PlaceByLine`, `PlaceByCaller`, or refusal), and then, per time step, takes the
other operations (`NextTimestep`), those between neighbours (`ProcessExecutable`), chooses
swaps (`ChooseSwaps`: one, a pair, or along a shortest path) and applies them one by one
(`InsertSwap`); `Finish` is the final circuit, with swaps decomposed where the device is
directed. Exceptions of the code are values of `pc`. The loops of the mapper and the router
are functions of the number of turns taken. The qubits of an operation are
different (`OnDistinctQubits`), which Cirq checks when an operation is made.

### Placement, PlacementCache, Insertion, Repacking, Circuit

An operation is its qubits, the measurement keys it writes and the keys that control it;
a moment is a set of operations on different qubits; a circuit is a sequence of moments.
`Placement` has the two ways the code finds the earliest moment for an operation: the
backward scan of `earliest_available_moment` (`EarliestAvailable`, `Blocks`) and the
constant-time lookup in `_PlacementCache` (`LastConflict`, `Record`).

`PlacementCache` is the circuit under append, whole-moment append, item assignment and
deletion, the calls that fill, update and drop the cache. `Insertion` has insertion as
pure operators: batches (`Group`), one element (`InsertElement`), the five strategies
(`Insert`, `InsertLatest`), `InsertIntoRange`, the frontier (`PickIndices`,
`PushFrontier`, `InsertAtFrontier`), `BatchInsert`, and the constructor's `Load`. Each
loop of the code (`InsertElements`, `InsertAll`, `InsertAllLatest`, `Places`, `FillRange`,
`PickIndices`, `InsertOperations`, `BatchInsert`) is a function of the number of turns
taken, so that it can be proved about. `Circuit` makes an action of each edit, with
`_mutated()` as part of each, and `ComputeMemo` for the properties a circuit computes once
and remembers (`_frozen`, `_all_qubits`, ...).

`Repacking` has the transformers that put operations into other moments, as operators on
the moments: `AlignLeft` and `AlignRight`, `Stratify` (every order of the classes, forward
and backward), `Merge` (a component is the set of operations merged into it) and
`Synchronize`. They are evaluated on every circuit the edits of `Circuit` reach, with any
operations marked to be ignored (`RepackingKeepsOrder`, one conjunct per transformer). Their
loops, too, are functions of the number of turns: over the operations of a moment in some
order (`AlignMoment`, `TimeMoment`, `MoveMoment`, `MergeMoment`), over the moments, and, for a
component that takes in others, over the turns of its `while` loop (`MergeRight`), of which
there are at most as many as operations and qubits, because each takes one or the other. The
bound stops nothing early for that reason, and a loop that has ended stays as it is.

### GreedyQubitManager, AncillaMapping

`GreedyQubitManager` is the pool: qubits are numbered as they are created.
`AncillaMapping` runs `map_func` over a circuit: `FreeNext` is one pass of the loop over
`sorted(to_free)`, `Freed` what follows it, `PlaceNext` one pass of the loop over the
operation's temporary qubits (`todo` has the places of those left), `Emit` the return. `Setup` lets others use the manager
before the call, and `Call` picks the circuit. A failing assertion or a missing key sets
`failed` and the mapping stops.

## 3. Runs

| run | instance | checks |
|---|---|---|
| StreamBreaks | two jobs of one program, which may exist beforehand; one failing; one retryable or fatal break; server faults | `NoRequestStranded`, `OnlyForeignErrorsRaised`, and with fairness `EverySubmissionEnds` |
| StreamStop | two jobs, one stop, one cancel, one unsolicited close, queue of one | `TypeOK`, `ResponseIsOwn`, `OneOpenStream`, `ImplementsService` |
| StreamStopRace (violation) | one job, one stop | `StopCancelsInFlight` |
| StreamFullQueue (violation) | two jobs, one break, queue of one | `BrokenStreamIsReopened` |
| PlacementCache | five operations on two qubits and one key, four moments | `TypeOK`, `CacheExact`, `CacheAgreesWithScan`, `AppendNeverRaises` |
| PlacementTagged (violation) | the same with `with_tags` | `CacheExact` |
| CircuitEdits | five operations, three moments, three elements per call | `TypeOK`, `CachesAreFresh`, `InsertKeepsOrder`, `AppendsAgree`, `FrontierKeepsOrder`, `RepackingKeepsOrder` |
| CircuitBatchInsert (violation) | six operations, three moments | `BatchInsertLands` |
| Ancillas | all circuits of four operations, in any division into moments, on two system, one clean and two borrowable qubits; a pool others used | `TypeOK`, `PoolPartition`, `NoAssertionFails`, `LoansAreExclusive`, `LoansAreDistinct` |
| EngineJob | two callers of one job, streamed or not; two attempts per unary call, one deletion, cancels | `TypeOK`, `AnswersAreTrue`, `RunsOnce`, `ErrorsAreExplained`, and with fairness `EveryCallEnds` |
| LocalEngine | five sampling jobs, two of which may fail, two places in the limiter, three jobs in flight, five samples of seven; three reservations on four schedules; up to four programs, each with none, one or two sweeps, two or three per job | `TypeOK`, `DeliveredBeforeError`, `LimitsAreKept`, `ScheduleIsCalendar`, `BatchIsPerProgram`, and with fairness `CollectionIsDone` |
| Routing | circuits of up to four operations on six devices of five qubits, two of them directed, placed by the mapper or on five or four qubits by the caller; lookahead 1 and 2 | `TypeOK`, `PlacementFits`, `MapsAreInverse`, `ExceptionsAreExplained`, `RoutedIsCircuit`, `RoutedOpsOnEdges`, and with fairness `RoutingEnds` |

**Bounds.** Two submissions are enough for one to meet the other's program, and for a
response to have a wrong owner; one break lets a stale iterator, a late response and a
retry occur together; one `stop()` has an old and a new epoch. The queue has capacity one
where a full queue is wanted and eight (more than the requests that can exist) where not.
`CircuitEdits` visits every circuit of three moments that edits can reach and evaluates
every call of up to three elements on each, so results have up to six moments: an
insertion at both ends, in the middle, into a reused, a fresh and a full moment all
occur, and the operations include a measurement and an operation that reads its key on
another qubit. Operations occur once in the circuit, so that a place can be followed.
Four operations let a qubit be borrowed, used, given back and borrowed again, in one or
in several moments; `MaxSize` is above what the instance can allocate. Two callers are
enough for one to recreate the job while the other polls, and for a reply to be assigned
after a newer one; two attempts are enough for a retry to meet what the first one did.
With three jobs in flight and two places, one job waits at the limiter while two run; the
fourth job crosses the limit of samples and the fifth is not started. Reservations of every
length, also none, meet the border of every slot. Five qubits on a line put
two qubits far enough apart for the single swap, the pair of swaps and the path all to be
chosen, and four operations need up to three time steps.

**Deadlock.** TLC checks it except in StreamStop and StreamFullQueue, where the code can
leave an execution waiting for ever (that is what the two violations show), and in
Ancillas, EngineJob, LocalEngine and Routing, where the calls return.

**Fairness.** In StreamBreaks and StreamFullQueue: weak fairness of each coroutine's steps and
of the request iterators, because the asyncio loop runs every ready coroutine; of the
server's handling of requests, because the client has no timeout of its own and relies on
an answer; of the rest of a `stop()` that has begun. Nothing makes callers call, streams
break, or gRPC drop a dead iterator (`IterDie` is not fair: the code must cope with an
iterator that lingers). In EngineJob: the callers' coroutines, the service's answers, the
progress of a job to a terminal state, and the end of the stream's future; without the last
two `results()` waits as long as the service does, unless the context has a timeout, which
no fairness makes pass. In LocalEngine: the collection's thread and the worker threads. In
Routing: the one thread that runs `route_circuit`.

### What the runs show

* Requests survive a break: the `None` put on the queue before executions are notified
  ends the old iterator before it can take a request of the new stream
  (`NoRequestStranded`), and the retry table leads to an answer from every combination of
  existing and missing program and job (`OnlyForeignErrorsRaised`, `EverySubmissionEnds`).
* The cache, the scan, the constructor and insertion agree on where operations go.
* Every strategy keeps the order of operations that do not commute, except that EARLIEST
  in the middle of a circuit may put an operation at or after the insertion point, into a
  moment that has room; `InsertKeepsOrder` says which part holds for it.
* Two callers of one `EngineJob` never get a result of a job that has not succeeded, and a
  job runs once, although a recreation may meet the stream's late request: it then fails
  with CONFLICT, and only then. A second caller that polls while the first recreates the job
  fails with NOT_FOUND (`ErrorsAreExplained` names the cases of both).
* A collection ends with the results that came before the first error, or with all, and
  gives back every place of the limiter.
* A schedule that covers all time stays ordered and complete under reservations. One with
  gaps stays correct but not ordered: a reservation in a gap goes to the end.
* Routing ends on undirected devices with the circuit it was given, on edges of the device:
  each qubit sees its operations in their order. Not where a measurement of three qubits or
  more is split and one of its qubits could have been measured in an earlier time step and
  is used again (`MeasuredInStep`, see below), and the circuit has no SWAP of its own, which
  `Unrouted` could not tell from an inserted one (`WithoutSwaps`).
  It raises IndexError where no two candidate swaps are disjoint and it cannot look further
  (`ExceptionsAreExplained`).
* `run_batch` gives each program the results of its own points, in the order of the programs,
  however programs are packed into jobs, with the exception named below (`BatchIsPerProgram`).
* Aligning, stratifying, merging and moving measurements pass no operation that does not
  commute. This holds for circuits in which no measurement is in one moment with what it
  clashes with and each key has one reader (`Settled`), for merging operations without keys,
  and for moving measurements where a key is measured once (`MeasuredOnce`).
* Four disagreements between the code and what its documentation says, each with a run:
  * *StreamStopRace*: an execution scheduled before `stop()` that first runs during it
    subscribes with the new demultiplexer and puts its request on the old queue; its
    future is never completed, although `submit()` documents `CancelledError`.
  * *StreamFullQueue*: when the queue is full as the stream breaks, `_manage_stream` waits
    for room that nobody makes, and the stream is not reopened.
  * *PlacementTagged*: `with_tags()` returns a circuit with moments and the cache of an
    empty circuit, so appending to it puts operations before those they follow.
  * *CircuitBatchInsert*: `batch_insert()` counts a reused moment as a new one. With
    `[Moment(), Moment(X(a))]`, inserting `X(b)` at 0 and `Y(a)` at 1 puts `Y(a)` after
    `X(a)`.

Some more disagreements with the documentation were met while modelling. No run is devoted to
them; the properties are stated so that they hold, and say where they stop:

* a simulated job gives its only sweep to all of its programs and its only program all of the
  sweeps, but pairs several programs with several sweeps (`simulated_local_job.py:130-135`).
  The comments of `_flatten_results` (`simulated_local_job.py:36-37`) and of `run_batch_async`
  (`processor_sampler.py:167-168`) have the results of every program on every sweep. Two programs
  that share a job and a list of two resolvers get one result each, on one of the resolvers;
  with three programs the call raises ValueError. `BatchIsPerProgram` promises a program its own
  results when its params are one sweep or when no neighbour has the same repetitions and params,
  and an exception only where neither holds or where params have no sweep;
* `_get_one_and_two_qubit_ops_as_timesteps` puts the measurements it splits one of three or
  more qubits into at the earliest time step of all of them, but leaves no trace of them for
  what comes after (`route_circuit_cqc.py:284-290`). In `(a, d) (a, b, c measured) (b)` the
  last operation gets the first time step and its qubit's measurement the second: they change
  places, where `route_circuit_cqc.py:143` promises an equivalent circuit. `RoutedIsCircuit`
  is stated for the other circuits;
* `_choose_optimal_swap` raises IndexError for an empty list of candidates, where its doc
  (`route_circuit_cqc.py:506`) has it return None. `ExceptionsAreExplained` allows it there;
* `align_right` and `stratify_circuit` do not leave every ignored operation in its moment, as
  `align.py:65-66` and `stratify.py:52-53` say: the first keeps its distance from the end, and
  the second has a class of moments for them, and moves them there. `RepackingKeepsOrder` is
  about the order of operations only;
* the samples a collection takes can exceed `max_total_samples`, "the maximum number of samples"
  of `collector.py:126`, by less than its last job's repetitions. `LimitsAreKept` says that much.

For these we know of no documentation that says otherwise:

* a stream the server ends without an error strands the executions that wait on it, and a
  cancel that overtakes its own queued request is answered with NOT_FOUND while the job is
  created later; managed qubits whose life ends with a circuit's last operation are never
  given back to the manager;
* a worker writes SUCCESS or FAILURE over the CANCELLED of a simulated job; removing or
  moving a reservation leaves its slot taken in the schedule;
* on a directed device two neighbours against the edge's direction have a shortest path
  without swaps, and with tied candidates the routing loop does not end (`RoutingEnds` is
  stated for undirected devices);
* the line mapper sends the rest of a copied line to the other end of the line it joins,
  which costs swaps; time steps of the router are found from two-qubit operations alone,
  so an operation controlled by a one-qubit measurement may get a step before it (keys are
  not in the model);
* `_stratify_circuit` keeps the last reader's time of a key and not the latest one;
  a measurement that merges to the right may pass an operation that reads its key; where a
  key is measured twice, `synchronize_terminal_measurements` may move the first measurement,
  terminal on its qubits, behind the second, and the records of the key change places;
  `align_left` raises when a measurement and its reader share a moment and what follows the
  reader is to stay.

## 4. Proofs

TLAPS proves the following for all values of the constants, from the named assumptions of
the modules. Most only give the constants their types. Those that say more say what the
code checks or needs before it starts:

* `MappingAssumption`: the system qubits, the clean and the borrowable ones are different,
  and an operation's qubits are different;
* `CollectorAssumption`: jobs are numbered in the order of `next_job()`, have repetitions, and the
  limits are not zero;
* `ScheduleAssumption`: the schedule is one that `__init__` of the processor accepts;
* `CircuitAssumption`: the qubits of a routed circuit's operation are different;
* `OperationsAssumption`: there are finitely many operations, on finitely many qubits each (a
  circuit is made of lists);
* `RouteAssumption`: lookahead is at least one, and a mapping the caller gives is one-to-one and
  uses qubits of the device, all or some, with paths between them. The code does not check the
  latter; on qubits without a path swaps cannot bring operations together.

`StreamAssumption`, `EngineJobAssumption`, `JobAssumption`, `RequestAssumption`,
`PlacementAssumption`, `MaxMomentsAssumption`, `EditAssumption`, `PoolAssumption` and
`DeviceAssumption` are types and bounds.

| theorem | statement | argument |
|---|---|---|
| `StreamTypeCorrect` | `Spec => []TypeOK` | `TypeOK` with `EpochInv`, which bounds the epochs while `stop()` is under way, is inductive |
| `ResponsesReachTheirOwner` | `Spec => []ResponseIsOwn` | `ClaimInv`, `OwnInv`; below |
| `AtMostOneStream` | `Spec => []OneOpenStream` | `StopInv`: coroutines of earlier epochs have left their streams |
| `ProtocolErrorsAreRetried` | `Spec => []OnlyForeignErrorsRaised` | `KindInv`: a response whose id an execution waits for answers the kind of request it sent last |
| `NoRequestIsStranded` | `MaxStops = 0`, `MaxUnsolicited = 0` gives `Spec => []NoRequestStranded` | `StrandInv`; below |
| `StreamImplementsService` | `Spec => Service!Spec` | every step is a step of `JobService` or leaves its state alone, given `OwnInv` and `StartedInv` (answers are about jobs that were made for submissions that began) |
| `JobTypeCorrect` | `Spec => []TypeOK` | by action |
| `JobRunsOnce`, `JobErrorsAreExplained`, `JobAnswersAreTrue` | `Spec => []RunsOnce`, and so on | `JobInv`; below |
| `CollectorLimitsAreKept`, `ResultsComeBeforeTheError` | `Spec => []LimitsAreKept`, `Spec => []DeliveredBeforeError` | `CollectInv`; below |
| `ScheduleStaysCalendar` | `Spec => []ScheduleIsCalendar` | `CalendarInv`; below |
| `BatchAnswersPerProgram` | `Spec => []BatchIsPerProgram` | the first `k` batches hold the first so many requests, in order (`Packed`), and requests that share one are like a neighbour; one sweep goes to all of a job (`OneSweepForAll`), one program takes all (`OneProgram`); results are given back by the same count |
| `LocalTypeCorrect` | `Spec => []TypeOK` | from the three above |
| `PlacementTypeCorrect`, `CacheIsExact` | `Spec => []TypeOK`, `Spec => []CacheExact` | `TypeOK /\ CacheExact` is inductive; neither is alone, since a placement that succeeds needs an exact cache |
| `CachedPlacementIsTheScan` | `Spec => []CacheAgreesWithScan` | an exact cache has the greatest conflicting moment, and the scan stops there (`ScanFindsLast`, `LastConflictGreatest`, `ExactCacheAgrees`) |
| `AppendsNeverRaise` | `Spec => []AppendNeverRaises` | the moment after the greatest conflict has room (`PlacementSucceeds`) |
| `CircuitStaysSound` | `Spec => []CircuitInv` | the inductive invariant of `Circuit`; below |
| `CircuitIsTyped`, `CircuitForgetsStale` | `Spec => []TypeOK`, `Spec => []CachesAreFresh` | `CircuitInv` implies both |
| `InsertIsOrdered` | `Spec => []InsertKeepsOrder` | of every circuit, every list of elements, every index and strategy; below |
| `AppendsAlwaysAgree` | `Spec => []AppendsAgree` | the cached and the scanned place are the same, also from batch to batch; below |
| `FrontierIsOrdered` | `Spec => []FrontierKeepsOrder` | places below the frontier, and room made for them; below |
| `RepackingIsOrdered` | `Spec => []RepackingKeepsOrder` | of every circuit and every set of operations to be ignored; below |
| `PoolIsPartitioned` | `PoolSpec => []PoolPartition` | inductive with `PoolTypes`; growing adds numbers no qubit has (`GrownPool`), cutting and joining lists keeps elements different (`CutDifferent`, `JoinDifferent`) |
| `MappingTypeCorrect`, `MappingNeverFails`, `MappingKeepsThePool`, `LoansAreHeldOnce` | `Spec => []TypeOK`, `[]NoAssertionFails`, `[]PoolPartition`, `[]LoansAreDistinct` | `MapInv`; below |
| `LoansAreAlwaysExclusive` | `Spec => []LoansAreExclusive` | `MapInv` with `MappedInv` and `ExclusiveInv`, which speak of emitted operations |
| `RoutingTypeCorrect`, `MapsStayInverse`, `RoutedStaysOnEdges` | `Spec => []TypeOK`, `[]MapsAreInverse`, `[]RoutedOpsOnEdges` | `RouteInv`; below |
| `PlacementsFit` | `Spec => []PlacementFits` | `ReachInv`, `StartInv`; below |
| `ExceptionsHaveReasons` | `Spec => []ExceptionsAreExplained` | `RouteInv`, `ReachInv`, `WaitInv`, `IndexInv`; below |

**Stream manager.** `ResponseIsOwn` speaks of completed futures only and is not inductive.
`ClaimInv` adds that every message id in a subscription, queue, request or response is below
`nextId` and belongs to one execution (ids are never reused, also over breaks and `stop()`),
and `OwnInv` that what a future was completed with is about its own job. A response is
published to the subscriber of its id, so it reaches the execution that sent the request.

`NoRequestIsStranded` has two hypotheses, because without them it is false (section 3): a
`stop()` strands an execution that starts during it, and so does a stream that the server
ends unasked. Every failed stream leaves an iterator behind that takes one more item from the
queue. `LeftInv` counts them: the items in front of the first request somebody waits for are
as many as the iterators left over, or one less while the failure is still to be
announced. `SubscribedInv` says that a waiting execution is subscribed with the id of its
request, and `FoundInv` that its request is in the queue or at the server, or the stream has
failed and a retry is about to be called for.

**Engine job.** `JobInv` follows the job in the service (`Identity`: only the stream's job
is created; `Counted`: jobs made and jobs deleted differ by the one that is there), the one
way to create it (`Spent`, `OneCreator`), what a caller can meet there (`Explained`,
`NotFound`), and ties each copy of the job's state, in the object, in a reply under way or
at a caller, to the service's (`Recorded`, `Failed`, `Settled`). The last is what makes a
late reply harmless: terminal states do not change.

**Local engine.** `CollectInv`: `running` counts the jobs started and not delivered,
`held` the tasks inside the limiter (`CountInv`); what was delivered and what is buffered are
together the tasks that ended before the first failure (`LogInv`, `KeptInv`); jobs start in
their order, so what remains of the samples is known from the last one started (`StartInv`).
`CalendarInv` adds to `ScheduleIsCalendar` that slots share no time and that the free ones are in
order (`Orderly`); for a schedule that covers all time, that each slot starts where the
one before it ends (`Run`).

**Circuit.** `CircuitInv` says that the moments hold no operation twice, that a cache in use
is exact, that one out of use is empty, and that what is remembered was computed from these
moments. Every edit keeps it. The theorems on order are then about any circuit that satisfies
it, not about the actions. They follow the place `At(ms, x)` of an operation: one element
gives a circuit `Grown` from the old one, the element in one moment and what was behind a new
moment one place later. Each loop has its own statement of what is in order so far
(`Ordered`):

* between elements, all that was inserted, and all that was before the index of the call, is
  at or before the place where the call goes on (`Placed`, `Filling`); within a batch EARLIEST
  may be ahead of that place, up to the last moment used (`Packed`, `Packing`);
* LATEST goes through the elements backwards: what is inserted is behind the index, and
  precedes what it conflicts with there (`Late`, `LateCall`);
* with a cache, every turn keeps it `Exact`, and the place it gives is the scan's (`Caching`);
  without one, the grouping into batches ends in the same circuits (`Leveling`, `Level`), and so
  does the constructor (`Placing`);
* at a frontier, two operations on a qubit get increasing places below the frontier
  (`Picking`); what was behind the start is moved behind the frontier (`Roomy`), so every
  place chosen is free when the loop comes to it (`Free`, `Putting`).

**Transformers.** `Repacking_proofs` is about one circuit that satisfies `CircuitInv`, and
follows the set of operations visited so far through each loop:

* aligning: all of them are in the new circuit, none later than it was, those to be ignored
  where they were, and in order (`Aligned`). So an operation that is put back into its moment
  meets neither what it clashes with nor a moment already in use on its qubits;
* stratifying: each is in the slot of its class (`InStratum`, `Kind`), in order, and the
  dictionaries have the place of each (`Layered`, `Covers`). The times are chosen for a whole
  moment before anything is moved (`Timed`, `Moving`); that the dictionaries are then ahead of the
  moments is harmless, because the operations of one moment do not clash (`Bounded`). Here
  `Settled` is needed: a key's last reader overwrites the time of the others;
* merging: each is in one component (`Parted`). A component that takes others in stays to the
  right of what they clash with, because nothing that was passed clashes with what is taken
  (`Heads`) and the moment it ends in has only components over that moment's operations
  (`Topped`);
* moving measurements: what is terminal clashes with nothing behind it, but for a second
  measurement of its key, which `MeasuredOnce` excludes (`ToEnd`);
* `align_right()` and half of the stratified circuits are repacked backward: what keeps the
  reversed order of the reversed circuit keeps the order of the circuit (`RepackedBack`).

**Ancillas.** `MapInv` says where each temporary qubit is in its life: it has a mapping
from the first operation the loop has seen to the last one expected, is in `to_free` from
then on, and is freed before an operation of a later moment is placed (`SpanInv`); what it
holds is in nobody else's hands and idle until its last moment (`LoanInv`).

**Routing.** `RouteInv` has the call, the device, the maps, the lists and what was routed,
and of the swaps still to be applied that they are `Swappable`: disjoint edges (`Apart`), or
one qubit moving along a path (`Along`). Either is kept when the first swap is
applied, so `apply_swap` never refuses one. `PlacementsFit` needs that the placed qubits
stay connected: each qubit is placed next to a placed one, by the line or nearest to the centre. The
balls around a place grow until they hold all that it reaches. So two waiting qubits have a
path between them and the search for swaps a candidate of least cost; different candidates are different
edges, disjoint ones make a pair, and if the code's list is empty there are none
(`IndexInv`).

**Loops.** The library's induction theorems cannot be instantiated here. What a loop keeps is
proved from its least turn that goes wrong instead (`LeastElement`, `TurnInduction`), which well-foundedness
of the naturals gives, and the function that describes it is shown to exist by the same
means (`LoopExists`).

## 5. Only model-checked

* Liveness (`EverySubmissionEnds`, `EveryCallEnds`, `CollectionIsDone`, `RoutingEnds`) and
  `ENABLED` are out of the prover's reach.
* `RoutedIsCircuit`, that the routed circuit read back is the circuit that was given.
* That the turns of `MergeRight` are enough for its loop to end: `RepackingKeepsOrder` holds
  after any number of them.
* `NoRequestStranded` with stops, where it is not claimed.

## 6. Plan

Done: StreamManager and JobService; EngineJob; the local engine with collector, sampler and
schedule; Placement, PlacementCache, Insertion, Repacking, Circuit; GreedyQubitManager,
AncillaMapping; routing; the proofs above.

1. A proof of `RoutedIsCircuit`, the only safety invariant of the passing runs that is only
   model-checked.
2. Nested circuits in `AncillaMapping` and `Repacking`; a persistent frontier in `Circuit`;
   keys in `RouteCQC`.
3. The retry loops of the IonQ and AQT clients; reading back an interrupted workflow.

## 7. Not modelled

Gates, protocols, linear algebra, simulators and experiments: immutable values and
floating-point numerics. Serialization, diagrams, generated protocol code and tools:
conversions without state. IonQ, AQT and Pasqal clients and the workflow runtime: short
sequential loops around HTTP calls and files. Of the modelled components: `__imul__` and
`__radd__` of circuits, qubits of dimensions other than two and one-shot iterators given
to `qfree`, `CircuitOperation`s in the qubit transformer, the interruption of
`publish_exception`'s loop, and the creation of two executors by two threads; decoding of
results, device configurations and the merging of label dictionaries in `EngineJob`; filters of
`list_reservations` and `get_schedule`, programs and calibrations in the local engine; keys,
tags and placements into a disconnected part of the device in routing, where a circuit's own
SWAP on an edge that goes one way is always decomposed (the code does so only if it equals an
inserted one; it is along the edge in either case); programs given as a mapping to `run_batch`,
and real processors' results; nested circuits,
`map_operations`, unrolling and `merge_moments` among the transformer primitives.
