# TriangleMix sparse attention: a TLA+ verification project

The repository holds one Ascend operator, `triangle_paged_sparse_attention`
(`operator/`), and one vLLM-Ascend plugin that routes eligible prefill chunks to
it (`package/`), with the scripts that validate a release. This directory models
their control, model-checks it with TLC and proves part of it with TLAPS.

Run a configuration with `tlc -config X.cfg M`, a proof with `tlapm M.tla`.
`PROJECT.json` lists the runs, the mutants that show each property can fail, the
source lines every definition models, the hazards and the theorems.

## The system

**Operator.** `TilingFunc` (host) checks a launch and lays it out: query tiles of
32 tokens times 8 KV heads are *tasks*, spread over the AI cores with a stride.
Each core (a Cube and its Vector cores) cuts its query tile into *spans* that are
wholly dense or wholly sparse, each span into KV *intervals* (the prefix, or sink
and local window), each interval into KV *tiles* of 512 keys. A tile is
QK, masked online softmax, PV and rescale; the span's rows are stored after its
last tile. A second, slow AIV kernel computes one row at a time. Keys live in
pages found through a block table. State: the loop counters, the accumulator in
local memory, the output; nothing survives a launch. Hard: boundaries that are
not multiples of each other, `uint32_t` arithmetic, cores that share one output
tensor, Cube and Vector units that share single-buffered tiles in global memory.

**Plugin.** `register` patches the attention backend, the metadata builder and
(later, from the first backend instance) the model runner. In a scheduler step
the runner's wrapper reads the prompt length, the builder makes the metadata and
a plan for it, the wrapper attaches the prompt length to the metadata with a
fresh step token, and every selected layer looks the plan up, checks it against
the metadata's fingerprint, plans again if it must, passes the capability gates
and launches the operator or calls the official attention. Metadata objects are
made outside the repository: they may be reused by later steps, refuse
attributes, and die, their `id` then reused. State: attributes on the metadata,
the bounded side stores, the generation and step counters.

**Statistics.** One locked object per worker process: counters, a deduplication
window of plan ids, a bounded trace of recent plans, a bounded queue of deltas to
be logged and the request boundaries at which a log is due. Layers call it two or
three times each, with `configure` and `snapshot(reset=True)` from anywhere.

**Native bootstrap and configuration.** Each layer's constructor asks for the
operator: under a lock the worker inspects versions, device and bundle, changes
two environment variables, opens the op API library and loads the Torch adapter,
and puts the variables back when any of it fails. The settings are resolved three
times, by the plugin, the builder and the backend, each from the configuration of
the engine and the environment. State: the process environment, the open
libraries, the last status. Hard: half loaded libraries, retries, two locks.
The resolution of the settings is not modelled.

**Release tools.** The wheel pipeline builds a wheel in a private directory,
checks, installs, smokes and uninstalls it, and only then copies it out. The model
smoke starts a worker per mode, reads markers and statistics back from its log and
decides PASS or FAIL by gates; the worker admits a batch to a paused engine. The
TTFT comparison starts one process per measurement in the order dense, sparse,
sparse, dense. Hard: processes that die, hang, or outlive their parent; evidence
that is only a log; resources (the wheel, the device, a directory) that change
between a check and its use.

How they interact: plugin -> `kernel.py` -> torch adapter -> `TilingFunc` -> kernel
is one synchronous enqueue; plugin -> statistics are locked calls; plugin ->
official vLLM-Ascend code through patched methods; release tools -> plugin
through processes, environment variables and logged statistics.

## Modules

| module | models | state | actions |
|---|---|---|---|
| `TriangleSchedule` | host layout, spans, intervals, tiles, mask, row schedule | none | pure operators |
| `ReferenceAttention` | the AIV kernel as the abstract specification | `request`, `output` | `FinishRows` |
| `TriangleKernel` | a launch: host, then the task/span/interval/tile loops of every core | loop counters, `acc` per core | `Reject`, `Launch`, `StartTask`, `Finish`, `EndTask`, `StartSpan`, `ProcessTile` |
| `TriangleKernelProofs` | lemmas and theorems about the schedule and the kernel | | |
| `MixProtocol` | who owns the score, probability and output tiles the Cube and the Vector cores share | progress of the Cube and of each Vector core, pending flags | `StartScore`, `FinishScore`, `TakeProbability`, `ReadProbability`, `StartOutput`, `FinishOutput`, `TakeScore`, `ReadScore`, `StartPublish`, `FinishPublish`, `TakeOutput`, `ReadOutput` |
| `MixProgram` | the instructions the Cube and a Vector core issue in a launch, with their events and flags | none | pure operators |
| `MixPipeline` | the pipes executing that program | instructions done per pipe, the bag of pending events and flags, buffer contents | `CubeStep`, `VectorStep` |
| `MixOrder` | what the queues of a launch must satisfy, whatever the interleaving | none | pure operators |
| `MixLaunches` | launches that satisfy it, for TLC | | |
| `PipelineProofs` | theorems about `MixPipeline` | | |
| `PagedGather` | how the Cube copies the keys and values of a tile out of the pages | L1, loop counters, `score` | `CopyKeyFragment`, `NextKeys`, `StartValues`, `CopyValueFragment`, `FinishValues` |
| `TileProofs` | theorems about `MixProtocol` and `PagedGather`, the two sides of a tile | | |
| `PlanCache` | plan store, builder patch, runner wrapper, layers | metadata objects by address, side stores, counters, the step | `PatchRunner`, `StartStep`, `Refill`, `BuildNew`, `BuildSame`, `AttachRunnerPrompt`, `Layer`, `EndStep`, `Raise` |
| `PlanCacheProofs` | theorems about it | | |
| `RuntimeStats` | `TriangleMixRuntimeStats` and the layers that call it | the object's fields, each thread's position | `Configure`, `RecordPlannerDecision`, `CapturedLayer`, `RecordLayer`, `StructuredLog`, `Reset` |
| `RuntimeStatsProofs` | theorems about it | | |
| `PluginRegistration` | `register`, the attention patch, the runner patch, roll back | the attributes of the patched classes and modules, the locks, `_REGISTERED`, each thread's position | `Register`, `ConstructBackend`, `Enter`, `AlreadyDone`, `RejectAttention`, `RejectRunner`, `StartPatch`, `Assign`, `Finish`, `AssignRaises`, `Restore`, `FailPatch`, `Reload` |
| `PluginRegistrationProofs` | theorems about it | | |
| `BatchPlanner` | `planning.py` and the eligibility of `kernel.py`, for a prompt cut into chunks | configuration, prompt, tokens computed, last step and plan, rows launched, pairs saved | `Schedule` |
| `DirectLayer` | a selected layer: gates, launch, the checks behind it, fallback | the KV caches and the kept verdict, the call, its reason, who wrote its rows, what it recorded | `Rebind`, `Enter`, `Dispatch`, `RecordFallback`, `Official`, `ViewOutput`, `Launch`, `LaunchRaises`, `Return` |
| `PrefillProofs` | theorems about the last two, from a scheduler step to the rows of a layer | | |
| `NativeCompatibility` | the inspection of a worker: every reason against loading | none | pure operators |
| `NativeBootstrap` | the early path and the load, asked for by layers of several threads and by other loaders | environment, status, libraries, adapter, two locks, each process's position | one per stage of `ensure_native_loaded` and of `load_triangle_mix_adapter` |
| `OperatorPresence` | what the callers of the bootstrap may rely on | `present`, `given` | `TellPresent`, `TellAbsent` |
| `StatsEvents` | statistics read back from a log: events, workers, regressions, markers | none | pure operators |
| `SmokeGates` | the gates of the model smoke | none | pure operators |
| `ModelSmoke` | controller, workers and the engine whose steps write the log | the modes run, the worker's phase, log and steps, the report | one per operation of controller, worker and engine |
| `PausedBatch` | the worker's batch admitted to a paused engine, and its clean-up | the engine, its requests, the collector tasks, the worker's position | one per await of the worker, `Drain`, `EngineStep`, `EngineResumes`, `EngineDies` |
| `TtftAbba` | the TTFT comparison: controller, child processes, engines | the installed wheel, engines alive, the child, the runs | `Build`, `Reinstall`, one per stage of controller and child, `EngineExits` |
| `WheelPipeline` | wheel pipelines, each with its output directory and report | files, each pipeline's wheel and stage | one per stage, `OfficialChange`, kills |
| `ReleaseTools` | the release machine running one of the last three, chosen in `ReleaseInit` | `tool` and the state of the three, which share none | `Pipelines`, `Worker`, `Controller` |
| `DeploymentProofs` | theorems about the bootstrap and its promise and the release tools | | |
| `MC*` | values of the constants for TLC | | |

`TriangleKernel` extends `ReferenceAttention`, which extends `TriangleSchedule`:
the variables `request` and `output` are shared, so the refinement mapping is the
identity and the abstract specification is the property `RefSpec`.
`MixPipeline` extends `MixProgram`; its constant `Queue` is the function
`LaunchQueue` of that module, evaluated once per run (`QueueAssumption`). It
implements `MixProtocol` through the history variable `progress`, which counts how
often each core has passed each mark of the program. What `TriangleKernel`
takes as one step per KV tile, `PagedGather` and `MixPipeline` look inside: the
first for the addresses, the second for the order.

### Correspondence and abstractions

* *Kernel.* An output row is abstracted to how often each key was accumulated
  into it. The online softmax of a multiset of keys is a function of that count,
  so "each selected key once, no other" is exactly what separates a right row
  from a wrong one; the arithmetic is left out. One step is one KV tile. Local
  memory starts with an arbitrary `Residue`. Lengths are integers, reduced modulo
  `U32Mod` where the code adds in `uint32_t` before it divides or compares
  (`IntervalTileCount`, the query tile count, the task count). Shape, dtype, scale
  and geometry checks of `TilingFunc` are the flag `wellFormed`.
* *Pipeline.* A core issues its instructions in program order. Each joins the
  queue of its pipe (`MTE2`, `MTE1`, `M`, `FIX`; `V`, `MTE3`), the queue executes
  in order, and the queues run concurrently. An instruction is one move between
  buffers together with the `WaitFlag`s just before it and the `SetFlag`s just
  after it on its pipe. `S` is the scalar unit: it issues nothing past a
  cross-core wait that it has not got through. A cross-core set of the Cube
  signals both Vector cores, a wait of the Cube needs a flag from each
  (`cross_core_sync.hpp`). How often an unconsumed event may be set is not in the
  repository: `eventDepth` is drawn from `EventDepths` in the initial state, 1 (a
  second set blocks the pipe) or 2 (counting), and every property is checked for both. The sizes are the code's: at most
  four QK subtiles and four row loops a tile, eight M_MTE1 and MTE1_MTE2 events.
  A group size of 4 gives each Vector core 64 rows, so the branches of the
  softmax without rows and of the rescale with row loops are unreachable and left
  out; so are the mask copies, which a single tile per stack never starts, and
  the log-sum-exp output, which the fast path switches off. Buffers hold a tag
  (kind, tile, part), so a read of the wrong subtile, tile or span differs from a
  right one; the numbers are left out. `V` executes its instructions in order, as
  the barriers of the code make it do: a read and a write on the same pipe never
  race.
* *Gather.* A row of L1 is the element offset it was copied from, `score` the
  keys its columns were computed from. The initial state draws a sequence, its
  block table, a head and a tile; one step is one fragment, and the product of a
  subtile is part of the step that ends its copy. Offsets are
  integers, reduced modulo `U32Mod` where the code holds them in `uint32_t`.
* *Plan cache.* A *core* stands for all of the fingerprint but the prompt lengths
  (state, query ends, sequence lengths, decode and prefill counts). A plan is
  abstracted to the (core, prompt) pair it was made from; `Eligible` says which
  pairs are direct. Metadata classes are `open`, `slotted` (no new attributes) or
  `frozen` (no weak references either). The official builder may return a new
  object at any dead address or the same object again; `Refill` is an object
  assigned in place without its builder. A refilled object with the core its last
  build saw is taken to stand for the same request: nothing the plugin can read
  would tell otherwise. The capability gates (model, tensors, native runtime)
  only keep a layer from launching, and are left out. The plugin is enabled;
  under `strict`, a planning exception ends the worker (`Raise`).
* *Statistics.* Every public method runs under one lock and is one step. A plan
  is its number of requests and of eligible ones; a layer is two or three calls
  with anything in between. Captured layers skip the planner record. Timing,
  reasons and per-layer counters are left out. `counted` and `logged` are history
  variables.
* *Registration.* A function is its number of plugin wrappers, so a wrapper of a
  wrapper is 2; `Missing` is an attribute that is not in `vars(owner)`, and an
  inherited one is visible all the same. An assignment, a restored attribute and
  taking a lock are a step each. Whether versions and signatures are allowlisted
  is the flag `supported`; the import of vLLM-Ascend may raise in any attempt, an
  assignment at any point. `strict` is read from the environment by `register`
  and from the configuration by a constructor, hence one flag per patch. `Reload`
  is outside the plugin: the module loaded a second time, or `_REGISTERED`
  cleared as `test_plugin.py` does. A constructor without a loaded runner module
  changes nothing and is left out. That putting an attribute back could itself
  raise is not modelled: `_restore_attributes` would then stop half way.
* *Planner.* A step is its lists; the scheduler draws the chunk, the company of
  the request and which lists are missing. 2(`SinkTokens` + `WindowTokens`) + 1 is
  the 1041 of the source. Lengths the code reads as integers are integers.
* *Direct layer.* A tensor is its address, shape, size, type, device and strides; a
  shape is a name ("cache", "heads"), because every check compares it with one
  expected shape; an output may also be "flat", with the elements of a row of heads
  in another shape. A call is what the gates read of metadata, context and plan; its
  plan is one `BatchPlanner` makes (`DirectLayerAssumption` is what
  `PlansFitLayers` proves of plans). The launch is given views of the query and of
  the output (`plugin.py:1327-1341`), while the gate reads only the first dimension of
  the output. The view is made before the `try`: an output with another number of
  elements per token raises out of the call, also when not strict, instead of falling
  back to the official attention (`ViewOutput`). A launch that raises may have written any
  rows. The operator itself is `TriangleKernel`, the official attention writes all
  rows. Statistics are the names of the records, in order.
* *Bootstrap.* A version is "release", the same with a local label, another one or
  no version; an inspection is the set of facts it reads. A torch or torch_npu
  whose metadata is no PEP 440 version is let through by the code, and so by
  `ReadyIsUsable`; so is a bundle whose `version.info` cannot be opened or names no
  compiler (`native.py:204-213`, `498-502`). `load_library` may raise before or after
  the library has registered the operator (`Broken`). The check after a load asks only
  whether the operator is there (`kernel.py:316`), so the bundled adapter may be
  recorded over an operator that a library whose load failed has registered:
  `ReadyIsUsable` names this case, and otherwise says that the bundled adapter alone
  registered it. An exception that is not an `Exception` during the load
  is not modelled: the code would leave the environment changed.
* *Model smoke.* A log is a sequence of statistics events and markers, written by
  engine steps of the worker; prompts and chunks are counted in small units. The
  engine departs from the plugin's rules in at most `MaxDeviations` steps of a worker,
  a bound that depends on the list of modes run (a launch where none is due, an extra
  request, a split batch); every PASS is compared with what really happened. The decode gate needs the decode prompt to end
  in a chunk of one token, as the default 8193 = 4 * 2048 + 1 does. Torn or lost log
  lines and malformed events are left out: the code fails on them.
  `_split_scheduler_fallback_gate` asks for as many different request totals as
  requests (`model_smoke.py:422`), so a batch admitted in one scheduler step fails
  its case, while its docstring only says that adjacent steps are allowed. The model
  has the code's rule, `ByRulesPasses` speaks of a batch in adjacent steps. Some
  checks of the worker (`model_smoke.py:915`, `936`, `1003-1013`) are not in the
  model: its gates pass more than the code's, and `PassIsTrue` holds all the same.
* *Paused batch.* One step per await. Faults (a raising add, check or collector,
  cancellation, a dead engine, a resume by someone else) come at any await. Three
  gaps of the code are left out of the properties: an add that fails
  after the engine took the request is not aborted, a pause that fails after
  pausing leaves the engine paused until shutdown, and a second cancellation during
  the clean-up skips the aborts.
* *TTFT.* One latency per process, a drift per process. The payload of the last
  engine has no later audit, and the wheel's hash in the report is taken at report
  time. Process ids are left out: the system may reuse one, and the report would
  then fail a sound session. The sign of the bootstrap interval is abstracted to that of
  some cycle.
* *Wheel pipeline.* A wheel is its number and its flaws, each found by one stage.
  A pipeline may be killed at any point, a copy leaves a torn file. The pipelines
  checked have directories and reports of their own. Two that share a report path
  would both find it absent at the start (`release_wheel_pipeline.py:684`) and the
  later one would replace the file of the earlier (`:94`), although the help of
  `--report` (`:670`) says that an existing file is never overwritten. A kill between
  copy and report leaves a wheel without its report, and later runs refuse.

## What is checked

| run | question | bounds |
|---|---|---|
| `kernel` | do tiles, spans and masks reproduce the row schedule, are rows stored once, and all of them? | sequences to 9 tokens, prompts to 3 more, sink 1, window 2, dense tail 2, query and KV tiles of 3, page 2, two KV heads, up to 2 cores; every chunk of every prefix, and one request per rejection |
| `u32_edge` | the longest prompt the host accepts | modulus 16; expected to fail |
| `pipeline` | do the events and flags order every two accesses to a buffer, does each instruction read what its program order would give it, does the launch end with every event drained, do the queues implement the ownership protocol? | the sizes of the code, 2 Vector cores; a span of two tiles (4 and 1 subtiles) and a span of one (2 subtiles); events that hold 1 or 2 sets |
| `paged_gather` | does every row of a tile land in its place, from the page the reference reads? Do seven launches have the order that `PipelineProofs` asks for? | pages of 3, subtiles of 4, tiles of 9, sequences to 11, 3 physical pages in any order and repetition, 2 heads of 2 elements; launches of one to five tiles in the sizes of the code |
| `plan_cache` | can a layer launch with another step's plan or that of a dead object, lose a prompt length it was told, plan an object twice? | 2 addresses, 2 cores, 2 prompts, 2 steps, 2 layers a step, side stores of 1 |
| `runtime_stats` | do queue limits, boundaries, reset and reconfiguration lose, repeat or strand anything? | 2 threads, 3 plans (0, 1 and 2 requests), 5 calls, queues of 2, one sampled event, intervals 0 and 2 |
| `registration` | can a failure, a second thread, a retry or a reload leave a patch half applied or applied twice, or a lock taken? | 2 threads, 3 calls, 2 copies of the module, 3 forms of vLLM-Ascend: methods inherited, an older hook inherited with a loader, the hook on the class without one |
| `native_bootstrap` | can a failed, repeated or concurrent load leave the environment changed, or tell a layer of an operator that is not there? is every constructor answered? | 2 backends, 1 other loader, a disabled caller; the supported process and every one that differs from it in one fact; either library registers the operator or not, any load may raise before or after that; the variables unset, or set with the bundle's path spelled otherwise, a foreign and an empty item |
| `batch_planner` | is a direct plan alone in its step, is it a launch the host accepts, does the saved work add up? | prompts to 10 tokens, every chunking in up to 3 plans, six configurations, every form of step |
| `direct_layer` | do the gates cover what is checked after them, is the kept verdict current, is the output of one route? | 8 tensors at 2 addresses; a good call and 27 that differ from it in one respect, among them an output in another shape with as many elements or with others and a call all on the CPU; 2 calls in sequence |
| `model_smoke` | does a PASS mean what it says, does a worker that kept the rules pass, does the final report say of the whole release what its workers did? | eager and graph workers with one departure, a concurrency worker (levels 1, 2, 4) with two; whole runs of three modes, of graph twice, of concurrency alone twice, with exceptions, crashes and kills |
| `release_tools` | is every wheel handed out sound and its report true? is a level one engine step, and is everything taken back? does a PASS compare one wheel, alone on the device, without drift? do worker and comparison end? | 2 pipelines, 7 flaws, 3 starts, 1 change of the official packages; levels 1 and 3, 3 faults at any await; 4 cycles (16 processes), 2 pairs of latencies, drifts 0, 1 and -1, 2 builds |

Why the bounds are enough. *Kernel*: the tile sizes are mutually non-dividing
with the window and the sink, so query tiles straddle both sparse boundaries
(three spans), intervals have one to three tiles with full and partial last
tiles, the sink merges with the local window or not, and tasks outnumber cores;
the proofs cover all larger values. *Pipeline*: three tiles are two more than any
ping-pong flag or shared tile remembers; an odd number of subtiles shifts the
ping-pong flags of QK and PV against each other, four use both buffers twice; a
second span reloads the query and restarts the accumulator; `WorksOrdered` adds spans
of one to four tiles and odd numbers of subtiles, whose interleavings are too many to
explore and covered by the theorems; the events and
buffers are the code's own. *Gather*: 3, 4 and 9 make a fragment end with the
page, the subtile, the tile, and with two of them together. *Plan cache*: a stale
plan needs an old step and a new one, a wrong one a second core, prompt or object;
two objects share one slot of a store. *Statistics*: a third plan or delta
overflows each queue; two threads suffice for one to run between any two calls of
the other. *Registration*: three calls are a failed attempt, its retry and a
constructor beside them, and each thread may be inside a different patch.
*Bootstrap*: a backend may fail, be asked again and race another and a loader that
does not take its lock; a reason against loading is one fact. *Planner*: three
chunks put both sparse boundaries inside, before and behind a chunk; the proofs
cover the rest. *Direct layer*: a stale verdict needs one call to be kept and one to
be used. *Model smoke*: two chunks, two layers and two decode steps tell a count
per chunk, per layer and per step apart; hiding one departure behind another takes
two. *Release tools*: a killed pipeline, its retry and another one; a fault, one in
the clean-up and a resume by someone else; four cycles are the fewest that may pass.
`MaxCalls`, `MaxCopies`, `MaxSteps`, `MaxLayers`, `MaxPlans`, `MaxStarts`,
`MaxChanges` and `MaxBuilds` bound only the number of inputs.

Symmetry is used for threads, prompts and addresses in `plan_cache` and
`runtime_stats`, where no expression of the model depends on their order, and never
with a liveness property. Deadlock is checked in `native_bootstrap`, where nobody may
wait for ever for a lock; elsewhere a launch, a call or a tool ends, or the bound on
the inputs is reached.

Fairness is assumed by the specifications called `FairSpec` and by `FairReleaseSpec`.

* *Kernel*: the host call and each launched core keep running until they return. The
  kernel has no lock or queue between cores, so this is what the hardware scheduler
  guarantees; `Completes` says that the loops end and that every row has been stored
  by then.
* *Gather*: the loop keeps running.
* *Pipeline*: some pipe that can execute an instruction eventually does. This is
  weaker than fairness of each pipe and enough, because every step advances some
  pipe through a finite program; `Completes` then says that the pipes never all wait
  for each other.
* *Registration* and *bootstrap*: a thread inside a call keeps running. Whether it
  ever gets a lock is what `Completes` and `EveryAskAnswered` say: every holder gives
  its lock back and asks once.
* *Release tools*: the worker's event loop runs what is ready, without counting on a
  fault to get it further, cancelled tasks end, and an engine that is up and not
  paused steps; the comparison's controller goes on, and its timeout fires. Nothing
  is assumed of the processes started: `AlwaysReports` holds if their engines end,
  because the second `communicate` waits for the end of their output.

### Finding

`u32_edge`: the host accepts prompts up to `UINT32_MAX`
(`op_host/triangle_paged_sparse_attention.cpp:235`), but `IntervalTileCount`
adds `kKvTile - 1` in `uint32_t`. For an interval within 511 keys of 2^32 the sum
wraps, the span has no tiles, and its rows are left unwritten without an error.
No device holds a cache of that length; the stated limit is too generous by one
KV tile.

## What is proved

For every value of the constants that satisfies the named assumptions:

* `TypeCorrect`, `RowsExact`, `ReadsBounded`, `ImplementsReference`
  (`TriangleKernelProofs`): `Spec => []TypeOK`, `[]ExactRows`,
  `[]ReadsInsideTable` and `Spec => RefSpec`, under `NoWrap`, which says that the
  `uint32_t` sums of the considered requests do not wrap: `u32_edge` shows
  that it is needed. The inductive invariant says, for every core inside a span,
  how the tiles already processed (`tileOrdinal`) correspond to the position in
  the intervals, and that each live accumulator row counts exactly the keys of the
  row schedule below that position. `ExactRows` alone is not inductive: it says
  nothing until the last tile has been processed. The first half of the
  module is the pure part: spans partition the query tile, intervals cover the keys of all
  rows of the span, tiles partition an interval, and the mask cuts a tile down to
  the row schedule.
* `StatsTypeCorrect`, `NoOverdue`, `BoundariesGrow`, `LogIsComplete`,
  `BoundaryPlansReported`, `PlansCountedOnce` (`RuntimeStatsProofs`), for any number
  of threads, plans, calls and any queue capacities. The invariant of the first three
  adds two facts: an overdue boundary has a delta in the queue and a thread between
  its calls (so some thread is still to ask for the log), and the next boundary is a
  multiple of the interval above the last one. The accounting adds, for each of the
  four sums in play (planner deltas, layer samples, recent plans, counted plans),
  how one call changes it; `Total` is a cardinality, not a fold, so that a sum with
  one entry more, less or changed can be compared with the old one by the facts about
  finite sets.
* `TypeInvariant`, `LaunchesFresh`, `UsesKnownPrompt`, `RecordsOnePlan`,
  `CapturesAreReal` (`PlanCacheProofs`), for any number of addresses, cores, prompts,
  layers and steps and any capacity of the side stores; the addresses are finite in
  number (`PlanCacheAssumption`), which is all that the model says of memory. None of
  the four properties is inductive: each speaks of what is used or recorded at one
  moment. The invariant says what the objects of the step are once built, and once
  the wrapper has been there (`Leaves`); what an entry tells of the prompt it was
  planned from (`Sound`, `Objects`, `CommonKept`); and that the entry a layer recorded
  is the one the next layer will find again (`OneEntry`). In a side store this last
  part holds because only objects of the step are stored behind the entry: to evict
  it they would have to be more than its `Capacity`, which is a fact about the
  cardinality of a finite set. The proof does not use that a store may keep its
  objects alive (`Pinned`): the identity kept with an entry settles that.

* `PatchesAllOrNothing`, `NeverWrappedTwice` (`PluginRegistrationProofs`), for any number of
  threads, calls and copies of the module. `AllOrNothing` speaks of free locks; the
  invariant says what the holder of a lock knows of the attributes of its patch at
  each place (`Knows`): after `k` assignments exactly the first `k` names are changed
  and the rest are as captured; while rolling back the last ones are put back. It
  depends on the names the patch owns alone, and the two patches own different ones,
  so the steps of one thread cannot disturb what another knows. What vLLM-Ascend may
  be is the set `Snapshot`: the functions a patch wraps are visible through the class,
  because the signature check looks them up before anything is changed, and the names
  that only the plugin defines (`Added`) are absent.
* `EnvironmentChangesOnce`, `ReadyLayersCanLaunch`, `BootstrapImplements`
  (`DeploymentProofs`), for any number of backends and other loaders, all facts
  and any environment. The invariant says that a constructor inside the load is
  alone, that nothing is loaded, that the inspection has accepted the facts, and
  where the environment found is kept (`LoaderKnows`); that of the libraries loaded only
  the one whose path the loader keeps registers the operator, which somebody then has
  registered (`AdapterKnown`); and that a
  loaded status has the bundle behind it (`LoadedIsUsable`, `EnvironmentKnown`).
  `CompatibleFacts` derives from an empty list of errors what
  `ReadyIsUsable` says of the versions, the bundle and the device. The refinement is
  by steps: `Reuse` and a load that succeeds are `TellPresent`, every failure is
  `TellAbsent`, because it is told while nothing is loaded, and the rest stutters.

* `ReleasedWheelsSound`, `UnsoundStayInside`, `BatchesAreWhole`, `ComparisonsSound`
  (`DeploymentProofs`), for any number of pipelines and of starts, any levels and number
  of faults, any number of cycles, machines and builds. `WheelsSound` and `BatchesWhole` speak of the end of a run; the
  invariants say what is known at each stage on the way.
  *Wheels*: the flaws that the gates behind a pipeline have ruled out (`RuledOut`), and
  that a write to the official packages shows in the manifests until they are compared
  (`KnowsBuild`); what a pipeline has in its output directory (`KnowsOutput`).
  `ReleasedWheelsSound` takes `OwnDirectories` as a hypothesis: no two pipelines have the
  same output directory or report. It is what the tool's users are asked for, and it is
  needed: a report file may be replaced, as said above. `UnsoundStayInside` is the part that
  needs no such condition.
  *Batches*: while the engine stays paused it holds what was added and has stepped
  nothing (`Unstepped`); once the pause has been verified the ids are the whole level, so
  a step, also one after a resume by someone else, takes all of it (`Stepped`), and a
  task that is done shows which of the two is the case. After a fault, what the engine
  and the tasks may still be depends on the place in the clean-up (`RunningKnown`,
  `TasksKnown`, `PauseKnown`).
  *Comparison*: contents are numbered in the order they are built, so what a process
  audits is at most what its engine imports, and that at most what the next one audits
  (`ChildOrdered`, `RunsOrdered`). One fingerprint closes the chain for all engines but the
  last. An engine is alive only while the controller waits for its process
  (`OneProcess`); a run shows the latency of its variant and the drift up to it
  (`RunsDrift`), and the places of `ORDER` are symmetric, so the drift goes.

* `ProtocolTypeCorrect`, `ScoresNotOverwritten`, `ProbabilitiesNotOverwritten`,
  `OutputsNotOverwritten`, `FlagsNeverPileUp` (`TileProofs`), for any
  number of Vector cores and tiles. The invariant orders the events of each core
  (`CubeOrder`, `VectorOrder`) and says that a flag counts the signals not yet
  waited for (`FlagCounts`). Neither half alone is inductive: that the Cube has
  not begun the next tile's scores follows from its own pipe order only together
  with the softmax flags it waited for in between.
* `PipesDoNotRace`, `PipesReadTheirTile`, `PipesDrainEvents`, `PipesNeverStuck`,
  `PipesImplementProtocol` (`PipelineProofs`), for every interleaving of the pipes and
  any depths of events and flags. The program of a launch is folded from its tiles, so
  what its instructions are cannot be proved for every launch; what their order implies
  can. The theorems take that order as a hypothesis: a *clock*, which says of each
  instruction how far every pipe is when it starts. `Ordered` asks of a clock that it
  claims no more than program order, the waits of the scalar unit and the events give;
  that two accesses of different pipes to a buffer one of them writes are ordered; and
  that what is read was written last by the right instruction. `Ranked` asks for one
  order in which the launch can be executed with the room there is; `KeepsProtocol`
  that each marked instruction comes when the protocol wants it. They are conditions
  on the queues alone, so TLC evaluates them without exploring any interleaving, with
  clocks and ranks read off one execution: `WorksOrdered` does so for seven launches,
  the one that the run `pipeline` explores among them, and each of the slips kept in
  `MixProgram` makes them false. The order is not the interleaving: that an event set
  by one instruction is taken by the wait it was meant for is what has to be shown. It
  follows from counting: an event is set in one pipe and waited for in one pipe, and
  what is pending of it is the sets executed less the waits executed (`Counted`), so
  the n-th wait takes the n-th set (`PredecessorsExecuted`). The invariant adds that
  what the clock puts before an executed instruction is executed (`Clocked`) and that a
  buffer holds what its last executed writer put there (`LastWritten`). Nothing is ever
  stuck because the open instruction of the lowest rank can be executed (`NotStuck`).
  For the refinement the progress of a core is the number of its marked instructions
  executed (`Progressed`), which the clock bounds from both sides (`DoneBetween`).
* `GatherTypeCorrect`, `RowsMatchReference`, `ScoresMatchReference`,
  `FragmentsStayInPage` (`TileProofs`), for any page, subtile and tile
  size. The invariant is `TypeOK`, `RowsResolved` and `ScoresResolved`, which
  speak of the rows copied so far. `CacheAssumption`, that the cache has at most
  2^32 elements, is needed: the fast path forms 64-bit offsets and the reference
  kernel 32-bit ones, so beyond it the two address different elements.

* `LayerTypeCorrect`, `VerdictNeverStale`, `GatesSuffice`, `RowsOfOneRoute`,
  `CapturesUncounted` (`PrefillProofs`), for any tensors, calls and number of
  calls. The invariant says that the signature kept with a verdict determines the
  verdict whatever tensors it was taken of (`VerdictOfSignature`: an address used
  again by another tensor of the same signature has the same verdict), what has
  passed the gates when a launch is made (`GatesPassed`), and what is recorded and by
  whom the rows are written at each place of a call (`Recorded`). `GatesSuffice` goes
  through the checkers one at a time: each reason of the later ones is excluded by a
  reason of the gates that did not apply; the sparse middle that the kernel module asks
  for is the plan's. What no gate looks at stands in `GatesCoverRejections` itself. It rests on `DirectLayerAssumption`, which
  is what `PlansFitLayers`, below, says of plans.
* `PlannerTypeCorrect`, `DirectHasNoReason`, `DirectIsEligible`, `DirectIsAccepted`,
  `PlansFitLayers`, `SavedCountsSkips` (`PrefillProofs`), for any configuration, prompt and chunking below the
  modulus (`PlannerAssumption`). The plan is the plan of the last step
  (`PlanOfStep`); the rest is about one request: a plan without a reason is of one
  request whose lengths are ordered, so `TilingFunc` accepts them. For `SavedCountsSkips`
  the closed form of `triangle_saved_qk` is compared with the pairs skipped: row by row
  these form a staircase, and two copies of it a rectangle (`StairPairs`), so the
  product halved is the number of pairs; chunks launch disjoint rows, so the numbers
  add up. The count is of the supported geometry, which the eligibility asks for.

The theorems about `MixProtocol` take `ProtocolAssumption` (a Vector core, a
number of tiles) as a hypothesis, so that `MixPipeline` may instantiate the
protocol. TLC reaches that module through `ProtocolSpec`.

Only model-checked: that the program of a launch has the order the theorems about the
pipes ask for (`WorksOrdered`), because it is a data structure folded from the tiles, and
for every list of tiles an induction over data;
what `_prepend_env_path` does to a list (the assumption `PrependedBundle` of
`MCNativeBootstrap`, evaluated for every list of up to five items: for every list it
is an induction over data; the proofs take `Prepended` as it is); that a PASS of a smoke mode
and the final report are true (`PassIsTrue`, `ByRulesPasses`, `ReportIsTrue`), because
the gates fold a log; and, within
`ToolsEnd`, that a comparison by the rules passes: its target compares sums over all
runs, an induction over data. Liveness (`Completes`, `EveryAskAnswered`, `ToolsEnd`) is out
of reach of the prover, as is what a recursive definition computes for every input.

## Plan

Done, in this order: the schedule and the kernel with its refinement and proofs;
the plan cache; the statistics and its proofs; the ownership protocol with its
proofs and the pipeline that implements it; the gather and its proofs; the
registration; the native bootstrap; the planner and the direct layer with their
proofs; the model smoke; the release tools.

Then the proofs of the plan cache, of the accounting of the statistics, of the
saved pairs, of the registration and of the bootstrap; of the release tools;
of the pipes.

Left: what the prover cannot do, listed under "Only model-checked".

## Not modelled

* *Configuration*: a pure resolution of settings from a section, the environment
  and defaults; each owner does it once. The other modules take the settings as
  constants.
* *Packaging*: the two `setup.py` scripts copy files.
* *Release validation*: `run.py` dispatches; the installed-wheel correctness and
  crossover drivers, like the *device harness*, make one call after another on a
  device and compare or time the result. What they show is numerical.
* *Vendored CANN templates* beyond what the fast path instantiates: third-party code.
* *Numeric accuracy* of the attention, and the *host tests*, which hold no state of
  the system.
