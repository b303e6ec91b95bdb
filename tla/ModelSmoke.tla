------------------------------ MODULE ModelSmoke -------------------------------
(***************************************************************************)
(* The model smoke test: a controller runs one worker process per mode, a  *)
(* worker runs its scenarios on a fresh engine, and the engine's plugin    *)
(* logs every scheduler step.  The controller sees only the log, the       *)
(* report file and the exit of the process, each of which may be missing,  *)
(* late or of another run; the gates must not pass what did not happen.    *)
(* A step that departs from the plugin's rules, a second worker, a reset   *)
(* of the statistics or a lost cache block is a deviation.                 *)
(***************************************************************************)
EXTENDS SmokeGates, SequencesExt

CONSTANTS
    ModeLists,       \* the values of --modes considered
    Layers,          \* selected layers of the model
    Chunks,          \* prefill chunks of the long prompts
    DecodeTokens,    \* --decode-tokens
    LoneTail,        \* 1 when the decode prompt ends in a chunk of one token
    MaxDeviations    \* bound on the departures in each worker of a list

ASSUME SmokeAssumption ==
    /\ MaxDeviations \in [ModeLists -> Nat]
    /\ Layers \in Nat \ {0} /\ Chunks \in Nat \ {0}
    /\ DecodeTokens \in Nat \ {0, 1} /\ LoneTail \in {0, 1}
    /\ Levels \subseteq Nat \ {0}
    /\ ModeLists \subseteq Seq({"eager", "graph", "concurrency"})

VARIABLES
    modes,        \* modes still to run
    phase,        \* of the worker: "none", "idle", "serving", "exiting", "exited"
    index,        \* scenarios it has begun
    work,         \* requests waiting, their chunks, and the decode steps left
    log,          \* the output of the worker and of its engine
    stats,        \* TriangleMixRuntimeStats of the engine's process
    ranks,        \* worker processes of the engine
    cache,        \* prefix blocks the engine holds, as sequences
    cases,        \* cases the worker has completed
    cached,       \* cached tokens of the scenario's prompt
    files,        \* mode -> its report file
    code,         \* exit code, or "none" after a timeout
    steps,        \* the scheduler steps that took place
    deviations,   \* departures of this worker
    results,      \* what the controller recorded for each mode
    report        \* the status of the final report

worker == << phase, index, work, log, stats, ranks, cache, cases, cached, code,
             steps, deviations >>
smokeVars == << modes, worker, files, results, report >>

-----------------------------------------------------------------------------
(* The scenarios of a worker.                                              *)

Scenarios(mode) ==
    CASE mode = "eager" ->
             << Chunked, Seed, Repeat, Shared, Batch2, Decode, Flush >>
      [] mode = "graph" -> << Replay, Flush >>
      [] mode = "concurrency" ->
             LET sorted == SetToSortSeq(Levels, <)
             IN  [i \in DOMAIN sorted |-> Level(sorted[i])]

Current == Scenarios(Head(modes))[index]

ModeList == [i \in DOMAIN results |-> results[i].mode] \o modes

SharedPrefix == << "p", "q" >>
Prompt(name) ==
    IF name \in {Seed, Repeat} THEN SharedPrefix \o << "a" >>
    ELSE IF name = Shared THEN SharedPrefix \o << "b" >> ELSE << >>

MaxTokens(name) == IF name \in {Decode, Replay} THEN DecodeTokens ELSE 1

Tokens(name) ==
    IF name = Chunked THEN Chunks * ChunkBudget + 1
    ELSE Len(Prompt(name)) * BlockSize

NoWork == [waiting |-> 0, chunks |-> 0, decodes |-> 0]

WorkOf(name) ==
    [waiting |-> name.requests,
     chunks |-> IF name \in {Chunked, Decode} THEN Chunks ELSE 1,
     decodes |-> MaxTokens(name) - 1 + IF name = Decode THEN LoneTail ELSE 0]

(* The longest cached prefix that leaves a token to compute.               *)
Hits(prompt) ==
    LET usable == IF prompt = << >> THEN 0
                  ELSE (Len(prompt) * BlockSize - 1) \div BlockSize
    IN  BlockSize * Max({k \in 0 .. usable :
                            \A i \in 1 .. k : SubSeq(prompt, 1, i) \in cache})

-----------------------------------------------------------------------------
(* The engine: a scheduler step of k requests whose plan has this reason,  *)
(* launched by its last layers; every layer exports a snapshot.            *)

After(k, reason, launches, layers) ==
    LET direct == Max({0, launches - (Layers - layers)})
        fell == IF reason = "none" THEN "kv_unsupported" ELSE reason
        added(name) ==
            CASE name = "request_total" -> k
              [] name = "request_planner_eligible" ->
                     IF reason = "none" THEN k ELSE 0
              [] name = "request_planner_ineligible" ->
                     IF reason = "none" THEN 0 ELSE k
              [] name \in {"layer_direct", "single_launch"} -> direct
              [] name = "layer_fia" -> layers - direct
    IN  [counters |-> [name \in CounterNames |-> stats.counters[name] + added(name)],
         reasons |-> [r \in Reasons |->
                         stats.reasons[r] + IF r = reason THEN k ELSE 0],
         layerReasons |-> [r \in Reasons |->
             stats.layerReasons[r] + IF r = fell THEN layers - direct ELSE 0]]

Exported(k, reason, launches) ==
    FlattenSeq([l \in 1 .. Layers |-> [w \in 1 .. ranks |->
                    Event(w, After(k, reason, launches, l))]])

(* The reasons the plugin gives to a step of k requests.                   *)
RuleReasons(k, decode) ==
    IF decode THEN {"state_unsupported"}
    ELSE IF k > 1 THEN {"batch_unsupported"}
    ELSE IF Current = Chunked /\ work.chunks = 1 THEN {"none"}
    ELSE IF Current \in {Chunked, Decode} THEN {"none", "below_min"}
    ELSE {"below_min"}

RuleLaunches(reason) == IF reason = "none" THEN Layers ELSE 0

(* The step is by the rules, or departs from them once more.               *)
Deviates(departs) ==
    /\ deviations' = deviations + IF departs THEN 1 ELSE 0
    /\ deviations' <= MaxDeviations[ModeList]

Step(k, reason, launches, decode) ==
    /\ phase = "serving"
    /\ log' = log \o Exported(k, reason, launches)
    /\ stats' = After(k, reason, launches, Layers)
    /\ steps' = Append(steps, [name |-> Current, size |-> k, reason |-> reason,
                               launches |-> launches, decode |-> decode])
    /\ UNCHANGED << modes, phase, index, ranks, cache, cases, cached, files,
                    code, results, report >>

Departs(k, reason, launches, decode) ==
    reason \notin RuleReasons(k, decode) \/ launches # RuleLaunches(reason)

(* One chunk of a long prompt, or the prompts of k requests; the engine    *)
(* paused for a concurrency level holds all of its requests when it        *)
(* resumes.                                                                *)
Prefill(k, reason, launches) ==
    /\ k <= work.waiting /\ (work.chunks > 1 => k = 1)
    /\ Deviates(\/ Departs(k, reason, launches, FALSE)
                \/ Current.case = "concurrency" /\ k < work.waiting)
    /\ Step(k, reason, launches, FALSE)
    /\ work' = IF work.chunks > 1 THEN [work EXCEPT !.chunks = @ - 1]
               ELSE [work EXCEPT !.waiting = @ - k]

DecodeStep(reason, launches) ==
    /\ work.waiting = 0 /\ work.decodes > 0
    /\ Deviates(Departs(1, reason, launches, TRUE))
    /\ Step(1, reason, launches, TRUE)
    /\ work' = [work EXCEPT !.decodes = @ - 1]

(* A request preempted and computed again, or one nobody asked for.        *)
ExtraStep(reason) ==
    /\ Deviates(TRUE)
    /\ Step(1, reason, RuleLaunches(reason), FALSE)
    /\ UNCHANGED work

(* Someone else calls stats_snapshot(reset=True).                          *)
ResetStats ==
    /\ phase \in {"idle", "serving"} /\ stats # ZeroStats
    /\ Deviates(TRUE)
    /\ stats' = ZeroStats
    /\ UNCHANGED << modes, phase, index, work, log, ranks, cache, cases, cached,
                    files, code, steps, results, report >>

Evict ==
    /\ phase = "idle" /\ cache # {}
    /\ Deviates(TRUE)
    /\ \E block \in cache : cache' = cache \ {block}
    /\ UNCHANGED << modes, phase, index, work, log, stats, ranks, cases, cached,
                    files, code, steps, results, report >>

-----------------------------------------------------------------------------
(* The worker.                                                             *)

(* A fresh process and engine; a graph engine captures its graphs, which   *)
(* counts layers and plans nothing.                                        *)
Launch(captured, size) ==
    /\ phase = "none" /\ modes # << >>
    /\ captured => Head(modes) = "graph"
    /\ Deviates(size > 1 \/ captured # (Head(modes) = "graph"))
    /\ stats' = [ZeroStats EXCEPT
                    !.counters["layer_fia"] = IF captured THEN Layers ELSE 0,
                    !.layerReasons["graph_capture"] =
                        IF captured THEN Layers ELSE 0]
    /\ steps' = IF captured THEN << [name |-> Flush, size |-> 0, launches |-> 0,
                                     reason |-> "graph_capture", decode |-> FALSE] >>
                ELSE << >>
    /\ ranks' = size
    /\ phase' = "idle"
    /\ UNCHANGED << modes, index, work, log, cache, cases, cached, files, code,
                    results, report >>

(* _run_case and a level of _run_concurrency; the prefix cache is reset    *)
(* before it is seeded.                                                    *)
OpenScenario ==
    /\ phase = "idle" /\ index < Len(Scenarios(Head(modes)))
    /\ index' = index + 1
    /\ LET name == Scenarios(Head(modes))[index']
       IN  /\ log' = Append(log, Marker("start", name))
           /\ work' = WorkOf(name)
           /\ cached' = IF name = Seed THEN 0 ELSE Hits(Prompt(name))
           /\ cache' = IF name = Seed THEN {} ELSE cache
    /\ phase' = "serving"
    /\ UNCHANGED << modes, stats, ranks, cases, files, code, steps, deviations,
                    results, report >>

CloseScenario ==
    /\ phase = "serving" /\ work.waiting = 0 /\ work.decodes = 0
    /\ LET prompt == Prompt(Current)
       IN  /\ cache' = cache \cup {SubSeq(prompt, 1, i) : i \in DOMAIN prompt}
           /\ cases' = cases \cup
                  {[name |-> Current, status |-> "PASS", prompt |-> prompt,
                    tokens |-> Tokens(Current), cached |-> cached,
                    maxTokens |-> MaxTokens(Current)]}
    /\ log' = Append(log, Marker("end", Current))
    /\ work' = NoWork
    /\ phase' = "idle"
    /\ UNCHANGED << modes, index, stats, ranks, cached, files, code, steps,
                    deviations, results, report >>

(* The report of an exception, and what a missing file stands for.         *)
NoReport == [status |-> "FAIL", cases |-> {}, prefixTokens |-> 0]

WriteReport(written) == files' = [files EXCEPT ![Head(modes)] = written]

Finish ==
    /\ phase = "idle" /\ index = Len(Scenarios(Head(modes)))
    /\ WriteReport([status |-> "PASS", cases |-> cases,
                    prefixTokens |-> Len(SharedPrefix) * BlockSize])
    /\ phase' = "exiting" /\ code' = 0
    /\ UNCHANGED << modes, index, work, log, stats, ranks, cache, cases, cached,
                    steps, deviations, results, report >>

(* An exception anywhere in _run; strict mode raises failed launches.      *)
Raise ==
    /\ phase \in {"idle", "serving"}
    /\ WriteReport(NoReport)
    /\ phase' = "exiting" /\ code' = 1
    /\ UNCHANGED << modes, index, work, log, stats, ranks, cache, cases, cached,
                    steps, deviations, results, report >>

(* The process exits and its output ends; an engine process that outlives  *)
(* it keeps the pipe open, and the run is over only by the timeout.        *)
Exit(status) ==
    /\ phase' = "exited" /\ code' = status
    /\ UNCHANGED << modes, index, work, log, stats, ranks, cache, cases, cached,
                    files, steps, deviations, results, report >>

ExitNormally == phase = "exiting" /\ Exit(code)
Crash == phase \in {"idle", "serving", "exiting"} /\ Exit(2)

-----------------------------------------------------------------------------
(* The controller.                                                         *)

(* subprocess.run kills the process; 3 stands for no return code.          *)
Timeout == phase \in {"idle", "serving", "exiting"} /\ Exit(3)

(* What did not happen of what a PASS of the mode claims.                  *)
StepsOf(name) == SelectSeq(steps, LAMBDA s : s.name = name)

Broken(mode) ==
    LET all(name, P(_)) == \A i \in DOMAIN StepsOf(name) : P(StepsOf(name)[i])
        size(name) == FoldSeq(LAMBDA s, n : s.size + n, 0, StepsOf(name))
        decodes == {i \in DOMAIN StepsOf(Decode) : StepsOf(Decode)[i].decode}
        direct == ~all(Chunked, LAMBDA s : s.launches = 0)
        batch == /\ size(Batch2) = 2
                 /\ all(Batch2, LAMBDA s : s.launches = 0 /\ s.reason # "none")
        decode == /\ Cardinality(decodes) = DecodeTokens
                  /\ all(Decode, LAMBDA s : s.decode => s.launches = 0)
        levels == \A n \in RequiredLevels :
                      /\ Len(StepsOf(Level(n))) = 1
                      /\ all(Level(n), LAMBDA s : s.size = n /\ s.launches = 0)
        capture == /\ \A i \in DOMAIN steps : steps[i].launches = 0
                   /\ steps # << >> /\ steps[1].size = 0
    IN  IF mode = "eager"
        THEN {c \in {"direct", "batch", "decode"} :
                 ~CASE c = "direct" -> direct
                    [] c = "batch" -> batch
                    [] c = "decode" -> decode}
        ELSE IF mode = "graph" THEN {c \in {"capture"} : ~capture}
        ELSE {c \in {"levels"} : ~levels}

Verdict(mode) ==
    IF code = 0 THEN Evaluate(mode, files[mode], log) ELSE "FAIL"

(* The rest of _run_worker; the next worker starts from nothing, except    *)
(* for the report files.                                                   *)
Collect ==
    /\ phase = "exited"
    /\ results' = Append(results,
           [mode |-> Head(modes), status |-> Verdict(Head(modes)), code |-> code,
            broken |-> Broken(Head(modes)),
            byRules |-> code = 0 /\ deviations = 0,
            split |-> Len(StepsOf(Batch2)) # 1])
    /\ modes' = Tail(modes)
    /\ phase' = "none" /\ index' = 0 /\ work' = NoWork /\ log' = << >>
    /\ stats' = ZeroStats /\ ranks' = 1 /\ cache' = {} /\ cases' = {}
    /\ cached' = 0 /\ code' = 0 /\ steps' = << >> /\ deviations' = 0
    /\ UNCHANGED << files, report >>

AllModes == {"eager", "graph", "concurrency"}

(* A slip: the runs are kept by mode, the last one of a mode counts.       *)
MainStatusByMode(rs) ==
    IF \A m \in AllModes :
           \E i \in DOMAIN rs :
               /\ rs[i].mode = m /\ rs[i].status = "PASS"
               /\ \A j \in DOMAIN rs : j > i => rs[j].mode # m
    THEN "PASS" ELSE "FAIL"

MainStatus(rs) ==
    IF /\ {rs[i].mode : i \in DOMAIN rs} = AllModes
       /\ \A i \in DOMAIN rs : rs[i].status = "PASS"
    THEN "PASS" ELSE "FAIL"

Conclude ==
    /\ modes = << >> /\ report = "none"
    /\ report' = MainStatus(results)
    /\ UNCHANGED << modes, worker, files, results >>

SmokeInit ==
    /\ modes \in ModeLists
    /\ phase = "none" /\ index = 0 /\ work = NoWork /\ log = << >>
    /\ stats = ZeroStats /\ ranks = 1 /\ cache = {} /\ cases = {} /\ cached = 0
    /\ files = [m \in AllModes |-> NoReport]
    /\ code = 0 /\ steps = << >> /\ deviations = 0
    /\ results = << >> /\ report = "none"

Engine ==
    \/ \E reason \in Reasons \cup {"none"}, launches \in {0, 1, Layers} :
           \/ \E k \in 1 .. work.waiting : Prefill(k, reason, launches)
           \/ DecodeStep(reason, launches)
    \/ \E reason \in Reasons \cup {"none"} : ExtraStep(reason)
    \/ ResetStats
    \/ Evict

SmokeNext ==
    \/ \E captured \in BOOLEAN, size \in 1 .. 2 : Launch(captured, size)
    \/ OpenScenario \/ CloseScenario \/ Finish \/ Raise
    \/ Engine
    \/ ExitNormally \/ Crash
    \/ Timeout \/ Collect \/ Conclude

SmokeSpec == SmokeInit /\ [][SmokeNext]_smokeVars

-----------------------------------------------------------------------------
Passed(i) == results[i].status = "PASS"

(* A PASS of a mode is of a worker that ended by itself and did what its   *)
(* gates are there to show, whatever departed from the plugin's rules and  *)
(* whatever reports earlier workers have left: a sparse launch, the batch  *)
(* and the decode steps on the official kernel (eager); graphs captured    *)
(* and nothing launched (graph); every level planned in one step of all    *)
(* its requests, without a launch (concurrency).                           *)
PassIsTrue ==
    \A i \in DOMAIN results :
        Passed(i) => results[i].code = 0 /\ results[i].broken = {}

(* A worker whose engine kept the plugin's rules passes; the two requests  *)
(* of the batch are admitted in steps of their own.                        *)
ByRulesPasses ==
    \A i \in DOMAIN results :
        results[i].byRules /\ results[i].split => Passed(i)

(* The final report, from end to end: a PASS is of a release in which all  *)
(* three modes took place, and every worker that ran, those of a repeated  *)
(* mode too, ended by itself and did what its gates are there to show; a   *)
(* FAIL is of one with a mode missing or a worker that did not end by      *)
(* itself, departed from the rules or saw its batch in one step.           *)
ReportIsTrue ==
    LET ran == {results[i].mode : i \in DOMAIN results}
    IN  /\ report = "PASS" =>
               /\ AllModes \subseteq ran
               /\ \A i \in DOMAIN results :
                     results[i].code = 0 /\ results[i].broken = {}
        /\ report = "FAIL" =>
               \/ ~(AllModes \subseteq ran)
               \/ \E i \in DOMAIN results :
                     ~(results[i].byRules /\ results[i].split)
=============================================================================
