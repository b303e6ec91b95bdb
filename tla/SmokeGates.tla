------------------------------ MODULE SmokeGates ------------------------------
(***************************************************************************)
(* The gates of the model smoke test: what its controller concludes from   *)
(* the log and the report of one worker.  A gate reads the differences     *)
(* between the snapshots inside a scenario and the last one before it.     *)
(***************************************************************************)
EXTENDS StatsEvents

CONSTANTS
    Levels,         \* concurrency_levels of the worker
    RequiredLevels, \* the levels a release needs: 1, 2, 4, 8 and 16
    BlockSize,      \* tokens of a prefix-cache block
    ChunkBudget     \* max_num_batched_tokens

Scenario(case, requests) == [case |-> case, requests |-> requests]

Chunked == Scenario("chunked_prefill", 1)
Seed == Scenario("prefix_cache_seed", 1)
Repeat == Scenario("prefix_cache_repeat", 1)
Shared == Scenario("prefix_cache_shared", 1)
Batch2 == Scenario("batch2_fallback", 2)
Decode == Scenario("sustained_decode", 1)
Replay == Scenario("graph_capture_replay", 1)
Level(n) == Scenario("concurrency", n)
Flush == Scenario("counter_flush", 1)

(* A gate passes only for one worker, whose scenario is marked.            *)
OneWorker(log, name) == MarkedOnce(log, name) /\ Cardinality(Workers(log)) = 1

TheWorker(log) == CHOOSE w \in Workers(log) : TRUE

(* The events inside by which the requests have advanced.                  *)
Progressed(log, name) ==
    LET w == TheWorker(log)
        base == Baseline(log, w, name).counters["request_total"]
    IN  {i \in Inside(log, w, name) : Counter(log, i, "request_total") > base}

LaunchDelta(log, name) ==
    LET w == TheWorker(log)
        base == Baseline(log, w, name).counters["single_launch"]
        inside == {Counter(log, i, "single_launch") : i \in Inside(log, w, name)}
    IN  IF inside = {} THEN 0 ELSE Max(inside) - base

(* A slip: the launches of the later layers are not looked at.             *)
SchedulerBatchGateFirst(log, name, expected) ==
    LET base == Baseline(log, TheWorker(log), name)
        progressed == Progressed(log, name)
        first == log[Min(progressed)].stats
        delta(kind, key) == first[kind][key] - base[kind][key]
    IN  /\ OneWorker(log, name)
        /\ progressed # {}
        /\ delta("counters", "request_total") = expected
        /\ delta("counters", "single_launch") = 0
        /\ delta("reasons", "batch_unsupported") =
               IF expected > 1 THEN expected ELSE 0

(* The first step planned the whole level, and nothing was launched.       *)
SchedulerBatchGate(log, name, expected) ==
    LET base == Baseline(log, TheWorker(log), name)
        progressed == Progressed(log, name)
        first == log[Min(progressed)].stats
        delta(kind, key) == first[kind][key] - base[kind][key]
    IN  /\ OneWorker(log, name)
        /\ progressed # {}
        /\ delta("counters", "request_total") = expected
        /\ delta("counters", "single_launch") = 0
        /\ LaunchDelta(log, name) = 0
        /\ delta("reasons", "batch_unsupported") =
               IF expected > 1 THEN expected ELSE 0

(* A logical batch admitted in steps: its requests, and as many distinct   *)
(* totals, without a launch and with an official reason for each.          *)
SplitFallbackGate(log, name, expected) ==
    LET base == Baseline(log, TheWorker(log), name)
        progressed == Progressed(log, name)
        final == log[Max(progressed)].stats
        totals == {Counter(log, i, "request_total") : i \in progressed}
    IN  /\ OneWorker(log, name)
        /\ progressed # {}
        /\ Max(totals) - base.counters["request_total"] = expected
        /\ Cardinality(totals) >= expected
        /\ LaunchDelta(log, name) = 0
        /\ SumOver(Reasons, LAMBDA r :
               Max({0, final.reasons[r] - base.reasons[r]})) >= expected

DirectDeltaGate(log, name) == OneWorker(log, name) /\ LaunchDelta(log, name) > 0

(* state_unsupported advances by one request in each of the decode steps,  *)
(* and nothing is launched from the first of them on.                      *)
DecodeOfficialGate(log, steps) ==
    LET w == TheWorker(log)
        reason(i) == log[i].stats.reasons["state_unsupported"]
        base == Baseline(log, w, Decode).reasons["state_unsupported"]
        relevant == {i \in Inside(log, w, Decode) : reason(i) > base}
    IN  /\ OneWorker(log, Decode)
        /\ relevant # {}
        /\ Max({reason(i) : i \in relevant}) - base = steps
        /\ Cardinality({reason(i) : i \in relevant}) = steps
        /\ Cardinality({Counter(log, i, "request_total") : i \in relevant}) = steps
        /\ Cardinality({Counter(log, i, "single_launch") : i \in relevant}) = 1

-----------------------------------------------------------------------------
(* The checks of a mode.  A report is its status and its cases; a case has *)
(* its prompts as sequences of blocks with their tokens, and what the      *)
(* engine answered.                                                        *)

CaseOf(report, name) == {c \in report.cases : c.name = name}

CasePassed(report, name) ==
    \E c \in CaseOf(report, name) : c.status = "PASS"

(* The blocks two prompts begin with in common.                            *)
SharedBlocks(p, q) ==
    Max({k \in 0 .. Min({Len(p), Len(q)}) : \A i \in 1 .. k : p[i] = q[i]})

(* A slip: a repeated prompt is expected to be cached as a whole.          *)
PrefixChecksWhole(report) ==
    \A seed \in CaseOf(report, Seed), repeated \in CaseOf(report, Repeat) :
        /\ seed.cached = 0 /\ seed.prompt = repeated.prompt
        /\ repeated.cached = (repeated.tokens \div BlockSize) * BlockSize

(* The cached tokens the controller derives for itself: a repeated prompt  *)
(* computes its last token again, another one hits the shared prefix.      *)
PrefixChecks(report) ==
    \A seed \in CaseOf(report, Seed), repeated \in CaseOf(report, Repeat),
       shared \in CaseOf(report, Shared) :
        LET prefix == report.prefixTokens
            expected == ((repeated.tokens - 1) \div BlockSize) * BlockSize
        IN  /\ seed.cached = 0 /\ seed.prompt = repeated.prompt
            /\ prefix > 0 /\ prefix % BlockSize = 0
            /\ expected > 0 /\ repeated.cached = expected
            /\ shared.cached = prefix /\ shared.cached < shared.tokens
            /\ SharedBlocks(seed.prompt, shared.prompt) = prefix \div BlockSize

EagerChecks(log, report) ==
    /\ \A name \in {Chunked, Seed, Repeat, Shared, Batch2, Decode} :
           CasePassed(report, name)
    /\ \A c \in CaseOf(report, Chunked) : c.tokens > ChunkBudget
    /\ DirectDeltaGate(log, Chunked)
    /\ PrefixChecks(report)
    /\ SplitFallbackGate(log, Batch2, 2)
    /\ \A c \in CaseOf(report, Decode) :
           /\ c.maxTokens > 1
           /\ DecodeOfficialGate(log, c.maxTokens)

GraphChecks(log, report) ==
    /\ CasePassed(report, Replay)
    /\ Aggregate(log).layerReasons["graph_capture"] > 0
    /\ Aggregate(log).counters["single_launch"] = 0

(* A worker whose paused admission was incomplete has raised before it     *)
(* could report; PausedBatch is about that.                                *)
ConcurrencyChecks(log, report) ==
    LET sum(S) == SumOver(S, LAMBDA n : n)
    IN  /\ Levels = RequiredLevels
        /\ \A n \in Levels :
               /\ CasePassed(report, Level(n))
               /\ SchedulerBatchGate(log, Level(n), n)
        /\ Aggregate(log).counters["request_total"] = sum(Levels)
        /\ Aggregate(log).reasons["batch_unsupported"] = sum(Levels \ {1})

RequiredMarkers(mode) ==
    CASE mode = "eager" -> {Chunked, Batch2, Decode}
      [] mode = "graph" -> {Replay}
      [] mode = "concurrency" -> {Level(n) : n \in Levels}

Evaluate(mode, report, log) ==
    IF /\ report.status = "PASS"
       /\ Cardinality(Workers(log)) = 1
       /\ MarkersSound(log)
       /\ \A name \in RequiredMarkers(mode) : MarkedOnce(log, name)
       /\ CountersSound(log)
       /\ mode = "eager" => EagerChecks(log, report)
       /\ mode = "graph" => GraphChecks(log, report)
       /\ mode = "concurrency" => ConcurrencyChecks(log, report)
    THEN "PASS" ELSE "FAIL"
=============================================================================
