------------------------------ MODULE ReleaseTools ------------------------------
(***************************************************************************)
(* The release machine runs one of three tools at a time: the wheel         *)
(* pipelines, the concurrency worker of the smoke test, or the TTFT         *)
(* comparison.  Each is a module of its own; they share no state.           *)
(***************************************************************************)
EXTENDS Integers, Sequences, FiniteSets

CONSTANTS
    Pipeline, OutputOf, ReportOf, MaxStarts, MaxChanges,       \* WheelPipeline
    BatchLevels, MaxFaults,                                    \* PausedBatch
    Cycles, MinGainPercent, Latencies, Drifts, MaxBuilds       \* TtftAbba

VARIABLES
    tool,
    pipelinePc, build, baseline, official, output, named, starts, changes,
    workerPc, level, paused, ids, tasks, error, engine, collector, first,
    batches, faults, lapses,
    controllerPc, wheel, installed, machine, audited, child, engines, timedOut,
    runs, verdict, calm

Wheels == INSTANCE WheelPipeline WITH pc <- pipelinePc, report <- named
Batches == INSTANCE PausedBatch WITH pc <- workerPc, Levels <- BatchLevels
Comparison == INSTANCE TtftAbba WITH pc <- controllerPc, status <- verdict

ReleaseAssumption ==
    Wheels!WheelPipelineAssumption /\ Batches!PausedBatchAssumption
        /\ Comparison!TtftAssumption
ASSUME ReleaseAssumption

pipelines == <<pipelinePc, build, baseline, official, output, named, starts, changes>>
batch == <<workerPc, level, paused, ids, tasks, error, engine, collector, first,
           batches, faults, lapses>>
comparison == <<controllerPc, wheel, installed, machine, audited, child, engines,
                timedOut, runs, verdict, calm>>
releaseVars == <<tool, pipelines, batch, comparison>>

\* The machine of a comparison that does not take place.
AnyMachine == CHOOSE m \in [latency : Latencies, drift : Drifts] : TRUE

ReleaseInit ==
    /\ tool \in {"pipeline", "worker", "comparison"}
    /\ Wheels!Init /\ Batches!Init /\ Comparison!Init
    /\ tool # "comparison" => installed = 1 /\ machine = AnyMachine

Pipelines ==
    /\ tool = "pipeline" /\ Wheels!Next
    /\ UNCHANGED <<tool, batch, comparison>>

Worker(step) ==
    /\ tool = "worker" /\ step
    /\ UNCHANGED <<tool, pipelines, comparison>>

Controller(step) ==
    /\ tool = "comparison" /\ step
    /\ UNCHANGED <<tool, pipelines, batch>>

ReleaseNext == Pipelines \/ Worker(Batches!Next) \/ Controller(Comparison!Next)

ReleaseSpec == ReleaseInit /\ [][ReleaseNext]_releaseVars

\* The fairness of each tool: see FairSpec of PausedBatch and TtftAbba.
FairReleaseSpec ==
    /\ ReleaseSpec
    /\ WF_releaseVars(Worker(Batches!Worker /\ faults' = faults))
    /\ \A r \in Batches!Requests : WF_releaseVars(Worker(Batches!Drain(r)))
    /\ WF_releaseVars(Worker(Batches!EngineStep))
    /\ WF_releaseVars(Controller(Comparison!Controller))

-----------------------------------------------------------------------------
(* Properties *)

(* A wheel in an output directory has passed every gate, and is the one the report
   of a pipeline that ended names, whatever failed, was killed or ran beside it. *)
WheelsSound == Wheels!OnlySoundWheels /\ Wheels!ReportedIsThere

(* A concurrency level that returns ran as one engine step of all its requests;
   a worker that fails leaves no task, no request and no pause behind. *)
BatchesWhole ==
    Batches!BatchInOneStep /\ Batches!NothingLeftBehind /\ Batches!NotLeftPaused

(* A comparison that passes measured one wheel, and each process without the engine
   of another; the drift of the machine cancels in every cycle. *)
ComparisonSound ==
    /\ Comparison!OneWheelMeasured /\ Comparison!MeasuredAlone
    /\ Comparison!DriftCancels

(* The worker shuts its engine down whatever fails; the comparison comes to its report
   unless an engine stays alive for ever, and whenever it does so by the rules and
   with the gain asked for, the report is a PASS. *)
ToolsEnd ==
    /\ tool = "worker" => Batches!AlwaysShutsDown
    /\ tool = "comparison" => Comparison!AlwaysReports /\ []Comparison!ByRulesPasses
=============================================================================
