------------------------------ MODULE PausedBatch ------------------------------
(***************************************************************************)
(* The concurrency worker of the release smoke test                         *)
(* (src/release_validation/model_smoke_worker.py).  For every concurrency    *)
(* level it admits a whole batch into a paused vLLM engine, checks that the  *)
(* engine is still paused, starts one collector task per request, resumes    *)
(* the engine and waits for the tasks.  On any exception it ends the tasks,  *)
(* aborts what it admitted and lifts the pause, and it always shuts the      *)
(* engine down.                                                             *)
(*                                                                         *)
(* Every await may fail: the engine's call raises before or after it took    *)
(* effect, or the coroutine is cancelled there.  MaxFaults bounds the faults *)
(* of a run.  The engine, its pause and its collectors are vLLM's; they are  *)
(* modelled from what the worker asks of them.                              *)
(***************************************************************************)
EXTENDS Integers, Sequences, FiniteSets

CONSTANTS
    Levels,      \* the concurrency levels of the run, in order
    MaxFaults    \* failures and cancellations in one behaviour

PausedBatchAssumption ==
    /\ Levels \in Seq(Nat \ {0}) /\ Levels # <<>>
    /\ MaxFaults \in Nat

VARIABLES
    level,      \* the level being run
    pc,         \* where the worker's coroutine is
    paused,     \* the local variable `paused`
    ids,        \* the requests whose add_request returned: request_ids
    tasks,      \* the collector task of each request
    error,      \* the exception in flight
    engine,     \* the engine: up, dead or shut; paused; the requests it holds
    collector,  \* what the engine put into each request's collector
    first,      \* the requests of the first engine step of the level
    batches,    \* history: the levels that returned, with their first step
    faults,     \* faults so far
    lapses      \* history: calls that failed behind the worker's back

worker == <<level, pc, paused, ids, tasks, error>>
history == <<batches, lapses>>
vars == <<worker, engine, collector, first, faults, history>>

Requests == UNION {1 .. Levels[i] : i \in DOMAIN Levels}
Batch == 1 .. Levels[level]
Errors == {"Exception", "Cancelled"}
Ended == {"none", "done", "failed", "cancelled"}
Cleanup == {"reap", "abort", "finally", "reresume"}
NoTasks == [r \in Requests |-> "none"]

Init ==
    /\ level = 1 /\ pc = "pause" /\ paused = FALSE /\ ids = {} /\ tasks = NoTasks
    /\ error = "none"
    /\ engine = [state |-> "up", paused |-> FALSE, running |-> {}]
    /\ collector = [r \in Requests |-> "empty"]
    /\ first = {} /\ batches = <<>> /\ faults = 0 /\ lapses = {}

-----------------------------------------------------------------------------
(* The engine *)

\* A step of an engine that is not paused: the prompts of a level fit one token
\* budget and ask for one token, so it runs and finishes every request it holds.
EngineStep ==
    /\ engine.state = "up" /\ ~engine.paused /\ engine.running # {}
    /\ first' = IF first = {} THEN engine.running ELSE first
    /\ collector' = [r \in Requests |->
                        IF r \in engine.running THEN "output" ELSE collector[r]]
    /\ engine' = [engine EXCEPT !.running = {}]
    /\ UNCHANGED <<worker, faults, history>>

\* Someone else lifts the pause: the case `is_paused` is asked about.
EngineResumes ==
    /\ engine.state = "up" /\ engine.paused /\ faults < MaxFaults
    /\ engine' = [engine EXCEPT !.paused = FALSE]
    /\ faults' = faults + 1
    /\ UNCHANGED <<worker, collector, first, history>>

\* The engine process dies: every collector still waiting gets an exception.
EngineDies ==
    /\ engine.state = "up" /\ faults < MaxFaults
    /\ engine' = [engine EXCEPT !.state = "dead", !.running = {}]
    /\ collector' = [r \in Requests |->
                        IF r \in engine.running THEN "error" ELSE collector[r]]
    /\ faults' = faults + 1
    /\ UNCHANGED <<worker, first, history>>

-----------------------------------------------------------------------------
(* One await of the worker *)

\* The exception e leaves the await at which the coroutine is.
Raise(e, to) == pc' = to /\ error' = e

\* A fault of the await pc names; behind says that the engine acted on the call.
Fault(behind) ==
    /\ faults < MaxFaults
    /\ faults' = faults + 1
    /\ lapses' = IF behind \/ pc \in Cleanup THEN lapses \cup {pc} ELSE lapses

Answers == engine.state = "up" /\ UNCHANGED <<faults, lapses>>

\* The call does not return: a dead engine refuses it, the engine fails before or
\* after acting (acted is what it then is), or the coroutine is cancelled.
Fails(acted, to) ==
    \/ /\ engine.state # "up"
       /\ Raise("Exception", to)
       /\ UNCHANGED <<engine, faults, lapses>>
    \/ /\ engine.state = "up"
       /\ \E e \in Errors : Raise(e, to)
       /\ \/ Fault(FALSE) /\ UNCHANGED engine
          \/ Fault(acted # engine) /\ engine' = acted

-----------------------------------------------------------------------------
(* _run_paused_request_batch *)

Paused == [engine EXCEPT !.paused = TRUE]
Resumed == [engine EXCEPT !.paused = FALSE]

Pause ==
    /\ pc = "pause"
    /\ \/ Answers /\ engine' = Paused /\ paused' = TRUE /\ pc' = "add" /\ UNCHANGED error
       \/ Fails(Paused, "handler") /\ UNCHANGED paused
    /\ UNCHANGED <<level, ids, tasks, collector, first, batches>>

Add ==
    LET r == Cardinality(ids) + 1
        admitted == [engine EXCEPT !.running = @ \cup {r}]
    IN /\ pc = "add"
       /\ \/ /\ Answers
             /\ engine' = admitted /\ ids' = ids \cup {r}
             /\ pc' = IF r = Levels[level] THEN "verify" ELSE "add"
             /\ UNCHANGED error
          \/ Fails(admitted, "handler") /\ UNCHANGED ids
       /\ UNCHANGED <<level, paused, tasks, collector, first, batches>>

\* An unverified batch would be collected whether or not the engine is paused.
VerifyNothing ==
    /\ pc = "verify" /\ Answers
    /\ tasks' = [r \in Requests |-> IF r \in ids THEN "running" ELSE "none"]
    /\ pc' = "resume"
    /\ UNCHANGED <<level, paused, ids, error, engine, collector, first, batches>>

\* is_paused, and the collector tasks, created before the next await.
Verify ==
    /\ pc = "verify"
    /\ \/ /\ Answers /\ engine.paused
          /\ tasks' = [r \in Requests |-> IF r \in ids THEN "running" ELSE "none"]
          /\ pc' = "resume"
          /\ UNCHANGED <<error, engine>>
       \/ /\ Answers /\ ~engine.paused
          /\ Raise("Exception", "handler")
          /\ UNCHANGED <<tasks, engine>>
       \/ Fails(engine, "handler") /\ UNCHANGED tasks
    /\ UNCHANGED <<level, paused, ids, collector, first, batches>>

Resume ==
    /\ pc = "resume"
    /\ \/ Answers /\ engine' = Resumed /\ paused' = FALSE /\ pc' = "gather" /\ UNCHANGED error
       \/ Fails(Resumed, "handler") /\ UNCHANGED paused
    /\ UNCHANGED <<level, ids, tasks, collector, first, batches>>

\* A collector task drains its request, fails with it, or ends on its cancellation.
Drain(r) ==
    /\ \/ /\ tasks[r] = "running" /\ collector[r] # "empty"
          /\ tasks' = [tasks EXCEPT ![r] = IF collector[r] = "output" THEN "done"
                                                                      ELSE "failed"]
       \/ tasks[r] = "cancelling" /\ tasks' = [tasks EXCEPT ![r] = "cancelled"]
    /\ UNCHANGED <<level, pc, paused, ids, error, engine, collector, first, faults, history>>

Cancelling == [r \in Requests |-> IF tasks[r] = "running" THEN "cancelling" ELSE tasks[r]]

\* The batch is complete: the next level starts, or the worker comes to its end.
Return ==
    /\ batches' = Append(batches, [level |-> Levels[level], first |-> first])
    /\ level' = level + 1
    /\ pc' = IF level = Len(Levels) THEN "shutdown" ELSE "pause"
    /\ ids' = {} /\ tasks' = NoTasks /\ first' = {}
    /\ collector' = [r \in Requests |-> "empty"]

\* gather: the first exception leaves it; cancelling it cancels the tasks.
Gather ==
    /\ pc = "gather"
    /\ \/ /\ \A r \in ids : tasks[r] = "done"
          /\ Return /\ UNCHANGED <<error, faults, lapses>>
       \/ /\ \E r \in ids : tasks[r] = "failed"
          /\ Raise("Exception", "handler")
          /\ UNCHANGED <<level, ids, tasks, first, collector, batches, faults, lapses>>
       \/ /\ Raise("Cancelled", "handler") /\ Fault(FALSE)
          /\ tasks' = Cancelling
          /\ UNCHANGED <<level, ids, first, collector, batches>>
    /\ UNCHANGED <<paused, engine>>

-----------------------------------------------------------------------------
(* The exception handler and the finally clause *)

\* The tasks awaited without having been cancelled.
CatchAndWait ==
    /\ pc = "handler"
    /\ pc' = IF tasks = NoTasks THEN "abort" ELSE "reap"
    /\ UNCHANGED <<level, paused, ids, tasks, error, engine, collector, first, faults, history>>

\* except BaseException: every task is cancelled, then awaited if there is one.
Catch ==
    /\ pc = "handler"
    /\ tasks' = Cancelling
    /\ pc' = IF tasks = NoTasks THEN "abort" ELSE "reap"
    /\ UNCHANGED <<level, paused, ids, error, engine, collector, first, faults, history>>

Reap ==
    /\ pc = "reap"
    /\ \/ /\ \A r \in Requests : tasks[r] \in Ended
          /\ pc' = "abort" /\ UNCHANGED <<error, faults, lapses>>
       \/ Raise("Cancelled", "finally") /\ Fault(FALSE)
    /\ UNCHANGED <<level, paused, ids, tasks, engine, collector, first, batches>>

\* The aborts run together and their failures are dropped.
Abort ==
    /\ pc = "abort"
    /\ pc' = "finally"
    /\ \/ /\ Answers
          /\ engine' = [engine EXCEPT !.running = @ \ ids]
          /\ UNCHANGED error
       \/ engine.state # "up" /\ UNCHANGED <<engine, error, faults, lapses>>
       \/ /\ engine.state = "up" /\ Fault(FALSE)
          /\ \E S \in SUBSET ids : engine' = [engine EXCEPT !.running = @ \ S]
          /\ error' \in {error, "Cancelled"}
    /\ UNCHANGED <<level, paused, ids, tasks, collector, first, batches>>

\* A pause still held is lifted; an Exception of the two calls is swallowed.
Finally ==
    /\ pc = "finally"
    /\ \/ ~paused /\ pc' = "shutdown" /\ UNCHANGED <<error, engine, faults, lapses>>
       \/ /\ paused /\ Answers
          /\ pc' = IF engine.paused THEN "reresume" ELSE "shutdown"
          /\ UNCHANGED <<error, engine>>
       \/ paused /\ Fails(engine, "shutdown")
    /\ UNCHANGED <<level, paused, ids, tasks, collector, first, batches>>

Reresume ==
    /\ pc = "reresume"
    /\ \/ Answers /\ engine' = Resumed /\ pc' = "shutdown" /\ UNCHANGED error
       \/ Fails(Resumed, "shutdown")
    /\ UNCHANGED <<level, paused, ids, tasks, collector, first, batches>>

\* The finally clause of _run_concurrency.
Shutdown ==
    /\ pc = "shutdown"
    /\ pc' = "ended"
    /\ engine' = [state |-> "shut", paused |-> FALSE, running |-> {}]
    /\ UNCHANGED <<level, paused, ids, tasks, error, collector, first, faults, history>>

Worker ==
    \/ Pause \/ Add \/ Verify \/ Resume \/ Gather
    \/ Catch \/ Reap \/ Abort \/ Finally \/ Reresume \/ Shutdown

Drains == \E r \in Requests : Drain(r)

Next == Worker \/ Drains \/ EngineStep \/ EngineResumes \/ EngineDies

Spec == Init /\ [][Next]_vars

\* The event loop runs what is ready, without a fault having to come to its help,
\* and an engine that may step does.
FairSpec ==
    /\ Spec
    /\ WF_vars(Worker /\ faults' = faults)
    /\ \A r \in Requests : WF_vars(Drain(r))
    /\ WF_vars(EngineStep)

-----------------------------------------------------------------------------
(* Properties *)

(* A level that returns was run by the engine as one scheduler step holding all of
   its requests and nothing else, whoever lifts the pause and whenever: the claim
   the reported admission record and the counters' gates rest on
   (_run_paused_request_batch). *)
BatchInOneStep ==
    \A i \in DOMAIN batches : batches[i].first = 1 .. batches[i].level

(* However the batch is left by an exception, cancellation included, no collector
   task is still alive and the engine holds none of the requests, unless an add
   failed after the engine had admitted the request, or the clean-up itself was
   cancelled or refused. *)
NothingLeftBehind ==
    pc = "shutdown" /\ error # "none" =>
        /\ "reap" \notin lapses => \A r \in Requests : tasks[r] \in Ended
        /\ lapses \cap {"add", "reap", "abort"} = {} => engine.running = {}

(* An engine that still answers is not left paused by a failed batch, unless the
   pause failed after it took effect or the calls that lift it failed. *)
NotLeftPaused ==
    pc = "shutdown" /\ lapses \cap {"pause", "finally", "reresume"} = {} =>
        ~(engine.state = "up" /\ engine.paused)

(* The worker ends and has shut its engine down, whichever await fails: no task is
   awaited that nothing will end (_run_concurrency). *)
AlwaysShutsDown == <>(pc = "ended" /\ engine.state = "shut")
=============================================================================
