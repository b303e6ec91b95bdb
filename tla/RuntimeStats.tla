----------------------------- MODULE RuntimeStats -----------------------------
(***************************************************************************)
(* TriangleMixRuntimeStats, the counters of a worker process, and the      *)
(* attention layers that feed it.  Every method runs under the lock of the *)
(* object and is one step; a layer calls three of them in turn, with the   *)
(* calls of other layers, of configure and of snapshot between them.       *)
(*                                                                         *)
(* A plan is abstracted to its number of requests and of eligible ones, an *)
(* event to its plan and route.  The counters of one request repeat those  *)
(* of its plan, and timing and per-layer counters are left out.            *)
(***************************************************************************)
EXTENDS Integers, Sequences, FiniteSets

CONSTANTS
    Thread,          \* the threads that run attention layers
    Plan,            \* plan ids
    Batch,           \* plan -> [size, eligible]
    Intervals,       \* the stats_log_interval values configured
    RecentCapacities,\* the stats_recent_capacity values configured
    SeenCapacity,    \* _seen_capacity, 8192
    LogCapacity,     \* _LOG_DELTA_CAPACITY, 8192
    EventCapacity,   \* _LAYER_EVENT_CAPACITY, 256
    MaxCalls         \* bound on layers, and on configure and reset calls

ASSUME StatsAssumption ==
    /\ \A p \in Plan : /\ Batch[p].size \in Nat
                       /\ Batch[p].eligible \in 0 .. Batch[p].size
    /\ Intervals \subseteq Nat /\ RecentCapacities \subseteq Nat
    /\ SeenCapacity \in Nat \ {0}
    /\ LogCapacity \in Nat \ {0}
    /\ EventCapacity \in Nat
    /\ MaxCalls \in Nat

VARIABLES
    counters,        \* _counters
    seen,            \* _seen_plans, oldest first
    recent,          \* _recent, oldest first
    recentCapacity,  \* _recent_capacity
    deltas,          \* _log_deltas
    due,             \* _due_log_plan_ids
    active,          \* _active_log_plan_ids
    interval,        \* _log_interval
    nextLog,         \* _next_log_request
    lastBoundary,    \* _last_log_boundary
    pc,              \* thread -> "idle", "layer" or "log"
    job,             \* thread -> the plan and route of its layer
    calls,           \* layers started, configure and reset calls
    counted,         \* history: the plans counted since the last reset
    logged           \* history: where the requests of planner deltas went

statsVars == << counters, seen, recent, recentCapacity, deltas, due, active,
                interval, nextLog, lastBoundary >>

vars == << statsVars, pc, job, calls, counted, logged >>

Zero == [requests |-> 0, eligible |-> 0, ineligible |-> 0, direct |-> 0,
         fia |-> 0, deltasDropped |-> 0, eventsDropped |-> 0]

(* Since the counters or the log deltas were last cleared: the requests    *)
(* counted by then, and those logged or dropped after.                     *)
NothingLogged(base) == [base |-> base, out |-> 0, dropped |-> 0]

Elements(s) == {s[i] : i \in DOMAIN s}

(* A slip of the queue: it keeps one element less.                         *)
NewestButOne(s, n) == IF Len(s) >= n THEN SubSeq(s, Len(s) - n + 2, Len(s)) ELSE s

(* The newest n elements of a bounded queue.                               *)
Newest(s, n) == IF Len(s) > n THEN SubSeq(s, Len(s) - n + 1, Len(s)) ELSE s

(* The sum of a sequence of naturals, as the number of its units.          *)
Total(w) == Cardinality(UNION {{i} \X (1 .. w[i]) : i \in DOMAIN w})

(* The requests a delta stands for, and the deltas of a queue together.    *)
RequestsOf(delta) ==
    IF delta.kind = "planner" THEN Batch[delta.plan].size ELSE 0

Requests(s) == Total([i \in DOMAIN s |-> RequestsOf(s[i])])

-----------------------------------------------------------------------------
Init ==
    /\ counters = Zero
    /\ seen = << >> /\ recent = << >>
    /\ recentCapacity = 256
    /\ deltas = << >>
    /\ due = {} /\ active = {}
    /\ interval = 0 /\ nextLog = 0 /\ lastBoundary = 0
    /\ pc = [t \in Thread |-> "idle"]
    /\ job = [t \in Thread |-> [plan |-> 0, route |-> "none"]]
    /\ calls = 0
    /\ counted = << >>
    /\ logged = NothingLogged(0)

(* A slip: the last multiple, already passed.                              *)
NextBoundaryPassed(total, n) == IF n = 0 THEN 0 ELSE (total \div n) * n

(* The first multiple of the interval above the requests counted.          *)
NextBoundary(total, n) == IF n = 0 THEN 0 ELSE (total \div n + 1) * n

Configure(capacity, n) ==
    /\ calls < MaxCalls
    /\ recentCapacity' = capacity
    /\ recent' = Newest(recent, capacity)
    /\ IF interval # n
       THEN /\ interval' = n
            /\ deltas' = << >> /\ due' = {} /\ active' = {}
            /\ lastBoundary' = 0
            /\ nextLog' = NextBoundary(counters.requests, n)
            /\ logged' = NothingLogged(counters.requests)
       ELSE UNCHANGED << interval, deltas, due, active, lastBoundary, nextLog,
                         logged >>
    /\ calls' = calls + 1
    /\ UNCHANGED << counters, seen, pc, job, counted >>

(* The deltas after one more, the oldest dropped when the queue is full.   *)
AppendDelta(delta) == Append(Newest(deltas, LogCapacity - 1), delta)

(* A slip: a dropped delta is not counted.                                 *)
DeltaDroppedSilently == 0

DeltaDropped == IF Len(deltas) >= LogCapacity THEN 1 ELSE 0

RequestsDropped ==
    IF Len(deltas) >= LogCapacity THEN RequestsOf(Head(deltas)) ELSE 0

RecentEntry(p) == [plan |-> p, direct |-> 0, fia |-> 0, events |-> 0,
                   dropped |-> 0]

(* A plan counted again replaces its entry where it stands.                *)
RecordRecent(p) ==
    IF \E e \in Elements(recent) : e.plan = p
    THEN [i \in DOMAIN recent |-> IF recent[i].plan = p THEN RecentEntry(p)
                                  ELSE recent[i]]
    ELSE Append(recent, RecentEntry(p))

(* record_planner_decision, of a layer that is about to record its route.  *)
RecordPlannerDecision(t, p, route) ==
    /\ pc[t] = "idle" /\ calls < MaxCalls
    /\ IF p \in Elements(seen)
       THEN UNCHANGED << statsVars, counted, logged >>
       ELSE LET total == counters.requests + Batch[p].size
            IN  /\ seen' = Newest(Append(seen, p), SeenCapacity)
                /\ counted' = Append(counted, p)
                /\ counters' =
                     [counters EXCEPT
                        !.requests = total,
                        !.eligible = @ + Batch[p].eligible,
                        !.ineligible = @ + Batch[p].size - Batch[p].eligible,
                        !.deltasDropped =
                            IF interval = 0 THEN @ ELSE @ + DeltaDropped]
                /\ IF interval = 0
                   THEN UNCHANGED << deltas, due, logged >>
                   ELSE /\ deltas' = AppendDelta([kind |-> "planner",
                                                  plan |-> p])
                        /\ logged' = [logged EXCEPT
                                        !.dropped = @ + RequestsDropped]
                        /\ due' = IF nextLog # 0 /\ total >= nextLog
                                  THEN due \cup {p} ELSE due
                /\ recent' = IF recentCapacity = 0 THEN recent
                             ELSE Newest(RecordRecent(p), recentCapacity)
                /\ UNCHANGED << recentCapacity, active, interval, nextLog,
                                lastBoundary >>
    /\ pc' = [pc EXCEPT ![t] = "layer"]
    /\ job' = [job EXCEPT ![t] = [plan |-> p, route |-> route]]
    /\ calls' = calls + 1

(* A captured layer records its fallback only.                             *)
CapturedLayer(t, p) ==
    /\ pc[t] = "idle" /\ calls < MaxCalls
    /\ pc' = [pc EXCEPT ![t] = "layer"]
    /\ job' = [job EXCEPT ![t] = [plan |-> p, route |-> "fia"]]
    /\ calls' = calls + 1
    /\ UNCHANGED << statsVars, counted, logged >>

(* The entry of a plan after one more layer; its sample of events is       *)
(* bounded, its counts are not.                                            *)
UpdateExecution(entry, route) ==
    LET full == entry.events >= EventCapacity
    IN  [entry EXCEPT
           !.direct = IF route = "direct" THEN @ + 1 ELSE @,
           !.fia = IF route = "fia" THEN @ + 1 ELSE @,
           !.events = IF full THEN @ ELSE @ + 1,
           !.dropped = IF full THEN @ + 1 ELSE @]

(* record_layer_dispatch or record_layer_fallback.                         *)
RecordLayer(t) ==
    LET p == job[t].plan
        route == job[t].route
        logs == interval # 0 /\ p \in Elements(seen)
        full == \E e \in Elements(recent) :
                    e.plan = p /\ e.events >= EventCapacity
    IN  /\ pc[t] = "layer"
        /\ deltas' = IF logs THEN AppendDelta([kind |-> "layer", plan |-> p])
                     ELSE deltas
        /\ logged' = IF logs
                     THEN [logged EXCEPT !.dropped = @ + RequestsDropped]
                     ELSE logged
        /\ recent' = [i \in DOMAIN recent |->
                         IF recent[i].plan = p
                         THEN UpdateExecution(recent[i], route)
                         ELSE recent[i]]
        /\ counters' =
             [counters EXCEPT
                !.direct = IF route = "direct" THEN @ + 1 ELSE @,
                !.fia = IF route = "fia" THEN @ + 1 ELSE @,
                !.deltasDropped = IF logs THEN @ + DeltaDropped ELSE @,
                !.eventsDropped = IF full THEN @ + 1 ELSE @]
        /\ pc' = [pc EXCEPT ![t] = "log"]
        /\ UNCHANGED << seen, recentCapacity, due, active, interval, nextLog,
                        lastBoundary, job, calls, counted >>

IsDue == counters.requests >= nextLog

(* A slip: only due logs are emitted.                                      *)
SupplementalNever == FALSE

(* More about the plans of the last boundary, and about no other.          *)
Supplemental ==
    /\ ~IsDue
    /\ active # {}
    /\ {d.plan : d \in Elements(deltas)} \subseteq active

(* A slip: the boundary is the count itself, not rounded to the interval.  *)
EmitDueUnrounded ==
    /\ nextLog' = counters.requests + interval
    /\ lastBoundary' = counters.requests
    /\ active' = due
    /\ due' = {}

EmitDue ==
    LET boundary == (counters.requests \div interval) * interval
    IN  /\ nextLog' = boundary + interval
        /\ lastBoundary' = boundary
        /\ active' = due
        /\ due' = {}

(* structured_log_if_due.                                                  *)
StructuredLog(t) ==
    /\ pc[t] = "log"
    /\ IF interval = 0 \/ deltas = << >> \/ ~(IsDue \/ Supplemental)
       THEN UNCHANGED << deltas, nextLog, lastBoundary, active, due, logged >>
       ELSE /\ deltas' = << >>
            /\ logged' = [logged EXCEPT !.out = @ + Requests(deltas)]
            /\ IF IsDue THEN EmitDue
               ELSE UNCHANGED << nextLog, lastBoundary, active, due >>
    /\ pc' = [pc EXCEPT ![t] = "idle"]
    /\ UNCHANGED << counters, seen, recent, recentCapacity, interval, job,
                    calls, counted >>

(* snapshot(reset=True); without reset it changes nothing.                 *)
Reset ==
    /\ calls < MaxCalls
    /\ counters' = Zero
    /\ seen' = << >> /\ recent' = << >> /\ deltas' = << >>
    /\ due' = {} /\ active' = {}
    /\ nextLog' = interval
    /\ lastBoundary' = 0
    /\ calls' = calls + 1
    /\ counted' = << >>
    /\ logged' = NothingLogged(0)
    /\ UNCHANGED << recentCapacity, interval, pc, job >>

Next ==
    \/ \E capacity \in RecentCapacities, n \in Intervals : Configure(capacity, n)
    \/ \E t \in Thread, p \in Plan :
          \/ \E route \in {"direct", "fia"} : RecordPlannerDecision(t, p, route)
          \/ CapturedLayer(t, p)
    \/ \E t \in Thread : RecordLayer(t) \/ StructuredLog(t)
    \/ Reset

Spec == Init /\ [][Next]_vars

-----------------------------------------------------------------------------
Idle == \A t \in Thread : pc[t] = "idle"

(* The queues respect their bounds and the counters their domains.         *)
TypeOK ==
    /\ \A c \in DOMAIN Zero : counters[c] \in Nat
    /\ Elements(seen) \subseteq Plan /\ Len(seen) <= SeenCapacity
    /\ Len(recent) <= recentCapacity
    /\ Elements(deltas) \subseteq [kind : {"planner", "layer"}, plan : Plan]
    /\ Len(deltas) <= LogCapacity
    /\ due \subseteq Plan /\ active \subseteq Plan
    /\ interval \in Nat /\ nextLog \in Nat /\ lastBoundary \in Nat
    /\ pc \in [Thread -> {"idle", "layer", "log"}]

(* An entry of the recent trace: every layer event is in its sample or     *)
(* counted as dropped, and the process total covers what the entries say.  *)
SampleAccounts ==
    /\ \A e \in Elements(recent) :
          /\ e.events + e.dropped = e.direct + e.fia
          /\ e.dropped > 0 => e.events = EventCapacity
    /\ Total([i \in DOMAIN recent |-> recent[i].dropped])
          <= counters.eventsDropped
    /\ Total([i \in DOMAIN recent |-> recent[i].direct]) <= counters.direct

(* Every request counted since logging was switched on or reset is either  *)
(* in an exported planner delta, pending in the queue, or in a delta the   *)
(* full queue has dropped: none is exported twice, and none is lost while  *)
(* the counter of dropped deltas stands still.  So is every layer event in *)
(* its sample.                                                             *)
LogAccounts ==
    /\ interval # 0 =>
          /\ counters.requests =
                 logged.base + logged.out + logged.dropped + Requests(deltas)
          /\ counters.deltasDropped = 0 => logged.dropped = 0
    /\ SampleAccounts

(* When no layer is between its calls no boundary is overdue: the layer    *)
(* that crossed it, or another one, has exported it, whatever configure    *)
(* and reset calls came between.                                           *)
NoOverdueAtRest ==
    Idle /\ interval # 0 => counters.requests < nextLog

(* Nor does anything the last boundary's plans did stay unreported: what   *)
(* is pending at rest involves a plan of the next boundary.                *)
BoundaryPlansFollowed ==
    Idle /\ interval # 0 /\ deltas # << >> =>
        active = {} \/ \E d \in Elements(deltas) : d.plan \notin active

(* The deduplication window: a plan is counted a second time only after    *)
(* SeenCapacity others, and the counters are sums over the counted plans.  *)
CountedOnce ==
    /\ \A i, j \in DOMAIN counted :
          i < j /\ counted[i] = counted[j] => j - i > SeenCapacity
    /\ counters.requests =
          Total([i \in DOMAIN counted |-> Batch[counted[i]].size])

(* The exported boundaries: the boundary of a due log is a multiple of the *)
(* interval, no request ahead of the counter, and above the one before it, *)
(* unless configure or reset start the numbering again.                    *)
BoundariesIncrease ==
    [][ lastBoundary' # lastBoundary /\ lastBoundary' # 0 =>
          /\ lastBoundary' > lastBoundary
          /\ \E k \in 0 .. counters.requests : lastBoundary' = k * interval
          /\ lastBoundary' <= counters.requests
          /\ counters.requests < nextLog' ]_vars
=============================================================================
