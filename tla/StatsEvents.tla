----------------------------- MODULE StatsEvents ------------------------------
(***************************************************************************)
(* What the release tools read from a worker's log: its lines are the      *)
(* cumulative snapshots of the runtime statistics and the markers the      *)
(* worker prints around a scenario, and a snapshot is checked for itself   *)
(* and against the ones before it.                                         *)
(***************************************************************************)
EXTENDS Integers, Sequences, FiniteSets, FiniteSetsExt

CONSTANT Reasons       \* FallbackReason, "none" excluded

CounterNames ==
    {"request_total", "request_planner_eligible", "request_planner_ineligible",
     "layer_direct", "single_launch", "layer_fia"}

ZeroStats ==
    [counters |-> [name \in CounterNames |-> 0],
     layerReasons |-> [r \in Reasons |-> 0],       \* layer_fia_reason:...
     reasons |-> [r \in Reasons |-> 0]]            \* fallback_reasons

Event(worker, stats) ==
    [kind |-> "event", worker |-> worker, stats |-> stats,
     boundary |-> stats.counters["request_total"]]

Marker(kind, name) == [kind |-> kind, name |-> name]

-----------------------------------------------------------------------------
(* The events of a log, by worker.                                         *)

Events(log) == {i \in DOMAIN log : log[i].kind = "event"}

Workers(log) == {log[i].worker : i \in Events(log)}

EventsOf(log, w) == {i \in Events(log) : log[i].worker = w}

Counter(log, i, name) == log[i].stats.counters[name]

SumOver(S, f(_)) == MapThenSumSet(f, S)

(* Each counter is the sum of the workers' last snapshots.                 *)
Aggregate(log) ==
    LET last(w) == log[Max(EventsOf(log, w))].stats
        ws == Workers(log)
    IN  [counters |-> [name \in CounterNames |->
                          SumOver(ws, LAMBDA w : last(w).counters[name])],
         layerReasons |-> [r \in Reasons |->
                          SumOver(ws, LAMBDA w : last(w).layerReasons[r])],
         reasons |-> [r \in Reasons |->
                          SumOver(ws, LAMBDA w : last(w).reasons[r])]]

(* The identities every snapshot must satisfy.                             *)
SnapshotConsistent(s) ==
    LET c == s.counters
    IN  /\ c["request_total"] =
               c["request_planner_eligible"] + c["request_planner_ineligible"]
        /\ SumOver(Reasons, LAMBDA r : s.reasons[r]) =
               c["request_planner_ineligible"]
        /\ c["layer_direct"] = c["single_launch"]
        /\ SumOver(Reasons, LAMBDA r : s.layerReasons[r]) = c["layer_fia"]

Regresses(previous, current) ==
    \/ current.boundary < previous.boundary
    \/ \E name \in CounterNames :
           current.stats.counters[name] < previous.stats.counters[name]
    \/ \E r \in Reasons :
           current.stats.layerReasons[r] < previous.stats.layerReasons[r]

CounterRegressions(log) ==
    {i \in Events(log) :
        LET earlier == {j \in EventsOf(log, log[i].worker) : j < i}
        IN  earlier # {} /\ Regresses(log[Max(earlier)], log[i])}

(* The four error lists of aggregate_worker_events are empty; an event     *)
(* here always has the fields the schema asks for.                         *)
CountersSound(log) ==
    /\ CounterRegressions(log) = {}
    /\ \A i \in Events(log) : SnapshotConsistent(log[i].stats)
    /\ SnapshotConsistent(Aggregate(log))

-----------------------------------------------------------------------------
(* The markers of a log.                                                   *)

Markers(log) == SelectSeq(log, LAMBDA line : line.kind \in {"start", "end"})

MarkerLines(log, kind, name) ==
    {i \in DOMAIN log : log[i].kind = kind /\ log[i].name = name}

(* Scenarios follow each other, each started once and ended once.          *)
MarkersSound(log) ==
    LET m == Markers(log)
    IN  /\ Len(m) % 2 = 0
        /\ \A k \in DOMAIN m :
               /\ m[k].kind = IF k % 2 = 1 THEN "start" ELSE "end"
               /\ k % 2 = 0 => m[k].name = m[k - 1].name
               /\ \A j \in DOMAIN m : j # k => Marker(m[j].kind, m[j].name) # m[k]

MarkedOnce(log, name) ==
    \A kind \in {"start", "end"} : Cardinality(MarkerLines(log, kind, name)) = 1

(* The events of worker w between the markers, and the last one before.    *)
Inside(log, w, name) ==
    {i \in EventsOf(log, w) :
        /\ \A s \in MarkerLines(log, "start", name) : s < i
        /\ \A e \in MarkerLines(log, "end", name) : i < e}

Baseline(log, w, name) ==
    LET before == {i \in EventsOf(log, w) :
                      \A s \in MarkerLines(log, "start", name) : i < s}
    IN  IF before = {} THEN ZeroStats ELSE log[Max(before)].stats
=============================================================================
