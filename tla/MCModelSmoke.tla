---------------------------- MODULE MCModelSmoke ------------------------------
(* Two selected layers, prompts of two chunks and two decode steps.  Single *)
(* workers depart from the rules, twice in a concurrency worker; whole runs *)
(* raise, crash and are killed, with a mode run again or left out.         *)
EXTENDS ModelSmoke

MCReasons ==
    {"batch_unsupported", "state_unsupported", "below_min", "kv_unsupported",
     "graph_capture"}

MCWorkers == {<< "eager" >>, << "graph" >>, << "concurrency" >>}

MCRelease ==
    {<< "eager", "graph", "concurrency" >>,
     << "graph", "graph", "eager", "concurrency" >>,
     << "concurrency", "concurrency" >>}

MCModeLists == MCWorkers \cup MCRelease

MCDeviations ==
    [list \in MCModeLists |-> IF list \in MCRelease THEN 0
                              ELSE IF list = << "concurrency" >> THEN 2 ELSE 1]
=============================================================================
