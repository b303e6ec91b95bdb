-------------------------------- MODULE TtftAbba --------------------------------
(***************************************************************************)
(* The release TTFT comparison: the controller                              *)
(* (src/release_validation/ttft_abba.py) starts one process after another,   *)
(* dense, sparse, sparse, dense in every cycle, each of which audits the     *)
(* installed wheel, starts a vLLM engine, measures and writes a result       *)
(* (src/release_validation/installed_wheel_ttft_runner.py).  The controller  *)
(* reads the common output pipe of the process and its engine to its end,    *)
(* checks the result against the wheel and the counters, and compares the    *)
(* two variants.                                                            *)
(*                                                                         *)
(* A process may fail or hang anywhere, an engine may outlive it, and a      *)
(* newer wheel may be built and installed while the session runs; contents   *)
(* of the wheel are numbered, every build giving a new number (at most       *)
(* MaxBuilds).  A process measures one latency, the mean of its records:     *)
(* that of its variant plus a drift of the machine from process to process.  *)
(***************************************************************************)
EXTENDS Integers, Sequences, FiniteSets

CONSTANTS
    Cycles,          \* --cycles
    MinGainPercent,  \* --min-gain-percent
    Latencies,       \* latencies of the variants a machine may show
    Drifts,          \* change of the latency from one process to the next
    MaxBuilds        \* wheels built during the session

Variant == {"dense", "sparse"}

TtftAssumption ==
    /\ Cycles \in Nat \ {0} /\ MinGainPercent \in Nat /\ MaxBuilds \in Nat
    /\ Latencies \subseteq [Variant -> Nat \ {0}] /\ Drifts \subseteq Int

ORDER == << "dense", "sparse", "sparse", "dense" >>
Processes == Cycles * Len(ORDER)
VariantOf(n) == ORDER[((n - 1) % Len(ORDER)) + 1]

VARIABLES
    wheel, installed,  \* contents of the wheel file, of the installed package
    machine,           \* history: the latencies and the drift of this machine
    pc,                \* the controller
    audited,           \* its audit of the installed wheel, and its interpreter
    child,             \* the process of the current run
    engines,           \* the runs whose engine process is alive
    timedOut,          \* process_error of the current run
    runs,              \* the list of runs
    status,            \* the report's status
    calm               \* history: nothing went wrong or changed so far

controller == <<pc, audited, timedOut, runs, status>>
vars == <<wheel, installed, machine, controller, child, engines, calm>>

Current == Len(runs) + 1
NoChild == [state |-> "none", audit |-> 0, engine |-> 0, launched |-> FALSE, wheel |-> 0]
Live == {"starting", "audited", "running", "measured"}
Gone == {"none", "failed", "finished", "killed"}

Init ==
    /\ wheel = 1 /\ installed \in {0, 1}
    /\ machine \in [latency : Latencies, drift : Drifts]
    /\ pc = "audit" /\ audited = FALSE /\ timedOut = FALSE /\ runs = <<>> /\ status = "none"
    /\ child = NoChild /\ engines = {} /\ calm = (installed = 1)

-----------------------------------------------------------------------------
(* The machine during the session *)

Build ==
    /\ wheel <= MaxBuilds
    /\ wheel' = wheel + 1 /\ calm' = FALSE
    /\ UNCHANGED <<installed, machine, controller, child, engines>>

Reinstall ==
    /\ installed # wheel
    /\ installed' = wheel /\ calm' = FALSE
    /\ UNCHANGED <<wheel, machine, controller, child, engines>>

EngineExits ==
    /\ \E n \in engines :
          /\ n = Current => child.state \in Gone
          /\ engines' = engines \ {n}
    /\ UNCHANGED <<wheel, installed, machine, controller, child, calm>>

-----------------------------------------------------------------------------
(* A process of the comparison *)

\* It leaves unless the installed payload is the wheel's.
ChildAudits ==
    /\ child.state = "starting"
    /\ child' = IF installed = wheel THEN [child EXCEPT !.state = "audited", !.audit = wheel]
                                     ELSE [child EXCEPT !.state = "failed"]
    /\ UNCHANGED <<wheel, installed, machine, controller, engines, calm>>

\* The engine process imports what is installed by then.
ChildStartsEngine ==
    /\ child.state = "audited"
    /\ child' = [child EXCEPT !.state = "running", !.engine = installed]
    /\ engines' = engines \cup {Current}
    /\ UNCHANGED <<wheel, installed, machine, controller, calm>>

\* Its counters tell whether the engine launched the operator.
ChildMeasures ==
    /\ child.state = "running"
    /\ \E l \in BOOLEAN :
          /\ child' = [child EXCEPT !.state = "measured", !.launched = l]
          /\ calm' = (calm /\ l = (VariantOf(Current) = "sparse"))
    /\ UNCHANGED <<wheel, installed, machine, controller, engines>>

\* It hashes the wheel again, writes its result and exits with status zero.
ChildFinishes ==
    /\ child.state = "measured"
    /\ child' = [child EXCEPT !.state = "finished", !.wheel = wheel]
    /\ UNCHANGED <<wheel, installed, machine, controller, engines, calm>>

ChildFails ==
    /\ child.state \in Live
    /\ child' = [child EXCEPT !.state = "failed"]
    /\ calm' = FALSE
    /\ UNCHANGED <<wheel, installed, machine, controller, engines>>

-----------------------------------------------------------------------------
(* The controller *)

Audit ==
    /\ pc = "audit"
    /\ \E samePython \in BOOLEAN :
          /\ audited' = (installed = wheel /\ samePython)
          /\ calm' = (calm /\ samePython)
    /\ pc' = IF audited' THEN "start" ELSE "report"
    /\ UNCHANGED <<wheel, installed, machine, child, engines, timedOut, runs, status>>

\* Popen, which may raise OSError.
Start ==
    /\ pc = "start"
    /\ \/ /\ child' = [NoChild EXCEPT !.state = "starting"]
          /\ pc' = "communicate" /\ UNCHANGED <<timedOut, calm>>
       \/ /\ child' = NoChild /\ timedOut' = TRUE /\ calm' = FALSE
          /\ pc' = "check"
    /\ UNCHANGED <<wheel, installed, machine, audited, engines, runs, status>>

\* Nobody holds the pipe any more: neither the process nor the engine it left.
EndOfOutput == child.state \in Gone /\ Current \notin engines

Communicate ==
    /\ pc \in {"communicate", "drain"} /\ EndOfOutput
    /\ pc' = "check"
    /\ UNCHANGED <<wheel, installed, machine, audited, timedOut, runs, status, child, engines, calm>>

\* communicate(timeout) raises: the process is killed, its engine is not, and the
\* output is read to its end without a timeout.
Timeout ==
    /\ pc = "communicate" /\ ~EndOfOutput
    /\ timedOut' = TRUE /\ calm' = FALSE /\ pc' = "drain"
    /\ child' = IF child.state \in Live THEN [child EXCEPT !.state = "killed"] ELSE child
    /\ UNCHANGED <<wheel, installed, machine, audited, runs, status, engines>>

\* The counters show launches in a sparse run and none in a dense one.
LaunchMatches == child.launched = (VariantOf(Current) = "sparse")

\* The result names the wheel, hashed once more, in its audit and its own record.
Contract ==
    /\ child.state = "finished" /\ ~timedOut
    /\ child.audit = wheel /\ child.wheel = wheel
    /\ LaunchMatches

Run == [status |-> IF Contract THEN "PASS" ELSE "FAIL",
        fingerprint |-> IF child.state = "finished" THEN child.audit ELSE 0,
        engine |-> child.engine,
        latency |-> machine.latency[VariantOf(Current)] + machine.drift * Current]

\* The first run that does not pass ends both loops.
Check ==
    /\ pc = "check"
    /\ runs' = Append(runs, Run)
    /\ pc' = IF Contract /\ Len(runs') < Processes THEN "start" ELSE "report"
    /\ child' = NoChild /\ timedOut' = FALSE
    /\ UNCHANGED <<wheel, installed, machine, audited, status, engines, calm>>

-----------------------------------------------------------------------------
(* summarize_abba, on sums: every cycle measures each variant twice *)

SumOf[S \in SUBSET (1 .. Processes)] ==
    IF S = {} THEN 0
    ELSE LET n == CHOOSE x \in S : TRUE IN runs[n].latency + SumOf[S \ {n}]

SummaryAvailable == Len(runs) = Processes

Sum(v) == SumOf[{n \in 1 .. Processes : VariantOf(n) = v}]
\* The runs of a cycle are taken by their place in it, which ORDER gives.
CycleGain(c) ==
    LET latency(place) == runs[4 * (c - 1) + place].latency
    IN  latency(1) + latency(4) - latency(2) - latency(3)

\* The bootstrap's lower percentile lies between the gains of two cycles: it is
\* positive or not as that of some cycle is.
GainPositive(c) == CycleGain(c) > 0

TargetMet == (Sum("dense") - Sum("sparse")) * 100 >= MinGainPercent * Sum("dense")

Fingerprints == {runs[n].fingerprint : n \in DOMAIN runs} \ {0}

\* A fingerprint in every result, whichever.
AnyFingerprint == Fingerprints # {}

OneFingerprint == Cardinality(Fingerprints) = 1

AllPassed == Len(runs) = Processes /\ \A n \in DOMAIN runs : runs[n].status = "PASS"

Report ==
    /\ pc = "report"
    /\ pc' = "done"
    /\ \E c \in 1 .. Cycles :
          status' = IF /\ audited /\ AllPassed /\ Cycles >= 4 /\ OneFingerprint
                       /\ SummaryAvailable /\ GainPositive(c) /\ TargetMet
                    THEN "PASS" ELSE "FAIL"
    /\ UNCHANGED <<wheel, installed, machine, audited, timedOut, runs, child, engines, calm>>

Controller == Audit \/ Start \/ Communicate \/ Timeout \/ Check \/ Report

Child == ChildAudits \/ ChildStartsEngine \/ ChildMeasures \/ ChildFinishes \/ ChildFails

Next == Build \/ Reinstall \/ EngineExits \/ Child \/ Controller

Spec == Init /\ [][Next]_vars

\* The controller goes on whenever it can, and its timeout fires; nothing is assumed
\* of the processes it started.
FairSpec == Spec /\ WF_vars(Controller)

-----------------------------------------------------------------------------
(* Properties *)

(* A session that passes compared one wheel: every process audited the same
   contents, and every engine but the last ran them, also when a newer wheel was
   built and installed meanwhile (an engine imports its package after the audit, and
   only the next process's audit shows that what it imported was the same). *)
OneWheelMeasured ==
    status = "PASS" =>
        \E w \in 1 .. wheel :
            /\ \A n \in DOMAIN runs : runs[n].fingerprint = w
            /\ \A n \in DOMAIN runs \ {Processes} : runs[n].engine = w

(* No two engines are alive at a time: a measurement is never disturbed by the
   engine of an earlier process, killed or ended, that outlived it (_run_once reads
   the pipe to its end before anything else is started). *)
MeasuredAlone == Cardinality(engines) <= 1

(* The dense-sparse-sparse-dense order cancels a linear drift of the machine: every
   cycle shows the difference of the two latencies (summarize_abba). *)
DriftCancels ==
    SummaryAvailable =>
        \A c \in 1 .. Cycles :
            CycleGain(c) = 2 * (machine.latency["dense"] - machine.latency["sparse"])

(* A session of at least four cycles in which nothing failed or changed passes, when
   sparse is faster by a quarter more than the target asks for: no gate asks for
   more than the comparison needs. *)
ByRulesPasses ==
    /\ pc = "done" /\ calm /\ Cycles >= 4
    /\ 4 * (machine.latency["dense"] - machine.latency["sparse"]) * 100
          >= 5 * MinGainPercent * machine.latency["dense"]
    => status = "PASS"

(* The controller comes to its report when no engine stays alive for ever, whatever
   the processes do; an engine that kept the pipe open for ever would hold it in the
   second communicate. *)
AlwaysReports == []<>(engines = {}) => <>(pc = "done")
=============================================================================
