------------------------------ MODULE WheelPipeline ------------------------------
(***************************************************************************)
(* The release wheel pipeline (src/package/tools/release_wheel_pipeline.py): *)
(* every pipeline stages the sources in a temporary directory, builds the    *)
(* adapter and the wheel there, checks the wheel, installs it into a clean   *)
(* environment, runs a smoke test, uninstalls it, copies it to its output     *)
(* directory and writes its report.                                          *)
(*                                                                         *)
(* Pipelines may run at the same time and in directories of their own or of  *)
(* others; any step may fail (a command's status or its timeout), and any    *)
(* pipeline may be killed and started again.  What a build may have wrong is *)
(* a set of flaws.  The trees of vllm and vllm_ascend, which all pipelines   *)
(* hash, are a number that every change increases.                           *)
(***************************************************************************)
EXTENDS Integers, FiniteSets

CONSTANTS
    Pipeline,      \* the pipelines
    OutputOf,      \* --output-dir of each
    ReportOf,      \* --report of each
    MaxStarts,     \* starts of all pipelines together
    MaxChanges     \* changes of the official packages by others

WheelPipelineAssumption ==
    /\ DOMAIN OutputOf = Pipeline /\ DOMAIN ReportOf = Pipeline
    /\ MaxStarts \in Nat /\ MaxChanges \in Nat

Output == {OutputOf[p] : p \in Pipeline}
ReportPath == {ReportOf[p] : p \in Pipeline}

\* The adapter or the wheel fails its checker, a foreign top-level entry, a write to
\* the official packages on install or uninstall, a failing smoke test, files left.
Flaw == {"adapter", "payload", "roots", "install", "smoke", "uninstall", "leftovers"}

VARIABLES
    pc,         \* where each pipeline is
    build,      \* the build it works on: its number and its flaws
    baseline,   \* the manifests of the official packages it took at its start
    official,   \* the official packages
    output,     \* the wheel in each output directory: none, torn or a build
    report,     \* the report at each path: none or the build it names
    starts, changes

vars == <<pc, build, baseline, official, output, report, starts, changes>>

None == [number |-> 0, flaws |-> {}]
Torn == [number |-> -1, flaws |-> {}]

Init ==
    /\ pc = [p \in Pipeline |-> "idle"]
    /\ build = [p \in Pipeline |-> None] /\ baseline = [p \in Pipeline |-> 0]
    /\ official = 0 /\ starts = 0 /\ changes = 0
    /\ output = [o \in Output |-> None] /\ report = [r \in ReportPath |-> None]

-----------------------------------------------------------------------------

\* The pipeline's next step: on to `to` when ok, otherwise PipelineError.
Goes(p, from, to, ok) ==
    /\ pc[p] = from
    /\ pc' = [pc EXCEPT ![p] = IF ok THEN to ELSE "failed"]

Sound(p, f) == f \notin build[p].flaws

FreshReport(p) == report[ReportOf[p]] = None

FreshOutput(p) == output[OutputOf[p]] = None

\* The refusals before any work, and the baseline.
Begin(p) ==
    /\ pc[p] \in {"idle", "failed", "killed"} /\ starts < MaxStarts
    /\ starts' = starts + 1
    /\ pc' = [pc EXCEPT ![p] = IF FreshReport(p) /\ FreshOutput(p) THEN "build" ELSE "failed"]
    /\ baseline' = [baseline EXCEPT ![p] = official]
    /\ \E flaws \in {{}} \cup {{f} : f \in Flaw} :
          build' = [build EXCEPT ![p] = [number |-> starts', flaws |-> flaws]]
    /\ UNCHANGED <<official, output, report, changes>>

\* The rebuilt adapter and its checker.
BuildAdapter(p) == Goes(p, "build", "stage", Sound(p, "adapter"))

\* Package sources, OPP tree and adapter copied together, and the wheel built.
BuildWheel(p) == Goes(p, "stage", "validate", TRUE)

ValidateWheel(p) ==
    Goes(p, "validate", "install", Sound(p, "payload") /\ Sound(p, "roots"))

Unchanged(p) == official = baseline[p]

CheckInstalled(p) == Goes(p, "installed", "smoke", Unchanged(p))

Smoke(p) == Goes(p, "smoke", "uninstall", Sound(p, "smoke"))

CheckRemoved(p) == Goes(p, "uninstalled", "publish", Sound(p, "leftovers") /\ Unchanged(p))

Gates(p) ==
    /\ \/ BuildAdapter(p) \/ BuildWheel(p) \/ ValidateWheel(p)
       \/ CheckInstalled(p) \/ Smoke(p) \/ CheckRemoved(p)
    /\ UNCHANGED <<build, baseline, official, output, report, starts, changes>>

\* pip runs what the wheel brings, which may write where it should not.
Pip(p) ==
    /\ Goes(p, "install", "installed", TRUE) \/ Goes(p, "uninstall", "uninstalled", TRUE)
    /\ official' = IF Sound(p, pc[p]) THEN official ELSE official + 1
    /\ UNCHANGED <<build, baseline, output, report, starts, changes>>

\* The wheel put in place after its install check alone.
PublishInstalled(p) ==
    /\ \/ Goes(p, "smoke", "copy", FreshOutput(p)) /\ UNCHANGED output
       \/ /\ Goes(p, "copy", "copying", TRUE)
          /\ output' = [output EXCEPT ![OutputOf[p]] = Torn]
       \/ /\ Goes(p, "copying", "report", TRUE)
          /\ output' = [output EXCEPT ![OutputOf[p]] = build[p]]
    /\ UNCHANGED <<build, baseline, official, report, starts, changes>>

\* The refusal of an existing wheel, then the copy, which is not one step.
Publish(p) ==
    /\ \/ Goes(p, "publish", "copy", FreshOutput(p)) /\ UNCHANGED output
       \/ /\ Goes(p, "copy", "copying", TRUE)
          /\ output' = [output EXCEPT ![OutputOf[p]] = Torn]
       \/ /\ Goes(p, "copying", "report", TRUE)
          /\ output' = [output EXCEPT ![OutputOf[p]] = build[p]]
    /\ UNCHANGED <<build, baseline, official, report, starts, changes>>

\* The report replaces whatever is at its path.
WriteReport(p) ==
    /\ Goes(p, "report", "done", TRUE)
    /\ report' = [report EXCEPT ![ReportOf[p]] = build[p]]
    /\ UNCHANGED <<build, baseline, official, output, starts, changes>>

Working(p) == pc[p] \notin {"idle", "failed", "killed", "done"}

\* A command or a file operation fails, or the process is killed.
Stop(p) ==
    /\ Working(p)
    /\ \E to \in {"failed", "killed"} : pc' = [pc EXCEPT ![p] = to]
    /\ UNCHANGED <<build, baseline, official, output, report, starts, changes>>

OfficialChange ==
    /\ changes < MaxChanges
    /\ official' = official + 1 /\ changes' = changes + 1
    /\ UNCHANGED <<pc, build, baseline, output, report, starts>>

Next ==
    \/ \E p \in Pipeline :
          Begin(p) \/ Gates(p) \/ Pip(p) \/ Publish(p) \/ WriteReport(p) \/ Stop(p)
    \/ OfficialChange

Spec == Init /\ [][Next]_vars

-----------------------------------------------------------------------------
(* Properties *)

Whole(o) == output[o] \notin {None, Torn}

(* A whole wheel in an output directory has passed every gate of the pipeline that
   put it there, whatever failed, was killed or ran at the same time: an unsound
   wheel never leaves the temporary directory. *)
OnlySoundWheels == \A o \in Output : Whole(o) => output[o].flaws = {}

(* A report names a whole wheel that is in its output directory as it was tested,
   and an output directory never loses a wheel a report names. *)
ReportedIsThere ==
    \A p \in Pipeline : pc[p] = "done" => output[OutputOf[p]] = report[ReportOf[p]]
=============================================================================
