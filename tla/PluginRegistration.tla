-------------------------- MODULE PluginRegistration --------------------------
(***************************************************************************)
(* How the plugin puts itself in front of vLLM-Ascend: register patches    *)
(* the metadata builder, the attention backend and, in a development       *)
(* snapshot, the loader of an older hook; every backend constructed later  *)
(* makes sure that the model runner is patched as well.  A patch is a      *)
(* series of assignments to attributes of classes and modules, any of      *)
(* which may raise; what was assigned is then put back.  Each of the two   *)
(* patches runs under a lock of its own, and may be tried again.           *)
(***************************************************************************)
EXTENDS Integers, Sequences, SequencesExt

CONSTANTS
    Thread,         \* the threads of the worker process
    Missing,        \* an attribute the object itself does not have
    Snapshots,      \* the attributes a supported vLLM-Ascend may come with
    NoThread,
    MaxCalls,       \* bound on the calls of register and of the constructor
    MaxCopies       \* bound on the times the plugin module is loaded

VARIABLES
    base, own,      \* what the classes inherit and what they, and the
                    \* modules, define themselves before any patch
    attr,           \* the attributes of the classes and modules themselves
    supported,      \* per patch: versions and signatures are allowlisted
    strict,         \* per patch: the strict option it reads
    registered,     \* _REGISTERED
    rejected,       \* _RUNNER_REJECTIONS is not empty
    errors,         \* runtime errors recorded, per patch
    lock,           \* per patch: the holder of its lock
    pc, job, at,    \* per thread: where it is in which patch
    captured,       \* per thread: the attributes before its patch
    calls, copies   \* calls begun, and plugin modules loaded

official == <<base, own, supported, strict>>
vars == <<base, own, attr, supported, strict, registered, rejected, errors, lock,
          pc, job, at, captured, calls, copies>>

(***************************************************************************)
(* Attributes.  A function is counted by the plugin's wrappers around the  *)
(* official one, 0 for the official function; 1 is also the plugin's own   *)
(* replacement of a hook and a marker that is set.                         *)
(***************************************************************************)
Patches == {"attention", "runner"}

Captured == [attention |-> <<"build", "graphBuild", "builderMarker",
                             "init", "forward", "fia", "canUse", "legacyCanUse",
                             "backendMarker", "loader", "legacyLoader">>,
             runner |-> <<"runnerBuild", "runnerMarker">>]
Owned == [p \in Patches |-> ToSet(Captured[p])]
Names == Owned["attention"] \cup Owned["runner"]
Wrapped == {"build", "graphBuild", "init", "forward", "fia", "runnerBuild"}

(* What only a patch defines.                                              *)
Added == {"builderMarker", "legacyCanUse", "backendMarker", "legacyLoader",
          "runnerMarker"}

(* The functions to wrap are there, with the signatures of the allowlist.  *)
Snapshot ==
    {s \in [base : [Names -> {Missing, 0}], own : [Names -> {Missing, 0}]] :
        /\ \A n \in Wrapped : 0 \in {s.base[n], s.own[n]}
        /\ \A n \in Added : {s.base[n], s.own[n]} = {Missing}}

ASSUME RegistrationAssumption ==
    /\ Missing \notin Nat /\ NoThread \notin Thread
    /\ Snapshots \subseteq Snapshot
    /\ MaxCalls \in Nat /\ MaxCopies \in Nat \ {0}

Nowhere == [n \in Names |-> Missing]     \* nothing is captured

(* What reading an attribute finds.                                        *)
Visible(a, name) == IF a[name] = Missing THEN base[name] ELSE a[name]

(* What a patch assigns, in order, and the values it assigns, both from    *)
(* the attributes as it found them.                                        *)
BuilderAssigns(a) ==
    IF Visible(a, "builderMarker") = 1 THEN <<>>
    ELSE <<"build", "graphBuild", "builderMarker">>

LegacyAssigns(a) ==
    IF Visible(a, "canUse") = Missing THEN <<>>
    ELSE <<"legacyCanUse", "canUse">>
         \o (IF Visible(a, "loader") = Missing THEN <<>>
             ELSE <<"legacyLoader", "loader">>)

(* A slip of the patch: it does not look at its marker.                    *)
BackendAssignsAgain(a) ==
    <<"init", "forward", "fia">> \o LegacyAssigns(a) \o <<"backendMarker">>

BackendAssigns(a) ==
    IF Visible(a, "backendMarker") = 1 THEN <<>>
    ELSE <<"init", "forward", "fia">> \o LegacyAssigns(a) \o <<"backendMarker">>

Assigns(p, a) ==
    IF p = "attention" THEN BuilderAssigns(a) \o BackendAssigns(a)
    ELSE <<"runnerBuild", "runnerMarker">>

Assigned(a, name) ==
    CASE name \in Wrapped -> Visible(a, name) + 1
      [] name = "legacyCanUse" -> Visible(a, "canUse")
      [] name = "legacyLoader" -> Visible(a, "loader")
      [] OTHER -> 1

-----------------------------------------------------------------------------
Init ==
    /\ \E s \in Snapshots : base = s.base /\ own = s.own /\ attr = s.own
    /\ supported \in [Patches -> BOOLEAN]
    /\ strict \in [Patches -> BOOLEAN]
    /\ registered = FALSE /\ rejected = FALSE
    /\ errors = [p \in Patches |-> 0]
    /\ lock = [p \in Patches |-> NoThread]
    /\ pc = [t \in Thread |-> "idle"]
    /\ job = [t \in Thread |-> "attention"]
    /\ at = [t \in Thread |-> 0]
    /\ captured = [t \in Thread |-> Nowhere]
    /\ calls = 0 /\ copies = 1

Go(t, place) == pc' = [pc EXCEPT ![t] = place]
Release(p) == lock' = [lock EXCEPT ![p] = NoThread]
Record(p) == errors' = [errors EXCEPT ![p] = @ + 1]
Holds(t, place) == pc[t] = place /\ lock[job[t]] = t

(* Both patches begin by waiting for their lock.                           *)
Call(t, p) ==
    /\ pc[t] = "idle" /\ calls < MaxCalls
    /\ Go(t, "waiting")
    /\ job' = [job EXCEPT ![t] = p]
    /\ calls' = calls + 1
    /\ UNCHANGED <<official, attr, registered, rejected, errors, lock, at, captured, copies>>

Register(t) == Call(t, "attention")

(* The constructor of a backend asks for the runner once it is the         *)
(* plugin's wrapper.                                                       *)
ConstructBackend(t) == Visible(attr, "init") >= 1 /\ Call(t, "runner")

Enter(t) ==
    /\ pc[t] = "waiting" /\ lock[job[t]] = NoThread
    /\ lock' = [lock EXCEPT ![job[t]] = t]
    /\ Go(t, "entered")
    /\ UNCHANGED <<official, attr, registered, rejected, errors, job, at, captured, calls, copies>>

(* A slip: an exception on the way out leaves the lock held.               *)
LeaveHolding(t, raises) ==
    /\ IF raises THEN UNCHANGED lock ELSE Release(job[t])
    /\ Go(t, IF raises THEN "stopped" ELSE "idle")
    /\ job' = [job EXCEPT ![t] = "attention"]
    /\ at' = [at EXCEPT ![t] = 0]
    /\ captured' = [captured EXCEPT ![t] = Nowhere]
    /\ UNCHANGED <<official, calls, copies>>

(* Leaving: the lock is released; an exception stops the thread.           *)
Leave(t, raises) ==
    /\ Release(job[t])
    /\ Go(t, IF raises THEN "stopped" ELSE "idle")
    /\ job' = [job EXCEPT ![t] = "attention"]
    /\ at' = [at EXCEPT ![t] = 0]
    /\ captured' = [captured EXCEPT ![t] = Nowhere]
    /\ UNCHANGED <<official, calls, copies>>

Done(p) ==
    IF p = "attention" THEN registered
    ELSE supported[p] /\ Visible(attr, "runnerMarker") = 1

AlreadyDone(t) ==
    /\ Holds(t, "entered")
    /\ Done(job[t])
    /\ Leave(t, FALSE)
    /\ UNCHANGED <<attr, registered, rejected, errors>>

(* The versions or signatures are not allowlisted, or the import of        *)
(* vllm_ascend raises.  Nothing has been assigned yet.  A rejected runner  *)
(* is recorded once.                                                       *)
RejectAttention(t) ==
    /\ Holds(t, "entered") /\ job[t] = "attention" /\ ~registered
    /\ Record("attention")
    /\ Leave(t, strict["attention"])
    /\ UNCHANGED <<attr, registered, rejected>>

RejectRunner(t) ==
    /\ Holds(t, "entered") /\ job[t] = "runner" /\ ~supported["runner"]
    /\ IF strict["runner"] \/ rejected THEN UNCHANGED <<rejected, errors>>
       ELSE rejected' = TRUE /\ Record("runner")
    /\ Leave(t, strict["runner"])
    /\ UNCHANGED <<attr, registered>>

(* The attributes are captured and the first assignment may begin.         *)
StartPatch(t) ==
    /\ Holds(t, "entered")
    /\ ~Done(job[t]) /\ supported[job[t]]
    /\ Go(t, "patching")
    /\ at' = [at EXCEPT ![t] = 0]
    /\ captured' = [captured EXCEPT ![t] = attr]
    /\ UNCHANGED <<official, attr, registered, rejected, errors, lock, job, calls, copies>>

Script(t) == Assigns(job[t], captured[t])

Assign(t) ==
    /\ Holds(t, "patching")
    /\ at[t] < Len(Script(t))
    /\ LET name == Script(t)[at[t] + 1]
       IN  attr' = [attr EXCEPT ![name] = Assigned(captured[t], name)]
    /\ at' = [at EXCEPT ![t] = @ + 1]
    /\ UNCHANGED <<official, registered, rejected, errors, lock, pc, job, captured, calls, copies>>

(* The last assignment is made; register then sets _REGISTERED.            *)
Finish(t) ==
    /\ Holds(t, "patching")
    /\ at[t] = Len(Script(t))
    /\ registered' = (registered \/ job[t] = "attention")
    /\ Leave(t, FALSE)
    /\ UNCHANGED <<attr, rejected, errors>>

(* A slip: only as many are put back as had been assigned, although the    *)
(* attributes are not assigned in the order they are captured in.          *)
AssignRaisesPartly(t) ==
    /\ Holds(t, "patching")
    /\ at[t] < Len(Script(t))
    /\ Go(t, "restoring")
    /\ UNCHANGED <<official, attr, registered, rejected, errors, lock, job, at, captured, calls, copies>>

(* An assignment raises; what was captured is put back, last one first.    *)
AssignRaises(t) ==
    /\ Holds(t, "patching")
    /\ at[t] < Len(Script(t))
    /\ Go(t, "restoring")
    /\ at' = [at EXCEPT ![t] = Len(Captured[job[t]])]
    /\ UNCHANGED <<official, attr, registered, rejected, errors, lock, job, captured, calls, copies>>

Restore(t) ==
    /\ Holds(t, "restoring") /\ at[t] > 0
    /\ LET name == Captured[job[t]][at[t]]
       IN  attr' = [attr EXCEPT ![name] = captured[t][name]]
    /\ at' = [at EXCEPT ![t] = @ - 1]
    /\ UNCHANGED <<official, registered, rejected, errors, lock, pc, job, captured, calls, copies>>

(* register records and, unless it is strict, returns; nothing catches the *)
(* exception in the constructor of a backend.                              *)
FailPatch(t) ==
    /\ Holds(t, "restoring") /\ at[t] = 0
    /\ IF job[t] = "attention" THEN Record("attention") ELSE UNCHANGED errors
    /\ Leave(t, job[t] = "runner" \/ strict["attention"])
    /\ UNCHANGED <<attr, registered, rejected>>

(* The plugin module is loaded a second time: its globals start afresh,    *)
(* the patched classes stay, and a wrapped constructor still refers to the *)
(* rejections of the copy it came from.                                    *)
Reload ==
    /\ \A t \in Thread : pc[t] \in {"idle", "stopped"}
    /\ copies < MaxCopies
    /\ copies' = copies + 1
    /\ registered' = FALSE
    /\ rejected' = (rejected /\ Visible(attr, "init") >= 1)
    /\ UNCHANGED <<official, attr, errors, lock, pc, job, at, captured, calls>>

Step(t) ==
    \/ Enter(t) \/ AlreadyDone(t) \/ RejectAttention(t) \/ RejectRunner(t)
    \/ StartPatch(t) \/ Assign(t) \/ Finish(t)
    \/ AssignRaises(t) \/ Restore(t) \/ FailPatch(t)

Next ==
    \/ \E t \in Thread : Register(t) \/ ConstructBackend(t) \/ Step(t)
    \/ Reload

Spec == Init /\ [][Next]_vars

(* A thread inside register or the constructor keeps running.              *)
FairSpec == Spec /\ \A t \in Thread : WF_vars(Step(t))

-----------------------------------------------------------------------------
(* What a patch leaves in a vLLM-Ascend that it found as base and own.     *)
Hook == Visible(own, "canUse") # Missing
HookLoader == Hook /\ Visible(own, "loader") # Missing

Untouched(p) == \A n \in Owned[p] : attr[n] = own[n]

Complete(p) == \A n \in Owned[p] : attr[n] =
    CASE n = "canUse" -> IF Hook THEN 1 ELSE Missing
      [] n = "legacyCanUse" -> IF Hook THEN 0 ELSE Missing
      [] n = "loader" -> IF HookLoader THEN 1 ELSE own[n]
      [] n = "legacyLoader" -> IF HookLoader THEN 0 ELSE Missing
      [] OTHER -> 1

(* When nobody is inside a patch it is all there or not at all: each of    *)
(* its functions is wrapped exactly once, each marker set, the older hook  *)
(* disabled and its original kept; or the classes and modules define just  *)
(* what they did, an inherited method still being inherited                *)
(* (_patch_attention_module, _patch_model_runner_module and                *)
(* _restore_attributes).  And a registered plugin is in place.             *)
AllOrNothing ==
    /\ \A p \in Patches : lock[p] = NoThread => Untouched(p) \/ Complete(p)
    /\ registered => Complete("attention")

(* No function is ever wrapped twice, whatever fails, is tried again or is *)
(* loaded a second time: a layer would be counted and planned twice.       *)
WrappedOnce == \A n \in Names : attr[n] \in {Missing, 0, 1}

(* Every call returns or raises: the locks are always released.            *)
Completes == \A t \in Thread : pc[t] # "idle" ~> pc[t] \in {"idle", "stopped"}
=============================================================================
