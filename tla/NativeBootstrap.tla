---------------------------- MODULE NativeBootstrap -----------------------------
(***************************************************************************)
(* How a worker process loads the bundled operator.  Every enabled         *)
(* attention backend asks for it in its constructor: under _LOAD_LOCK the  *)
(* process is inspected, the paths of the bundle are put first in two      *)
(* environment variables, the op API library is opened and the Torch       *)
(* adapter loaded, under a lock of its own, by the loader that anyone in   *)
(* the process may call with a path.  A load that fails restores the       *)
(* environment, and the next constructor tries again.                      *)
(***************************************************************************)
EXTENDS NativeCompatibility, Integers, Sequences, SequencesExt

CONSTANTS
    Layer,         \* the attention backends of the worker
    Direct,        \* other callers of load_triangle_mix_adapter
    Other,         \* the path they ask for
    Inspected,     \* the facts a worker may meet
    Settings       \* initial values of a path list, Unset or a list of items

Bundled == "bundled"   \* a path inside the wheel
Alias == "alias"       \* another spelling of the same path
None == "none"
Variable == {"ASCEND_CUSTOM_OPP_PATH", "LD_LIBRARY_PATH"}
Unset == [set |-> FALSE, items |-> << >>]

ASSUME NativeBootstrapAssumption ==
    /\ Inspected \subseteq Facts
    /\ Other \notin {Bundled, Alias, None, "cust_opapi"}
    /\ Layer \cap Direct = {} /\ None \notin Layer \cup Direct

VARIABLES
    facts,         \* what the inspection reads
    registers,     \* the libraries that do register the operator
    strict,        \* config.strict
    found,         \* the environment the worker started with
    env,           \* os.environ
    status,        \* _LAST_STATUS.state
    owner,         \* of _LOAD_LOCK
    saved,         \* old_opp and old_ld of the owner
    opened,        \* libraries loaded without an error
    handle,        \* _CUST_OPAPI_HANDLE
    adapterOwner,  \* of _ADAPTER_LOAD_LOCK
    adapter,       \* _LOADED_ADAPTER_PATH
    registered,    \* the libraries that registered the operator
    pc,
    route,         \* what a constructor left in _NATIVE_READY_ATTR
    answers        \* the enabled constructors, in the order they were answered

vars == << facts, registers, strict, found, env, status, owner, saved, opened,
           handle, adapterOwner, adapter, registered, pc, route, answers >>
fixed == << facts, registers, strict, found >>
torch == << opened, adapterOwner, adapter, registered >>

Path == {Bundled, Other}
Process == Layer \cup Direct
States == {"not_initialized", "disabled", "incompatible", "load_failed", "ready"}
Loaded == status = "ready"

Init ==
    /\ facts \in Inspected
    /\ registers \in SUBSET Path
    /\ strict \in BOOLEAN
    /\ found \in [Variable -> Settings]
    /\ env = found
    /\ status = "not_initialized"
    /\ owner = None /\ saved = found
    /\ opened = {} /\ handle = FALSE
    /\ adapterOwner = None /\ adapter = None /\ registered = {}
    /\ pc = [p \in Process |-> "start"]
    /\ route = [l \in Layer |-> None]
    /\ answers = << >>

-----------------------------------------------------------------------------
(* The environment.                                                        *)

RealPath(item) == IF item = Alias THEN Bundled ELSE item

(* _prepend_env_path: the path first; other spellings of it and empty      *)
(* items dropped.                                                          *)
Prepended(value, path) ==
    [set |-> TRUE,
     items |-> << path >> \o SelectSeq(value.items,
                                 LAMBDA i : i # "" /\ RealPath(i) # path)]

-----------------------------------------------------------------------------
(* One constructor.                                                        *)

Goto(p, label) == pc' = [pc EXCEPT ![p] = label]

(* _ensure_native_ready of a disabled configuration imports nothing.       *)
Disabled(l) ==
    /\ pc[l] = "start"
    /\ Goto(l, "done")
    /\ route' = [route EXCEPT ![l] = "official"]
    /\ UNCHANGED << fixed, env, status, owner, saved, torch, handle, answers >>

Ask(l) ==
    /\ pc[l] = "start"
    /\ Goto(l, "wait")
    /\ UNCHANGED << fixed, env, status, owner, saved, torch, handle, route,
                    answers >>

(* Leaving ensure_native_loaded: a failure is raised in strict mode, and   *)
(* is the official route otherwise.                                        *)
Answer(l, success) ==
    LET answer == IF success THEN "native"
                  ELSE IF strict THEN "raised" ELSE "official"
    IN  /\ Goto(l, "done")
        /\ route' = [route EXCEPT ![l] = answer]
        /\ answers' = Append(answers, answer)

(* The lock is taken and a loaded status returned as it is.                *)
Reuse(l) ==
    /\ pc[l] = "wait" /\ owner = None
    /\ Loaded
    /\ Answer(l, TRUE)
    /\ UNCHANGED << fixed, env, status, owner, saved, torch, handle >>

(* Slips: an incompatible process is inspected until it is not; the status *)
(* is not looked at before loading.                                        *)
InspectUntilCompatible(l) ==
    /\ pc[l] = "wait" /\ owner = None
    /\ ~Loaded
    /\ IF Compatible(facts)
       THEN owner' = l /\ Goto(l, "configure") /\ UNCHANGED status
       ELSE status' = "incompatible" /\ UNCHANGED << owner, pc >>
    /\ UNCHANGED << fixed, env, saved, torch, handle, route, answers >>

InspectAgain(l) ==
    /\ pc[l] = "wait" /\ owner = None
    /\ Compatible(facts)
    /\ owner' = l
    /\ Goto(l, "configure")
    /\ UNCHANGED << fixed, env, status, saved, torch, handle, route, answers >>

(* The lock is taken and the process inspected.  An inspection that raises *)
(* leaves the status alone.                                                *)
Inspect(l) ==
    /\ pc[l] = "wait" /\ owner = None
    /\ ~Loaded
    /\ IF Compatible(facts)
       THEN /\ owner' = l
            /\ Goto(l, "configure")
            /\ UNCHANGED << status, route, answers >>
       ELSE /\ status' = IF InspectionRaises(facts) THEN status
                         ELSE "incompatible"
            /\ Answer(l, FALSE)
            /\ UNCHANGED owner
    /\ UNCHANGED << fixed, env, saved, torch, handle >>

Configure(l) ==
    /\ pc[l] = "configure"
    /\ saved' = env
    /\ env' = [v \in Variable |-> Prepended(env[v], Bundled)]
    /\ Goto(l, "preload")
    /\ UNCHANGED << fixed, status, owner, torch, handle, route, answers >>

(* A slip of the handler: only a variable that was set is restored.        *)
FailKeepingUnset(l) ==
    /\ env' = [v \in Variable |-> IF saved[v].set THEN saved[v] ELSE env[v]]
    /\ status' = "load_failed"
    /\ owner' = None
    /\ Answer(l, FALSE)
    /\ UNCHANGED << fixed, saved, handle >>

(* The except clause: both variables are as they were, unset ones unset.   *)
(* What was opened stays open.                                             *)
Fail(l) ==
    /\ env' = saved
    /\ status' = "load_failed"
    /\ owner' = None
    /\ Answer(l, FALSE)
    /\ UNCHANGED << fixed, saved, handle >>

(* _preload_cust_opapi: opening the library may raise.                     *)
Preload(l) ==
    /\ pc[l] = "preload"
    /\ \/ /\ opened' = opened \cup {"cust_opapi"}
          /\ Goto(l, "adapter")
          /\ UNCHANGED << fixed, env, status, owner, saved, handle, route,
                          answers, adapterOwner, adapter, registered >>
       \/ Fail(l) /\ UNCHANGED torch

-----------------------------------------------------------------------------
(* load_triangle_mix_adapter, called by the owner of the load lock with    *)
(* the bundled path and by others with theirs.                             *)

AcquireAdapter(p) ==
    /\ pc[p] = IF p \in Layer THEN "adapter" ELSE "start"
    /\ adapterOwner = None
    /\ adapterOwner' = p
    /\ Goto(p, "adapter_locked")
    /\ UNCHANGED << fixed, env, status, owner, saved, opened, adapter,
                    registered, handle, route, answers >>

(* load_library raises, before or after the library has registered the     *)
(* operator, which stays: Torch takes no registration back.                *)
Broken(path) ==
    registered' \in {registered, registered \cup ({path} \cap registers)}

(* A slip: the path is recorded before the registration is checked.        *)
LoadAdapterEarly(path, ok) ==
    IF adapter # None
    THEN ok = (adapter = path) /\ UNCHANGED << opened, adapter, registered >>
    ELSE \/ ~ok /\ Broken(path) /\ UNCHANGED << opened, adapter >>
         \/ /\ opened' = opened \cup {path}
            /\ registered' = registered \cup ({path} \cap registers)
            /\ ok = (registered' # {})
            /\ adapter' = path

(* The body under the lock.  load_library may raise, or succeed; the path  *)
(* is recorded once the operator is there, whichever library put it there. *)
LoadAdapter(path, ok) ==
    IF adapter # None
    THEN ok = (adapter = path) /\ UNCHANGED << opened, adapter, registered >>
    ELSE \/ ~ok /\ Broken(path) /\ UNCHANGED << opened, adapter >>
         \/ /\ opened' = opened \cup {path}
            /\ registered' = registered \cup ({path} \cap registers)
            /\ ok = (registered' # {})
            /\ adapter' = IF ok THEN path ELSE adapter

(* The loader returns to ensure_native_loaded, which keeps the handle and  *)
(* is ready, or fails.                                                     *)
FinishLoad(l, ok) ==
    /\ pc[l] = "adapter_locked"
    /\ LoadAdapter(Bundled, ok)
    /\ adapterOwner' = None
    /\ IF ok
       THEN /\ handle' = TRUE
            /\ status' = "ready"
            /\ owner' = None
            /\ Answer(l, TRUE)
            /\ UNCHANGED << fixed, env, saved >>
       ELSE Fail(l)

DirectLoad(d, ok) ==
    /\ pc[d] = "adapter_locked"
    /\ LoadAdapter(Other, ok)
    /\ adapterOwner' = None
    /\ Goto(d, "done")
    /\ UNCHANGED << fixed, env, status, owner, saved, handle, route, answers >>

(* ensure_native_loaded(False), from anyone: a loaded status is kept.      *)
AskDisabled ==
    /\ owner = None
    /\ status' = IF Loaded THEN status ELSE "disabled"
    /\ UNCHANGED << fixed, env, owner, saved, torch, handle, pc, route, answers >>

-----------------------------------------------------------------------------
LayerStep(l) ==
    \/ Disabled(l) \/ Ask(l) \/ Reuse(l) \/ Inspect(l) \/ Configure(l)
    \/ Preload(l) \/ AcquireAdapter(l)
    \/ \E ok \in BOOLEAN : FinishLoad(l, ok)

DirectStep(d) == AcquireAdapter(d) \/ \E ok \in BOOLEAN : DirectLoad(d, ok)

Done == /\ \A p \in Process : pc[p] = "done"
        /\ UNCHANGED vars

Next ==
    \/ \E l \in Layer : LayerStep(l)
    \/ \E d \in Direct : DirectStep(d)
    \/ AskDisabled
    \/ Done

Spec == Init /\ [][Next]_vars

(* Threads run.  Every holder gives its lock back and asks once, so weak   *)
(* fairness is enough for a free lock to be obtained in the end.           *)
FairSpec ==
    /\ Spec
    /\ \A l \in Layer : WF_vars(LayerStep(l))
    /\ \A d \in Direct : WF_vars(DirectStep(d))

-----------------------------------------------------------------------------
(* Between two loads the two variables are exactly as the worker found     *)
(* them, unset ones unset, or have the bundle put first once: however many *)
(* loads have failed, and wherever, before one succeeds.                   *)
EnvironmentFollowsStatus ==
    owner = None =>
        env = IF Loaded THEN [v \in Variable |-> Prepended(found[v], Bundled)]
              ELSE found

(* A layer that was told the operator is there can launch it: somebody     *)
(* registered it, the bundled adapter is loaded and is the one that did,   *)
(* unless a library whose load failed had done so already, and its op API  *)
(* library is open and kept.  And it was told so on the tested combination *)
(* only, apart from local labels and from a bundle that does not name its  *)
(* compiler: the versions imported, and those installed where they are     *)
(* versions at all, a complete bundle, and a device that, where it is      *)
(* known, is an Ascend 910B.                                               *)
ReadyIsUsable ==
    (\E l \in Layer : route[l] = "native") =>
        /\ adapter = Bundled /\ Bundled \in opened
        /\ registered # {}
        /\ registered \subseteq opened => registered = {Bundled}
        /\ handle /\ "cust_opapi" \in opened
        /\ facts.identity = {} /\ facts.missing = {}
        /\ facts.compiler \in {"9.0.1", "none"}
        /\ \A d \in Distribution :
              \/ Public(facts.dist[d]) = "release"
              \/ d \in Module /\ facts.dist[d] = "invalid"
        /\ \A m \in Module : Public(facts.module[m]) = "release"
        /\ facts.device # "other"
        /\ facts.environment = "other" => facts.device = "910b"

(* The two locks never block each other: a constructor that asks is        *)
(* answered.                                                               *)
EveryAskAnswered == \A l \in Layer : pc[l] = "wait" ~> pc[l] = "done"

-----------------------------------------------------------------------------
(* What a worker may rely on: the operator appears at most once, at an     *)
(* answer, and stays.                                                      *)
Promise == INSTANCE OperatorPresence
               WITH present <- Loaded, given <- answers

(* The bootstrap implements it.                                            *)
ImplementsPresence == Promise!PresenceSpec
=============================================================================
