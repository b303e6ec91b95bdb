--------------------------- MODULE DeploymentProofs ---------------------------
(***************************************************************************)
(* What gets a wheel to a machine and into a process there, proved: the     *)
(* native bootstrap (NativeBootstrap) and the tools of the release machine  *)
(* (ReleaseTools).                                                          *)
(***************************************************************************)
EXTENDS NativeBootstrap, ReleaseTools, FiniteSetTheorems, SequenceTheorems, TLAPS

(* The native bootstrap: a load changes the environment once or not at all, *)
(* and a backend told that the operator is there can launch it, for any     *)
(* number of backends and loaders and every process.                        *)

Labels ==
    {"start", "wait", "configure", "preload", "adapter", "adapter_locked",
     "done"}

(* Where a constructor holds _LOAD_LOCK between two steps.                 *)
Loading == {"configure", "preload", "adapter", "adapter_locked"}

NativeTypes ==
    /\ facts \in Inspected
    /\ registers \subseteq {"bundled", Other}
    /\ pc \in [Process -> Labels]
    /\ route \in [Layer -> {"none", "official", "native", "raised"}]

(* The environment with the bundle put first, once.                        *)
WithBundle == [v \in Variable |-> Prepended(found[v], "bundled")]

(* What a constructor knows where it is: it is alone, nothing is loaded,   *)
(* the stack is a tested one, and what the environment was is in env or,   *)
(* once it has changed it, in saved.                                       *)
LoaderKnows(l) ==
    /\ pc[l] \in Loading =>
          owner = l /\ ~Loaded /\ Compatible(facts)
    /\ pc[l] \in {"adapter", "adapter_locked"} => "cust_opapi" \in opened
    /\ pc[l] = "configure" => env = found
    /\ pc[l] \in Loading \ {"configure"} => saved = found /\ env = WithBundle
    /\ route[l] = "native" => Loaded

(* Nobody is loading, nor has: the environment is the one found.  Nobody   *)
(* changes it any more once the bundle is loaded.                          *)
EnvironmentKnown ==
    /\ owner = "none" /\ ~Loaded => env = found
    /\ Loaded => env = WithBundle

(* A library that loads and registers the operator is the one whose path   *)
(* the loader keeps, and keeps for good.                                   *)
AdapterKnown ==
    /\ adapter \in {"none", "bundled", Other}
    /\ registered \subseteq registers
    /\ opened \cap registers \subseteq {adapter}
    /\ adapter # "none" => registered # {} /\ adapter \in opened

LoadedIsUsable ==
    Loaded => /\ handle /\ adapter = "bundled"
              /\ "cust_opapi" \in opened /\ Compatible(facts)

NativeInv ==
    /\ NativeTypes
    /\ \A l \in Layer : LoaderKnows(l)
    /\ EnvironmentKnown /\ AdapterKnown /\ LoadedIsUsable

(* The conditions of NativeBootstrap, with its names.                      *)
LEMMA NativeAssumed ==
    /\ Inspected \subseteq Facts
    /\ Other \notin {"bundled", "none", "cust_opapi"}
    /\ Layer \cap Direct = {} /\ "none" \notin Layer \cup Direct
  BY NativeBootstrapAssumption DEF NativeBootstrapAssumption, Bundled, Alias, None

(* What a load leaves behind is decided by what the worker found.          *)
LEMMA WithBundleKept == ASSUME UNCHANGED found PROVE WithBundle' = WithBundle
  BY DEF WithBundle

(* A worker starts with nothing loaded.                                    *)
LEMMA InitNative == Init => NativeInv
  BY DEF Init, NativeInv, NativeTypes, LoaderKnows, EnvironmentKnown,
         AdapterKnown, LoadedIsUsable, Labels, Loading, Loaded, None, Process,
         Path, Bundled

(* A constructor outside the lock moves to a place outside it.             *)
LEMMA WaitKeeps ==
    ASSUME NativeInv, NEW l \in Layer,
           Disabled(l) \/ Ask(l) \/ Reuse(l)
    PROVE  NativeInv'
<1>1. /\ UNCHANGED << facts, registers, strict, found, env, status, owner,
                      saved, opened, handle, adapterOwner, adapter,
                      registered >>
      /\ \E label \in {"wait", "done"} :
             pc' = [pc EXCEPT ![l] = label]
      /\ \/ route' = route
         \/ \E answer \in {"official", "native"} :
                /\ route' = [route EXCEPT ![l] = answer]
                /\ answer = "native" => Loaded
  BY DEF Disabled, Ask, Reuse, Answer, Goto, fixed, torch
<1>2. NativeTypes'
  BY <1>1 DEF NativeInv, NativeTypes, Labels, Process
<1>3. ASSUME NEW k \in Layer PROVE LoaderKnows(k)'
  BY <1>1, WithBundleKept
     DEF NativeInv, NativeTypes, LoaderKnows, Loading, Loaded, Process,
         Compatible
<1>4. (EnvironmentKnown /\ AdapterKnown /\ LoadedIsUsable)'
  BY <1>1, WithBundleKept
     DEF NativeInv, EnvironmentKnown, AdapterKnown, LoadedIsUsable, Loaded
<1> QED
  BY <1>2, <1>3, <1>4 DEF NativeInv

(* The constructor that takes the lock finds the environment unchanged.    *)
LEMMA InspectKeeps ==
    ASSUME NativeInv, NEW l \in Layer,
           Inspect(l)
    PROVE  NativeInv'
<1>1. /\ pc[l] = "wait" /\ owner = "none" /\ ~Loaded /\ env = found
      /\ UNCHANGED << facts, registers, found, env, saved, opened, handle,
                      adapter, registered >>
  BY DEF Inspect, None, NativeInv, EnvironmentKnown, fixed, torch
<1>2. \A k \in Layer : pc[k] \notin Loading
  BY <1>1, NativeAssumed DEF NativeInv, LoaderKnows
<1>3. CASE Compatible(facts)
  <2>1. /\ owner' = l /\ pc' = [pc EXCEPT ![l] = "configure"]
        /\ UNCHANGED << status, route >>
    BY <1>3 DEF Inspect, Goto
  <2>2. NativeTypes'
    BY <1>1, <2>1 DEF NativeInv, NativeTypes, Labels, Process
  <2>3. ASSUME NEW k \in Layer PROVE LoaderKnows(k)'
    BY <1>1, <1>2, <1>3, <2>1, WithBundleKept
       DEF NativeInv, NativeTypes, LoaderKnows, Loading, Loaded, Process,
           Compatible
  <2>4. (EnvironmentKnown /\ AdapterKnown /\ LoadedIsUsable)'
    BY <1>1, <2>1, WithBundleKept
       DEF NativeInv, EnvironmentKnown, AdapterKnown, LoadedIsUsable, Loaded
  <2> QED
    BY <2>2, <2>3, <2>4 DEF NativeInv
<1>4. CASE ~Compatible(facts)
  <2>1. /\ owner' = owner /\ pc' = [pc EXCEPT ![l] = "done"]
        /\ ~Loaded'
        /\ \E answer \in {"official", "raised"} :
               route' = [route EXCEPT ![l] = answer]
    BY <1>1, <1>4 DEF Inspect, Answer, Goto, Loaded
  <2>2. NativeTypes'
    BY <1>1, <2>1 DEF NativeInv, NativeTypes, Labels, Process
  <2>3. ASSUME NEW k \in Layer PROVE LoaderKnows(k)'
    BY <1>1, <1>2, <2>1, WithBundleKept
       DEF NativeInv, NativeTypes, LoaderKnows, Loading, Process
  <2>4. (EnvironmentKnown /\ AdapterKnown /\ LoadedIsUsable)'
    BY <1>1, <2>1, WithBundleKept
       DEF NativeInv, EnvironmentKnown, AdapterKnown, LoadedIsUsable
  <2> QED
    BY <2>2, <2>3, <2>4 DEF NativeInv
<1> QED
  BY <1>3, <1>4

(* What the environment was is kept before it is changed.                  *)
LEMMA ConfigureKeeps ==
    ASSUME NativeInv, NEW l \in Layer,
           Configure(l)
    PROVE  NativeInv'
<1>1. /\ pc[l] = "configure" /\ saved' = env
      /\ env' = [v \in Variable |-> Prepended(env[v], "bundled")]
      /\ pc' = [pc EXCEPT ![l] = "preload"]
      /\ UNCHANGED << facts, registers, found, status, owner, opened, handle,
                      adapter, registered, route >>
  BY DEF Configure, Goto, fixed, torch, Bundled
<1>2. /\ owner = l /\ ~Loaded /\ Compatible(facts) /\ env = found
      /\ env' = WithBundle'
  BY <1>1, WithBundleKept DEF NativeInv, LoaderKnows, Loading, WithBundle
<1>3. NativeTypes'
  BY <1>1 DEF NativeInv, NativeTypes, Labels, Process
<1>4. ASSUME NEW k \in Layer PROVE LoaderKnows(k)'
  <2>1. k # l => pc[k] \notin Loading
    BY <1>2 DEF NativeInv, LoaderKnows
  <2> QED
    BY <1>1, <1>2, <2>1, WithBundleKept
       DEF NativeInv, NativeTypes, LoaderKnows, Loading, Loaded, Process,
           Compatible
<1>5. (EnvironmentKnown /\ AdapterKnown /\ LoadedIsUsable)'
  BY WithBundleKept, <1>1, <1>2, NativeAssumed
     DEF NativeInv, EnvironmentKnown, AdapterKnown, LoadedIsUsable, Loaded
<1> QED
  BY <1>3, <1>4, <1>5 DEF NativeInv

(* The except clause puts back what was found, whatever was opened.        *)
LEMMA FailKeeps ==
    ASSUME NativeInv, NEW l \in Layer,
           pc[l] \in Loading \ {"configure"}, Fail(l),
           opened \subseteq opened', AdapterKnown'
    PROVE  NativeInv'
<1>1. /\ owner = l /\ saved = found
      /\ \A k \in Layer : k # l => pc[k] \notin Loading
  BY DEF NativeInv, LoaderKnows
<1>2. /\ env' = saved /\ owner' = "none" /\ ~Loaded'
      /\ pc' = [pc EXCEPT ![l] = "done"]
      /\ \E answer \in {"official", "raised"} :
             route' = [route EXCEPT ![l] = answer]
      /\ UNCHANGED << facts, registers, found, saved, handle >>
  BY DEF Fail, Answer, Goto, fixed, Loaded, None
<1>3. \A k \in Layer : route[k] # "native"
  BY <1>1 DEF NativeInv, LoaderKnows
<1>4. NativeTypes'
  BY <1>2 DEF NativeInv, NativeTypes, Labels, Process
<1>5. ASSUME NEW k \in Layer PROVE LoaderKnows(k)'
  BY <1>1, <1>2, <1>3, WithBundleKept
     DEF NativeInv, NativeTypes, LoaderKnows, Loading, Process
<1>6. (EnvironmentKnown /\ LoadedIsUsable)'
  BY <1>1, <1>2, WithBundleKept DEF EnvironmentKnown, LoadedIsUsable
<1> QED
  BY <1>4, <1>5, <1>6 DEF NativeInv

(* Opening the op API library, or failing to.                              *)
LEMMA PreloadKeeps ==
    ASSUME NativeInv, NEW l \in Layer,
           Preload(l)
    PROVE  NativeInv'
<1>1. pc[l] = "preload"
  BY DEF Preload
<1>2. CASE Fail(l) /\ UNCHANGED torch
  <2>1. opened' = opened /\ AdapterKnown'
    BY <1>2 DEF torch, AdapterKnown, NativeInv, Fail, fixed
  <2> QED
    BY <1>1, <1>2, <2>1, FailKeeps DEF Loading
<1>3. CASE ~(Fail(l) /\ UNCHANGED torch)
  <2>1. /\ opened' = opened \cup {"cust_opapi"}
        /\ pc' = [pc EXCEPT ![l] = "adapter"]
        /\ UNCHANGED << facts, registers, found, env, status, owner, saved,
                        handle, route, adapter, registered >>
    BY <1>3 DEF Preload, Goto, fixed
  <2>2. NativeTypes'
    BY <2>1 DEF NativeInv, NativeTypes, Labels, Process
  <2>3. ASSUME NEW k \in Layer PROVE LoaderKnows(k)'
    BY <1>1, <2>1, WithBundleKept
       DEF NativeInv, NativeTypes, LoaderKnows, Loading, Loaded, Process,
           Compatible
  <2>4. opened' \cap registers' = opened \cap registers
    BY <2>1, NativeAssumed DEF NativeInv, NativeTypes
  <2>5. AdapterKnown'
    BY <2>1, <2>4 DEF NativeInv, AdapterKnown
  <2>6. (EnvironmentKnown /\ LoadedIsUsable)'
    BY <2>1, WithBundleKept
       DEF NativeInv, EnvironmentKnown, LoadedIsUsable, Loaded, Compatible
  <2> QED
    BY <2>2, <2>3, <2>5, <2>6 DEF NativeInv
<1> QED
  BY <1>2, <1>3

(* The adapter lock is taken by a constructor or by another loader.        *)
LEMMA AcquireKeeps ==
    ASSUME NativeInv, NEW p \in Process, AcquireAdapter(p)
    PROVE  NativeInv'
<1>1. /\ pc[p] = IF p \in Layer THEN "adapter" ELSE "start"
      /\ pc' = [pc EXCEPT ![p] = "adapter_locked"]
      /\ UNCHANGED << facts, registers, found, env, status, owner, saved,
                      opened, handle, adapter, registered, route >>
  BY DEF AcquireAdapter, Goto, fixed
<1>2. NativeTypes'
  BY <1>1 DEF NativeInv, NativeTypes, Labels
<1>3. ASSUME NEW k \in Layer PROVE LoaderKnows(k)'
  BY <1>1, WithBundleKept
     DEF NativeInv, NativeTypes, LoaderKnows, Loading, Loaded, Process,
         Compatible
<1>4. (EnvironmentKnown /\ AdapterKnown /\ LoadedIsUsable)'
  BY <1>1, WithBundleKept
     DEF NativeInv, EnvironmentKnown, AdapterKnown, LoadedIsUsable, Loaded
<1> QED
  BY <1>2, <1>3, <1>4 DEF NativeInv

(* The loader: the path it keeps is the one library that loads and         *)
(* registers the operator, and the caller is told whether it was its own.  *)
LEMMA LoadFacts ==
    ASSUME AdapterKnown, registers \subseteq {"bundled", Other},
           UNCHANGED registers,
           NEW path \in {"bundled", Other}, NEW ok \in BOOLEAN,
           LoadAdapter(path, ok)
    PROVE  /\ AdapterKnown' /\ opened \subseteq opened'
           /\ ok => adapter' = path
           /\ adapter # "none" => adapter' = adapter
<1>1. CASE adapter # "none"
  <2>1. ok = (adapter = path) /\ UNCHANGED << opened, adapter, registered >>
    BY <1>1 DEF LoadAdapter, None
  <2>2. AdapterKnown'
    BY <2>1 DEF AdapterKnown
  <2> QED
    BY <2>1, <2>2
<1>2. CASE adapter = "none"
  <2>1. path # "none" /\ opened \cap registers = {}
    BY <1>2, NativeAssumed DEF AdapterKnown
  <2>2. CASE /\ registered' \in {registered,
                                 registered \cup ({path} \cap registers)}
             /\ UNCHANGED << opened, adapter >> /\ ~ok
    BY <1>2, <2>1, <2>2 DEF AdapterKnown
  <2>3. CASE /\ opened' = opened \cup {path}
             /\ registered' = registered \cup ({path} \cap registers)
             /\ ok = (registered' # {})
             /\ adapter' = IF ok THEN path ELSE adapter
    BY <1>2, <2>1, <2>3 DEF AdapterKnown
  <2> QED
    BY <1>2, <2>2, <2>3 DEF LoadAdapter, None, Broken
<1> QED
  BY <1>1, <1>2

(* The loader returns to the constructor, which is ready or fails.         *)
LEMMA LoadKeeps ==
    ASSUME NativeInv, NEW l \in Layer,
           NEW ok \in BOOLEAN, FinishLoad(l, ok)
    PROVE  NativeInv'
<1>1. /\ pc[l] = "adapter_locked" /\ LoadAdapter("bundled", ok)
      /\ UNCHANGED registers
  BY DEF FinishLoad, Bundled, Fail, fixed
<1>2. /\ AdapterKnown' /\ opened \subseteq opened'
      /\ ok => adapter' = "bundled"
  BY <1>1, LoadFacts DEF NativeInv, NativeTypes
<1>3. CASE ~ok
  <2>1. Fail(l)
    BY <1>3 DEF FinishLoad
  <2> QED
    BY <1>1, <1>2, <2>1, FailKeeps DEF Loading
<1>4. CASE ok
  <2>1. /\ handle' = TRUE /\ status' = "ready" /\ owner' = "none"
        /\ pc' = [pc EXCEPT ![l] = "done"]
        /\ route' = [route EXCEPT ![l] = "native"]
        /\ UNCHANGED << facts, registers, found, env, saved >>
    BY <1>4 DEF FinishLoad, Answer, Goto, fixed, None
  <2>2. /\ owner = l /\ Compatible(facts) /\ "cust_opapi" \in opened
        /\ env = WithBundle
        /\ \A k \in Layer : k # l => pc[k] \notin Loading
    BY <1>1 DEF NativeInv, LoaderKnows, Loading
  <2>3. NativeTypes'
    BY <2>1 DEF NativeInv, NativeTypes, Labels, Process
  <2>4. Loaded'
    BY <2>1 DEF Loaded
  <2>5. ASSUME NEW k \in Layer PROVE LoaderKnows(k)'
    BY <2>1, <2>2, <2>4, WithBundleKept
       DEF NativeInv, NativeTypes, LoaderKnows, Loading, Process
  <2>6. Compatible(facts)'
    BY <2>1, <2>2 DEF Compatible
  <2>7. (EnvironmentKnown /\ LoadedIsUsable)'
    BY <1>2, <1>4, <2>1, <2>2, <2>4, <2>6, WithBundleKept
       DEF EnvironmentKnown, LoadedIsUsable
  <2> QED
    BY <1>2, <2>3, <2>5, <2>7 DEF NativeInv
<1> QED
  BY <1>3, <1>4

(* Another loader cannot replace the adapter of a loaded bundle.           *)
LEMMA DirectKeeps ==
    ASSUME NativeInv, NEW d \in Direct,
           NEW ok \in BOOLEAN, DirectLoad(d, ok)
    PROVE  NativeInv'
<1>1. /\ LoadAdapter(Other, ok)
      /\ pc' = [pc EXCEPT ![d] = "done"]
      /\ UNCHANGED << facts, registers, found, env, status, owner, saved,
                      handle, route >>
  BY DEF DirectLoad, Goto, fixed
<1>2. /\ AdapterKnown' /\ opened \subseteq opened'
      /\ adapter # "none" => adapter' = adapter
  BY <1>1, LoadFacts DEF NativeInv, NativeTypes
<1>3. NativeTypes'
  BY <1>1 DEF NativeInv, NativeTypes, Labels, Process
<1>4. ASSUME NEW k \in Layer PROVE LoaderKnows(k)'
  <2>1. k # d
    BY NativeAssumed
  <2> QED
    BY <1>1, <1>2, <2>1, WithBundleKept
       DEF NativeInv, NativeTypes, LoaderKnows, Loading, Loaded, Process,
           Compatible
<1>5. (EnvironmentKnown /\ LoadedIsUsable)'
  BY <1>1, <1>2, WithBundleKept
     DEF NativeInv, EnvironmentKnown, LoadedIsUsable, Loaded, Compatible
<1> QED
  BY <1>2, <1>3, <1>4, <1>5 DEF NativeInv

(* A disabled caller does not take a loaded status back.                   *)
LEMMA DisabledKeeps ==
    ASSUME NativeInv, AskDisabled
    PROVE  NativeInv'
<1>1. /\ Loaded' = Loaded
      /\ UNCHANGED << facts, registers, found, env, owner, saved, opened,
                      handle, adapter, registered, pc, route >>
  BY DEF AskDisabled, Loaded, fixed, torch
<1> QED
  BY WithBundleKept, <1>1
     DEF NativeInv, NativeTypes, LoaderKnows, EnvironmentKnown, AdapterKnown,
         LoadedIsUsable, Compatible

(* Every step keeps the invariant.                                         *)
LEMMA NextNative ==
    ASSUME NativeInv, [Next]_vars
    PROVE  NativeInv'
<1>1. CASE UNCHANGED vars
  BY WithBundleKept, <1>1
     DEF vars, NativeInv, NativeTypes, LoaderKnows, EnvironmentKnown,
         AdapterKnown, LoadedIsUsable, Compatible, Loaded
<1>2. ASSUME NEW l \in Layer, LayerStep(l) PROVE NativeInv'
  <2>1. l \in Process
    BY DEF Process
  <2> QED
    BY <1>2, <2>1, WaitKeeps, InspectKeeps, ConfigureKeeps, PreloadKeeps,
       AcquireKeeps, LoadKeeps
       DEF LayerStep
<1>3. ASSUME NEW d \in Direct, DirectStep(d) PROVE NativeInv'
  <2>1. d \in Process
    BY DEF Process
  <2> QED
    BY <1>3, <2>1, AcquireKeeps, DirectKeeps DEF DirectStep
<1> QED
  BY <1>1, <1>2, <1>3, DisabledKeeps DEF Next, Done

(* The steps together.                                                     *)
LEMMA NativeInvariant == Spec => []NativeInv
<1>1. NativeInv /\ [Next]_vars => NativeInv'
  BY NextNative
<1> QED
  BY <1>1, InitNative, PTL DEF Spec

(* What an inspection without an error says of the facts it read.          *)
LEMMA CompatibleFacts ==
    ASSUME NEW f \in Facts, Compatible(f)
    PROVE  /\ f.identity = {} /\ f.missing = {}
           /\ f.compiler \in {"9.0.1", "none"}
           /\ \A d \in Distribution :
                 \/ Public(f.dist[d]) = "release"
                 \/ d \in Module /\ f.dist[d] = "invalid"
           /\ \A m \in Module : Public(f.module[m]) = "release"
           /\ f.device # "other"
           /\ f.environment = "other" => f.device = "910b"
<1>1. /\ f.identity = {}
      /\ ArtifactErrors(f) = {} /\ DistributionErrors(f) = {}
      /\ FingerprintErrors(f) = {} /\ SocErrors(f) = {}
      /\ ~InspectionRaises(f)
  BY DEF Compatible, Errors
<1>2. f.missing = {} /\ f.compiler \in {"9.0.1", "none"}
  <2>1. f.missing = {}
    BY <1>1 DEF ArtifactErrors
  <2>2. f.compiler # "other"
    BY <1>1, <2>1 DEF ArtifactErrors
  <2>3. f.compiler # "undecodable"
    BY <1>1, <2>1 DEF InspectionRaises
  <2> QED
    BY <2>1, <2>2, <2>3 DEF Facts
<1>3. \A d \in Distribution :
          /\ DistributionVersion(f, d) # "none"
          /\ Public(RuntimeVersion(f, d)) = "release"
  BY <1>1 DEF DistributionErrors, FingerprintErrors
<1>4. \A m \in Module : Public(f.module[m]) = "release"
  BY <1>3 DEF RuntimeVersion, Module, Distribution
<1>5. \A m \in Module :
          \/ Public(f.module[m]) = "none"
          \/ Public(DistributionVersion(f, m)) = "none"
          \/ Public(f.module[m]) =
                 Public(DistributionVersion(f, m))
  BY <1>1 DEF FingerprintErrors
<1>6. ASSUME NEW d \in Distribution
      PROVE  \/ Public(f.dist[d]) = "release"
             \/ d \in Module /\ f.dist[d] = "invalid"
  <2>1. /\ DistributionVersion(f, d) = f.dist[d]
        /\ f.dist[d] \in {"release", "local", "other", "invalid"}
    BY <1>3 DEF DistributionVersion, Facts, Version
  <2>2. CASE d \in Module
    BY <1>4, <1>5, <2>1, <2>2 DEF Public
  <2>3. CASE d \notin Module
    BY <1>3, <2>1, <2>3 DEF RuntimeVersion
  <2> QED
    BY <2>2, <2>3
<1>7. f.device # "other" /\ (f.environment = "other" => f.device = "910b")
  <2>1. SocVersion(f) \in {"910b", "none"}
    BY <1>1 DEF SocErrors
  <2>2. f.module["torch_npu"] # "none"
    BY <1>4 DEF Module, Public
  <2> QED
    BY <2>1, <2>2 DEF SocVersion, Facts, Soc
<1> QED
  BY <1>1, <1>2, <1>4, <1>6, <1>7

(* What the invariant says of the properties.                              *)
LEMMA NativeImplies ==
    ASSUME NativeInv
    PROVE  EnvironmentFollowsStatus /\ ReadyIsUsable
<1>1. EnvironmentFollowsStatus
  BY DEF NativeInv, EnvironmentKnown, EnvironmentFollowsStatus, None,
         WithBundle, Bundled
<1>2. ASSUME NEW l \in Layer, route[l] = "native"
      PROVE  /\ adapter = "bundled" /\ "bundled" \in opened
             /\ registered # {}
             /\ registered \subseteq opened => registered = {"bundled"}
             /\ handle /\ "cust_opapi" \in opened
             /\ facts \in Facts /\ Compatible(facts)
  <2>1. Loaded
    BY <1>2 DEF NativeInv, LoaderKnows
  <2>2. /\ adapter = "bundled" /\ handle /\ "cust_opapi" \in opened
        /\ Compatible(facts)
    BY <2>1 DEF NativeInv, LoadedIsUsable
  <2>3. /\ "bundled" \in opened /\ registered # {}
        /\ registered \subseteq registers
        /\ opened \cap registers \subseteq {"bundled"}
    BY <2>2 DEF NativeInv, AdapterKnown
  <2>4. facts \in Facts
    BY NativeAssumed DEF NativeInv, NativeTypes
  <2>5. registered \subseteq opened => registered = {"bundled"}
    BY <2>3
  <2> QED
    BY <2>2, <2>3, <2>4, <2>5
<1>3. ReadyIsUsable
  BY <1>2, CompatibleFacts DEF ReadyIsUsable, Bundled
<1> QED
  BY <1>1, <1>3

-----------------------------------------------------------------------------
(* The bootstrap, seen from its callers.                                   *)

(* A failure is told while nothing is loaded.                              *)
LEMMA FailTells ==
    ASSUME NativeInv, NEW l \in Layer, pc[l] \in Loading, Fail(l)
    PROVE  Promise!TellAbsent
<1>1. ~Loaded
  BY DEF NativeInv, LoaderKnows
<1> QED
  BY <1>1 DEF Fail, Answer, Loaded, Promise!TellAbsent

(* Every answer is one that OperatorPresence allows; what is not an answer *)
(* leaves it alone.                                                        *)
LEMMA StepTells ==
    ASSUME NativeInv, [Next]_vars
    PROVE  [Promise!PresenceNext]_<< Loaded, answers >>
<1> USE DEF Promise!PresenceNext
<1>1. CASE UNCHANGED << status, answers >>
  BY <1>1 DEF Loaded
<1>2. ASSUME NEW l \in Layer, Reuse(l)
      PROVE  Promise!TellPresent
  BY <1>2 DEF Reuse, Answer, Loaded, Promise!TellPresent
<1>3. ASSUME NEW l \in Layer, Inspect(l)
      PROVE  \/ Promise!TellAbsent
             \/ UNCHANGED << status, answers >>
  BY <1>3 DEF Inspect, Answer, Loaded, Promise!TellAbsent
<1>4. ASSUME NEW l \in Layer, Preload(l)
      PROVE  \/ Promise!TellAbsent
             \/ UNCHANGED << status, answers >>
  <2>1. pc[l] \in Loading
    BY <1>4 DEF Preload, Loading
  <2> QED
    BY <1>4, <2>1, FailTells DEF Preload
<1>5. ASSUME NEW l \in Layer, NEW ok \in BOOLEAN, FinishLoad(l, ok)
      PROVE  Promise!TellPresent \/ Promise!TellAbsent
  <2>1. pc[l] \in Loading
    BY <1>5 DEF FinishLoad, Loading
  <2>2. CASE ok
    BY <1>5, <2>2 DEF FinishLoad, Answer, Loaded, Promise!TellPresent
  <2>3. CASE ~ok
    BY <1>5, <2>1, <2>3, FailTells DEF FinishLoad
  <2> QED
    BY <2>2, <2>3
<1>6. ASSUME NEW l \in Layer,
             Disabled(l) \/ Ask(l) \/ Configure(l)
      PROVE  UNCHANGED << status, answers >>
  BY <1>6 DEF Disabled, Ask, Configure
<1>7. ASSUME NEW p, AcquireAdapter(p)
      PROVE  UNCHANGED << status, answers >>
  BY <1>7 DEF AcquireAdapter
<1>8. ASSUME NEW d \in Direct, NEW ok \in BOOLEAN, DirectLoad(d, ok)
      PROVE  UNCHANGED << status, answers >>
  BY <1>8 DEF DirectLoad
<1>9. ASSUME AskDisabled PROVE UNCHANGED << Loaded, answers >>
  BY <1>9 DEF AskDisabled, Loaded
<1>10. ASSUME UNCHANGED vars PROVE UNCHANGED << status, answers >>
  BY <1>10 DEF vars
<1> QED
  BY <1>1, <1>2, <1>3, <1>4, <1>5, <1>6, <1>7, <1>8, <1>9, <1>10
     DEF Next, LayerStep, DirectStep, Done

-----------------------------------------------------------------------------
(* A load that fails leaves the environment as ensure_native_loaded found  *)
(* it, and the one that succeeds puts the bundle first in it, once,        *)
(* whatever any number of constructors and loaders do meanwhile.           *)
THEOREM EnvironmentChangesOnce == Spec => []EnvironmentFollowsStatus
<1>1. NativeInv => EnvironmentFollowsStatus
  BY NativeImplies
<1> QED
  BY <1>1, NativeInvariant, PTL

(* A constructor that _ensure_native_ready answers yes can launch: the     *)
(* bundled adapter is the one registered, its library open, and the        *)
(* process one of the tested combinations.                                 *)
THEOREM ReadyLayersCanLaunch == Spec => []ReadyIsUsable
<1>1. NativeInv => ReadyIsUsable
  BY NativeImplies
<1> QED
  BY <1>1, NativeInvariant, PTL

(* ensure_native_loaded implements OperatorPresence: the operator appears  *)
(* once, with the first answer that says so, and stays.                    *)
THEOREM BootstrapImplements == Spec => ImplementsPresence
<1>1. Init => Promise!PresenceInit
  BY DEF Init, Promise!PresenceInit, Loaded
<1>2. NativeInv /\ [Next]_vars
          => [Promise!PresenceNext]_<< Loaded, answers >>
  BY StepTells
<1> QED
  BY <1>1, <1>2, NativeInvariant, PTL
     DEF Spec, ImplementsPresence, Promise!PresenceSpec

-----------------------------------------------------------------------------
(* The wheel pipelines.                                                    *)

Stage ==
    {"idle", "build", "stage", "validate", "install", "installed", "smoke",
     "uninstall", "uninstalled", "publish", "copy", "copying", "report",
     "done", "failed", "killed"}

(* The flaws a pipeline has ruled out by the time it is at a stage.        *)
RuledOut(stage) ==
    {f \in Wheels!Flaw :
        \/ /\ f = "adapter"
           /\ stage \notin {"idle", "failed", "killed", "build"}
        \/ /\ f \in {"payload", "roots"}
           /\ stage \notin {"idle", "failed", "killed", "build", "stage",
                            "validate"}
        \/ /\ f = "install"
           /\ stage \in {"smoke", "uninstall", "uninstalled", "publish", "copy",
                         "copying", "report", "done"}
        \/ /\ f = "smoke"
           /\ stage \in {"uninstall", "uninstalled", "publish", "copy",
                         "copying", "report", "done"}
        \/ stage \in {"publish", "copy", "copying", "report", "done"}}

WheelTypes ==
    /\ pipelinePc \in [Pipeline -> Stage]
    /\ build \in [Pipeline -> [number : Int, flaws : SUBSET Wheels!Flaw]]
    /\ baseline \in [Pipeline -> Nat]
    /\ official \in Nat /\ starts \in Nat
    /\ output \in [Wheels!Output -> [number : Int, flaws : SUBSET Wheels!Flaw]]
    /\ named \in [Wheels!ReportPath -> [number : Int, flaws : SUBSET Wheels!Flaw]]

(* What a pipeline knows of its build: the gates behind it, and that a     *)
(* write to the official packages shows in the manifests until the gate    *)
(* that compares them.                                                     *)
KnowsBuild(p) ==
    /\ build[p].flaws \cap RuledOut(pipelinePc[p]) = {}
    /\ baseline[p] <= official
    /\ pipelinePc[p] = "installed" /\ "install" \in build[p].flaws =>
           baseline[p] < official
    /\ pipelinePc[p] = "uninstalled" /\ "uninstall" \in build[p].flaws =>
           baseline[p] < official

WheelInv ==
    /\ WheelTypes
    /\ \A p \in Pipeline : KnowsBuild(p)
    /\ \A o \in Wheels!Output : output[o].flaws = {}

(* Pipelines at work at the same time have directories of their own.       *)
OwnDirectories ==
    \A p, q \in Pipeline :
        p # q => OutputOf[p] # OutputOf[q] /\ ReportOf[p] # ReportOf[q]

(* From the copied wheel to the report that names it.                      *)
KnowsOutput(p) ==
    /\ pipelinePc[p] = "report" => output[OutputOf[p]] = build[p]
    /\ pipelinePc[p] = "done" => output[OutputOf[p]] = named[ReportOf[p]]

OwnInv == WheelInv /\ \A p \in Pipeline : KnowsOutput(p)

LEMMA InitWheels == ReleaseInit => OwnInv
<1> SUFFICES ASSUME ReleaseInit PROVE OwnInv
  OBVIOUS
<1> USE DEF ReleaseInit, Wheels!Init, Wheels!None
<1>1. WheelTypes
  BY DEF WheelTypes, Stage
<1>2. ASSUME NEW p \in Pipeline PROVE KnowsBuild(p)
  BY DEF KnowsBuild, RuledOut
<1>3. ASSUME NEW p \in Pipeline PROVE KnowsOutput(p)
  BY DEF KnowsOutput
<1>4. ASSUME NEW o \in Wheels!Output PROVE output[o].flaws = {}
  OBVIOUS
<1> QED
  BY <1>1, <1>2, <1>3, <1>4 DEF OwnInv, WheelInv

LEMMA DirectoriesOf ==
    ASSUME NEW p \in Pipeline
    PROVE  OutputOf[p] \in Wheels!Output /\ ReportOf[p] \in Wheels!ReportPath
  BY DEF Wheels!Output, Wheels!ReportPath

(* A start leaves every directory and the other pipelines alone.           *)
LEMMA BeginKeeps ==
    ASSUME WheelInv, NEW p \in Pipeline, Wheels!Begin(p)
    PROVE  WheelInv' /\ (\A q \in Pipeline : KnowsOutput(q) => KnowsOutput(q)')
<1>1. PICK flaws \in {{}} \cup {{f} : f \in Wheels!Flaw} :
          build' = [build EXCEPT ![p] = [number |-> starts', flaws |-> flaws]]
  BY DEF Wheels!Begin
<1>2. /\ starts' = starts + 1
      /\ \E to \in {"build", "failed"} :
             pipelinePc' = [pipelinePc EXCEPT ![p] = to]
      /\ baseline' = [baseline EXCEPT ![p] = official]
      /\ UNCHANGED <<official, output, named>>
      /\ pipelinePc[p] \in {"idle", "failed", "killed"}
  BY DEF Wheels!Begin
<1>3. flaws \in SUBSET Wheels!Flaw
  OBVIOUS
<1>4. WheelTypes'
  BY <1>1, <1>2, <1>3 DEF WheelInv, WheelTypes, Stage
<1>5. ASSUME NEW q \in Pipeline PROVE KnowsBuild(q)'
  <2>1. CASE q = p
    BY <1>1, <1>2, <2>1 DEF WheelInv, WheelTypes, KnowsBuild, RuledOut
  <2>2. CASE q # p
    BY <1>1, <1>2, <2>2 DEF WheelInv, WheelTypes, KnowsBuild, RuledOut
  <2> QED
    BY <2>1, <2>2
<1>6. ASSUME NEW q \in Pipeline, KnowsOutput(q) PROVE KnowsOutput(q)'
  BY <1>1, <1>2, <1>6 DEF WheelInv, WheelTypes, KnowsOutput
<1> QED
  BY <1>2, <1>4, <1>5, <1>6 DEF WheelInv

(* A gate, an installation and the refusal of an old wheel move one        *)
(* pipeline on.                                                            *)
LEMMA MoveKeeps ==
    ASSUME WheelInv, NEW p \in Pipeline,
           \/ Wheels!Gates(p) \/ Wheels!Pip(p) \/ Wheels!Stop(p)
           \/ /\ Wheels!Goes(p, "publish", "copy", Wheels!FreshOutput(p))
              /\ UNCHANGED <<build, baseline, official, output, named, starts,
                             changes>>
    PROVE  WheelInv' /\ (\A q \in Pipeline : KnowsOutput(q) => KnowsOutput(q)')
<1> DEFINE to == pipelinePc'[p]
<1>1. /\ pipelinePc' = [pipelinePc EXCEPT ![p] = to]
      /\ to \in Stage \ {"report", "done", "idle"}
      /\ pipelinePc[p] \notin {"idle", "copy", "done"} \/ to \in {"failed", "killed"}
      /\ UNCHANGED <<build, baseline, output, named, starts>>
  <2>1. CASE Wheels!Gates(p)
    BY <2>1 DEF Wheels!Gates, Wheels!Goes, Wheels!BuildAdapter,
       Wheels!BuildWheel, Wheels!ValidateWheel, Wheels!CheckInstalled,
       Wheels!Smoke, Wheels!CheckRemoved, WheelInv, WheelTypes, Stage
  <2>2. CASE Wheels!Pip(p)
    BY <2>2 DEF Wheels!Pip, Wheels!Goes, WheelInv, WheelTypes, Stage
  <2>3. CASE Wheels!Stop(p)
    BY <2>3 DEF Wheels!Stop, Wheels!Working, WheelInv, WheelTypes, Stage
  <2>4. CASE /\ Wheels!Goes(p, "publish", "copy", Wheels!FreshOutput(p))
             /\ UNCHANGED <<build, baseline, official, output, named, starts,
                            changes>>
    BY <2>4 DEF Wheels!Goes, WheelInv, WheelTypes, Stage
  <2> QED
    BY <2>1, <2>2, <2>3, <2>4
<1>2. official' \in {official, official + 1} /\ official \in Nat
  BY DEF Wheels!Gates, Wheels!Pip, Wheels!Stop, WheelInv, WheelTypes
<1>3. WheelTypes'
  BY <1>1, <1>2 DEF WheelInv, WheelTypes
<1>4. ASSUME NEW q \in Pipeline, q # p PROVE KnowsBuild(q)'
  BY <1>1, <1>2, <1>4 DEF WheelInv, WheelTypes, KnowsBuild
<1>5. KnowsBuild(p)'
  <2>1. CASE to \in {"failed", "killed"}
    BY <1>1, <1>2, <2>1 DEF WheelInv, WheelTypes, KnowsBuild, RuledOut
  <2>2. CASE to \notin {"failed", "killed"} /\ Wheels!Gates(p)
    <3> DEFINE from == pipelinePc[p]
               flaws == build[p].flaws
    <3>1. /\ UNCHANGED official
          /\ build' = build /\ baseline' = baseline
          /\ pipelinePc'[p] = to
          /\ build[p].flaws \subseteq Wheels!Flaw
          /\ baseline[p] \in Nat /\ official \in Nat
      BY <1>1, <2>2 DEF Wheels!Gates, WheelInv, WheelTypes
    <3>2. \/ from = "build" /\ to = "stage" /\ "adapter" \notin flaws
          \/ from = "stage" /\ to = "validate"
          \/ from = "validate" /\ to = "install" /\ flaws \cap {"payload", "roots"} = {}
          \/ from = "installed" /\ to = "smoke" /\ official = baseline[p]
          \/ from = "smoke" /\ to = "uninstall" /\ "smoke" \notin flaws
          \/ /\ from = "uninstalled" /\ to = "publish" /\ official = baseline[p]
             /\ "leftovers" \notin flaws
      BY <1>1, <2>2 DEF Wheels!Gates, Wheels!Goes, Wheels!BuildAdapter,
         Wheels!BuildWheel, Wheels!ValidateWheel, Wheels!CheckInstalled,
         Wheels!Smoke, Wheels!CheckRemoved, Wheels!Sound, Wheels!Unchanged,
         WheelInv, WheelTypes
    <3>3. KnowsBuild(p)
      BY DEF WheelInv
    <3> HIDE DEF to
    <3>4. flaws \cap RuledOut(to) = {}
      BY <3>1, <3>2, <3>3 DEF KnowsBuild, RuledOut, Wheels!Flaw
    <3>5. to \notin {"installed", "uninstalled"}
      BY <3>2
    <3> QED
      BY <3>1, <3>3, <3>4, <3>5 DEF KnowsBuild
  <2>3. CASE to \notin {"failed", "killed"} /\ Wheels!Pip(p)
    BY <1>1, <2>3 DEF Wheels!Pip, Wheels!Goes, Wheels!Sound,
       WheelInv, WheelTypes, KnowsBuild, RuledOut
  <2>4. CASE /\ Wheels!Goes(p, "publish", "copy", Wheels!FreshOutput(p))
             /\ UNCHANGED <<build, baseline, official, output, named, starts,
                            changes>>
    BY <1>1, <2>4 DEF Wheels!Goes, WheelInv, WheelTypes, KnowsBuild, RuledOut
  <2> QED
    BY <1>1, <2>1, <2>2, <2>3, <2>4 DEF Wheels!Stop, WheelInv, WheelTypes
<1>6. ASSUME NEW q \in Pipeline, KnowsOutput(q) PROVE KnowsOutput(q)'
  BY <1>1, <1>6 DEF WheelInv, WheelTypes, KnowsOutput
<1> QED
  BY <1>1, <1>3, <1>4, <1>5, <1>6 DEF WheelInv

(* The copy and the report write the directories of their pipeline.        *)
LEMMA PublishKeeps ==
    ASSUME WheelInv, NEW p \in Pipeline,
           Wheels!Publish(p) \/ Wheels!WriteReport(p)
    PROVE  /\ WheelInv'
           /\ OwnDirectories =>
                  \A q \in Pipeline : KnowsOutput(q) => KnowsOutput(q)'
<1> DEFINE write(tag) == output' = [output EXCEPT ![OutputOf[p]] = tag]
<1>1. UNCHANGED <<build, baseline, official, starts>>
  BY DEF Wheels!Publish, Wheels!WriteReport
<1>2. CASE /\ Wheels!Goes(p, "publish", "copy", Wheels!FreshOutput(p))
           /\ UNCHANGED <<build, baseline, official, output, named, starts,
                          changes>>
  BY <1>2, MoveKeeps
<1>3. CASE /\ Wheels!Goes(p, "copy", "copying", TRUE)
           /\ write(Wheels!Torn) /\ UNCHANGED named
  <2>1. pipelinePc[p] = "copy" /\ pipelinePc' = [pipelinePc EXCEPT ![p] = "copying"]
    BY <1>3 DEF Wheels!Goes
  <2>2. WheelTypes' /\ \A o \in Wheels!Output : output'[o].flaws = {}
    BY <1>1, <1>3, <2>1, DirectoriesOf DEF WheelInv, WheelTypes, Stage, Wheels!Torn
  <2>3. ASSUME NEW q \in Pipeline PROVE KnowsBuild(q)'
    BY <1>1, <2>1 DEF WheelInv, WheelTypes, KnowsBuild, RuledOut
  <2>4. ASSUME OwnDirectories, NEW q \in Pipeline, KnowsOutput(q)
        PROVE  KnowsOutput(q)'
    BY <1>1, <1>3, <2>1, <2>4, DirectoriesOf
       DEF WheelInv, WheelTypes, KnowsOutput, OwnDirectories
  <2> QED
    BY <2>2, <2>3, <2>4 DEF WheelInv
<1>4. CASE /\ Wheels!Goes(p, "copying", "report", TRUE)
           /\ write(build[p]) /\ UNCHANGED named
  <2>1. pipelinePc[p] = "copying" /\ pipelinePc' = [pipelinePc EXCEPT ![p] = "report"]
    BY <1>4 DEF Wheels!Goes
  <2>2. build[p].flaws = {}
    BY <2>1 DEF WheelInv, WheelTypes, KnowsBuild, RuledOut
  <2>3. WheelTypes' /\ \A o \in Wheels!Output : output'[o].flaws = {}
    BY <1>1, <1>4, <2>1, <2>2, DirectoriesOf DEF WheelInv, WheelTypes, Stage
  <2>4. ASSUME NEW q \in Pipeline PROVE KnowsBuild(q)'
    BY <1>1, <2>1, <2>2 DEF WheelInv, WheelTypes, KnowsBuild, RuledOut
  <2>5. ASSUME OwnDirectories, NEW q \in Pipeline, KnowsOutput(q)
        PROVE  KnowsOutput(q)'
    BY <1>1, <1>4, <2>1, <2>5, DirectoriesOf
       DEF WheelInv, WheelTypes, KnowsOutput, OwnDirectories
  <2> QED
    BY <2>3, <2>4, <2>5 DEF WheelInv
<1>5. CASE Wheels!WriteReport(p)
  <2>1. /\ pipelinePc[p] = "report"
        /\ pipelinePc' = [pipelinePc EXCEPT ![p] = "done"]
        /\ named' = [named EXCEPT ![ReportOf[p]] = build[p]]
        /\ UNCHANGED output
    BY <1>5 DEF Wheels!WriteReport, Wheels!Goes
  <2>2. WheelTypes'
    BY <1>1, <2>1, DirectoriesOf DEF WheelInv, WheelTypes, Stage
  <2>3. ASSUME NEW q \in Pipeline PROVE KnowsBuild(q)'
    BY <1>1, <2>1 DEF WheelInv, WheelTypes, KnowsBuild, RuledOut
  <2>4. ASSUME OwnDirectories, NEW q \in Pipeline, KnowsOutput(q)
        PROVE  KnowsOutput(q)'
    BY <1>1, <2>1, <2>4, DirectoriesOf
       DEF WheelInv, WheelTypes, KnowsOutput, OwnDirectories
  <2> QED
    BY <2>1, <2>2, <2>3, <2>4 DEF WheelInv
<1> QED
  BY <1>2, <1>3, <1>4, <1>5 DEF Wheels!Publish

LEMMA WheelStep ==
    ASSUME WheelInv, [ReleaseNext]_releaseVars
    PROVE  /\ WheelInv'
           /\ OwnDirectories =>
                  \A q \in Pipeline : KnowsOutput(q) => KnowsOutput(q)'
<1>1. CASE UNCHANGED pipelines
  <2>1. /\ UNCHANGED <<pipelinePc, build, baseline, official, output, named, starts>>
    BY <1>1 DEF pipelines
  <2> QED
    BY <2>1 DEF WheelInv, WheelTypes, KnowsBuild, KnowsOutput
<1>2. CASE Wheels!Next
  <2>1. ASSUME NEW p \in Pipeline, Wheels!Begin(p)
        PROVE  WheelInv' /\ (\A q \in Pipeline : KnowsOutput(q) => KnowsOutput(q)')
    BY <2>1, BeginKeeps
  <2>2. ASSUME NEW p \in Pipeline,
               Wheels!Gates(p) \/ Wheels!Pip(p) \/ Wheels!Stop(p)
        PROVE  WheelInv' /\ (\A q \in Pipeline : KnowsOutput(q) => KnowsOutput(q)')
    BY <2>2, MoveKeeps
  <2>3. ASSUME NEW p \in Pipeline, Wheels!Publish(p) \/ Wheels!WriteReport(p)
        PROVE  /\ WheelInv'
               /\ OwnDirectories =>
                      \A q \in Pipeline : KnowsOutput(q) => KnowsOutput(q)'
    BY <2>3, PublishKeeps
  <2>4. CASE Wheels!OfficialChange
    <3>1. /\ official' = official + 1
          /\ UNCHANGED <<pipelinePc, build, baseline, output, named, starts>>
      BY <2>4 DEF Wheels!OfficialChange
    <3>2. official \in Nat /\ baseline \in [Pipeline -> Nat]
      BY DEF WheelInv, WheelTypes
    <3> QED
      BY <3>1, <3>2 DEF WheelInv, WheelTypes, KnowsBuild, KnowsOutput
  <2> QED
    BY <1>2, <2>1, <2>2, <2>3, <2>4 DEF Wheels!Next
<1> QED
  BY <1>1, <1>2 DEF ReleaseNext, releaseVars, Pipelines, Worker, Controller

(* Only sound wheels leave a pipeline, also when pipelines share their     *)
(* directories (publish, check_release_artifact.py and the manifests).     *)
THEOREM UnsoundStayInside == ReleaseSpec => []Wheels!OnlySoundWheels
<1>1. ReleaseInit => WheelInv
  BY InitWheels DEF OwnInv
<1>2. WheelInv /\ [ReleaseNext]_releaseVars => WheelInv'
  BY WheelStep
<1>3. WheelInv => Wheels!OnlySoundWheels
  BY DEF WheelInv, Wheels!OnlySoundWheels
<1> QED
  BY <1>1, <1>2, <1>3, PTL DEF ReleaseSpec

(* With directories of their own, pipelines that end have put the wheel    *)
(* their report names in place (the copy, then write_json).                *)
THEOREM ReleasedWheelsSound ==
    ASSUME OwnDirectories PROVE ReleaseSpec => []WheelsSound
<1>1. ReleaseInit => OwnInv
  BY InitWheels
<1>2. OwnInv /\ [ReleaseNext]_releaseVars => OwnInv'
  BY WheelStep DEF OwnInv
<1>3. OwnInv => WheelsSound
  BY DEF OwnInv, WheelInv, KnowsOutput, WheelsSound, Wheels!OnlySoundWheels,
         Wheels!ReportedIsThere
<1> QED
  BY <1>1, <1>2, <1>3, PTL DEF ReleaseSpec

-----------------------------------------------------------------------------
(* The concurrency worker.                                                 *)

Working == {"pause", "add", "verify", "resume", "gather"}
Awaited ==
    Working \cup {"handler", "reap", "abort", "finally", "reresume",
                  "shutdown", "ended"}
TaskState == {"none", "running", "cancelling", "done", "failed", "cancelled"}

BatchTypes ==
    /\ level \in Nat /\ workerPc \in Awaited /\ paused \in BOOLEAN
    /\ ids \subseteq Nat /\ tasks \in [Batches!Requests -> TaskState]
    /\ error \in {"none"} \cup Batches!Errors
    /\ engine \in [state : {"up", "dead", "shut"}, paused : BOOLEAN,
                   running : SUBSET Nat]
    /\ collector \in [Batches!Requests -> {"empty", "output", "error"}]
    /\ first \subseteq Nat /\ faults \in Nat /\ lapses \subseteq Awaited
    /\ batches \in Seq([level : Nat, first : SUBSET Nat])

(* No request of the level has been stepped.                               *)
Unstepped ==
    /\ first = {}
    /\ engine.state = "up" => engine.running = ids
    /\ \A r \in Batches!Requests : collector[r] # "output"

(* The engine took all of the level in its first step.                     *)
Stepped == first = ids /\ engine.running = {}

(* While the engine stays paused it holds what was added; once the pause   *)
(* has been verified, all of the level.                                    *)
AdmissionWhole ==
    /\ workerPc = "pause" => ids = {} /\ engine.running = {} /\ Unstepped
    /\ workerPc = "add" =>
           \E k \in 0 .. BatchLevels[level] - 1 : ids = 1 .. k
    /\ workerPc \in {"verify", "resume", "gather"} => ids = 1 .. BatchLevels[level]
    /\ workerPc \in {"add", "verify"} /\ engine.paused => Unstepped
    /\ workerPc \in {"resume", "gather"} => Unstepped \/ Stepped

(* A worker that has not failed.                                           *)
Admitting ==
    workerPc \in Working =>
        /\ level \in 1 .. Len(BatchLevels) /\ lapses = {} /\ error = "none"
        /\ workerPc \in {"pause", "add", "verify"} => tasks = Batches!NoTasks
        /\ workerPc \in {"pause", "gather"} => ~paused
        /\ \A r \in Batches!Requests : tasks[r] = "done" => collector[r] = "output"
        /\ AdmissionWhole

(* What the engine may still hold.                                         *)
RunningKnown ==
    /\ engine.state # "up" => engine.running = {}
    /\ workerPc \in Working \cup {"handler", "reap", "abort"} /\ "add" \notin lapses =>
           engine.running \subseteq ids
    /\ /\ workerPc \in {"finally", "reresume", "shutdown", "ended"}
       /\ lapses \cap {"add", "reap", "abort"} = {}
       => engine.running = {}

TasksKnown ==
    /\ workerPc \in {"abort", "finally", "reresume", "shutdown", "ended"}
    /\ "reap" \notin lapses
    => \A r \in Batches!Requests : tasks[r] \in Batches!Ended

(* An engine paused by the worker is paused for it.                        *)
PauseKnown ==
    engine.state = "up" /\ engine.paused =>
        /\ workerPc \notin {"reresume", "shutdown", "ended"} =>
               paused \/ "pause" \in lapses
        /\ workerPc \in {"shutdown", "ended"} =>
               lapses \cap {"pause", "finally", "reresume"} # {}

BatchInv ==
    /\ BatchTypes /\ Batches!BatchInOneStep
    /\ Admitting /\ RunningKnown /\ TasksKnown /\ PauseKnown

LEMMA BatchAssumed ==
    /\ BatchLevels \in Seq(Nat \ {0}) /\ Len(BatchLevels) \in Nat \ {0}
    /\ MaxFaults \in Nat
    /\ \A i \in 1 .. Len(BatchLevels) :
           /\ BatchLevels[i] \in Nat \ {0}
           /\ 1 .. BatchLevels[i] \subseteq Batches!Requests
    /\ Batches!Requests \subseteq Nat
<1>1. BatchLevels \in Seq(Nat \ {0}) /\ BatchLevels # <<>> /\ MaxFaults \in Nat
  BY ReleaseAssumption DEF ReleaseAssumption, Batches!PausedBatchAssumption
<1>2. Len(BatchLevels) \in Nat \ {0} /\ DOMAIN BatchLevels = 1 .. Len(BatchLevels)
  BY <1>1
<1>3. \A i \in 1 .. Len(BatchLevels) : BatchLevels[i] \in Nat \ {0}
  BY <1>1, <1>2
<1>4. \A i \in 1 .. Len(BatchLevels) : 1 .. BatchLevels[i] \subseteq Batches!Requests
  BY <1>2 DEF Batches!Requests
<1>5. Batches!Requests \subseteq Nat
  BY <1>2, <1>3 DEF Batches!Requests
<1> QED
  BY <1>1, <1>2, <1>3, <1>4, <1>5

LEMMA InitBatch == ReleaseInit => BatchInv
<1> SUFFICES ASSUME ReleaseInit PROVE BatchInv
  OBVIOUS
<1> USE DEF ReleaseInit, Batches!Init
<1>1. BatchTypes
  <2>1. level \in Nat /\ workerPc \in Awaited /\ paused \in BOOLEAN
    BY DEF Awaited, Working
  <2>2. ids \subseteq Nat /\ first \subseteq Nat /\ faults \in Nat
        /\ lapses \subseteq Awaited /\ error \in {"none"} \cup Batches!Errors
    OBVIOUS
  <2>3. tasks \in [Batches!Requests -> TaskState]
    BY DEF TaskState, Batches!NoTasks
  <2>4. collector \in [Batches!Requests -> {"empty", "output", "error"}]
    OBVIOUS
  <2>5. engine \in [state : {"up", "dead", "shut"}, paused : BOOLEAN,
                    running : SUBSET Nat]
    OBVIOUS
  <2>6. batches \in Seq([level : Nat, first : SUBSET Nat])
    OBVIOUS
  <2> QED
    BY <2>1, <2>2, <2>3, <2>4, <2>5, <2>6 DEF BatchTypes
<1>2. Admitting
  BY BatchAssumed DEF Admitting, AdmissionWhole, Unstepped, Batches!NoTasks
<1>3. RunningKnown /\ TasksKnown /\ PauseKnown
  BY DEF RunningKnown, TasksKnown, PauseKnown
<1>4. Batches!BatchInOneStep
  BY DEF Batches!BatchInOneStep
<1> QED
  BY <1>1, <1>2, <1>3, <1>4 DEF BatchInv

(* What a call that does not return leaves behind.                         *)
LEMMA FailsFacts ==
    ASSUME BatchTypes, NEW acted, NEW to, Batches!Fails(acted, to)
    PROVE  /\ workerPc' = to /\ error' \in Batches!Errors /\ faults' \in Nat
           /\ lapses' \in {lapses, lapses \cup {workerPc}}
           /\ \/ engine' = engine
              \/ /\ engine.state = "up" /\ engine' = acted
                 /\ lapses' = lapses \cup {workerPc}
           /\ engine.state = "up" /\ workerPc \in Batches!Cleanup =>
                  lapses' = lapses \cup {workerPc}
<1>1. CASE engine.state # "up"
  BY <1>1 DEF Batches!Fails, Batches!Raise, Batches!Fault, Batches!Errors, BatchTypes
<1>2. CASE engine.state = "up"
  BY <1>2 DEF Batches!Fails, Batches!Raise, Batches!Fault, Batches!Errors, BatchTypes
<1> QED
  BY <1>1, <1>2

(* The worker's step from its await `from` to the handler.                 *)
LEMMA ToHandler ==
    ASSUME BatchInv, workerPc \in Working,
           workerPc' = "handler", error' \in Batches!Errors, faults' \in Nat,
           lapses' \in {lapses, lapses \cup {workerPc}},
           UNCHANGED <<level, ids, first, collector, batches>>,
           paused' = paused,
           tasks' \in [Batches!Requests -> TaskState],
           \/ engine' = engine
           \/ /\ engine.state = "up" /\ engine'.state = "up"
              /\ engine' \in [state : {"up", "dead", "shut"}, paused : BOOLEAN,
                              running : SUBSET Nat]
              /\ \/ workerPc = "add" /\ "add" \in lapses'
                 \/ engine'.running = engine.running
              /\ \/ workerPc = "pause" /\ "pause" \in lapses'
                 \/ engine'.paused => engine.paused
    PROVE  BatchInv'
<1>1. BatchTypes'
  BY DEF BatchInv, BatchTypes, Working, Awaited
<1>2. Batches!BatchInOneStep'
  BY DEF BatchInv, Batches!BatchInOneStep
<1>3. Admitting' /\ TasksKnown'
  BY DEF Admitting, TasksKnown, Working
<1>4. RunningKnown'
  BY DEF BatchInv, BatchTypes, RunningKnown, Working
<1>5. PauseKnown'
  BY DEF BatchInv, BatchTypes, PauseKnown, Working
<1> QED
  BY <1>1, <1>2, <1>3, <1>4, <1>5 DEF BatchInv

LEMMA PauseKeeps == ASSUME BatchInv, Batches!Pause PROVE BatchInv'
<1>1. /\ workerPc = "pause"
      /\ UNCHANGED <<level, ids, tasks, collector, first, batches>>
      /\ tasks \in [Batches!Requests -> TaskState]
      /\ engine \in [state : {"up", "dead", "shut"}, paused : BOOLEAN,
                     running : SUBSET Nat]
  BY DEF Batches!Pause, BatchInv, BatchTypes
<1>2. CASE Batches!Fails(Batches!Paused, "handler") /\ UNCHANGED paused
  <2>1. BatchTypes
    BY DEF BatchInv
  <2>2. /\ workerPc' = "handler" /\ error' \in Batches!Errors /\ faults' \in Nat
        /\ lapses' \in {lapses, lapses \cup {workerPc}}
        /\ \/ engine' = engine
           \/ /\ engine.state = "up" /\ engine' = Batches!Paused
              /\ lapses' = lapses \cup {workerPc}
    BY <1>2, <2>1, FailsFacts
  <2>3. engine' = Batches!Paused =>
            /\ engine'.state = engine.state /\ engine'.running = engine.running
            /\ engine' \in [state : {"up", "dead", "shut"}, paused : BOOLEAN,
                            running : SUBSET Nat]
    BY <1>1 DEF Batches!Paused
  <2> QED
    BY <1>1, <1>2, <2>2, <2>3, ToHandler DEF Working
<1>3. CASE /\ Batches!Answers /\ engine' = Batches!Paused /\ paused' = TRUE
           /\ workerPc' = "add" /\ UNCHANGED error
  <2>1. /\ engine.state = "up" /\ UNCHANGED <<faults, lapses>>
        /\ engine' = [engine EXCEPT !.paused = TRUE]
    BY <1>3 DEF Batches!Answers, Batches!Paused
  <2>2. BatchTypes'
    BY <1>1, <1>3, <2>1 DEF BatchInv, BatchTypes, Awaited, Working
  <2>3. Admitting
    BY DEF BatchInv
  <2>4. BatchLevels[level] \in Nat \ {0}
    BY <1>1, <2>3, BatchAssumed DEF Admitting, Working
  <2>5. Admitting'
    <3>1. Unstepped' /\ ids = {} /\ ids' = {}
      BY <1>1, <2>1, <2>3 DEF Admitting, AdmissionWhole, Unstepped, Working
    <3>2. 0 \in 0 .. BatchLevels[level] - 1 /\ ids' = 1 .. 0
      BY <2>4, <3>1
    <3>3. \E k \in 0 .. BatchLevels[level]' - 1 : ids' = 1 .. k
      BY <1>1, <3>2
    <3>4. AdmissionWhole'
      BY <1>3, <3>1, <3>3 DEF AdmissionWhole
    <3>5. /\ level' \in 1 .. Len(BatchLevels) /\ lapses' = {} /\ error' = "none"
          /\ tasks' = Batches!NoTasks
          /\ \A r \in Batches!Requests : tasks'[r] = "done" => collector'[r] = "output"
      BY <1>1, <1>3, <2>1, <2>3 DEF Admitting, Working
    <3> QED
      BY <1>3, <3>4, <3>5 DEF Admitting
  <2>6. RunningKnown' /\ TasksKnown' /\ PauseKnown'
    BY <1>1, <1>3, <2>1 DEF BatchInv, RunningKnown, TasksKnown, PauseKnown, Working
  <2>7. Batches!BatchInOneStep'
    BY <1>1 DEF BatchInv, Batches!BatchInOneStep
  <2> QED
    BY <2>2, <2>5, <2>6, <2>7 DEF BatchInv
<1> QED
  BY <1>2, <1>3 DEF Batches!Pause

(* The steps of the clean-up and of the engine leave the finished levels.   *)
LEMMA BatchesStay ==
    ASSUME BatchInv, batches' = batches PROVE Batches!BatchInOneStep'
BY DEF BatchInv, Batches!BatchInOneStep

(* What the invariant says of the level a worker that has not failed runs.  *)
LEMMA LevelKnown ==
    ASSUME BatchInv, workerPc \in Working
    PROVE  /\ level \in 1 .. Len(BatchLevels) /\ BatchLevels[level] \in Nat \ {0}
           /\ 1 .. BatchLevels[level] \subseteq Batches!Requests
           /\ lapses = {} /\ error = "none" /\ Admitting /\ AdmissionWhole
BY BatchAssumed DEF BatchInv, Admitting

(* The worker's Cardinality is that of the finite sets' theorems.           *)
LEMMA BatchCardinality == \A S : Batches!Cardinality(S) = Cardinality(S)
BY DEF Batches!Cardinality, Cardinality

LEMMA AddKeeps == ASSUME BatchInv, Batches!Add PROVE BatchInv'
<1> DEFINE r == Batches!Cardinality(ids) + 1
           admitted == [engine EXCEPT !.running = @ \cup {r}]
<1>1. /\ workerPc = "add"
      /\ UNCHANGED <<level, paused, tasks, collector, first, batches>>
      /\ BatchTypes /\ tasks \in [Batches!Requests -> TaskState]
      /\ engine \in [state : {"up", "dead", "shut"}, paused : BOOLEAN,
                     running : SUBSET Nat]
  BY DEF Batches!Add, BatchInv, BatchTypes
<1>2. PICK k \in 0 .. BatchLevels[level] - 1 : ids = 1 .. k
  BY <1>1, LevelKnown DEF AdmissionWhole, Working
<1>3. /\ BatchLevels[level] \in Nat \ {0} /\ Admitting
      /\ level \in 1 .. Len(BatchLevels) /\ lapses = {} /\ error = "none"
      /\ tasks = Batches!NoTasks
  BY <1>1, LevelKnown DEF Admitting, Working
<1>4. r = k + 1 /\ k \in Nat
  <2>1. k \in Nat /\ k \in Int /\ 1 \in Int
    BY <1>2, <1>3
  <2>2. Cardinality(1 .. k) = k
    BY <2>1, FS_Interval
  <2> QED
    BY <1>2, <2>1, <2>2, BatchCardinality
<1>5. /\ admitted.state = engine.state /\ admitted.paused = engine.paused
      /\ admitted.running = engine.running \cup {r}
      /\ admitted \in [state : {"up", "dead", "shut"}, paused : BOOLEAN,
                       running : SUBSET Nat]
  BY <1>1, <1>4
<1>6. \/ /\ Batches!Answers
         /\ engine' = admitted /\ ids' = ids \cup {r}
         /\ workerPc' = IF r = BatchLevels[level] THEN "verify" ELSE "add"
         /\ UNCHANGED error
      \/ Batches!Fails(admitted, "handler") /\ UNCHANGED ids
  BY DEF Batches!Add
<1> HIDE DEF r, admitted
<1>7. CASE Batches!Fails(admitted, "handler") /\ UNCHANGED ids
  <2>1. /\ workerPc' = "handler" /\ error' \in Batches!Errors /\ faults' \in Nat
        /\ lapses' \in {lapses, lapses \cup {workerPc}}
        /\ \/ engine' = engine
           \/ /\ engine.state = "up" /\ engine' = admitted
              /\ lapses' = lapses \cup {workerPc}
    BY <1>1, <1>7, FailsFacts
  <2> QED
    BY <1>1, <1>5, <1>7, <2>1, ToHandler DEF Working
<1>8. CASE /\ Batches!Answers
           /\ engine' = admitted /\ ids' = ids \cup {r}
           /\ workerPc' = IF r = BatchLevels[level] THEN "verify" ELSE "add"
           /\ UNCHANGED error
  <2>1. engine.state = "up" /\ UNCHANGED <<faults, lapses>>
    BY <1>8 DEF Batches!Answers
  <2>2. ids' = 1 .. (k + 1) /\ k + 1 \in 1 .. BatchLevels[level]
    BY <1>2, <1>3, <1>4, <1>8
  <2>3. workerPc' \in {"add", "verify"}
    BY <1>8
  <2>4. BatchTypes'
    BY <1>1, <1>5, <1>8, <2>1, <2>2, <2>3 DEF BatchTypes, Awaited, Working
  <2>5. AdmissionWhole'
    <3>1. engine'.paused => Unstepped'
      BY <1>1, <1>3, <1>5, <1>8, <2>1 DEF Admitting, AdmissionWhole, Unstepped, Working
    <3>2. workerPc' = "verify" => ids' = 1 .. BatchLevels[level]'
      BY <1>1, <1>4, <1>8, <2>2
    <3>3. workerPc' = "add" => k + 1 \in 0 .. BatchLevels[level] - 1
      BY <1>3, <1>4, <1>8, <2>2
    <3>4. workerPc' = "add" => \E j \in 0 .. BatchLevels[level]' - 1 : ids' = 1 .. j
      BY <1>1, <2>2, <3>3
    <3> QED
      BY <2>3, <3>1, <3>2, <3>4 DEF AdmissionWhole
  <2>6. Admitting'
    BY <1>1, <1>3, <1>8, <2>1, <2>3, <2>5 DEF Admitting, Working
  <2>7. RunningKnown' /\ TasksKnown' /\ PauseKnown'
    BY <1>1, <1>3, <1>5, <1>8, <2>1, <2>3
       DEF BatchInv, RunningKnown, TasksKnown, PauseKnown, Working
  <2> QED
    BY <1>1, <2>4, <2>6, <2>7, BatchesStay DEF BatchInv
<1> QED
  BY <1>6, <1>7, <1>8

LEMMA VerifyKeeps == ASSUME BatchInv, Batches!Verify PROVE BatchInv'
<1>1. /\ workerPc = "verify"
      /\ UNCHANGED <<level, paused, ids, collector, first, batches>>
      /\ BatchTypes /\ tasks \in [Batches!Requests -> TaskState]
      /\ engine \in [state : {"up", "dead", "shut"}, paused : BOOLEAN,
                     running : SUBSET Nat]
  BY DEF Batches!Verify, BatchInv, BatchTypes
<1>2. CASE Batches!Fails(engine, "handler") /\ UNCHANGED tasks
  <2>1. /\ workerPc' = "handler" /\ error' \in Batches!Errors /\ faults' \in Nat
        /\ lapses' \in {lapses, lapses \cup {workerPc}} /\ engine' = engine
    BY <1>1, <1>2, FailsFacts
  <2> QED
    BY <1>1, <1>2, <2>1, ToHandler DEF Working
<1>3. CASE /\ Batches!Answers /\ Batches!Raise("Exception", "handler")
           /\ UNCHANGED <<tasks, engine>>
  BY <1>1, <1>3, ToHandler
     DEF Working, BatchTypes, Batches!Answers, Batches!Raise, Batches!Errors
<1>4. CASE /\ Batches!Answers /\ engine.paused
           /\ tasks' = [r \in Batches!Requests |->
                           IF r \in ids THEN "running" ELSE "none"]
           /\ workerPc' = "resume" /\ UNCHANGED <<error, engine>>
  <2>1. engine.state = "up" /\ UNCHANGED <<faults, lapses>>
    BY <1>4 DEF Batches!Answers
  <2>2. tasks' \in [Batches!Requests -> TaskState]
        /\ \A r \in Batches!Requests : tasks'[r] # "done"
    BY <1>4 DEF TaskState
  <2>3. BatchTypes'
    BY <1>1, <1>4, <2>1, <2>2 DEF BatchTypes, Awaited, Working
  <2>4. Unstepped /\ ids = 1 .. BatchLevels[level] /\ lapses = {} /\ error = "none"
        /\ level \in 1 .. Len(BatchLevels)
    BY <1>1, <1>4, LevelKnown DEF AdmissionWhole, Working
  <2>5. AdmissionWhole'
    BY <1>1, <1>4, <2>4 DEF AdmissionWhole, Unstepped
  <2>6. Admitting'
    BY <1>1, <1>4, <2>1, <2>2, <2>4, <2>5 DEF Admitting
  <2>7. RunningKnown' /\ TasksKnown' /\ PauseKnown'
    BY <1>1, <1>4, <2>1 DEF BatchInv, RunningKnown, TasksKnown, PauseKnown, Working
  <2> QED
    BY <1>1, <2>3, <2>6, <2>7, BatchesStay DEF BatchInv
<1> QED
  BY <1>2, <1>3, <1>4 DEF Batches!Verify

LEMMA ResumeKeeps == ASSUME BatchInv, Batches!Resume PROVE BatchInv'
<1>1. /\ workerPc = "resume"
      /\ UNCHANGED <<level, ids, tasks, collector, first, batches>>
      /\ BatchTypes /\ tasks \in [Batches!Requests -> TaskState]
      /\ engine \in [state : {"up", "dead", "shut"}, paused : BOOLEAN,
                     running : SUBSET Nat]
  BY DEF Batches!Resume, BatchInv, BatchTypes
<1>2. /\ Batches!Resumed.state = engine.state /\ Batches!Resumed.paused = FALSE
      /\ Batches!Resumed.running = engine.running
      /\ Batches!Resumed \in [state : {"up", "dead", "shut"}, paused : BOOLEAN,
                              running : SUBSET Nat]
  BY <1>1 DEF Batches!Resumed
<1>3. CASE Batches!Fails(Batches!Resumed, "handler") /\ UNCHANGED paused
  <2>1. /\ workerPc' = "handler" /\ error' \in Batches!Errors /\ faults' \in Nat
        /\ lapses' \in {lapses, lapses \cup {workerPc}}
        /\ \/ engine' = engine
           \/ /\ engine.state = "up" /\ engine' = Batches!Resumed
              /\ lapses' = lapses \cup {workerPc}
    BY <1>1, <1>3, FailsFacts
  <2> QED
    BY <1>1, <1>2, <1>3, <2>1, ToHandler DEF Working
<1>4. CASE /\ Batches!Answers /\ engine' = Batches!Resumed /\ paused' = FALSE
           /\ workerPc' = "gather" /\ UNCHANGED error
  <2>1. engine.state = "up" /\ UNCHANGED <<faults, lapses>>
    BY <1>4 DEF Batches!Answers
  <2>2. BatchTypes'
    BY <1>1, <1>2, <1>4, <2>1 DEF BatchTypes, Awaited, Working
  <2>3. /\ ids = 1 .. BatchLevels[level] /\ lapses = {} /\ error = "none"
        /\ level \in 1 .. Len(BatchLevels) /\ (Unstepped \/ Stepped)
        /\ \A r \in Batches!Requests : tasks[r] = "done" => collector[r] = "output"
    BY <1>1, LevelKnown DEF AdmissionWhole, Admitting, Working
  <2>4. AdmissionWhole'
    BY <1>1, <1>2, <1>4, <2>3 DEF AdmissionWhole, Unstepped, Stepped
  <2>5. Admitting'
    BY <1>1, <1>4, <2>1, <2>3, <2>4 DEF Admitting
  <2>6. RunningKnown' /\ TasksKnown' /\ PauseKnown'
    BY <1>1, <1>2, <1>4, <2>1
       DEF BatchInv, RunningKnown, TasksKnown, PauseKnown, Working
  <2> QED
    BY <1>1, <2>2, <2>5, <2>6, BatchesStay DEF BatchInv
<1> QED
  BY <1>3, <1>4 DEF Batches!Resume

(* A collector that returned had its request run, so the engine has taken   *)
(* the level, and in one step.                                              *)
LEMMA GatheredWhole ==
    ASSUME BatchInv, workerPc = "gather", \A r \in ids : tasks[r] = "done"
    PROVE  first = 1 .. BatchLevels[level] /\ engine.running = {}
<1>1. ids = 1 .. BatchLevels[level] /\ (Unstepped \/ Stepped)
  BY LevelKnown DEF AdmissionWhole, Working
<1>2. 1 \in ids /\ 1 \in Batches!Requests
  BY <1>1, LevelKnown DEF Working
<1>3. collector[1] = "output"
  BY <1>2, LevelKnown DEF Admitting, Working
<1> QED
  BY <1>1, <1>2, <1>3 DEF Unstepped, Stepped

LEMMA GatherKeeps == ASSUME BatchInv, Batches!Gather PROVE BatchInv'
<1>1. /\ workerPc = "gather" /\ UNCHANGED <<paused, engine>>
      /\ BatchTypes /\ tasks \in [Batches!Requests -> TaskState]
  BY DEF Batches!Gather, BatchInv, BatchTypes
<1>2. CASE /\ \A r \in ids : tasks[r] = "done"
           /\ Batches!Return /\ UNCHANGED <<error, faults, lapses>>
  <2>1. first = 1 .. BatchLevels[level] /\ engine.running = {}
    BY <1>1, <1>2, GatheredWhole
  <2>2. /\ batches' = Append(batches, [level |-> BatchLevels[level], first |-> first])
        /\ level' = level + 1
        /\ workerPc' = IF level = Len(BatchLevels) THEN "shutdown" ELSE "pause"
        /\ ids' = {} /\ tasks' = Batches!NoTasks /\ first' = {}
        /\ collector' = [r \in Batches!Requests |-> "empty"]
    BY <1>2 DEF Batches!Return
  <2>3. /\ level \in 1 .. Len(BatchLevels) /\ BatchLevels[level] \in Nat \ {0}
        /\ lapses = {} /\ error = "none" /\ ~paused
        /\ Len(BatchLevels) \in Nat
    BY <1>1, LevelKnown, BatchAssumed DEF Admitting, Working
  <2>4. [level |-> BatchLevels[level], first |-> first] \in
            [level : Nat, first : SUBSET Nat]
    BY <1>1, <2>3 DEF BatchTypes
  <2>5. /\ batches \in Seq([level : Nat, first : SUBSET Nat])
        /\ batches' \in Seq([level : Nat, first : SUBSET Nat])
        /\ Len(batches') = Len(batches) + 1
        /\ batches'[Len(batches) + 1] = [level |-> BatchLevels[level], first |-> first]
        /\ \A i \in 1 .. Len(batches) : batches'[i] = batches[i]
    BY <1>1, <2>2, <2>4 DEF BatchTypes
  <2>6. /\ tasks' \in [Batches!Requests -> TaskState]
        /\ \A r \in Batches!Requests : tasks'[r] = "none" /\ collector'[r] = "empty"
        /\ collector' \in [Batches!Requests -> {"empty", "output", "error"}]
    BY <2>2 DEF Batches!NoTasks, TaskState
  <2>7. BatchTypes'
    BY <1>1, <1>2, <2>2, <2>5, <2>6 DEF BatchTypes, Awaited, Working
  <2>8. Batches!BatchInOneStep'
    <3> SUFFICES ASSUME NEW i \in DOMAIN batches'
                 PROVE  batches'[i].first = 1 .. batches'[i].level
      BY DEF Batches!BatchInOneStep
    <3>1. i \in 1 .. Len(batches) + 1 /\ DOMAIN batches = 1 .. Len(batches)
      BY <2>5
    <3>2. CASE i = Len(batches) + 1
      BY <2>1, <2>5, <3>2
    <3>3. CASE i \in 1 .. Len(batches)
      BY <2>5, <3>1, <3>3 DEF BatchInv, Batches!BatchInOneStep
    <3> QED
      BY <2>5, <3>1, <3>2, <3>3
  <2>9. Unstepped'
    BY <1>1, <2>1, <2>2, <2>6 DEF Unstepped
  <2>10. workerPc' \in Working => workerPc' = "pause" /\ level' \in 1 .. Len(BatchLevels)
    BY <2>2, <2>3 DEF Working
  <2>11. AdmissionWhole'
    BY <1>1, <2>1, <2>2, <2>9 DEF AdmissionWhole
  <2>12. Admitting'
    BY <1>1, <1>2, <2>2, <2>3, <2>6, <2>10, <2>11 DEF Admitting
  <2>13. RunningKnown' /\ TasksKnown'
    BY <1>1, <2>1, <2>6 DEF BatchInv, RunningKnown, TasksKnown, Batches!Ended
  <2>14. PauseKnown'
    BY <1>1, <1>2, <2>2, <2>3 DEF BatchInv, PauseKnown
  <2> QED
    BY <2>7, <2>8, <2>12, <2>13, <2>14 DEF BatchInv
<1>3. CASE /\ Batches!Raise("Exception", "handler")
           /\ UNCHANGED <<level, ids, tasks, first, collector, batches, faults, lapses>>
  BY <1>1, <1>3, ToHandler DEF Working, BatchTypes, Batches!Raise, Batches!Errors
<1>4. CASE /\ Batches!Raise("Cancelled", "handler") /\ Batches!Fault(FALSE)
           /\ tasks' = Batches!Cancelling
           /\ UNCHANGED <<level, ids, first, collector, batches>>
  <2>1. tasks' \in [Batches!Requests -> TaskState]
    BY <1>1, <1>4 DEF Batches!Cancelling, TaskState
  <2>2. /\ workerPc' = "handler" /\ error' \in Batches!Errors /\ faults' \in Nat
        /\ lapses' = lapses
    BY <1>1, <1>4
       DEF BatchTypes, Batches!Raise, Batches!Fault, Batches!Errors, Batches!Cleanup
  <2> QED
    BY <1>1, <1>4, <2>1, <2>2, ToHandler DEF Working
<1> QED
  BY <1>2, <1>3, <1>4 DEF Batches!Gather

(* The clean-up, whose worker has left the level for good.                  *)
LEMMA CatchKeeps == ASSUME BatchInv, Batches!Catch PROVE BatchInv'
<1>1. /\ workerPc = "handler" /\ workerPc' \in {"reap", "abort"}
      /\ tasks' = Batches!Cancelling /\ (workerPc' = "abort" => tasks = Batches!NoTasks)
      /\ UNCHANGED <<level, paused, ids, error, engine, collector, first, faults,
                    batches, lapses>>
      /\ BatchTypes /\ tasks \in [Batches!Requests -> TaskState]
  BY DEF Batches!Catch, Batches!history, BatchInv, BatchTypes
<1>2. tasks' \in [Batches!Requests -> TaskState]
  BY <1>1 DEF Batches!Cancelling, TaskState
<1>3. BatchTypes'
  BY <1>1, <1>2 DEF BatchTypes, Awaited, Working
<1>4. TasksKnown'
  BY <1>1 DEF TasksKnown, Batches!Cancelling, Batches!NoTasks, Batches!Ended
<1>5. Admitting' /\ RunningKnown' /\ PauseKnown'
  BY <1>1 DEF BatchInv, Admitting, RunningKnown, PauseKnown, Working
<1> QED
  BY <1>1, <1>3, <1>4, <1>5, BatchesStay DEF BatchInv

LEMMA ReapKeeps == ASSUME BatchInv, Batches!Reap PROVE BatchInv'
<1>1. /\ workerPc = "reap"
      /\ UNCHANGED <<level, paused, ids, tasks, engine, collector, first, batches>>
      /\ BatchTypes
  BY DEF Batches!Reap, BatchInv
<1>2. \/ /\ \A r \in Batches!Requests : tasks[r] \in Batches!Ended
         /\ workerPc' = "abort" /\ UNCHANGED <<error, faults, lapses>>
      \/ /\ workerPc' = "finally" /\ error' = "Cancelled"
         /\ faults' = faults + 1 /\ lapses' = lapses \cup {"reap"}
  BY DEF Batches!Reap, Batches!Raise, Batches!Fault, Batches!Cleanup
<1>3. BatchTypes'
  <2>1. faults' \in Nat
    BY <1>1, <1>2 DEF BatchTypes
  <2>2. /\ error' \in {"none"} \cup Batches!Errors /\ lapses' \subseteq Awaited
        /\ workerPc' \in Awaited
    BY <1>1, <1>2 DEF BatchTypes, Awaited, Batches!Errors
  <2> QED
    BY <1>1, <2>1, <2>2 DEF BatchTypes
<1>4. Admitting' /\ TasksKnown'
  BY <1>1, <1>2 DEF BatchInv, Admitting, TasksKnown, Working
<1>5. RunningKnown' /\ PauseKnown'
  BY <1>1, <1>2 DEF BatchInv, RunningKnown, PauseKnown, Working
<1> QED
  BY <1>1, <1>3, <1>4, <1>5, BatchesStay DEF BatchInv

LEMMA AbortKeeps == ASSUME BatchInv, Batches!Abort PROVE BatchInv'
<1>1. /\ workerPc = "abort" /\ workerPc' = "finally"
      /\ UNCHANGED <<level, paused, ids, tasks, collector, first, batches>>
      /\ BatchTypes
      /\ engine \in [state : {"up", "dead", "shut"}, paused : BOOLEAN,
                     running : SUBSET Nat]
  BY DEF Batches!Abort, BatchInv, BatchTypes
<1>2. \/ /\ engine.state = "up" /\ engine'.running = engine.running \ ids
         /\ UNCHANGED <<error, faults, lapses>>
      \/ /\ engine.state # "up" /\ engine' = engine
         /\ UNCHANGED <<error, faults, lapses>>
      \/ /\ engine.state = "up" /\ engine'.running \subseteq engine.running
         /\ faults' = faults + 1 /\ lapses' = lapses \cup {"abort"}
         /\ error' \in {error, "Cancelled"}
  BY <1>1 DEF Batches!Abort, Batches!Answers, Batches!Fault, Batches!Cleanup
<1>3. /\ engine'.state = engine.state /\ engine'.paused = engine.paused
      /\ engine' \in [state : {"up", "dead", "shut"}, paused : BOOLEAN,
                      running : SUBSET Nat]
  BY <1>1 DEF Batches!Abort, Batches!Answers, Batches!Fault
<1>4. BatchTypes'
  <2>1. faults' \in Nat
    BY <1>1, <1>2 DEF BatchTypes
  <2>2. error' \in {"none"} \cup Batches!Errors /\ lapses' \subseteq Awaited
    BY <1>1, <1>2 DEF BatchTypes, Awaited, Batches!Errors
  <2> QED
    BY <1>1, <1>3, <2>1, <2>2 DEF BatchTypes, Awaited
<1>5. Admitting' /\ TasksKnown'
  BY <1>1, <1>2 DEF BatchInv, Admitting, TasksKnown, Working
<1>6. RunningKnown'
  BY <1>1, <1>2, <1>3 DEF BatchInv, RunningKnown, Working
<1>7. PauseKnown'
  BY <1>1, <1>2, <1>3 DEF BatchInv, PauseKnown
<1> QED
  BY <1>1, <1>4, <1>5, <1>6, <1>7, BatchesStay DEF BatchInv

LEMMA FinallyKeeps == ASSUME BatchInv, Batches!Finally PROVE BatchInv'
<1>1. /\ workerPc = "finally"
      /\ UNCHANGED <<level, paused, ids, tasks, collector, first, batches>>
      /\ BatchTypes
  BY DEF Batches!Finally, BatchInv
<1>2. /\ engine' = engine /\ workerPc' \in {"reresume", "shutdown"}
      /\ error' \in {"none"} \cup Batches!Errors /\ faults' \in Nat
      /\ lapses' \in {lapses, lapses \cup {"finally"}}
      /\ workerPc' = "shutdown" /\ engine.state = "up" /\ engine.paused =>
             ~paused \/ lapses' = lapses \cup {"finally"}
  <2>1. CASE ~paused /\ workerPc' = "shutdown"
             /\ UNCHANGED <<error, engine, faults, lapses>>
    BY <1>1, <2>1 DEF BatchTypes
  <2>2. CASE /\ paused /\ Batches!Answers
             /\ workerPc' = IF engine.paused THEN "reresume" ELSE "shutdown"
             /\ UNCHANGED <<error, engine>>
    BY <1>1, <2>2 DEF BatchTypes, Batches!Answers
  <2>3. CASE paused /\ Batches!Fails(engine, "shutdown")
    BY <1>1, <2>3, FailsFacts DEF Batches!Cleanup
  <2> QED
    BY <2>1, <2>2, <2>3 DEF Batches!Finally
<1>3. BatchTypes'
  BY <1>1, <1>2 DEF BatchTypes, Awaited
<1>4. Admitting' /\ TasksKnown'
  BY <1>1, <1>2 DEF BatchInv, Admitting, TasksKnown, Working
<1>5. RunningKnown' /\ PauseKnown'
  BY <1>1, <1>2 DEF BatchInv, RunningKnown, PauseKnown, Working
<1> QED
  BY <1>1, <1>3, <1>4, <1>5, BatchesStay DEF BatchInv

LEMMA ReresumeKeeps == ASSUME BatchInv, Batches!Reresume PROVE BatchInv'
<1>1. /\ workerPc = "reresume"
      /\ UNCHANGED <<level, paused, ids, tasks, collector, first, batches>>
      /\ BatchTypes
      /\ engine \in [state : {"up", "dead", "shut"}, paused : BOOLEAN,
                     running : SUBSET Nat]
  BY DEF Batches!Reresume, BatchInv, BatchTypes
<1>2. /\ Batches!Resumed.state = engine.state /\ Batches!Resumed.paused = FALSE
      /\ Batches!Resumed.running = engine.running
      /\ Batches!Resumed \in [state : {"up", "dead", "shut"}, paused : BOOLEAN,
                              running : SUBSET Nat]
  BY <1>1 DEF Batches!Resumed
<1>3. /\ engine' \in {engine, Batches!Resumed} /\ workerPc' = "shutdown"
      /\ error' \in {"none"} \cup Batches!Errors /\ faults' \in Nat
      /\ \/ engine' = Batches!Resumed
         \/ engine.state # "up"
         \/ lapses' = lapses \cup {"reresume"}
      /\ lapses' \in {lapses, lapses \cup {"reresume"}}
  <2>1. CASE /\ Batches!Answers /\ engine' = Batches!Resumed
             /\ workerPc' = "shutdown" /\ UNCHANGED error
    BY <1>1, <2>1 DEF BatchTypes, Batches!Answers
  <2>2. CASE Batches!Fails(Batches!Resumed, "shutdown")
    BY <1>1, <2>2, FailsFacts DEF Batches!Cleanup
  <2> QED
    BY <2>1, <2>2 DEF Batches!Reresume
<1>4. BatchTypes'
  BY <1>1, <1>2, <1>3 DEF BatchTypes, Awaited
<1>5. Admitting' /\ TasksKnown'
  BY <1>1, <1>3 DEF BatchInv, Admitting, TasksKnown, Working
<1>6. RunningKnown' /\ PauseKnown'
  BY <1>1, <1>2, <1>3 DEF BatchInv, RunningKnown, PauseKnown, Working
<1> QED
  BY <1>1, <1>4, <1>5, <1>6, BatchesStay DEF BatchInv

LEMMA ShutdownKeeps == ASSUME BatchInv, Batches!Shutdown PROVE BatchInv'
<1>1. /\ workerPc = "shutdown" /\ workerPc' = "ended"
      /\ engine'.state = "shut" /\ engine'.running = {}
      /\ engine' \in [state : {"up", "dead", "shut"}, paused : BOOLEAN,
                      running : SUBSET Nat]
      /\ UNCHANGED <<level, paused, ids, tasks, error, collector, first, faults,
                    batches, lapses>>
      /\ BatchTypes
  BY DEF Batches!Shutdown, Batches!history, BatchInv
<1>2. BatchTypes'
  BY <1>1 DEF BatchTypes, Awaited
<1>3. Admitting' /\ RunningKnown' /\ TasksKnown' /\ PauseKnown'
  BY <1>1 DEF BatchInv, Admitting, RunningKnown, TasksKnown, PauseKnown, Working
<1> QED
  BY <1>1, <1>2, <1>3, BatchesStay DEF BatchInv

(* A collector task that ends.                                              *)
LEMMA DrainKeeps ==
    ASSUME BatchInv, NEW r \in Batches!Requests, Batches!Drain(r) PROVE BatchInv'
<1>1. /\ UNCHANGED <<level, workerPc, paused, ids, error, engine, collector, first,
                    faults, batches, lapses>>
      /\ BatchTypes /\ tasks \in [Batches!Requests -> TaskState]
      /\ collector \in [Batches!Requests -> {"empty", "output", "error"}]
  BY DEF Batches!Drain, Batches!history, BatchInv, BatchTypes
<1>2. /\ tasks[r] \in {"running", "cancelling"}
      /\ \E t \in {"done", "failed", "cancelled"} :
             /\ tasks' = [tasks EXCEPT ![r] = t]
             /\ t = "done" => collector[r] = "output"
  BY <1>1 DEF Batches!Drain
<1>3. /\ tasks' \in [Batches!Requests -> TaskState]
      /\ tasks'[r] \in {"done", "failed", "cancelled"}
      /\ tasks'[r] = "done" => collector[r] = "output"
      /\ \A q \in Batches!Requests \ {r} : tasks'[q] = tasks[q]
  BY <1>1, <1>2 DEF TaskState
<1>4. BatchTypes'
  BY <1>1, <1>3 DEF BatchTypes
<1>5. AdmissionWhole' <=> AdmissionWhole
  BY <1>1 DEF AdmissionWhole, Unstepped, Stepped
<1>6. Admitting'
  BY <1>1, <1>2, <1>3, <1>5 DEF BatchInv, Admitting, Batches!NoTasks
<1>7. TasksKnown'
  BY <1>1, <1>3 DEF BatchInv, TasksKnown, Batches!Ended
<1>8. RunningKnown' /\ PauseKnown'
  BY <1>1 DEF BatchInv, RunningKnown, PauseKnown
<1> QED
  BY <1>1, <1>4, <1>6, <1>7, <1>8, BatchesStay DEF BatchInv

LEMMA EngineStepKeeps == ASSUME BatchInv, Batches!EngineStep PROVE BatchInv'
<1>1. /\ engine.state = "up" /\ ~engine.paused /\ engine.running # {}
      /\ first' = IF first = {} THEN engine.running ELSE first
      /\ collector' = [q \in Batches!Requests |->
                          IF q \in engine.running THEN "output" ELSE collector[q]]
      /\ engine' = [engine EXCEPT !.running = {}]
      /\ UNCHANGED <<level, workerPc, paused, ids, tasks, error, faults, batches, lapses>>
      /\ BatchTypes
      /\ engine \in [state : {"up", "dead", "shut"}, paused : BOOLEAN,
                     running : SUBSET Nat]
  BY DEF Batches!EngineStep, Batches!worker, Batches!history, BatchInv, BatchTypes
<1>2. /\ engine'.state = "up" /\ ~engine'.paused /\ engine'.running = {}
      /\ engine' \in [state : {"up", "dead", "shut"}, paused : BOOLEAN,
                      running : SUBSET Nat]
  BY <1>1
<1>3. BatchTypes'
  <2>1. collector' \in [Batches!Requests -> {"empty", "output", "error"}]
    BY <1>1 DEF BatchTypes
  <2>2. engine.running \subseteq Nat /\ first \subseteq Nat
    BY <1>1 DEF BatchTypes
  <2>3. first' \subseteq Nat
    BY <1>1, <2>2
  <2> QED
    BY <1>1, <1>2, <2>1, <2>3 DEF BatchTypes
<1>4. Admitting'
  <2> SUFFICES ASSUME workerPc \in Working PROVE Admitting'
    BY <1>1 DEF Admitting
  <2>1. Admitting /\ AdmissionWhole
    BY LevelKnown
  <2>2. workerPc # "pause"
    BY <1>1, <2>1 DEF AdmissionWhole
  <2>3. workerPc \in {"resume", "gather"} => Stepped'
    BY <1>1, <1>2, <2>1 DEF AdmissionWhole, Unstepped, Stepped
  <2>4. AdmissionWhole'
    BY <1>1, <1>2, <2>1, <2>2, <2>3 DEF AdmissionWhole
  <2> QED
    BY <1>1, <2>1, <2>4 DEF Admitting
<1>5. RunningKnown' /\ TasksKnown' /\ PauseKnown'
  BY <1>1, <1>2 DEF BatchInv, RunningKnown, TasksKnown, PauseKnown
<1> QED
  BY <1>1, <1>3, <1>4, <1>5, BatchesStay DEF BatchInv

LEMMA EngineResumesKeeps == ASSUME BatchInv, Batches!EngineResumes PROVE BatchInv'
<1>1. /\ engine.state = "up" /\ engine.paused
      /\ engine' = [engine EXCEPT !.paused = FALSE] /\ faults' = faults + 1
      /\ UNCHANGED <<level, workerPc, paused, ids, tasks, error, collector, first,
                    batches, lapses>>
      /\ BatchTypes
      /\ engine \in [state : {"up", "dead", "shut"}, paused : BOOLEAN,
                     running : SUBSET Nat]
  BY DEF Batches!EngineResumes, Batches!worker, Batches!history, BatchInv, BatchTypes
<1>2. /\ engine'.state = "up" /\ ~engine'.paused /\ engine'.running = engine.running
      /\ engine' \in [state : {"up", "dead", "shut"}, paused : BOOLEAN,
                      running : SUBSET Nat]
  BY <1>1
<1>3. BatchTypes'
  <2>1. faults' \in Nat
    BY <1>1 DEF BatchTypes
  <2> QED
    BY <1>1, <1>2, <2>1 DEF BatchTypes
<1>4. Admitting'
  <2>1. Unstepped' <=> Unstepped
    BY <1>1, <1>2 DEF Unstepped
  <2>2. AdmissionWhole => AdmissionWhole'
    BY <1>1, <1>2, <2>1 DEF AdmissionWhole, Stepped
  <2> QED
    BY <1>1, <2>2 DEF BatchInv, Admitting
<1>5. RunningKnown' /\ TasksKnown' /\ PauseKnown'
  BY <1>1, <1>2 DEF BatchInv, RunningKnown, TasksKnown, PauseKnown
<1> QED
  BY <1>1, <1>3, <1>4, <1>5, BatchesStay DEF BatchInv

LEMMA EngineDiesKeeps == ASSUME BatchInv, Batches!EngineDies PROVE BatchInv'
<1>1. /\ engine.state = "up"
      /\ engine' = [engine EXCEPT !.state = "dead", !.running = {}]
      /\ collector' = [q \in Batches!Requests |->
                          IF q \in engine.running THEN "error" ELSE collector[q]]
      /\ faults' = faults + 1
      /\ UNCHANGED <<level, workerPc, paused, ids, tasks, error, first, batches, lapses>>
      /\ BatchTypes
      /\ engine \in [state : {"up", "dead", "shut"}, paused : BOOLEAN,
                     running : SUBSET Nat]
  BY DEF Batches!EngineDies, Batches!worker, Batches!history, BatchInv, BatchTypes
<1>2. /\ engine'.state = "dead" /\ engine'.running = {}
      /\ engine'.paused = engine.paused
      /\ engine' \in [state : {"up", "dead", "shut"}, paused : BOOLEAN,
                      running : SUBSET Nat]
  BY <1>1
<1>3. BatchTypes'
  <2>1. collector' \in [Batches!Requests -> {"empty", "output", "error"}]
    BY <1>1 DEF BatchTypes
  <2> QED
    BY <1>1, <1>2, <2>1 DEF BatchTypes
<1>4. Admitting'
  <2> SUFFICES ASSUME workerPc \in Working PROVE Admitting'
    BY <1>1 DEF Admitting
  <2>1. Admitting /\ AdmissionWhole
    BY LevelKnown
  <2>2. Unstepped => Unstepped'
    BY <1>1, <1>2 DEF Unstepped
  <2>3. Stepped => Stepped' /\ collector' = collector
    BY <1>1, <1>2 DEF Stepped, BatchTypes
  <2>4. AdmissionWhole'
    BY <1>1, <1>2, <2>1, <2>2, <2>3 DEF AdmissionWhole
  <2>5. \A q \in Batches!Requests : tasks'[q] = "done" => collector'[q] = "output"
    <3>1. CASE workerPc \in {"pause", "add", "verify"}
      BY <1>1, <2>1, <3>1 DEF Admitting, Batches!NoTasks
    <3>2. CASE workerPc \in {"resume", "gather"}
      BY <1>1, <2>1, <2>3, <3>2 DEF Admitting, AdmissionWhole, Unstepped
    <3> QED
      BY <3>1, <3>2 DEF Working
  <2> QED
    BY <1>1, <2>1, <2>4, <2>5 DEF Admitting
<1>5. RunningKnown' /\ TasksKnown' /\ PauseKnown'
  BY <1>1, <1>2 DEF BatchInv, RunningKnown, TasksKnown, PauseKnown
<1> QED
  BY <1>1, <1>3, <1>4, <1>5, BatchesStay DEF BatchInv

LEMMA BatchStep == BatchInv /\ [ReleaseNext]_releaseVars => BatchInv'
<1> SUFFICES ASSUME BatchInv, [ReleaseNext]_releaseVars PROVE BatchInv'
  OBVIOUS
<1>1. CASE Batches!Next
  <2>1. ASSUME Batches!Worker PROVE BatchInv'
    BY <2>1, PauseKeeps, AddKeeps, VerifyKeeps, ResumeKeeps, GatherKeeps, CatchKeeps,
       ReapKeeps, AbortKeeps, FinallyKeeps, ReresumeKeeps, ShutdownKeeps
       DEF Batches!Worker
  <2> QED
    BY <1>1, <2>1, DrainKeeps, EngineStepKeeps, EngineResumesKeeps, EngineDiesKeeps
       DEF Batches!Next, Batches!Drains
<1>2. CASE UNCHANGED batch
  <2>1. UNCHANGED <<workerPc, level, paused, ids, tasks, error, engine, collector,
                    first, batches, faults, lapses>>
    BY <1>2 DEF batch
  <2>2. BatchTypes' <=> BatchTypes
    BY <2>1 DEF BatchTypes
  <2>3. Admitting' <=> Admitting
    BY <2>1 DEF Admitting, AdmissionWhole, Unstepped, Stepped
  <2>4. (RunningKnown /\ TasksKnown /\ PauseKnown) =>
            (RunningKnown /\ TasksKnown /\ PauseKnown)'
    BY <2>1 DEF RunningKnown, TasksKnown, PauseKnown
  <2> QED
    BY <2>1, <2>2, <2>3, <2>4, BatchesStay DEF BatchInv
<1> QED
  BY <1>1, <1>2 DEF ReleaseNext, Pipelines, Worker, Controller, releaseVars, batch

(* The batches of the concurrency worker, for every list of levels and every *)
(* number of faults: a level that returns was one engine step of all its     *)
(* requests, and a worker that fails leaves no task, no request and no pause *)
(* behind.                                                                   *)
THEOREM BatchesAreWhole == ReleaseSpec => []BatchesWhole
<1>1. BatchInv => BatchesWhole
  <2> SUFFICES ASSUME BatchInv PROVE BatchesWhole
    OBVIOUS
  <2>1. Batches!NothingLeftBehind
    BY DEF BatchInv, RunningKnown, TasksKnown, Batches!NothingLeftBehind
  <2>2. Batches!NotLeftPaused
    BY DEF BatchInv, PauseKnown, Batches!NotLeftPaused
  <2> QED
    BY <2>1, <2>2 DEF BatchInv, BatchesWhole
<1> QED
  BY <1>1, InitBatch, BatchStep, PTL DEF ReleaseSpec

-----------------------------------------------------------------------------
(* The TTFT comparison.                                                    *)

RunRecord == [status : {"PASS", "FAIL"}, fingerprint : Nat, engine : Nat,
              latency : Int]

ChildRecord == [state : Comparison!Live \cup Comparison!Gone, audit : Nat,
                engine : Nat, launched : BOOLEAN, wheel : Nat]

ComparisonTypes ==
    /\ wheel \in Nat \ {0} /\ installed \in Nat /\ installed <= wheel
    /\ machine \in [latency : Latencies, drift : Drifts]
    /\ controllerPc \in {"audit", "start", "communicate", "drain", "check",
                         "report", "done"}
    /\ audited \in BOOLEAN /\ timedOut \in BOOLEAN /\ calm \in BOOLEAN
    /\ child \in ChildRecord
    /\ engines \subseteq Nat
    /\ runs \in Seq(RunRecord)
    /\ verdict \in {"none", "PASS", "FAIL"}

(* Only the process the controller waits for runs, and only its engine.    *)
OneProcess ==
    /\ engines \subseteq {Comparison!Current}
    /\ controllerPc \notin {"communicate", "drain"} =>
           engines = {} /\ child.state \in Comparison!Gone

(* Contents are numbered in the order they are built, so what a process    *)
(* audits is at most what its engine imports, and that at most what the    *)
(* next process audits.                                                    *)
ChildOrdered ==
    /\ child.engine <= installed
    /\ child.state \in {"audited", "running", "measured", "finished"} =>
           /\ 1 <= child.audit /\ child.audit <= installed
           /\ runs # <<>> => runs[Len(runs)].engine <= child.audit
    /\ child.state \in {"running", "measured", "finished"} =>
           child.audit <= child.engine

RunsOrdered ==
    \A n \in 1 .. Len(runs) :
        /\ runs[n].engine <= installed
        /\ runs[n].status = "PASS" =>
               /\ 1 <= runs[n].fingerprint /\ runs[n].fingerprint <= wheel
               /\ runs[n].fingerprint <= runs[n].engine
               /\ n > 1 => runs[n - 1].engine <= runs[n].fingerprint

(* A run shows the latency of its variant and the drift up to it.          *)
RunsDrift ==
    \A n \in 1 .. Len(runs) :
        runs[n].latency = machine.latency[Comparison!VariantOf(n)] + machine.drift * n

RunsCounted ==
    /\ Len(runs) <= Comparison!Processes
    /\ controllerPc \in {"audit", "start", "communicate", "drain", "check"} =>
           Len(runs) < Comparison!Processes

VerdictFounded ==
    /\ controllerPc # "done" => verdict = "none"
    /\ verdict = "PASS" => Comparison!AllPassed /\ Comparison!OneFingerprint

ComparisonInv ==
    /\ ComparisonTypes /\ OneProcess /\ ChildOrdered /\ RunsOrdered
    /\ RunsDrift /\ RunsCounted /\ VerdictFounded

LEMMA ComparisonAssumed ==
    /\ Cycles \in Nat \ {0} /\ MaxBuilds \in Nat
    /\ Latencies \subseteq [Comparison!Variant -> Nat \ {0}] /\ Drifts \subseteq Int
    /\ Comparison!Processes \in Nat \ {0} /\ Comparison!Processes = Cycles * 4
    /\ Len(Comparison!ORDER) = 4
    /\ \A n \in Nat \ {0} : Comparison!VariantOf(n) \in Comparison!Variant
<1>1. /\ Cycles \in Nat \ {0} /\ MaxBuilds \in Nat
      /\ Latencies \subseteq [Comparison!Variant -> Nat \ {0}] /\ Drifts \subseteq Int
  BY ReleaseAssumption DEF ReleaseAssumption, Comparison!TtftAssumption
<1>2. Len(Comparison!ORDER) = 4
      /\ \A i \in 1 .. 4 : Comparison!ORDER[i] \in Comparison!Variant
  BY DEF Comparison!ORDER, Comparison!Variant
<1>3. Comparison!Processes \in Nat \ {0} /\ Comparison!Processes = Cycles * 4
  BY <1>1, <1>2 DEF Comparison!Processes
<1>4. \A n \in Nat \ {0} : Comparison!VariantOf(n) \in Comparison!Variant
  <2> SUFFICES ASSUME NEW n \in Nat \ {0}
               PROVE  Comparison!VariantOf(n) \in Comparison!Variant
    OBVIOUS
  <2>1. ((n - 1) % 4) + 1 \in 1 .. 4
    OBVIOUS
  <2> QED
    BY <1>2, <2>1 DEF Comparison!VariantOf
<1> QED
  BY <1>1, <1>2, <1>3, <1>4

(* The machine's latencies and its drift are numbers.                       *)
LEMMA MachineNumbers ==
    ASSUME ComparisonTypes
    PROVE  /\ machine.drift \in Int
           /\ \A v \in Comparison!Variant : machine.latency[v] \in Int
           /\ Len(runs) \in Nat
           /\ \A n \in 1 .. Len(runs) : runs[n] \in RunRecord
<1>1. machine.drift \in Drifts /\ machine.latency \in Latencies
  BY DEF ComparisonTypes
<1>2. machine.drift \in Int /\ machine.latency \in [Comparison!Variant -> Nat \ {0}]
  BY <1>1, ComparisonAssumed
<1>3. Len(runs) \in Nat /\ \A n \in 1 .. Len(runs) : runs[n] \in RunRecord
  BY DEF ComparisonTypes
<1> QED
  BY <1>2, <1>3

LEMMA InitComparison == ReleaseInit => ComparisonInv
<1> SUFFICES ASSUME ReleaseInit PROVE ComparisonInv
  OBVIOUS
<1>1. /\ wheel = 1 /\ installed \in {0, 1}
      /\ machine \in [latency : Latencies, drift : Drifts]
      /\ controllerPc = "audit" /\ audited = FALSE /\ timedOut = FALSE /\ runs = <<>>
      /\ verdict = "none" /\ child = Comparison!NoChild /\ engines = {}
      /\ calm = (installed = 1)
  BY DEF ReleaseInit, Comparison!Init
<1>2. ComparisonTypes
  <2>1. child \in ChildRecord
    BY <1>1 DEF ChildRecord, Comparison!NoChild, Comparison!Live, Comparison!Gone
  <2>2. runs \in Seq(RunRecord)
    BY <1>1
  <2>3. wheel \in Nat \ {0} /\ installed \in Nat /\ installed <= wheel
    BY <1>1
  <2>4. audited \in BOOLEAN /\ timedOut \in BOOLEAN /\ calm \in BOOLEAN
        /\ engines \subseteq Nat /\ verdict \in {"none", "PASS", "FAIL"}
    BY <1>1
  <2> QED
    BY <1>1, <2>1, <2>2, <2>3, <2>4 DEF ComparisonTypes
<1>3. OneProcess /\ ChildOrdered /\ RunsOrdered /\ RunsDrift
  BY <1>1 DEF OneProcess, ChildOrdered, RunsOrdered, RunsDrift, Comparison!NoChild,
              Comparison!Gone
<1>4. RunsCounted /\ VerdictFounded
  BY <1>1, ComparisonAssumed DEF RunsCounted, VerdictFounded
<1> QED
  BY <1>2, <1>3, <1>4 DEF ComparisonInv

(* The wheel and the installed package change under the session.            *)
LEMMA BuildKeeps == ASSUME ComparisonInv, Comparison!Build PROVE ComparisonInv'
<1>1. /\ wheel' = wheel + 1 /\ calm' = FALSE
      /\ UNCHANGED <<installed, machine, controllerPc, audited, timedOut, runs, verdict,
                    child, engines>>
      /\ ComparisonTypes
  BY DEF Comparison!Build, Comparison!controller, ComparisonInv
<1>2. ComparisonTypes'
  <2>1. wheel' \in Nat \ {0} /\ installed' \in Nat /\ installed' <= wheel'
    BY <1>1 DEF ComparisonTypes
  <2> QED
    BY <1>1, <2>1 DEF ComparisonTypes
<1>3. RunsOrdered'
  <2>1. \A n \in 1 .. Len(runs) :
            runs[n].fingerprint \in Nat
    BY <1>1, MachineNumbers DEF RunRecord
  <2>2. \A f \in Nat : f <= wheel => f <= wheel'
    BY <1>1 DEF ComparisonTypes
  <2> QED
    BY <1>1, <2>1, <2>2 DEF ComparisonInv, RunsOrdered
<1>4. OneProcess' /\ ChildOrdered'
  BY <1>1 DEF ComparisonInv, OneProcess, ChildOrdered, Comparison!Current
<1>5. RunsDrift' /\ RunsCounted'
  BY <1>1 DEF ComparisonInv, RunsDrift, RunsCounted
<1>6. VerdictFounded'
  BY <1>1 DEF ComparisonInv, VerdictFounded, Comparison!AllPassed,
     Comparison!OneFingerprint, Comparison!Fingerprints
<1> QED
  BY <1>2, <1>3, <1>4, <1>5, <1>6 DEF ComparisonInv

LEMMA ReinstallKeeps == ASSUME ComparisonInv, Comparison!Reinstall PROVE ComparisonInv'
<1>1. /\ installed' = wheel /\ calm' = FALSE
      /\ UNCHANGED <<wheel, machine, controllerPc, audited, timedOut, runs, verdict,
                    child, engines>>
      /\ ComparisonTypes
  BY DEF Comparison!Reinstall, Comparison!controller, ComparisonInv
<1>2. ComparisonTypes' /\ \A e \in Nat : e <= installed => e <= installed'
  <2>1. wheel \in Nat /\ installed \in Nat /\ installed <= wheel
    BY <1>1 DEF ComparisonTypes
  <2>2. \A e \in Nat : e <= installed => e <= installed'
    BY <1>1, <2>1
  <2>3. installed' \in Nat /\ installed' <= wheel'
    BY <1>1, <2>1
  <2> QED
    BY <1>1, <2>2, <2>3 DEF ComparisonTypes
<1>3. RunsOrdered'
  <2>1. \A n \in 1 .. Len(runs) : runs[n].engine \in Nat
    BY <1>1, MachineNumbers DEF RunRecord
  <2> QED
    BY <1>1, <1>2, <2>1 DEF ComparisonInv, RunsOrdered
<1>4. ChildOrdered'
  <2>1. child.engine \in Nat /\ child.audit \in Nat
    BY <1>1 DEF ComparisonTypes, ChildRecord
  <2> QED
    BY <1>1, <1>2, <2>1 DEF ComparisonInv, ChildOrdered
<1>5. OneProcess' /\ RunsDrift' /\ RunsCounted'
  BY <1>1 DEF ComparisonInv, OneProcess, RunsDrift, RunsCounted, Comparison!Current
<1>6. VerdictFounded'
  BY <1>1 DEF ComparisonInv, VerdictFounded, Comparison!AllPassed,
     Comparison!OneFingerprint, Comparison!Fingerprints
<1> QED
  BY <1>2, <1>3, <1>4, <1>5, <1>6 DEF ComparisonInv

(* Everything else leaves them alone, and but for Check the runs.           *)
LEMMA RunsStay ==
    ASSUME ComparisonInv,
           UNCHANGED <<wheel, installed, machine, runs>>
    PROVE  RunsOrdered' /\ RunsDrift'
BY DEF ComparisonInv, RunsOrdered, RunsDrift

LEMMA VerdictStays ==
    ASSUME ComparisonInv, UNCHANGED <<runs, verdict, audited>>,
           controllerPc' = controllerPc \/ controllerPc \notin {"report", "done"}
    PROVE  VerdictFounded'
BY DEF ComparisonInv, VerdictFounded, Comparison!AllPassed,
       Comparison!OneFingerprint, Comparison!Fingerprints

(* A step of the process, which runs only while the controller waits.       *)
LEMMA ProcessStep ==
    ASSUME ComparisonInv, child.state \in Comparison!Live,
           UNCHANGED <<wheel, installed, machine, controllerPc, audited, timedOut,
                       runs, verdict>>,
           child' \in ChildRecord, engines' \subseteq {Comparison!Current},
           calm' \in BOOLEAN, ChildOrdered'
    PROVE  ComparisonInv'
<1>1. controllerPc \in {"communicate", "drain"}
  BY DEF ComparisonInv, OneProcess, Comparison!Live, Comparison!Gone
<1>2. engines' \subseteq Nat
  BY MachineNumbers DEF ComparisonInv, Comparison!Current
<1>3. ComparisonTypes'
  BY <1>2 DEF ComparisonInv, ComparisonTypes
<1>4. OneProcess' /\ RunsCounted'
  BY <1>1 DEF ComparisonInv, OneProcess, RunsCounted, Comparison!Current
<1> QED
  BY <1>3, <1>4, RunsStay, VerdictStays DEF ComparisonInv

LEMMA ChildKeeps == ASSUME ComparisonInv, Comparison!Child PROVE ComparisonInv'
<1>1. /\ child \in ChildRecord /\ installed \in Nat /\ wheel \in Nat
      /\ calm \in BOOLEAN /\ installed <= wheel /\ wheel >= 1
      /\ engines \subseteq {Comparison!Current}
  BY DEF ComparisonInv, ComparisonTypes, OneProcess
<1>2. /\ child.engine \in Nat /\ child.audit \in Nat
  BY <1>1 DEF ChildRecord
<1>3. \A n \in 1 .. Len(runs) : runs[n].engine <= installed
  BY DEF ComparisonInv, RunsOrdered
<1>4. Len(runs) \in Nat /\ (runs # <<>> => Len(runs) \in 1 .. Len(runs))
  BY DEF ComparisonInv, ComparisonTypes
<1>5. ASSUME Comparison!ChildAudits PROVE ComparisonInv'
  <2>1. /\ child.state = "starting" /\ calm' = calm /\ engines' = engines
        /\ UNCHANGED <<wheel, installed, machine, controllerPc, audited, timedOut,
                      runs, verdict>>
    BY <1>5 DEF Comparison!ChildAudits, Comparison!controller
  <2>2. \/ /\ installed = wheel
           /\ child' = [child EXCEPT !.state = "audited", !.audit = wheel]
        \/ child' = [child EXCEPT !.state = "failed"]
    BY <1>5 DEF Comparison!ChildAudits
  <2>3. child' \in ChildRecord /\ child'.engine = child.engine
    BY <1>1, <2>2 DEF ChildRecord, Comparison!Live, Comparison!Gone
  <2>4. \/ child'.state = "failed"
        \/ child'.state = "audited" /\ child'.audit = installed /\ 1 <= installed
    BY <1>1, <2>2 DEF ChildRecord
  <2>5. ChildOrdered'
    BY <1>1, <1>2, <1>3, <1>4, <2>1, <2>3, <2>4 DEF ComparisonInv, ChildOrdered
  <2> QED
    BY <1>1, <2>1, <2>3, <2>5, ProcessStep DEF Comparison!Live
<1>6. ASSUME Comparison!ChildStartsEngine PROVE ComparisonInv'
  <2>1. /\ child.state = "audited" /\ calm' = calm
        /\ engines' = engines \cup {Comparison!Current}
        /\ UNCHANGED <<wheel, installed, machine, controllerPc, audited, timedOut,
                      runs, verdict>>
        /\ child' = [child EXCEPT !.state = "running", !.engine = installed]
    BY <1>6 DEF Comparison!ChildStartsEngine, Comparison!controller
  <2>2. /\ child' \in ChildRecord /\ child'.engine = installed
        /\ child'.audit = child.audit
    BY <1>1, <2>1 DEF ChildRecord, Comparison!Live
  <2>3. ChildOrdered'
    BY <1>1, <1>2, <2>1, <2>2 DEF ComparisonInv, ChildOrdered
  <2> QED
    BY <1>1, <2>1, <2>2, <2>3, ProcessStep DEF Comparison!Live
<1>7. ASSUME Comparison!ChildMeasures PROVE ComparisonInv'
  <2>1. PICK l \in BOOLEAN :
            /\ child' = [child EXCEPT !.state = "measured", !.launched = l]
            /\ calm' = (calm /\ l = (Comparison!VariantOf(Comparison!Current) = "sparse"))
    BY <1>7 DEF Comparison!ChildMeasures
  <2>2. /\ child.state = "running" /\ engines' = engines
        /\ UNCHANGED <<wheel, installed, machine, controllerPc, audited, timedOut,
                      runs, verdict>>
    BY <1>7 DEF Comparison!ChildMeasures, Comparison!controller
  <2>3. /\ child' \in ChildRecord /\ child'.engine = child.engine
        /\ child'.audit = child.audit /\ child'.state = "measured"
    BY <1>1, <2>1 DEF ChildRecord, Comparison!Live
  <2>4. calm' \in BOOLEAN
    BY <2>1
  <2>5. ChildOrdered'
    BY <1>1, <1>2, <2>2, <2>3 DEF ComparisonInv, ChildOrdered
  <2> QED
    BY <1>1, <2>2, <2>3, <2>4, <2>5, ProcessStep DEF Comparison!Live
<1>8. ASSUME Comparison!ChildFinishes PROVE ComparisonInv'
  <2>1. /\ child.state = "measured" /\ engines' = engines /\ calm' = calm
        /\ UNCHANGED <<wheel, installed, machine, controllerPc, audited, timedOut,
                      runs, verdict>>
        /\ child' = [child EXCEPT !.state = "finished", !.wheel = wheel]
    BY <1>8 DEF Comparison!ChildFinishes, Comparison!controller
  <2>2. /\ child' \in ChildRecord /\ child'.engine = child.engine
        /\ child'.audit = child.audit
    BY <1>1, <2>1 DEF ChildRecord, Comparison!Gone
  <2>3. ChildOrdered'
    BY <1>1, <1>2, <2>1, <2>2 DEF ComparisonInv, ChildOrdered
  <2> QED
    BY <1>1, <2>1, <2>2, <2>3, ProcessStep DEF Comparison!Live
<1>9. ASSUME Comparison!ChildFails PROVE ComparisonInv'
  <2>1. /\ child.state \in Comparison!Live /\ engines' = engines /\ calm' = FALSE
        /\ UNCHANGED <<wheel, installed, machine, controllerPc, audited, timedOut,
                      runs, verdict>>
        /\ child' = [child EXCEPT !.state = "failed"]
    BY <1>9 DEF Comparison!ChildFails, Comparison!controller
  <2>2. /\ child' \in ChildRecord /\ child'.engine = child.engine
        /\ child'.state = "failed"
    BY <1>1, <2>1 DEF ChildRecord, Comparison!Gone
  <2>3. ChildOrdered'
    BY <2>1, <2>2 DEF ComparisonInv, ChildOrdered
  <2> QED
    BY <1>1, <2>1, <2>2, <2>3, ProcessStep
<1> QED
  BY <1>5, <1>6, <1>7, <1>8, <1>9 DEF Comparison!Child

LEMMA EngineExitsKeeps ==
    ASSUME ComparisonInv, Comparison!EngineExits PROVE ComparisonInv'
<1>1. /\ engines' \subseteq engines
      /\ UNCHANGED <<wheel, installed, machine, controllerPc, audited, timedOut,
                    runs, verdict, child, calm>>
  BY DEF Comparison!EngineExits, Comparison!controller
<1>2. ComparisonTypes' /\ OneProcess'
  BY <1>1 DEF ComparisonInv, ComparisonTypes, OneProcess, Comparison!Current
<1>3. ChildOrdered' /\ RunsCounted'
  BY <1>1 DEF ComparisonInv, ChildOrdered, RunsCounted
<1> QED
  BY <1>1, <1>2, <1>3, RunsStay, VerdictStays DEF ComparisonInv

(* The controller.                                                          *)
LEMMA AuditKeeps == ASSUME ComparisonInv, Comparison!Audit PROVE ComparisonInv'
<1>1. PICK samePython \in BOOLEAN :
          /\ audited' = (installed = wheel /\ samePython)
          /\ calm' = (calm /\ samePython)
  BY DEF Comparison!Audit
<1>2. /\ controllerPc = "audit" /\ controllerPc' \in {"start", "report"}
      /\ UNCHANGED <<wheel, installed, machine, child, engines, timedOut, runs, verdict>>
  BY DEF Comparison!Audit
<1>3. audited' \in BOOLEAN /\ calm' \in BOOLEAN
  BY <1>1
<1>4. ComparisonTypes'
  BY <1>2, <1>3 DEF ComparisonInv, ComparisonTypes
<1>5. OneProcess' /\ ChildOrdered'
  BY <1>2 DEF ComparisonInv, OneProcess, ChildOrdered, Comparison!Current
<1>6. RunsCounted' /\ VerdictFounded'
  BY <1>2 DEF ComparisonInv, RunsCounted, VerdictFounded
<1> QED
  BY <1>2, <1>4, <1>5, <1>6, RunsStay DEF ComparisonInv

LEMMA StartKeeps == ASSUME ComparisonInv, Comparison!Start PROVE ComparisonInv'
<1>1. /\ controllerPc = "start" /\ controllerPc' \in {"communicate", "check"}
      /\ child' \in {Comparison!NoChild, [Comparison!NoChild EXCEPT !.state = "starting"]}
      /\ controllerPc' = "check" => child' = Comparison!NoChild
      /\ timedOut' \in BOOLEAN /\ calm' \in BOOLEAN
      /\ UNCHANGED <<wheel, installed, machine, audited, engines, runs, verdict>>
  BY DEF Comparison!Start, ComparisonInv, ComparisonTypes
<1>2. /\ child' \in ChildRecord /\ child'.engine = 0
      /\ child'.state \in {"none", "starting"}
      /\ controllerPc' = "check" => child'.state = "none"
  <2>1. /\ Comparison!NoChild \in ChildRecord /\ Comparison!NoChild.engine = 0
        /\ Comparison!NoChild.state = "none"
    BY DEF Comparison!NoChild, ChildRecord, Comparison!Gone
  <2>2. CASE child' = Comparison!NoChild
    BY <2>1, <2>2
  <2>3. CASE child' = [Comparison!NoChild EXCEPT !.state = "starting"]
    BY <1>1, <2>1, <2>3 DEF ChildRecord, Comparison!Live
  <2> QED
    BY <1>1, <2>2, <2>3
<1>3. ComparisonTypes'
  BY <1>1, <1>2 DEF ComparisonInv, ComparisonTypes
<1>4. OneProcess'
  BY <1>1, <1>2 DEF ComparisonInv, OneProcess, Comparison!Current, Comparison!Gone
<1>5. ChildOrdered'
  <2>1. 0 <= installed
    BY DEF ComparisonInv, ComparisonTypes
  <2> QED
    BY <1>1, <1>2, <2>1 DEF ChildOrdered
<1>6. RunsCounted'
  BY <1>1 DEF ComparisonInv, RunsCounted
<1> QED
  BY <1>1, <1>3, <1>4, <1>5, <1>6, RunsStay, VerdictStays DEF ComparisonInv

LEMMA CommunicateKeeps ==
    ASSUME ComparisonInv, Comparison!Communicate PROVE ComparisonInv'
<1>1. /\ controllerPc \in {"communicate", "drain"} /\ controllerPc' = "check"
      /\ child.state \in Comparison!Gone /\ Comparison!Current \notin engines
      /\ UNCHANGED <<wheel, installed, machine, audited, timedOut, runs, verdict,
                    child, engines, calm>>
  BY DEF Comparison!Communicate, Comparison!EndOfOutput
<1>2. ComparisonTypes'
  BY <1>1 DEF ComparisonInv, ComparisonTypes
<1>3. OneProcess'
  BY <1>1 DEF ComparisonInv, OneProcess, Comparison!Current
<1>4. ChildOrdered' /\ RunsCounted'
  BY <1>1 DEF ComparisonInv, ChildOrdered, RunsCounted
<1> QED
  BY <1>1, <1>2, <1>3, <1>4, RunsStay, VerdictStays DEF ComparisonInv

LEMMA TimeoutKeeps == ASSUME ComparisonInv, Comparison!Timeout PROVE ComparisonInv'
<1>1. /\ controllerPc = "communicate" /\ controllerPc' = "drain"
      /\ timedOut' = TRUE /\ calm' = FALSE
      /\ child' = IF child.state \in Comparison!Live
                 THEN [child EXCEPT !.state = "killed"] ELSE child
      /\ UNCHANGED <<wheel, installed, machine, audited, runs, verdict, engines>>
      /\ child \in ChildRecord
  BY DEF Comparison!Timeout, ComparisonInv, ComparisonTypes
<1>2. /\ child' \in ChildRecord /\ child'.engine = child.engine
      /\ child' = child \/ child'.state = "killed"
  BY <1>1 DEF ChildRecord, Comparison!Gone
<1>3. ComparisonTypes'
  BY <1>1, <1>2 DEF ComparisonInv, ComparisonTypes
<1>4. OneProcess'
  BY <1>1 DEF ComparisonInv, OneProcess, Comparison!Current
<1>5. ChildOrdered' /\ RunsCounted'
  BY <1>1, <1>2 DEF ComparisonInv, ChildOrdered, RunsCounted
<1> QED
  BY <1>1, <1>3, <1>4, <1>5, RunsStay, VerdictStays DEF ComparisonInv

(* The result that passes names what its process audited, and its engine    *)
(* imported that or something built later.                                  *)
LEMMA RunKnown ==
    ASSUME ComparisonInv, controllerPc = "check"
    PROVE  /\ Comparison!Run \in RunRecord
           /\ Comparison!Run.engine <= installed
           /\ Comparison!Run.latency =
                  machine.latency[Comparison!VariantOf(Len(runs) + 1)]
                      + machine.drift * (Len(runs) + 1)
           /\ Comparison!Run.status = "PASS" =>
                  /\ Comparison!Contract
                  /\ 1 <= Comparison!Run.fingerprint
                  /\ Comparison!Run.fingerprint <= wheel
                  /\ Comparison!Run.fingerprint <= Comparison!Run.engine
                  /\ runs # <<>> => runs[Len(runs)].engine <= Comparison!Run.fingerprint
<1> DEFINE f == IF child.state = "finished" THEN child.audit ELSE 0
           l == machine.latency[Comparison!VariantOf(Comparison!Current)]
                    + machine.drift * Comparison!Current
           s == IF Comparison!Contract THEN "PASS" ELSE "FAIL"
<1>1. Comparison!Run = [status |-> s, fingerprint |-> f, engine |-> child.engine,
                        latency |-> l]
  BY DEF Comparison!Run
<1>2. /\ child \in ChildRecord /\ installed <= wheel /\ installed \in Nat
      /\ wheel \in Nat
  BY DEF ComparisonInv, ComparisonTypes
<1>3. child.engine \in Nat /\ child.audit \in Nat /\ f \in Nat
  BY <1>2 DEF ChildRecord
<1>4. l \in Int
  <2>1. Comparison!Current \in Nat \ {0}
    BY MachineNumbers DEF ComparisonInv, Comparison!Current
  <2>2. machine.latency[Comparison!VariantOf(Comparison!Current)] \in Int
    BY <2>1, ComparisonAssumed, MachineNumbers DEF ComparisonInv
  <2>3. machine.drift * Comparison!Current \in Int
    BY <2>1, MachineNumbers DEF ComparisonInv
  <2> QED
    BY <2>2, <2>3
<1>5. s \in {"PASS", "FAIL"}
  OBVIOUS
<1>6. l = machine.latency[Comparison!VariantOf(Len(runs) + 1)]
              + machine.drift * (Len(runs) + 1)
  BY DEF Comparison!Current
<1>7. s = "PASS" =>
          /\ Comparison!Contract /\ child.state = "finished" /\ f = child.audit
          /\ child.audit = wheel
  BY DEF Comparison!Contract
<1> HIDE DEF f, l, s
<1>8. /\ Comparison!Run \in RunRecord /\ Comparison!Run.engine = child.engine
      /\ Comparison!Run.latency = l /\ Comparison!Run.status = s
      /\ Comparison!Run.fingerprint = f
  BY <1>1, <1>3, <1>4, <1>5 DEF RunRecord
<1>9. ChildOrdered
  BY DEF ComparisonInv
<1> QED
  BY <1>2, <1>3, <1>6, <1>7, <1>8, <1>9 DEF ChildOrdered

LEMMA CheckKeeps == ASSUME ComparisonInv, Comparison!Check PROVE ComparisonInv'
<1>1. /\ controllerPc = "check" /\ runs' = Append(runs, Comparison!Run)
      /\ controllerPc' = IF Comparison!Contract /\ Len(runs') < Comparison!Processes
                         THEN "start" ELSE "report"
      /\ child' = Comparison!NoChild /\ timedOut' = FALSE
      /\ UNCHANGED <<wheel, installed, machine, audited, verdict, engines, calm>>
  BY DEF Comparison!Check
<1>2. /\ runs \in Seq(RunRecord) /\ Len(runs) \in Nat /\ Comparison!Run \in RunRecord
      /\ installed \in Nat /\ wheel \in Nat
  BY <1>1, RunKnown DEF ComparisonInv, ComparisonTypes
<1>3. /\ runs' \in Seq(RunRecord) /\ Len(runs') = Len(runs) + 1
      /\ runs'[Len(runs) + 1] = Comparison!Run
      /\ \A n \in 1 .. Len(runs) : runs'[n] = runs[n]
  BY <1>1, <1>2
<1>4. child' \in ChildRecord /\ child'.engine = 0 /\ child'.state = "none"
  BY <1>1 DEF Comparison!NoChild, ChildRecord, Comparison!Gone
<1>5. ComparisonTypes'
  BY <1>1, <1>3, <1>4 DEF ComparisonInv, ComparisonTypes
<1>6. OneProcess'
  BY <1>1, <1>4 DEF ComparisonInv, OneProcess, Comparison!Gone
<1>7. ChildOrdered'
  BY <1>1, <1>2, <1>4 DEF ChildOrdered
<1>8. RunsOrdered'
  <2> SUFFICES ASSUME NEW n \in 1 .. Len(runs')
               PROVE  /\ runs'[n].engine <= installed
                      /\ runs'[n].status = "PASS" =>
                             /\ 1 <= runs'[n].fingerprint
                             /\ runs'[n].fingerprint <= wheel
                             /\ runs'[n].fingerprint <= runs'[n].engine
                             /\ n > 1 => runs'[n - 1].engine <= runs'[n].fingerprint
    BY <1>1 DEF RunsOrdered
  <2>1. CASE n = Len(runs) + 1
    <3>1. n > 1 => runs # <<>> /\ Len(runs) \in 1 .. Len(runs) /\ n - 1 = Len(runs)
      BY <1>2, <2>1
    <3>2. n > 1 => runs'[n - 1] = runs[Len(runs)]
      BY <1>3, <3>1
    <3> QED
      BY <1>1, <1>3, <2>1, <3>1, <3>2, RunKnown
  <2>2. CASE n \in 1 .. Len(runs)
    <3>1. n > 1 => n - 1 \in 1 .. Len(runs)
      BY <1>2, <2>2
    <3> QED
      BY <1>3, <2>2, <3>1 DEF ComparisonInv, RunsOrdered
  <2> QED
    BY <1>2, <1>3, <2>1, <2>2
<1>9. RunsDrift'
  <2> SUFFICES ASSUME NEW n \in 1 .. Len(runs')
               PROVE  runs'[n].latency = machine.latency[Comparison!VariantOf(n)]
                                             + machine.drift * n
    BY <1>1 DEF RunsDrift
  <2>1. CASE n = Len(runs) + 1
    BY <1>1, <1>3, <2>1, RunKnown
  <2>2. CASE n \in 1 .. Len(runs)
    BY <1>3, <2>2 DEF ComparisonInv, RunsDrift
  <2> QED
    BY <1>2, <1>3, <2>1, <2>2
<1>10. RunsCounted'
  BY <1>1, <1>2, <1>3, ComparisonAssumed DEF ComparisonInv, RunsCounted
<1>11. VerdictFounded'
  BY <1>1 DEF ComparisonInv, VerdictFounded
<1> QED
  BY <1>5, <1>6, <1>7, <1>8, <1>9, <1>10, <1>11 DEF ComparisonInv

LEMMA ReportKeeps == ASSUME ComparisonInv, Comparison!Report PROVE ComparisonInv'
<1>1. /\ controllerPc = "report" /\ controllerPc' = "done"
      /\ verdict' \in {"PASS", "FAIL"}
      /\ verdict' = "PASS" => Comparison!AllPassed /\ Comparison!OneFingerprint
      /\ UNCHANGED <<wheel, installed, machine, audited, timedOut, runs, child, engines,
                    calm>>
  BY DEF Comparison!Report
<1>2. ComparisonTypes'
  BY <1>1 DEF ComparisonInv, ComparisonTypes
<1>3. OneProcess' /\ ChildOrdered' /\ RunsCounted'
  BY <1>1 DEF ComparisonInv, OneProcess, ChildOrdered, RunsCounted, Comparison!Current
<1>4. VerdictFounded'
  BY <1>1 DEF ComparisonInv, VerdictFounded, Comparison!AllPassed,
     Comparison!OneFingerprint, Comparison!Fingerprints
<1> QED
  BY <1>1, <1>2, <1>3, <1>4, RunsStay DEF ComparisonInv

LEMMA ComparisonStep == ComparisonInv /\ [ReleaseNext]_releaseVars => ComparisonInv'
<1> SUFFICES ASSUME ComparisonInv, [ReleaseNext]_releaseVars PROVE ComparisonInv'
  OBVIOUS
<1>1. CASE Comparison!Next
  BY <1>1, BuildKeeps, ReinstallKeeps, EngineExitsKeeps, ChildKeeps, AuditKeeps,
     StartKeeps, CommunicateKeeps, TimeoutKeeps, CheckKeeps, ReportKeeps
     DEF Comparison!Next, Comparison!Controller
<1>2. CASE UNCHANGED comparison
  <2>1. UNCHANGED <<controllerPc, wheel, installed, machine, audited, child, engines,
                    timedOut, runs, verdict, calm>>
    BY <1>2 DEF comparison
  <2>2. ComparisonTypes' /\ OneProcess' /\ ChildOrdered' /\ RunsCounted'
    BY <2>1 DEF ComparisonInv, ComparisonTypes, OneProcess, ChildOrdered, RunsCounted,
                Comparison!Current
  <2> QED
    BY <2>1, <2>2, RunsStay, VerdictStays DEF ComparisonInv
<1> QED
  BY <1>1, <1>2 DEF ReleaseNext, Pipelines, Worker, Controller, releaseVars, comparison

LEMMA ComparisonCardinality == \A S : Comparison!Cardinality(S) = Cardinality(S)
BY DEF Comparison!Cardinality, Cardinality

(* The fingerprints are the contents audited; of two runs in a row, what    *)
(* the first one's engine imported lies between what the two audited.       *)
LEMMA OneWheel == ASSUME ComparisonInv PROVE Comparison!OneWheelMeasured
<1> SUFFICES ASSUME verdict = "PASS"
             PROVE  \E w \in 1 .. wheel :
                        /\ \A n \in DOMAIN runs : runs[n].fingerprint = w
                        /\ \A n \in DOMAIN runs \ {Comparison!Processes} :
                               runs[n].engine = w
  BY DEF Comparison!OneWheelMeasured
<1> DEFINE F == Comparison!Fingerprints
<1>1. /\ Len(runs) = Comparison!Processes /\ Comparison!Processes \in Nat \ {0}
      /\ DOMAIN runs = 1 .. Len(runs) /\ wheel \in Nat
      /\ \A n \in 1 .. Len(runs) : runs[n] \in RunRecord /\ runs[n].status = "PASS"
  BY ComparisonAssumed, MachineNumbers
     DEF ComparisonInv, ComparisonTypes, VerdictFounded, Comparison!AllPassed
<1>2. \A n \in 1 .. Len(runs) :
          /\ runs[n].fingerprint \in Nat /\ runs[n].engine \in Nat
          /\ 1 <= runs[n].fingerprint /\ runs[n].fingerprint <= wheel
          /\ runs[n].fingerprint <= runs[n].engine
          /\ n > 1 => runs[n - 1].engine <= runs[n].fingerprint
  BY <1>1 DEF ComparisonInv, RunsOrdered, RunRecord
<1>3. F = {runs[n].fingerprint : n \in 1 .. Len(runs)} \ {0} /\ F \subseteq 1 .. wheel
  BY <1>1, <1>2 DEF Comparison!Fingerprints
<1>4. Cardinality(F) = 1
  BY ComparisonCardinality
     DEF ComparisonInv, VerdictFounded, Comparison!OneFingerprint
<1>5. IsFiniteSet(F)
  <2>1. IsFiniteSet(1 .. wheel)
    BY <1>1, FS_Interval
  <2> QED
    BY <1>3, <2>1, FS_Subset
<1>6. PICK w : F = {w}
  BY <1>4, <1>5, FS_Singleton
<1>7. w \in 1 .. wheel /\ \A n \in 1 .. Len(runs) : runs[n].fingerprint = w
  <2>1. \A n \in 1 .. Len(runs) : runs[n].fingerprint \in F
    BY <1>2, <1>3
  <2> QED
    BY <1>3, <1>6, <2>1
<1>8. \A n \in 1 .. Len(runs) \ {Comparison!Processes} : runs[n].engine = w
  <2> SUFFICES ASSUME NEW n \in 1 .. Len(runs), n # Comparison!Processes
               PROVE  runs[n].engine = w
    OBVIOUS
  <2>1. n + 1 \in 1 .. Len(runs) /\ n + 1 > 1 /\ (n + 1) - 1 = n
    BY <1>1
  <2>2. runs[n].engine <= runs[n + 1].fingerprint
    BY <1>2, <2>1
  <2>3. runs[n].fingerprint <= runs[n].engine /\ runs[n].engine \in Nat
    BY <1>2
  <2> QED
    BY <1>1, <1>7, <2>1, <2>2, <2>3
<1> QED
  BY <1>1, <1>7, <1>8

(* The four places of a cycle are ORDER's, wherever the cycle begins.       *)
LEMMA PlaceInCycle ==
    ASSUME NEW c \in Nat \ {0}, NEW i \in 1 .. 4
    PROVE  Comparison!VariantOf(4 * (c - 1) + i) = Comparison!ORDER[i]
<1>1. ((4 * (c - 1) + i) - 1) % 4 = i - 1
  OBVIOUS
<1> QED
  BY <1>1, ComparisonAssumed DEF Comparison!VariantOf

(* A drift common to a cycle adds the same to both of its pairs.            *)
LEMMA DriftCancelled ==
    ASSUME NEW x \in Int, NEW y \in Int, NEW d \in Int, NEW b \in Int
    PROVE  (x + d * (b + 1)) + (x + d * (b + 4)) - (y + d * (b + 2)) - (y + d * (b + 3))
               = 2 * (x - y)
<1>1. /\ d * (b + 1) = d * b + d /\ d * (b + 2) = d * b + 2 * d
      /\ d * (b + 3) = d * b + 3 * d /\ d * (b + 4) = d * b + 4 * d
  OBVIOUS
<1>2. d * b \in Int
  OBVIOUS
<1> QED
  BY <1>1, <1>2

LEMMA DriftGone == ASSUME ComparisonInv PROVE Comparison!DriftCancels
<1> SUFFICES ASSUME Len(runs) = Comparison!Processes, NEW c \in 1 .. Cycles
             PROVE  Comparison!CycleGain(c) =
                        2 * (machine.latency["dense"] - machine.latency["sparse"])
  BY DEF Comparison!DriftCancels, Comparison!SummaryAvailable
<1> DEFINE b == 4 * (c - 1)
           x == machine.latency["dense"]
           y == machine.latency["sparse"]
           d == machine.drift
<1>1. /\ Cycles \in Nat \ {0} /\ c \in Nat \ {0} /\ b \in Nat /\ b + 4 <= Len(runs)
      /\ x \in Int /\ y \in Int /\ d \in Int
  <2>1. Cycles \in Nat \ {0} /\ c \in Nat \ {0} /\ c <= Cycles /\ Len(runs) = Cycles * 4
    BY ComparisonAssumed
  <2>2. x \in Int /\ y \in Int /\ d \in Int
    BY MachineNumbers DEF ComparisonInv, Comparison!Variant
  <2> QED
    BY <2>1, <2>2
<1> HIDE DEF b, x, y, d
<1>2. \A i \in 1 .. 4 : b + i \in 1 .. Len(runs)
  BY <1>1
<1>3. \A i \in 1 .. 4 :
          runs[b + i].latency = machine.latency[Comparison!ORDER[i]] + d * (b + i)
  BY <1>1, <1>2, PlaceInCycle DEF ComparisonInv, RunsDrift, b, d
<1>4. /\ runs[b + 1].latency = x + d * (b + 1) /\ runs[b + 4].latency = x + d * (b + 4)
      /\ runs[b + 2].latency = y + d * (b + 2) /\ runs[b + 3].latency = y + d * (b + 3)
  BY <1>3 DEF x, y, Comparison!ORDER
<1>5. Comparison!CycleGain(c) =
          runs[b + 1].latency + runs[b + 4].latency - runs[b + 2].latency
              - runs[b + 3].latency
  BY DEF Comparison!CycleGain, b
<1>6. (x + d * (b + 1)) + (x + d * (b + 4)) - (y + d * (b + 2)) - (y + d * (b + 3))
          = 2 * (x - y)
  BY <1>1, DriftCancelled
<1>7. Comparison!CycleGain(c) = 2 * (x - y)
  BY <1>4, <1>5, <1>6
<1> QED
  BY <1>7 DEF x, y

(* The TTFT comparison, for every number of cycles, every target and every   *)
(* machine: a comparison that passes measured one wheel, no process was      *)
(* measured beside the engine of another, and a steady drift of the machine  *)
(* is in no cycle's gain.                                                    *)
THEOREM ComparisonsSound == ReleaseSpec => []ComparisonSound
<1>1. ComparisonInv => ComparisonSound
  <2> SUFFICES ASSUME ComparisonInv PROVE ComparisonSound
    OBVIOUS
  <2>1. Comparison!MeasuredAlone
    <3>1. engines \subseteq {Comparison!Current}
      BY DEF ComparisonInv, OneProcess
    <3>2. IsFiniteSet({Comparison!Current}) /\ Cardinality({Comparison!Current}) = 1
      BY FS_Singleton
    <3>3. Cardinality(engines) <= 1
      BY <3>1, <3>2, FS_Subset
    <3> QED
      BY <3>3, ComparisonCardinality DEF Comparison!MeasuredAlone
  <2> QED
    BY <2>1, OneWheel, DriftGone DEF ComparisonSound
<1> QED
  BY <1>1, InitComparison, ComparisonStep, PTL DEF ReleaseSpec
=============================================================================
