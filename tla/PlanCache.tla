------------------------------- MODULE PlanCache -------------------------------
(***************************************************************************)
(* How the plugin carries one routing plan from the scheduler step that    *)
(* builds the attention metadata to the attention layers that use it.      *)
(* The wrapper of the model runner reads the prompt length of the step and *)
(* attaches it with a fresh step token; the patched metadata builder gives *)
(* the metadata a fresh generation, plans, and stores the plan on the      *)
(* object or in a bounded side store keyed by the object's address; every  *)
(* layer takes the stored plan when its fingerprint still holds, plans     *)
(* again when it does not, and launches when the plan is direct.           *)
(*                                                                         *)
(* Metadata objects live at addresses, which are reused once an object is  *)
(* gone.  Objects, generations, step tokens and plans are numbered from 1; *)
(* 0 stands for none.  A core is everything of a step the fingerprint      *)
(* reads except the final prompt lengths.                                  *)
(***************************************************************************)
EXTENDS Integers, Sequences, FiniteSets

CONSTANTS
    Addr,          \* the addresses, id(metadata)
    Core,          \* (state, query ends, seq lens, decodes, prefills)
    Prompt,        \* final prompt lengths
    NoPrompt,      \* no prompt lengths known
    Eligible,      \* the (core, prompt) pairs whose plan is direct
    Capacity,      \* of each side store, 2048 in the plugin
    MaxSteps,      \* bound on scheduler steps
    MaxLayers      \* bound on the layers dispatched in a step

ASSUME PlanCacheAssumption ==
    /\ NoPrompt \notin Prompt
    /\ Eligible \subseteq Core \X Prompt
    /\ Capacity \in Nat \ {0}
    /\ IsFiniteSet(Addr)
    /\ MaxSteps \in Nat /\ MaxLayers \in Nat

VARIABLES
    kind,          \* of the metadata class: which attributes it accepts
    patched,       \* the model runner is patched
    heap,          \* address -> metadata object
    items,         \* _MetadataPlanStore._items, oldest first
    graphItems,    \* _MetadataPlanStore._graph_items, oldest first
    pc,            \* "idle", "build", "attach", "layers" or "raised"
    step,          \* the scheduler step in progress
    todo,          \* its metadata objects still to be built
    next,          \* the counters: object, generation, step token, plan
    layers,        \* layers dispatched in the step
    used,          \* what the last layer of the step did
    recorded       \* address -> plans recorded by its layers in the step

vars == << kind, patched, heap, items, graphItems, pc, step, todo,
           next, layers, used, recorded >>

(* "open" objects take new attributes, "slotted" ones refuse them, and     *)
(* "frozen" ones refuse weak references too.                               *)
Kinds == {"open", "slotted", "frozen"}

NoEntry == [plan |-> 0]
NoUse == [leaf |-> "none"]

NoStep(number) ==
    [number |-> number, core |-> "none", prompt |-> NoPrompt,
     common |-> NoPrompt, candidate |-> NoPrompt, graph |-> FALSE,
     leaves |-> {}, failed |-> FALSE]

(* A dead address.  born and built are not read by the plugin: the step    *)
(* that created the object, the content its last build saw, and whether    *)
(* it really was built for graph capture.                                  *)
Nothing ==
    [ident |-> 0, core |-> "none", official |-> NoPrompt, gen |-> 0,
     entry |-> NoEntry, runner |-> NoPrompt, runnerStep |-> 0,
     graph |-> FALSE, born |-> 0, built |-> << "none", NoPrompt >>,
     forGraph |-> FALSE]

-----------------------------------------------------------------------------
(* Prompt resolution, fingerprints and plans.                              *)

(* The first source that knows the prompt lengths.                         *)
PromptLens(object, common) ==
    IF object.official # NoPrompt
    THEN [values |-> object.official, source |-> "metadata", step |-> 0]
    ELSE IF object.runner # NoPrompt /\ object.runnerStep > 0
    THEN [values |-> object.runner, source |-> "runner",
          step |-> object.runnerStep]
    ELSE IF common # NoPrompt
    THEN [values |-> common, source |-> "common", step |-> 0]
    ELSE [values |-> NoPrompt, source |-> "missing", step |-> 0]

Missing == [values |-> NoPrompt, source |-> "missing", step |-> 0]

Fingerprint(object, values, gen, promptStep) ==
    [gen |-> gen, step |-> promptStep, core |-> object.core, values |-> values]

EntryOf(object, prompt, gen, planId) ==
    [plan |-> planId, core |-> object.core, source |-> prompt.source,
     fingerprint |-> Fingerprint(object, prompt.values, gen, prompt.step)]

(* Prompt lengths of the common metadata are dropped when the object could *)
(* not take its generation.                                                *)
BuildPlanEntry(object, common, gen, planId) ==
    LET prompt == PromptLens(object, common)
    IN  EntryOf(object,
                IF prompt.source = "common" /\ gen = 0 THEN Missing ELSE prompt,
                gen, planId)

(* The plan of an entry whose planning raised.                             *)
MissingPlanEntry(object, gen, planId) == EntryOf(object, Missing, gen, planId)

PlanPrompt(entry) == entry.fingerprint.values

(* A batch planned without prompt lengths is never direct.                 *)
Direct(entry) == << entry.core, PlanPrompt(entry) >> \in Eligible

-----------------------------------------------------------------------------
(* The side stores, OrderedDicts as sequences of entries, newest last.     *)

Held(store, a) == \E i \in 1 .. Len(store) : store[i].addr = a

Place(store, a) == CHOOSE i \in 1 .. Len(store) : store[i].addr = a

ItemAt(store, a) == store[Place(store, a)]

Without(store, a) ==
    IF Held(store, a)
    THEN SubSeq(store, 1, Place(store, a) - 1)
             \o SubSeq(store, Place(store, a) + 1, Len(store))
    ELSE store

(* A slip of the lookup: any item at the address is taken.                 *)
MatchesAddress(store, a) == Held(store, a)

(* The object at a is the one the item was stored for.                     *)
Matches(store, a) == Held(store, a) /\ ItemAt(store, a).ident = heap[a].ident

StorePut(store, item) ==
    LET longer == Append(Without(store, item.addr), item)
        excess == Len(longer) - Capacity
    IN  IF excess > 0 THEN SubSeq(longer, excess + 1, Len(longer)) ELSE longer

(* A lookup moves a matching item to the end and drops one of an object    *)
(* that is gone.                                                           *)
StoreTouch(store, a) ==
    IF Matches(store, a) THEN Append(Without(store, a), ItemAt(store, a))
    ELSE Without(store, a)

(* _METADATA_PLANS.get: the attributes first, then the store.              *)
Cached(a) ==
    IF heap[a].entry # NoEntry THEN heap[a].entry
    ELSE IF Matches(items, a) THEN ItemAt(items, a).entry
    ELSE NoEntry

ItemsAfterGet(a) ==
    IF heap[a].entry # NoEntry THEN items ELSE StoreTouch(items, a)

IsGraph(a) == Matches(graphItems, a)

(* A store that holds an object strongly keeps it, and its address, alive. *)
Pinned(a) ==
    kind = "frozen" /\ (Matches(items, a) \/ Matches(graphItems, a))

-----------------------------------------------------------------------------
Init ==
    /\ kind \in Kinds
    /\ patched \in BOOLEAN
    /\ heap = [a \in Addr |-> Nothing]
    /\ items = << >> /\ graphItems = << >>
    /\ pc = "idle"
    /\ step = NoStep(0)
    /\ todo = {}
    /\ next = [ident |-> 1, gen |-> 1, step |-> 1, plan |-> 1]
    /\ layers = 0
    /\ used = NoUse
    /\ recorded = [a \in Addr |-> {}]

(* The first backend instance patches the runner between two steps.        *)
PatchRunner ==
    /\ pc = "idle" /\ ~patched
    /\ patched' = TRUE
    /\ UNCHANGED << kind, heap, items, graphItems, pc, step, todo,
                    next, layers, used, recorded >>

(* A scheduler step reaches the runner.  The wrapper reads the candidate   *)
(* prompt before the original; a padded, speculative or graph capture step *)
(* has none.  The original then builds each metadata object.               *)
StartStep(core, prompt, common, candidate, graph, leaves) ==
    /\ pc = "idle" /\ step.number < MaxSteps
    /\ candidate # NoPrompt => patched /\ ~graph
    /\ step' = [number |-> step.number + 1, core |-> core, prompt |-> prompt,
                common |-> common, candidate |-> candidate, graph |-> graph,
                leaves |-> leaves, failed |-> FALSE]
    /\ todo' = leaves
    /\ pc' = "build"
    /\ UNCHANGED << kind, patched, heap, items, graphItems, next, layers,
                    used, recorded >>

(* An object given new content without the builder: the lists are assigned *)
(* in place.  With the core it was built with it still stands for the same *)
(* request.                                                                *)
Refill(a, core, prompt, official, candidate) ==
    /\ pc = "idle" /\ step.number < MaxSteps
    /\ heap[a].ident # 0
    /\ candidate # NoPrompt => patched
    /\ core = heap[a].built[1] => prompt = heap[a].built[2]
    /\ heap' = [heap EXCEPT ![a].core = core, ![a].official = official]
    /\ step' = [number |-> step.number + 1, core |-> core, prompt |-> prompt,
                common |-> NoPrompt, candidate |-> candidate, graph |-> FALSE,
                leaves |-> {a}, failed |-> FALSE]
    /\ pc' = IF patched THEN "attach" ELSE "layers"
    /\ UNCHANGED << kind, patched, items, graphItems, todo, next, layers,
                    used, recorded >>

(* What original_build returns at a: a new object, once the old one there  *)
(* is gone, or the same object with new content.                           *)
NewObject(official) ==
    [Nothing EXCEPT !.ident = next.ident, !.core = step.core,
                    !.official = official, !.born = step.number]

SameObject(a, official) ==
    [heap[a] EXCEPT !.core = step.core, !.official = official]

(* build, or build_for_graph_capture around it: a new generation, the      *)
(* plan, its entry on the object or in the store, and the graph mark.      *)
Build(a, object, raises) ==
    LET gen == IF kind = "open" THEN next.gen ELSE 0
        entry == IF raises THEN MissingPlanEntry(object, gen, next.plan)
                 ELSE BuildPlanEntry(object, step.common, gen, next.plan)
        built == [object EXCEPT
                     !.gen = gen,
                     !.built = << step.core, step.prompt >>,
                     !.entry = IF kind = "open" THEN entry ELSE NoEntry,
                     !.graph = @ \/ (step.graph /\ kind = "open"),
                     !.forGraph = @ \/ step.graph]
    IN  /\ pc = "build" /\ a \in todo
        /\ heap' = [heap EXCEPT ![a] = built]
        /\ items' = IF kind = "open" THEN items
                    ELSE StorePut(items, [addr |-> a, ident |-> object.ident,
                                          entry |-> entry])
        /\ graphItems' = IF step.graph
                         THEN StorePut(graphItems,
                                       [addr |-> a, ident |-> object.ident])
                         ELSE graphItems
        /\ next' = [next EXCEPT !.ident = @ + 1, !.gen = @ + 1, !.plan = @ + 1]
        /\ step' = [step EXCEPT !.failed = @ \/ raises]
        /\ todo' = todo \ {a}
        /\ pc' = IF todo' # {} THEN "build"
                 ELSE IF patched THEN "attach" ELSE "layers"
        /\ UNCHANGED << kind, patched, layers, used, recorded >>

BuildNew(a, official, raises) ==
    /\ ~Pinned(a)
    /\ Build(a, NewObject(official), raises)

BuildSame(a, official, raises) ==
    /\ heap[a].ident # 0
    /\ Build(a, SameObject(a, official), raises)

(* A slip of the wrapper: it clears only what it replaces.                 *)
AttachWithoutClear ==
    /\ pc = "attach"
    /\ heap' = [a \in Addr |->
                   IF \/ a \notin step.leaves \/ kind # "open"
                      \/ step.candidate = NoPrompt
                   THEN heap[a]
                   ELSE [heap[a] EXCEPT !.runner = step.candidate,
                                        !.runnerStep = next.step]]
    /\ next' = [next EXCEPT !.step = @ + 1]
    /\ pc' = "layers"
    /\ UNCHANGED << kind, patched, items, graphItems, step, todo, layers,
                    used, recorded >>

(* The wrapper after the original: a new step token; every metadata object *)
(* of the step loses the prompt of an earlier one, and takes the candidate *)
(* if there is one.                                                        *)
AttachRunnerPrompt ==
    /\ pc = "attach"
    /\ heap' = [a \in Addr |->
                   IF a \notin step.leaves \/ kind # "open" THEN heap[a]
                   ELSE [heap[a] EXCEPT
                            !.runner = step.candidate,
                            !.runnerStep = IF step.candidate = NoPrompt
                                           THEN 0 ELSE next.step]]
    /\ next' = [next EXCEPT !.step = @ + 1]
    /\ pc' = "layers"
    /\ UNCHANGED << kind, patched, items, graphItems, step, todo,
                    layers, used, recorded >>

(* Slips of the reuse rule: a plan without prompt lengths is kept whatever *)
(* is known now; such a plan is never kept.                                *)
ReusableMissingFirst(a, entry) ==
    entry.fingerprint =
        Fingerprint(heap[a], PlanPrompt(entry), heap[a].gen,
                    entry.fingerprint.step)

ReusableNeverMissing(a, entry) ==
    /\ ReusableMissingFirst(a, entry)
    /\ \/ PromptLens(heap[a], NoPrompt).values # NoPrompt
       \/ entry.source = "common" /\ heap[a].gen # 0

(* Whether a layer may use the cached entry as it is.                      *)
Reusable(a, entry) ==
    LET object == heap[a]
        current == PromptLens(object, NoPrompt)
    IN  IF current.values # NoPrompt
        THEN entry.fingerprint =
                 Fingerprint(object, current.values, object.gen, current.step)
        ELSE /\ entry.fingerprint =
                    Fingerprint(object, PlanPrompt(entry), object.gen,
                                entry.fingerprint.step)
             /\ \/ entry.source = "common" /\ object.gen # 0
                \/ entry.source = "missing"

(* The plan a layer takes, and whether it planned again.                   *)
Reuses(a) ==
    LET cached == Cached(a)
    IN  cached # NoEntry /\ (IsGraph(a) \/ Reusable(a, cached))

LayerEntry(a, raises) ==
    IF Reuses(a) THEN Cached(a)
    ELSE IF raises THEN MissingPlanEntry(heap[a], heap[a].gen, next.plan)
    ELSE BuildPlanEntry(heap[a], NoPrompt, heap[a].gen, next.plan)

Capturing(a) == heap[a].graph \/ IsGraph(a) \/ step.graph

(* A selected layer: it launches when its plan is direct and nothing is    *)
(* captured.  The gates on the model, the tensors and the native runtime,  *)
(* which can only keep it from launching, are left out.  A captured layer  *)
(* records no plan.                                                        *)
Layer(a, raises) ==
    LET entry == LayerEntry(a, raises)
        afterGet == ItemsAfterGet(a)
    IN  /\ pc = "layers" /\ layers < MaxLayers
        /\ a \in step.leaves
        /\ raises => ~Reuses(a)
        /\ graphItems' = IF Cached(a) # NoEntry \/ ~heap[a].graph
                         THEN StoreTouch(graphItems, a) ELSE graphItems
        /\ items' = IF Reuses(a) \/ kind = "open" THEN afterGet
                    ELSE StorePut(afterGet,
                                  [addr |-> a, ident |-> heap[a].ident,
                                   entry |-> entry])
        /\ heap' = IF kind = "open"
                   THEN [heap EXCEPT ![a].entry = entry] ELSE heap
        /\ next' = IF Reuses(a) THEN next ELSE [next EXCEPT !.plan = @ + 1]
        /\ step' = [step EXCEPT !.failed = @ \/ raises]
        /\ used' = [leaf |-> a, entry |-> entry, capturing |-> Capturing(a),
                    launched |-> Direct(entry) /\ ~Capturing(a)]
        /\ recorded' = IF Capturing(a) THEN recorded
                       ELSE [recorded EXCEPT ![a] = @ \cup {entry.plan}]
        /\ layers' = layers + 1
        /\ UNCHANGED << kind, patched, pc, todo >>

EndStep ==
    /\ pc = "layers"
    /\ pc' = "idle"
    /\ step' = NoStep(step.number)
    /\ layers' = 0 /\ used' = NoUse
    /\ recorded' = [a \in Addr |-> {}]
    /\ UNCHANGED << kind, patched, heap, items, graphItems, todo, next >>

(* Planning raises and config.strict is set: the exception leaves the      *)
(* plugin and the worker stops.                                            *)
Raise ==
    /\ \/ pc = "build"
       \/ pc = "layers" /\ \E a \in step.leaves : ~Reuses(a)
    /\ pc' = "raised"
    /\ UNCHANGED << kind, patched, heap, items, graphItems, step, todo, next,
                    layers, used, recorded >>

Next ==
    \/ PatchRunner
    \/ \E core \in Core, prompt \in Prompt, graph \in BOOLEAN,
          leaves \in SUBSET Addr \ {{}} :
          \E common, candidate \in {NoPrompt, prompt} :
              StartStep(core, prompt, common, candidate, graph, leaves)
    \/ \E a \in Addr, core \in Core, prompt \in Prompt :
          \E official, candidate \in {NoPrompt, prompt} :
              Refill(a, core, prompt, official, candidate)
    \/ \E a \in Addr, official \in {NoPrompt, step.prompt}, raises \in BOOLEAN :
          BuildNew(a, official, raises) \/ BuildSame(a, official, raises)
    \/ AttachRunnerPrompt
    \/ \E a \in Addr, raises \in BOOLEAN : Layer(a, raises)
    \/ EndStep
    \/ Raise

Spec == Init /\ [][Next]_vars

-----------------------------------------------------------------------------
(* A launch uses the lengths and the final prompt length of the scheduler  *)
(* step it belongs to: neither a reused metadata object, nor an object at  *)
(* the address of a dead one, nor a prompt left by an earlier step or by   *)
(* the common metadata of one, makes a layer run with a stale plan.        *)
LaunchFresh ==
    used # NoUse /\ used.launched =>
        << used.entry.core, PlanPrompt(used.entry) >> =
            << step.core, step.prompt >>

(* The sources of the prompt length that reach an object of the step.      *)
PromptKnown(a) ==
    \/ heap[a].official # NoPrompt
    \/ kind = "open" /\ step.candidate # NoPrompt
    \/ kind = "open" /\ step.common # NoPrompt /\ heap[a].born = step.number

(* Failing closed is not the rule: a layer outside graph capture whose     *)
(* step told the plugin the final prompt length plans with that length.    *)
KnownPromptUsed ==
    used # NoUse /\ ~used.capturing /\ ~step.failed /\ PromptKnown(used.leaf) =>
        PlanPrompt(used.entry) = step.prompt

(* All layers of a step that read the same metadata object use one plan,   *)
(* so the request is counted once: as long as the side store has room for  *)
(* the objects of a step and planning does not raise.                      *)
OnePlanPerStep ==
    ~step.failed /\ (kind = "open" \/ Cardinality(step.leaves) <= Capacity) =>
        \A a \in Addr : Cardinality(recorded[a]) <= 1

(* A layer is kept off the operator as captured only when its step is a    *)
(* capture or its object was built for one: the graph mark of a dead       *)
(* object does not stick to the next object at its address.                *)
CaptureIsReal ==
    used # NoUse /\ used.capturing =>
        step.graph \/ heap[used.leaf].forGraph
=============================================================================
