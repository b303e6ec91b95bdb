----------------------------- MODULE MixPipeline -----------------------------
(***************************************************************************)
(* The cores of one AI core executing the program of a launch.  A core     *)
(* issues its program in order; each instruction joins the queue of its    *)
(* pipe; a pipe executes its queue in order, concurrently with the other   *)
(* pipes.  What orders instructions of different pipes are the events      *)
(* inside a core, the cross-core flags, and the scalar unit, which waits   *)
(* for a cross-core flag before it issues anything further.                *)
(*                                                                         *)
(* The semantics of pipes and flags belongs to the hardware and is taken   *)
(* from how the kernel uses it.                                            *)
(***************************************************************************)
EXTENDS MixProgram, MixOrder

CONSTANTS
    Queue,          \* the instructions of each pipe
    EventDepths,    \* how many sets of one event may be pending
    FlagDepth,      \* how often a cross-core flag may be pending
    Empty           \* the tag of a buffer nothing was written to

ASSUME QueueAssumption == Queue = LaunchQueue
ASSUME DepthAssumption == EventDepths \subseteq Nat \ {0} /\ FlagDepth \in Nat \ {0}

VARIABLES
    eventDepth,     \* of this hardware
    done,           \* instructions executed, per pipe
    pending,        \* the bag of the sets no wait has taken
    content,        \* the tag of every buffer
    progress        \* history: how often each core has passed each mark

vars == <<eventDepth, done, pending, content, progress>>

Cores == {Cube} \cup Vectors
Tokens == TokensOf(Queue)
Buffers == UNION {DOMAIN Reads(Queue, x) \cup DOMAIN Writes(Queue, x) : x \in Places(Queue)}

MarksOf(core) ==
    {At(Queue, x).op.mark : x \in {y \in Places(Queue) : y[1][1] = core}} \ {"none"}

Pending(token) == IF BagIn(token, pending) THEN pending[token] ELSE 0
Depth(token) ==
    IF token[2] \in {"qkReady", "softmaxReady", "pvReady"} THEN FlagDepth ELSE eventDepth

Finished(p) == done[p] = Len(Queue[p])
Current(p) == Queue[p][done[p] + 1]

(* The instruction a pipe is executing, or may start to execute.           *)
Active(p) ==
    /\ ~Finished(p)
    /\ Current(p).after <= done[<<p[1], "S">>]
    /\ \A e \in Current(p).op.waits : BagIn(e, pending)

CanFinish(p) == Active(p) /\ \A e \in Current(p).op.sets : Pending(e) < Depth(e)

Execute(p) ==
    LET op == Current(p).op
    IN /\ CanFinish(p)
       /\ done' = [done EXCEPT ![p] = @ + 1]
       /\ pending' = (pending (-) SetToBag(op.waits)) (+) SetToBag(op.sets)
       /\ content' = [b \in Buffers |->
              IF b \in DOMAIN op.writes THEN op.writes[b] ELSE content[b]]
       /\ progress' = IF op.mark = "none" THEN progress
                       ELSE [progress EXCEPT ![p[1]][op.mark] = @ + 1]
       /\ UNCHANGED eventDepth

Init ==
    /\ eventDepth \in EventDepths
    /\ done = [p \in Pipes |-> 0]
    /\ pending = EmptyBag
    /\ content = [b \in Buffers |-> Empty]
    /\ progress = [c \in Cores |-> [m \in MarksOf(c) |-> 0]]

CubeStep == \E pipe \in CubePipes : Execute(<<Cube, pipe>>)
VectorStep(v) == \E pipe \in VectorPipes : Execute(<<v, pipe>>)
Next == CubeStep \/ \E v \in Vectors : VectorStep(v)

Spec == Init /\ [][Next]_vars

(* Some pipe that can execute an instruction eventually does.              *)
FairSpec == Spec /\ WF_vars(Next)

-----------------------------------------------------------------------------
AllFinished == \A p \in Pipes : Finished(p)

(* No pipe writes a buffer that another pipe may be reading or writing:    *)
(* the events of InitCubeEvents, InitVectorEvents and the blocks order     *)
(* every two accesses to local memory and to the shared tiles.             *)
NoRace ==
    \A p, q \in {x \in Pipes : Active(x)} : p # q =>
        DOMAIN Current(p).op.writes
            \cap (DOMAIN Current(q).op.reads \cup DOMAIN Current(q).op.writes) = {}

(* Every instruction finds in its buffers what the same loop, run one      *)
(* instruction at a time, would have put there: the query of its span, the *)
(* subtile of its tile, the accumulator of the tiles before it.            *)
ReadsOwnTile ==
    \A p \in Pipes : Active(p) =>
        \A b \in DOMAIN Current(p).op.reads : content[b] = Current(p).op.reads[b]

(* When the kernel returns no event and no cross-core flag is pending: the *)
(* comment over FinalizeEvents calls events resources to be drained.       *)
EventsDrained == AllFinished => pending = EmptyBag

(* The launch ends: no pipe waits for a flag or event that is never set,   *)
(* and no set waits for room that is never made.                           *)
Completes == <>AllFinished

-----------------------------------------------------------------------------
(* The pipes implement the ownership protocol of the shared tiles.         *)
Protocol == INSTANCE MixProtocol WITH
    cube <- progress[Cube],
    vector <- [v \in Vectors |-> progress[v]],
    flag <- [v \in Vectors |->
        [f \in {"qkReady", "softmaxReady", "pvReady"} |-> Pending(Flag(v, f))]]

(* Every step of a pipe is a step of the protocol or leaves it unchanged.  *)
ProtocolSpec == Protocol!ProtocolSpec
=============================================================================
