------------------------------- MODULE MixOrder -------------------------------
(***************************************************************************)
(* The order that the pipes, the scalar unit, the events and the flags     *)
(* impose on the instructions of a launch, whatever the interleaving.      *)
(*                                                                         *)
(* A place is a pipe and a position in its queue.  Because every event and *)
(* flag is waited for in one pipe and set in one pipe, the n-th wait takes *)
(* the n-th set: this, the order inside a pipe and the waits of the scalar *)
(* unit give a place its predecessors.  What is executed before a place is *)
(* summed up by its clock, a number of instructions per pipe.              *)
(*                                                                         *)
(* These are conditions on the queues alone: TLC evaluates them on launches*)
(* whose interleavings it could not explore, and PipelineProofs shows what *)
(* they imply of every interleaving.                                       *)
(***************************************************************************)
EXTENDS Integers, FiniteSets, Sequences

Places(queue) == UNION {{<<p, i>> : i \in 1 .. Len(queue[p])} : p \in DOMAIN queue}
At(queue, x) == queue[x[1]][x[2]]
Waits(queue, x) == At(queue, x).op.waits
Sets(queue, x) == At(queue, x).op.sets
Reads(queue, x) == At(queue, x).op.reads
Writes(queue, x) == At(queue, x).op.writes
TokensOf(queue) == UNION {Waits(queue, x) \cup Sets(queue, x) : x \in Places(queue)}

WaitsFor(queue, e) == {x \in Places(queue) : e \in Waits(queue, x)}
SetsOf(queue, e) == {x \in Places(queue) : e \in Sets(queue, x)}
WritersOf(queue, b) == {x \in Places(queue) : b \in DOMAIN Writes(queue, x)}

(* The number of a place among places of its pipe.                         *)
Ordinal(x, places) == Cardinality({y \in places : y[2] <= x[2]})

(* Tokens are waited for in one pipe and set in one pipe, never by the     *)
(* same instruction, and as often waited for as set.                       *)
Paired(queue) ==
    \A e \in TokensOf(queue) :
        /\ \A x, y \in WaitsFor(queue, e) : x[1] = y[1]
        /\ \A x, y \in SetsOf(queue, e) : x[1] = y[1]
        /\ WaitsFor(queue, e) \cap SetsOf(queue, e) = {}
        /\ Cardinality(WaitsFor(queue, e)) = Cardinality(SetsOf(queue, e))

-----------------------------------------------------------------------------
(* What is executed before a place: the instruction before it in its pipe, *)
(* the last wait of the scalar unit issued before it, and the sets that    *)
(* its waits take.                                                         *)
ScalarWait(queue, x) == <<<<x[1][1], "S">>, At(queue, x).after>>

SetsTaken(queue, x, e) ==
    LET sets == SetsOf(queue, e)
        number == Ordinal(x, WaitsFor(queue, e))
    IN {y \in sets : Ordinal(y, sets) = number}

Predecessors(queue, x) ==
    (Places(queue) \cap {<<x[1], x[2] - 1>>, ScalarWait(queue, x)})
    \cup UNION {SetsTaken(queue, x, e) : e \in Waits(queue, x)}

(* A clock claims no more than the predecessors and their clocks give.     *)
Justified(queue, clock) ==
    \A x \in Places(queue) :
        LET predecessors == Predecessors(queue, x)
        IN \A p \in DOMAIN queue :
               \/ clock[x][p] = 0
               \/ \E y \in predecessors :
                     clock[x][p] <= clock[y][p] \/ (y[1] = p /\ clock[x][p] <= y[2])

Before(clock, x, y) == x[2] <= clock[y][x[1]]

(* Accesses of different pipes to a buffer one of them writes are ordered. *)
AccessesOrdered(queue, clock) ==
    \A x, y \in Places(queue) :
        \/ x[1] = y[1]
        \/ DOMAIN Writes(queue, x)
              \cap (DOMAIN Reads(queue, y) \cup DOMAIN Writes(queue, y)) = {}
        \/ Before(clock, x, y)
        \/ Before(clock, y, x)

(* What an instruction reads was written before it with the tag it expects,*)
(* and any other write of the buffer is before that one or after the read. *)
ReadsSourced(queue, clock) ==
    \A x \in Places(queue) : \A b \in DOMAIN Reads(queue, x) :
        \E w \in WritersOf(queue, b) :
            /\ Writes(queue, w)[b] = Reads(queue, x)[b]
            /\ Before(clock, w, x)
            /\ \A v \in WritersOf(queue, b) \ {w, x} :
                  Before(clock, v, w) \/ Before(clock, x, v)

(* Every pipe has a queue of instructions.                                 *)
Sequenced(queue) ==
    \A p \in DOMAIN queue :
        /\ Len(queue[p]) \in Nat
        /\ \A i \in 1 .. Len(queue[p]) : queue[p][i].after \in Nat

(* A clock that orders the launch.                                         *)
Ordered(queue, clock) ==
    /\ Sequenced(queue)
    /\ Paired(queue)
    /\ DOMAIN clock = Places(queue)
    /\ \A x \in Places(queue) : clock[x] \in [DOMAIN queue -> Nat]
    /\ Justified(queue, clock)
    /\ AccessesOrdered(queue, clock)
    /\ ReadsSourced(queue, clock)

-----------------------------------------------------------------------------
(* The waits that make room for a set of a token with room for so many     *)
(* pending sets.                                                           *)
RoomMakers(queue, x, e, room) ==
    LET waits == WaitsFor(queue, e)
        number == Ordinal(x, SetsOf(queue, e))
    IN {y \in waits : number = Ordinal(y, waits) + room}

(* The launch can be executed in the order of the ranks: whatever a place  *)
(* waits for exists and has a lower rank.                                  *)
Ranked(queue, room, rank) ==
    \A x \in Places(queue) :
        /\ rank[x] \in Nat
        /\ \A y \in Predecessors(queue, x) : rank[y] < rank[x]
        /\ At(queue, x).after # 0 => ScalarWait(queue, x) \in Places(queue)
        /\ \A e \in Waits(queue, x) : SetsTaken(queue, x, e) # {}
        /\ \A e \in Sets(queue, x) :
              \/ Ordinal(x, SetsOf(queue, e)) <= room[e]
              \/ \E y \in RoomMakers(queue, x, e, room[e]) : rank[y] < rank[x]

-----------------------------------------------------------------------------
(* What an instruction marked as a step of MixProtocol needs: more or as   *)
(* many of other steps of its core, and the flags it takes and gives.      *)
Guard(more, same, takes, gives) ==
    [more |-> more, same |-> same, takes |-> takes, gives |-> gives]

CubeGuards ==
    [scoring |-> Guard({}, {"multiplied"}, {}, {}),
     scored |-> Guard({"scoring"}, {}, {}, {"qkReady"}),
     probTaken |-> Guard({}, {}, {"softmaxReady"}, {}),
     probRead |-> Guard({"probTaken"}, {}, {}, {}),
     multiplying |-> Guard({"scored", "probRead"}, {}, {}, {}),
     multiplied |-> Guard({"multiplying"}, {}, {}, {"pvReady"})]

VectorGuards ==
    [scoreTaken |-> Guard({}, {"outTaken"}, {"qkReady"}, {}),
     scoreRead |-> Guard({"scoreTaken"}, {"outRead"}, {}, {}),
     publishing |-> Guard({"scoreTaken"}, {"published"}, {}, {}),
     published |-> Guard({"publishing", "scoreRead"}, {}, {}, {"softmaxReady"}),
     outTaken |-> Guard({"scoreTaken"}, {}, {"pvReady"}, {}),
     outRead |-> Guard({"outTaken", "scoreRead"}, {}, {}, {})]

MarkedAt(queue, core, mark) ==
    {x \in Places(queue) : x[1][1] = core /\ At(queue, x).op.mark = mark}

(* How many of the places are executed when a place is, at least and at    *)
(* most.                                                                   *)
AtLeast(clock, places, x) == Cardinality({y \in places : Before(clock, y, x)})
AtMost(clock, places, x) ==
    Cardinality({y \in places : y # x /\ ~Before(clock, x, y)})

FlagTokens(cores, flags) == {<<v, f, 0>> : v \in cores, f \in flags}

(* The steps of a core have their guards whenever they are executed; no    *)
(* other instruction of the core takes or gives a flag.                    *)
KeepsGuards(queue, clock, core, guards, vectors, partners) ==
    LET flags == {"qkReady", "softmaxReady", "pvReady"}
        marked(mark) == MarkedAt(queue, core, mark)
    IN /\ \A x \in Places(queue) :
              x[1][1] = core =>
                  LET op == At(queue, x).op
                  IN IF op.mark = "none"
                     THEN (op.waits \cup op.sets) \cap FlagTokens(vectors, flags) = {}
                     ELSE /\ op.mark \in DOMAIN guards
                          /\ op.waits \cap FlagTokens(vectors, flags)
                                = FlagTokens(partners, guards[op.mark].takes)
                          /\ op.sets \cap FlagTokens(vectors, flags)
                                = FlagTokens(partners, guards[op.mark].gives)
       /\ \A m \in DOMAIN guards :
              /\ marked(m) # {}
              /\ \A x, y \in marked(m) : x[1] = y[1]
              /\ \A x \in marked(m) :
                    /\ \A n \in guards[m].more :
                          AtMost(clock, marked(m), x) < AtLeast(clock, marked(n), x)
                    /\ \A n \in guards[m].same :
                          /\ AtMost(clock, marked(m), x) <= AtLeast(clock, marked(n), x)
                          /\ AtMost(clock, marked(n), x) <= AtLeast(clock, marked(m), x)

(* The order keeps the protocol of the shared tiles.                       *)
KeepsProtocol(queue, clock, cube, vectors, tiles) ==
    /\ KeepsGuards(queue, clock, cube, CubeGuards, vectors, vectors)
    /\ \A v \in vectors : KeepsGuards(queue, clock, v, VectorGuards, vectors, {v})
    /\ tiles \in Nat /\ Cardinality(MarkedAt(queue, cube, "scoring")) <= tiles
=============================================================================
