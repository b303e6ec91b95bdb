----------------------------- MODULE MixLaunches -----------------------------
(***************************************************************************)
(* Launches whose instructions are ordered as the theorems of              *)
(* PipelineProofs ask.  A launch is executed once, one instruction at a    *)
(* time and with room for a single pending set of every token; the clocks  *)
(* and the ranks of the instructions are read off this execution and then  *)
(* checked against the conditions of MixOrder.                             *)
(***************************************************************************)
EXTENDS MixOrder, FiniteSetsExt, TLC

LaunchVectors == {"v1", "v2"}

Launch(work) == INSTANCE MixProgram
    WITH Cube <- "cube", Vectors <- LaunchVectors, Work <- work

(* The same function; TLC keeps its values when it is combined.            *)
Stored(f) == f @@ <<>>

(* What precedes a place when there is room for one pending set.           *)
Earlier(queue, x) ==
    Predecessors(queue, x) \cup UNION {RoomMakers(queue, x, e, 1) : e \in Sets(queue, x)}

(* How much of a pipe the predecessors of a place know to be executed.     *)
Known(predecessors, clock, p) ==
    Max({0} \cup {clock[y][p] : y \in predecessors}
            \cup {y[2] : y \in {z \in predecessors : z[1] = p}})

RECURSIVE Run(_, _, _, _, _)
Run(queue, before, earlier, position, ordering) ==
    LET ready == {p \in DOMAIN queue :
                     /\ position[p] < Len(queue[p])
                     /\ \A y \in earlier[<<p, position[p] + 1>>] : y[2] <= position[y[1]]}
    IN IF ready = {} THEN ordering
       ELSE LET p == CHOOSE q \in ready : TRUE
                x == <<p, position[p] + 1>>
                known == [q \in DOMAIN queue |-> Known(before[x], ordering.clock, q)]
            IN Run(queue, before, earlier, [position EXCEPT ![p] = @ + 1],
                   [clock |-> ordering.clock @@ (x :> known),
                    rank |-> ordering.rank @@ (x :> Cardinality(DOMAIN ordering.rank))])

(* The clocks and ranks of a launch.                                       *)
Ordering(queue) ==
    Run(queue, Stored([x \in Places(queue) |-> Predecessors(queue, x)]),
        Stored([x \in Places(queue) |-> Earlier(queue, x)]),
        [p \in DOMAIN queue |-> 0], [clock |-> <<>>, rank |-> <<>>])

(* The hypotheses of the theorems.                                         *)
IsOrdered(work) ==
    \A queue \in {Stored(Launch(work)!LaunchQueue)} :
        \A ordering \in {Ordering(queue)} :
            /\ Ordered(queue, ordering.clock)
            /\ Ranked(queue, [e \in TokensOf(queue) |-> 1], ordering.rank)
            /\ KeepsProtocol(queue, ordering.clock, "cube", LaunchVectors,
                             Launch(work)!TileCount)

-----------------------------------------------------------------------------
Tile(subtiles, rowLoops) == [subtiles |-> subtiles, rowLoops |-> rowLoops]

(* In the sizes of the code: one tile; the launch that MCMixPipeline       *)
(* explores; a sparse span with its sink and its local tiles; a span of    *)
(* one token; spans whose tiles are odd numbers of subtiles, so that the   *)
(* ping-pong buffers change hands between tiles and spans.                 *)
Works ==
    {<<<<Tile(1, 1)>>>>,
     <<<<Tile(4, 4), Tile(1, 1)>>, <<Tile(2, 1)>>>>,
     <<<<Tile(1, 1), Tile(4, 4), Tile(4, 4), Tile(2, 2)>>>>,
     <<<<Tile(4, 1), Tile(4, 1), Tile(1, 1)>>>>,
     <<<<Tile(1, 1), Tile(3, 3), Tile(1, 1), Tile(2, 2)>>>>,
     <<<<Tile(3, 4), Tile(3, 4)>>, <<Tile(3, 1)>>>>,
     <<<<Tile(4, 4)>>, <<Tile(1, 1), Tile(3, 4)>>, <<Tile(4, 2)>>>>}

ASSUME WorksOrdered == \A work \in Works : IsOrdered(work)
=============================================================================
