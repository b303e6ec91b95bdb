---------------------------- MODULE MCMixPipeline ----------------------------
(***************************************************************************)
(* One launch on one AI core with its two Vector cores, in the sizes of    *)
(* the code: a span of 32 tokens whose first KV tile is full (four         *)
(* subtiles of 128 keys, row loops of 16 of the 64 rows of a Vector core)  *)
(* and whose second has 128 keys, and a short span with a tile of 256 keys.*)
(***************************************************************************)
EXTENDS MixPipeline

CONSTANTS v1, v2

MCVectors == {v1, v2}

Tile(subtiles, rowLoops) == [subtiles |-> subtiles, rowLoops |-> rowLoops]
MCWork == <<<<Tile(4, 4), Tile(1, 1)>>, <<Tile(2, 1)>>>>

(* The queues of the launch, combined into the form that TLC looks up fast. *)
MCQueue == LaunchQueue @@ None
=============================================================================
