---------------------------- MODULE MCPagedGather ----------------------------
(***************************************************************************)
(* Pages of three tokens, subtiles of four and tiles of nine: fragments    *)
(* end with the page, the subtile, the tile, and at two of them together.  *)
(* MixLaunches is here for its assumption about the pipes that these copies*)
(* run on: it has no state, and the run of the pipes is the longest.       *)
(***************************************************************************)
EXTENDS PagedGather, MixLaunches
=============================================================================
