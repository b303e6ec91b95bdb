----------------------------- MODULE MCRuntimeStats -----------------------------
(***************************************************************************)
(* Two threads and three plans, of one eligible request, of none (a batch  *)
(* without metadata) and of two; queues of two elements, so that a third   *)
(* plan or delta evicts the first.                                         *)
(***************************************************************************)
EXTENDS RuntimeStats, TLC

CONSTANTS t1, t2

MCBatch == << [size |-> 1, eligible |-> 1], [size |-> 0, eligible |-> 0],
              [size |-> 2, eligible |-> 0] >>

Symmetry == Permutations(Thread)
=============================================================================
