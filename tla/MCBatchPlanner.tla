---------------------------- MODULE MCBatchPlanner -----------------------------
(* Prompts of up to 10 tokens with sink 1, window 2 and dense tail 2, and  *)
(* every gate alone, with and without the ones of split spans.             *)
EXTENDS BatchPlanner

MCOpen ==
    [sink |-> SinkTokens, window |-> WindowTokens, last |-> DenseTailTokens,
     minSeqLen |-> 0, minSparseRows |-> 0, minSavedQk |-> 0,
     splitMinSparseRows |-> 0, splitMinSavedQk |-> 0]

MCConfigs ==
    {MCOpen,
     [MCOpen EXCEPT !.minSeqLen = 7],
     [MCOpen EXCEPT !.minSparseRows = 2, !.splitMinSparseRows = 3],
     [MCOpen EXCEPT !.minSavedQk = 3, !.splitMinSavedQk = 6],
     [MCOpen EXCEPT !.window = @ + 1],
     [MCOpen EXCEPT !.last = @ + 1]}
=============================================================================
