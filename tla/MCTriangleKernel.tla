--------------------------- MODULE MCTriangleKernel ---------------------------
(***************************************************************************)
(* The kernel on sequences of up to MCMaxSeqLen tokens: sink 1, window 2,  *)
(* dense tail 2, query tiles of 3 rows and KV tiles of 3 keys, so that a   *)
(* query tile straddles both sparse boundaries, an interval has several    *)
(* tiles, and a tile starts and ends inside the mask.                      *)
(***************************************************************************)
EXTENDS TriangleKernel

MCMaxSeqLen == 9

(* Every chunk of every prefix of prompts up to three tokens longer.       *)
MCAccepted ==
    {r \in [queryStart : 0 .. MCMaxSeqLen - 1, queryTokens : 1 .. MCMaxSeqLen,
            seqLen : 1 .. MCMaxSeqLen, promptLen : 1 .. MCMaxSeqLen + 3,
            tablePages : {(MCMaxSeqLen + 1) \div PageSize},
            aicCores : {MaxCores}, wellFormed : {TRUE}] :
        /\ r.queryStart + r.queryTokens = r.seqLen
        /\ r.promptLen \in {r.seqLen, r.seqLen + 1, r.seqLen + 3}}

MCSample == [queryStart |-> 3, queryTokens |-> 5, seqLen |-> 8,
             promptLen |-> 9, tablePages |-> 4, aicCores |-> 1,
             wellFormed |-> TRUE]

(* One request per rejection of TilingFunc, the exact page count, and one  *)
(* core doing all the tasks.                                               *)
MCBoundary ==
    {MCSample,
     [MCSample EXCEPT !.seqLen = 9],
     [MCSample EXCEPT !.seqLen = 7],
     [MCSample EXCEPT !.promptLen = 7],
     [MCSample EXCEPT !.tablePages = 3],
     [MCSample EXCEPT !.queryStart = 8, !.queryTokens = 0],
     [MCSample EXCEPT !.queryStart = -1, !.queryTokens = 9],
     [MCSample EXCEPT !.promptLen = U32Mod],
     [MCSample EXCEPT !.aicCores = 0],
     [MCSample EXCEPT !.wellFormed = FALSE],
     [MCSample EXCEPT !.queryStart = 4, !.seqLen = 9, !.tablePages = 4],
     [MCSample EXCEPT !.queryStart = 4, !.seqLen = 9, !.tablePages = 5]}

MCRequests == MCAccepted \cup MCBoundary

(* The longest prompt TilingFunc accepts, one below the uint32_t modulus.  *)
MCEdgeRequests ==
    {[queryStart |-> U32Mod - 7, queryTokens |-> 6, seqLen |-> U32Mod - 1,
      promptLen |-> U32Mod - 1, tablePages |-> U32Mod, aicCores |-> MaxCores,
      wellFormed |-> TRUE]}
=============================================================================
