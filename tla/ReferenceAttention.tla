-------------------------- MODULE ReferenceAttention --------------------------
(***************************************************************************)
(* What a launch of the operator promises, in the terms of the AIV         *)
(* reference kernel: every (query token, query head) cell of the output is *)
(* computed from exactly the keys BuildRowSchedule selects for that row,   *)
(* each counted once, in whatever order the cells are written.             *)
(***************************************************************************)
EXTENDS TriangleSchedule

CONSTANTS
    Requests,      \* the launches considered
    GroupSize,     \* query heads per KV head, kGroupSize = 4
    NotWritten     \* an output cell the launch has not stored yet

ASSUME ReferenceAssumption ==
    /\ Requests \subseteq Request
    /\ GroupSize \in Nat \ {0}
    /\ \A r \in Requests : NotWritten \notin [0 .. r.seqLen - 1 -> Nat]

VARIABLES
    request,       \* the launch
    output         \* attentionOut: cell -> how often each key was accumulated

refVars == << request, output >>

Keys(r) == 0 .. r.seqLen - 1

(* Cells are <<query token, query head>>.                                  *)
Cells(r) == (0 .. r.queryTokens - 1) \X (0 .. KvHeads * GroupSize - 1)

(* The softmax row of a token: its keys, each with weight one.             *)
RowResult(r, token) ==
    LET keys == RowKeys(r, r.queryStart + token)
    IN  [k \in Keys(r) |-> IF k \in keys THEN 1 ELSE 0]

RefInit ==
    /\ request \in Requests
    /\ output = [cell \in Cells(request) |-> NotWritten]

(* Any number of rows finish, each with its exact result.                  *)
FinishRows ==
    /\ TilingAccepts(request)
    /\ request' = request
    /\ DOMAIN output' = Cells(request)
    /\ \A cell \in Cells(request) :
          \/ output'[cell] = output[cell]
          \/ /\ output[cell] = NotWritten
             /\ output'[cell] = RowResult(request, cell[1])

RefSpec == RefInit /\ [][FinishRows]_refVars
=============================================================================
