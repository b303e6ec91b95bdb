----------------------------- MODULE PagedGather -----------------------------
(***************************************************************************)
(* How the Cube gathers the keys and the values of one KV tile from the    *)
(* paged cache into its L1 memory.  Tokens of a sequence live in pages     *)
(* found through a block table; a tile may begin anywhere in a page, so it *)
(* is copied in fragments that end with the tile, the subtile or the page. *)
(* Keys are gathered subtile by subtile, values for the whole tile.        *)
(*                                                                         *)
(* A row of L1 is abstracted to the element offset it was copied from.     *)
(***************************************************************************)
EXTENDS Integers

CONSTANTS
    PageSize,       \* tokens in a page
    SubtileKeys,    \* keys of one turn of QK's n loop (L1TileShape::N)
    KvTile,         \* keys of a full tile
    KvHeads, HeadDim,
    PhysicalPages,  \* pages of the cache
    MaxTokens,      \* bound on the sequence length
    U32Mod,         \* 2^32
    Stale           \* what L1 holds before the first copy

Positive == Nat \ {0}
ASSUME SizesAssumption ==
    /\ PageSize \in Positive /\ SubtileKeys \in Positive /\ KvTile \in Positive
    /\ KvHeads \in Positive /\ HeadDim \in Positive
    /\ PhysicalPages \in Positive /\ MaxTokens \in Positive
    /\ U32Mod \in Positive

(* The cache is small enough for the 32-bit offsets of the reference.      *)
ASSUME CacheAssumption ==
    /\ PhysicalPages * PageSize * (KvHeads * HeadDim) <= U32Mod
    /\ MaxTokens <= U32Mod

VARIABLES
    seqLen, table, kvHead,      \* the launch
    tile,                       \* absoluteTokenStart and tokenCount
    pc,
    nLoop, copied,              \* the loop counters
    l1K, l1V,                   \* the gathered rows
    score                       \* the keys the columns of score_ belong to

launch == <<seqLen, table, kvHead, tile>>
vars == <<seqLen, table, kvHead, tile, pc, nLoop, copied, l1K, l1V, score>>

U32(x) == x % U32Mod
Stride == KvHeads * HeadDim
Lesser(a, b) == IF a < b THEN a ELSE b

Pages(tokens) == (tokens + PageSize - 1) \div PageSize

(* The contract: where the reference kernel finds a token of the head.     *)
ResolvePagedBsndLocation(logicalToken) ==
    LET physicalPage == table[logicalToken \div PageSize]
        offsetInPage == logicalToken % PageSize
    IN  U32(((physicalPage * PageSize + offsetInPage) * KvHeads + kvHead) * HeadDim)

(* One fragment: its first token, its length and its first element, which  *)
(* is a 64-bit product of a 32-bit row number.                             *)
LogicalToken ==
    U32(tile.begin + (IF pc = "keys" THEN nLoop * SubtileKeys ELSE 0) + copied)
Rows ==
    IF pc = "keys" THEN Lesser(SubtileKeys, tile.count - nLoop * SubtileKeys)
    ELSE tile.count

(* A slip of the fragment: the page is one token short.                    *)
FragmentShort == Lesser(Rows - copied, PageSize - 1 - (LogicalToken % PageSize))

Fragment == Lesser(Rows - copied, PageSize - (LogicalToken % PageSize))

(* A slip of the offset: the fragment is taken from the start of its page. *)
PhysicalElementOffsetOfPage ==
    U32(table[LogicalToken \div PageSize] * PageSize) * Stride
PhysicalElementOffset ==
    U32(table[LogicalToken \div PageSize] * PageSize + (LogicalToken % PageSize)) * Stride

(* A fragment is copied row by row, one row of the cache after the other,  *)
(* from the head's part of the tensor.                                     *)
Copy(rows) ==
    [r \in DOMAIN rows |->
        IF r \in copied .. copied + Fragment - 1
        THEN PhysicalElementOffset + (r - copied) * Stride + kvHead * HeadDim
        ELSE rows[r]]

-----------------------------------------------------------------------------
Init ==
    /\ seqLen \in 1 .. MaxTokens
    /\ table \in [0 .. Pages(seqLen) - 1 -> 0 .. PhysicalPages - 1]
    /\ kvHead \in 0 .. KvHeads - 1
    /\ tile \in {t \in [begin : 0 .. seqLen - 1, count : 1 .. KvTile] :
                    t.begin + t.count <= seqLen}
    /\ pc = "keys" /\ nLoop = 0 /\ copied = 0
    /\ l1K = [r \in 0 .. SubtileKeys - 1 |-> Stale]
    /\ l1V = [r \in 0 .. KvTile - 1 |-> Stale]
    /\ score = [c \in 0 .. KvTile - 1 |-> Stale]

CopyKeyFragment ==
    /\ pc = "keys" /\ copied < Rows
    /\ l1K' = Copy(l1K)
    /\ copied' = copied + Fragment
    /\ UNCHANGED <<launch, pc, nLoop, l1V, score>>

(* A slip of the destination: every subtile writes the first columns.      *)
MultiplyAtZero == score' = [c \in DOMAIN score |-> IF c < Rows THEN l1K[c] ELSE score[c]]

(* The product of a subtile is stored in its columns of the score tile.    *)
Multiply ==
    LET column == nLoop * SubtileKeys
    IN  score' = [c \in DOMAIN score |->
            IF c \in column .. column + Rows - 1 THEN l1K[c - column] ELSE score[c]]

NextKeys ==
    /\ pc = "keys" /\ copied >= Rows
    /\ (nLoop + 1) * SubtileKeys < tile.count
    /\ Multiply
    /\ nLoop' = nLoop + 1
    /\ copied' = 0
    /\ UNCHANGED <<launch, pc, l1K, l1V>>

StartValues ==
    /\ pc = "keys" /\ copied >= Rows
    /\ (nLoop + 1) * SubtileKeys >= tile.count
    /\ Multiply
    /\ pc' = "values"
    /\ copied' = 0
    /\ UNCHANGED <<launch, nLoop, l1K, l1V>>

CopyValueFragment ==
    /\ pc = "values" /\ copied < Rows
    /\ l1V' = Copy(l1V)
    /\ copied' = copied + Fragment
    /\ UNCHANGED <<launch, pc, nLoop, l1K, score>>

FinishValues ==
    /\ pc = "values" /\ copied >= Rows
    /\ pc' = "done"
    /\ UNCHANGED <<launch, nLoop, copied, l1K, l1V, score>>

Next ==
    \/ CopyKeyFragment \/ NextKeys \/ StartValues
    \/ CopyValueFragment \/ FinishValues

Spec == Init /\ [][Next]_vars

(* The scalar unit keeps executing.                                        *)
FairSpec == Spec /\ WF_vars(Next)

-----------------------------------------------------------------------------
(* Counters stay within the tile: nothing is written past a buffer's rows. *)
TypeOK ==
    /\ seqLen \in 1 .. MaxTokens
    /\ table \in [0 .. Pages(seqLen) - 1 -> 0 .. PhysicalPages - 1]
    /\ kvHead \in 0 .. KvHeads - 1
    /\ tile \in [begin : Nat, count : 1 .. KvTile]
    /\ tile.begin + tile.count <= seqLen
    /\ pc \in {"keys", "values", "done"}
    /\ nLoop \in Nat /\ nLoop * SubtileKeys < tile.count
    /\ copied \in 0 .. Rows
    /\ l1K \in [0 .. SubtileKeys - 1 -> Nat \cup {Stale}]
    /\ l1V \in [0 .. KvTile - 1 -> Nat \cup {Stale}]
    /\ score \in [0 .. KvTile - 1 -> Nat \cup {Stale}]

(* Every row gathered so far is the row the reference kernel would read    *)
(* for that token and head, wherever the tile begins in its page and       *)
(* however the block table scatters its pages (QK and PV operator()).      *)
RowsResolved ==
    /\ pc = "keys" => \A r \in 0 .. copied - 1 :
           l1K[r] = ResolvePagedBsndLocation(tile.begin + nLoop * SubtileKeys + r)
    /\ pc \in {"values", "done"} => \A r \in 0 .. copied - 1 :
           l1V[r] = ResolvePagedBsndLocation(tile.begin + r)

(* Every column of the score tile belongs to its key: no key of the tile   *)
(* is left out between two subtiles or multiplied twice, and the values    *)
(* are only gathered when all are there.                                   *)
ScoresResolved ==
    \A c \in 0 .. tile.count - 1 :
        pc # "keys" \/ c < nLoop * SubtileKeys =>
            score[c] = ResolvePagedBsndLocation(tile.begin + c)

(* A step copies at least one row and stays inside one page of the table   *)
(* that the sequence owns.                                                 *)
FragmentInPage ==
    copied' > copied =>
        LET first == LogicalToken
            last == LogicalToken + (copied' - copied) - 1
        IN  /\ first \div PageSize = last \div PageSize
            /\ last < seqLen

OneFragmentPerPage == [][FragmentInPage]_vars

(* The loops end, with every row of the tile gathered.                     *)
Completes == <>(pc = "done" /\ copied = tile.count)
=============================================================================
