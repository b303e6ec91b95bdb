--------------------------- MODULE TriangleSchedule ---------------------------
(***************************************************************************)
(* The pure part of the operator: how the host lays out a launch, how a    *)
(* query tile is cut into spans, which KV intervals a span visits, how the *)
(* intervals are cut into KV tiles and which keys of a tile the boundary   *)
(* mask leaves visible to one query row.  Positions are absolute token     *)
(* indices; an interval or span is half open, [begin, end).                *)
(***************************************************************************)
EXTENDS Integers, Sequences

CONSTANTS
    SinkTokens,       \* kSinkTokens = 8
    WindowTokens,     \* kWindowTokens = kLocalWindow = 512
    DenseTailTokens,  \* kDenseTailTokens = 128
    QueryTile,        \* kQueryTile = 32
    KvTile,           \* kKvTile = 512
    KvHeads,          \* kKvHeads = 8
    PageSize,         \* kPageSize = 128
    U32Mod            \* 2^32, the modulus of the uint32_t arithmetic

ASSUME ScheduleAssumption ==
    /\ SinkTokens \in Nat \ {0}
    /\ WindowTokens \in Nat
    /\ DenseTailTokens \in Nat
    /\ QueryTile \in Nat \ {0}
    /\ KvTile \in Nat \ {0}
    /\ KvHeads \in Nat \ {0}
    /\ PageSize \in Nat \ {0}
    /\ U32Mod \in Nat \ {0}

U32(n) == n % U32Mod

MinU32(a, b) == IF a < b THEN a ELSE b

MaxU32(a, b) == IF a > b THEN a ELSE b

Interval(begin, end) == [begin |-> begin, end |-> end]

-----------------------------------------------------------------------------
(* Host side: the checks and the launch geometry of TilingFunc.            *)

(* A launch request: the attributes and the dimensions TilingFunc reads.   *)
(* wellFormed stands for the shape, dtype, scale and fixed-geometry checks.*)
Request ==
    [queryStart : Int, queryTokens : Int, seqLen : Int, promptLen : Int,
     tablePages : Int, aicCores : Nat, wellFormed : BOOLEAN]

(* A slip of the page count: the last, partial page is forgotten.          *)
RequiredPagesFloor(r) == r.seqLen \div PageSize

RequiredPages(r) == (r.seqLen + PageSize - 1) \div PageSize

TilingAccepts(r) ==
    /\ r.wellFormed
    /\ r.queryStart >= 0
    /\ r.seqLen > 0
    /\ r.promptLen >= r.seqLen
    /\ r.queryTokens > 0
    /\ r.queryStart + r.queryTokens = r.seqLen
    /\ r.tablePages >= RequiredPages(r)
    /\ r.promptLen <= U32Mod - 1
    /\ r.aicCores # 0

(* A slip of the tile count: the last, partial query tile is forgotten.    *)
QueryTileCountFloor(r) == U32(r.queryTokens) \div QueryTile

QueryTileCount(r) == U32(r.queryTokens + QueryTile - 1) \div QueryTile

TaskCount(r) == U32(QueryTileCount(r) * KvHeads)

BlockDim(r) == MinU32(r.aicCores, TaskCount(r))

SparseBegin == SinkTokens + WindowTokens + 1

SparseEnd(r) == MaxU32(0, r.promptLen - DenseTailTokens)

-----------------------------------------------------------------------------
(* Query tiles and spans.                                                  *)

QueryRow(task) == (task \div KvHeads) * QueryTile

QueryTileBegin(r, task) == r.queryStart + QueryRow(task)

QueryTileEnd(r, task) ==
    QueryTileBegin(r, task)
        + MinU32(QueryTile, U32(r.queryTokens - QueryRow(task)))

AppendQuerySpan(result, begin, end, sparse) ==
    IF begin >= end \/ Len(result) >= 3
    THEN result
    ELSE Append(result, [begin |-> begin, end |-> end, sparse |-> sparse])

SplitQueryTile(qBegin, qEnd, sparseBegin, sparseEnd) ==
    IF qBegin >= qEnd
    THEN << >>
    ELSE IF sparseBegin >= sparseEnd
    THEN AppendQuerySpan(<< >>, qBegin, qEnd, FALSE)
    ELSE LET prefix == AppendQuerySpan(<< >>, qBegin,
                           MinU32(qEnd, sparseBegin), FALSE)
             middle == AppendQuerySpan(prefix, MaxU32(qBegin, sparseBegin),
                           MinU32(qEnd, sparseEnd), TRUE)
         IN  AppendQuerySpan(middle, MaxU32(qBegin, sparseEnd), qEnd, FALSE)

QuerySpans(r, task) ==
    SplitQueryTile(QueryTileBegin(r, task), QueryTileEnd(r, task),
                   SparseBegin, SparseEnd(r))

-----------------------------------------------------------------------------
(* KV intervals of a span, and their tiles.                                *)

AppendInterval(result, begin, end) ==
    IF begin >= end THEN result ELSE Append(result, Interval(begin, end))

BuildTileSchedule(qBegin, qEndIn, kvLength, sparseBegin, sparseEnd) ==
    LET qEnd == MinU32(qEndIn, kvLength)
        fullySparse == qBegin >= sparseBegin /\ qEnd <= sparseEnd
        sinkEnd == MinU32(SinkTokens, kvLength)
        localBegin ==
            MinU32(IF qBegin > WindowTokens THEN qBegin - WindowTokens ELSE 0,
                   qEnd)
    IN  IF ~fullySparse \/ localBegin <= sinkEnd
        THEN AppendInterval(<< >>, 0, qEnd)
        ELSE AppendInterval(AppendInterval(<< >>, 0, sinkEnd),
                            localBegin, qEnd)

Intervals(r, s) ==
    BuildTileSchedule(s.begin, s.end, r.seqLen, SparseBegin, SparseEnd(r))

IntervalTileCount(interval) ==
    U32(interval.end - interval.begin + KvTile - 1) \div KvTile

TotalTiles(intervals) ==
    CASE Len(intervals) = 0 -> 0
      [] Len(intervals) = 1 -> IntervalTileCount(intervals[1])
      [] OTHER -> IntervalTileCount(intervals[1])
                      + IntervalTileCount(intervals[2])

KeyBegin(interval, tile) == interval.begin + tile * KvTile

KeyEnd(interval, tile) ==
    KeyBegin(interval, tile)
        + MinU32(KvTile, interval.end - KeyBegin(interval, tile))

-----------------------------------------------------------------------------
(* The boundary mask.                                                      *)

IntervalKind(s, interval) ==
    IF ~s.sparse THEN "dense"
    ELSE IF interval.begin = 0 /\ interval.end <= SinkTokens THEN "sink"
    ELSE "local"

NeedsBoundaryMask(kind, keyBegin, keyEnd, qBegin, qEnd) ==
    /\ kind # "sink"
    /\ \/ keyEnd > qBegin + 1
       \/ /\ kind = "local"
          /\ keyBegin < (IF qEnd - 1 > WindowTokens
                         THEN qEnd - 1 - WindowTokens ELSE 0)

(* proceduralMaskMode: 0 no mask, 1 causal, 2 causal and window.           *)
MaskMode(kind, keyBegin, keyEnd, qBegin, qEnd) ==
    IF ~NeedsBoundaryMask(kind, keyBegin, keyEnd, qBegin, qEnd) THEN 0
    ELSE IF kind = "local" THEN 2 ELSE 1

(* Whether the score of key k survives the mask for the query at q.        *)
Unmasked(mode, q, k) ==
    \/ mode = 0
    \/ /\ k < q + 1
       /\ k >= (IF mode = 2 /\ q > WindowTokens THEN q - WindowTokens ELSE 0)

(* The keys one tile contributes to the softmax and to P*V of the row at q.*)
TileKeys(s, interval, tile, q) ==
    LET keyBegin == KeyBegin(interval, tile)
        keyEnd == KeyEnd(interval, tile)
        mode == MaskMode(IntervalKind(s, interval), keyBegin, keyEnd,
                         s.begin, s.end)
    IN  {k \in keyBegin .. keyEnd - 1 : Unmasked(mode, q, k)}

-----------------------------------------------------------------------------
(* The row at a time schedule of the AIV reference kernel: the keys that   *)
(* the query at position q attends.                                        *)

BuildRowSchedule(r, q) ==
    LET causalEnd == MinU32(q + 1, r.seqLen)
        sparse == q >= SparseBegin /\ q < SparseEnd(r)
        sinkEnd == MinU32(SinkTokens, causalEnd)
        localBegin == IF q > WindowTokens THEN q - WindowTokens ELSE 0
    IN  IF ~sparse \/ localBegin <= sinkEnd
        THEN AppendInterval(<< >>, 0, causalEnd)
        ELSE AppendInterval(AppendInterval(<< >>, 0, sinkEnd),
                            localBegin, causalEnd)

RowKeys(r, q) ==
    LET intervals == BuildRowSchedule(r, q)
    IN  {k \in 0 .. r.seqLen - 1 :
            \E i \in DOMAIN intervals :
                intervals[i].begin <= k /\ k < intervals[i].end}
=============================================================================
