---------------------------- MODULE TriangleKernel ----------------------------
(***************************************************************************)
(* A launch of triangle_paged_sparse_attention: the host tiling function,  *)
(* then every AI core walking its share of the (query tile, KV head) tasks,*)
(* span by span, interval by interval and KV tile by KV tile, keeping the  *)
(* online-softmax accumulator of the current span in local memory and      *)
(* storing the rows of the span after its last tile.  One step of a core   *)
(* is one KV tile (QK, softmax, PV and rescale); the overlap of the Cube   *)
(* and Vector pipes inside a tile is abstracted here.                      *)
(***************************************************************************)
EXTENDS ReferenceAttention

CONSTANTS
    MaxCores,      \* the AI cores the platform may report
    Residue        \* what local memory holds when the kernel starts

ASSUME KernelAssumption ==
    /\ MaxCores \in Nat \ {0}
    /\ Residue \in Nat
    /\ \A r \in Requests : r.aicCores <= MaxCores

VARIABLES
    host,          \* TilingFunc: "request", "launched" or "rejected"
    pc,            \* per core: "idle", "task", "span", "tile" or "done"
    task,          \* per core: the task index
    span,          \* per core: spanIndex + 1
    interval,      \* per core: intervalIndex + 1
    tile,          \* per core: the tile of the interval
    tileOrdinal,   \* per core: tiles of the span already processed
    acc            \* per core: row slot -> key -> times accumulated

coreVars == << pc, task, span, interval, tile, tileOrdinal, acc >>

vars == << request, output, host, pc, task, span, interval, tile,
           tileOrdinal, acc >>

Cores == 0 .. MaxCores - 1

(* The rows of a Cube tile, head major: <<head of the group, token>>.      *)
Slots == (0 .. GroupSize - 1) \X (0 .. QueryTile - 1)

-----------------------------------------------------------------------------
(* The locals of Process, functions of the loop counters.                  *)

Spans(c) == QuerySpans(request, task[c])

Span(c) == Spans(c)[span[c]]

SpanIntervals(c) == Intervals(request, Span(c))

SpanTokens(s) == s.end - s.begin

(* The first output token of the span.                                     *)
SpanQueryRow(c) ==
    QueryRow(task[c]) + Span(c).begin - QueryTileBegin(request, task[c])

(* A slip of the reset: only the first span of a task starts from zero.    *)
FirstTileOfTask(c) == tileOrdinal[c] = 0 /\ span[c] = 1

FirstTile(c) == tileOrdinal[c] = 0

LastTile(c) == tileOrdinal[c] + 1 = TotalTiles(SpanIntervals(c))

(* The accumulator after the tile: replaced by the first tile of a span,   *)
(* extended by the others, for the rows of the span only.                  *)
Accumulate(c) ==
    LET s == Span(c)
        current == SpanIntervals(c)[interval[c]]
        first == FirstTile(c)
    IN  [slot \in Slots |->
            IF slot[2] >= SpanTokens(s) THEN acc[c][slot]
            ELSE LET keys == TileKeys(s, current, tile[c], s.begin + slot[2])
                 IN  [k \in Keys(request) |->
                         (IF first THEN 0 ELSE acc[c][slot][k])
                         + (IF k \in keys THEN 1 ELSE 0)]]

(* The output cells of the span: its tokens, the heads of the KV group.    *)
Block(c) ==
    LET row == SpanQueryRow(c)
        head == (task[c] % KvHeads) * GroupSize
    IN  (row .. row + SpanTokens(Span(c)) - 1) \X (head .. head + GroupSize - 1)

SlotOf(c, cell) ==
    << cell[2] - (task[c] % KvHeads) * GroupSize, cell[1] - SpanQueryRow(c) >>

-----------------------------------------------------------------------------
Init ==
    /\ RefInit
    /\ host = "request"
    /\ pc = [c \in Cores |-> "idle"]
    /\ task = [c \in Cores |-> 0]
    /\ span = [c \in Cores |-> 1]
    /\ interval = [c \in Cores |-> 1]
    /\ tile = [c \in Cores |-> 0]
    /\ tileOrdinal = [c \in Cores |-> 0]
    /\ acc = [c \in Cores |->
                [slot \in Slots |-> [k \in Keys(request) |-> Residue]]]

(* TilingFunc rejects the launch.                                          *)
Reject ==
    /\ host = "request"
    /\ ~TilingAccepts(request)
    /\ host' = "rejected"
    /\ UNCHANGED << request, output, coreVars >>

(* TilingFunc accepts it, and blockDim cores enter Process.                *)
Launch ==
    /\ host = "request"
    /\ TilingAccepts(request)
    /\ host' = "launched"
    /\ pc' = [c \in Cores |-> IF c < BlockDim(request) THEN "task" ELSE "idle"]
    /\ task' = [c \in Cores |-> c]
    /\ UNCHANGED << request, output, span, interval, tile, tileOrdinal, acc >>

(* The loop over tasks: take the next one, or leave Process.               *)
StartTask(c) ==
    /\ pc[c] = "task"
    /\ task[c] < TaskCount(request)
    /\ pc' = [pc EXCEPT ![c] = "span"]
    /\ span' = [span EXCEPT ![c] = 1]
    /\ UNCHANGED << request, output, host, task, interval, tile, tileOrdinal,
                    acc >>

Finish(c) ==
    /\ pc[c] = "task"
    /\ task[c] >= TaskCount(request)
    /\ pc' = [pc EXCEPT ![c] = "done"]
    /\ UNCHANGED << request, output, host, task, span, interval, tile,
                    tileOrdinal, acc >>

NextTask(c) == task[c] + BlockDim(request)

EndTask(c) ==
    /\ pc[c] = "span"
    /\ span[c] > Len(Spans(c))
    /\ pc' = [pc EXCEPT ![c] = "task"]
    /\ task' = [task EXCEPT ![c] = NextTask(c)]
    /\ UNCHANGED << request, output, host, span, interval, tile, tileOrdinal,
                    acc >>

(* A span without tiles is skipped; any other starts at its first tile.    *)
StartSpan(c) ==
    /\ pc[c] = "span"
    /\ span[c] <= Len(Spans(c))
    /\ IF TotalTiles(SpanIntervals(c)) = 0
       THEN /\ span' = [span EXCEPT ![c] = @ + 1]
            /\ UNCHANGED << pc, interval, tile, tileOrdinal >>
       ELSE /\ pc' = [pc EXCEPT ![c] = "tile"]
            /\ interval' = [interval EXCEPT ![c] = 1]
            /\ tile' = [tile EXCEPT ![c] = 0]
            /\ tileOrdinal' = [tileOrdinal EXCEPT ![c] = 0]
            /\ span' = span
    /\ UNCHANGED << request, output, host, task, acc >>

(* Where the tile loops go after a tile.                                   *)
Advance(c) ==
    LET intervals == SpanIntervals(c)
        tiles == IntervalTileCount(intervals[interval[c]])
    IN  \/ /\ tile[c] + 1 < tiles
           /\ tile' = [tile EXCEPT ![c] = @ + 1]
           /\ UNCHANGED << pc, span, interval >>
        \/ /\ tile[c] + 1 >= tiles
           /\ interval[c] < Len(intervals)
           /\ tile' = [tile EXCEPT ![c] = 0]
           /\ interval' = [interval EXCEPT ![c] = @ + 1]
           /\ UNCHANGED << pc, span >>
        \/ /\ tile[c] + 1 >= tiles
           /\ interval[c] >= Len(intervals)
           /\ pc' = [pc EXCEPT ![c] = "span"]
           /\ span' = [span EXCEPT ![c] = @ + 1]
           /\ UNCHANGED << tile, interval >>

(* One KV tile; the last one of the span stores its rows.                  *)
ProcessTile(c) ==
    /\ pc[c] = "tile"
    /\ LET after == Accumulate(c)
       IN  /\ acc' = [acc EXCEPT ![c] = after]
           /\ output' = IF LastTile(c)
                        THEN LET block == Block(c)
                             IN  [cell \in Cells(request) |->
                                     IF cell \in block
                                     THEN after[SlotOf(c, cell)]
                                     ELSE output[cell]]
                        ELSE output
    /\ tileOrdinal' = [tileOrdinal EXCEPT ![c] = @ + 1]
    /\ Advance(c)
    /\ UNCHANGED << request, host, task >>

CoreStep(c) ==
    StartTask(c) \/ Finish(c) \/ EndTask(c) \/ StartSpan(c) \/ ProcessTile(c)

Next == Reject \/ Launch \/ \E c \in Cores : CoreStep(c)

Spec == Init /\ [][Next]_vars

(* The host call and every launched core run until they return: weak       *)
(* fairness of each, with ENABLED <<CoreStep(c)>>_vars spelled out as what *)
(* it is, the core being inside Process, which TLC evaluates at once.      *)
Running(c) == pc[c] \in {"task", "span", "tile"}

Fairness ==
    /\ WF_vars(Reject \/ Launch)
    /\ \A c \in Cores : []<>(~Running(c)) \/ []<><<CoreStep(c)>>_vars

FairSpec == Spec /\ Fairness

-----------------------------------------------------------------------------
(* The counters and the accumulators stay in their domains.                *)
TypeOK ==
    /\ request \in Requests
    /\ output \in [Cells(request) -> [Keys(request) -> Nat] \cup {NotWritten}]
    /\ host \in {"request", "launched", "rejected"}
    /\ pc \in [Cores -> {"idle", "task", "span", "tile", "done"}]
    /\ task \in [Cores -> Nat]
    /\ span \in [Cores -> Nat \ {0}]
    /\ interval \in [Cores -> {1, 2}]
    /\ tile \in [Cores -> Nat]
    /\ tileOrdinal \in [Cores -> Nat]
    /\ acc \in [Cores -> [Slots -> [Keys(request) -> Nat]]]

(* An output row that was stored was computed from exactly the keys the    *)
(* reference schedule gives it, each once: the cut into spans, intervals   *)
(* and tiles together with the boundary mask neither drops a key, nor lets *)
(* a skipped middle key in, nor counts a key of two tiles twice, and the   *)
(* accumulator never carries over from another span or from the residue.   *)
ExactRows ==
    \A cell \in Cells(request) :
        output[cell] # NotWritten => output[cell] = RowResult(request, cell[1])

(* Every key a tile reads lies in the sequence, and its logical page in    *)
(* the block table whose capacity the host has checked.                    *)
ReadsInsideTable ==
    \A c \in Cores : pc[c] = "tile" =>
        LET keyEnd == KeyEnd(SpanIntervals(c)[interval[c]], tile[c])
        IN  /\ KeyBegin(SpanIntervals(c)[interval[c]], tile[c]) < keyEnd
            /\ keyEnd <= request.seqLen
            /\ (keyEnd - 1) \div PageSize < request.tablePages

(* Every launch returns: it is rejected, or every core leaves its loops    *)
(* and by then every output row is stored.                                 *)
Completes ==
    <>(\/ host = "rejected"
       \/ /\ host = "launched"
          /\ \A c \in Cores : pc[c] \in {"idle", "done"}
          /\ \A cell \in Cells(request) : output[cell] # NotWritten)
=============================================================================
