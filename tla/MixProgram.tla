------------------------------ MODULE MixProgram ------------------------------
(***************************************************************************)
(* The instructions that the Cube and the Vector cores of one AI core      *)
(* issue during a launch, in program order.                                *)
(*                                                                         *)
(* An instruction is a move between buffers (a copy, a matrix product, a   *)
(* vector operation) on one pipe, with the hardware events (WaitFlag) and  *)
(* cross-core flags it waits for just before and those it sets (SetFlag)   *)
(* just after.  Buffers hold tags: what was last written there.            *)
(***************************************************************************)
EXTENDS Integers, Sequences, SequencesExt, FiniteSets, TLC

CONSTANTS
    Cube,           \* the Cube core
    Vectors,        \* the Vector cores
    Work            \* the spans of the launch, each the sequence of its KV tiles
                    \* with their Cube subtiles and row loops of the softmax

ASSUME CubeAssumption == Cube \notin Vectors

(***************************************************************************)
(* Instructions. "reads" and "writes" map the buffers an instruction uses  *)
(* to the tags it expects and leaves there; "mark" names the progress an   *)
(* instruction makes towards the abstract protocol.                        *)
(***************************************************************************)
Move(pipe, waits, reads, writes, sets) ==
    [pipe |-> pipe, waits |-> waits, reads |-> reads, writes |-> writes,
     sets |-> sets, mark |-> "none"]
None == <<>>            \* no buffer: the empty function
Sync(pipe, waits, sets) == Move(pipe, waits, None, None, sets)
Marked(mark, instruction) == [instruction EXCEPT !.mark = mark]

Event(core, name, id) == <<core, name, id>>
Flag(v, name) == <<v, name, 0>>
FlagsOfAll(name) == {Flag(v, name) : v \in Vectors}
Tag(kind, tile, part) == <<kind, tile, part>>

(* The KV tiles of the launch in order, with their place in their span.    *)
Tiles == FlattenSeq([s \in 1 .. Len(Work) |->
    [k \in 1 .. Len(Work[s]) |->
        [span |-> s, subtiles |-> Work[s][k].subtiles, rowLoops |-> Work[s][k].rowLoops,
         first |-> k = 1, last |-> k = Len(Work[s])]]])
TileCount == Len(Tiles)

SubtilesBefore(i) == FoldLeft(LAMBDA n, t : n + t.subtiles, 0, SubSeq(Tiles, 1, i - 1))

(* Score subtiles and probability rows of a tile, with their tags.         *)
ScoreOf(i) ==
    [b \in {<<"score", n>> : n \in 1 .. Tiles[i].subtiles} |-> Tag("S", i, b[2])]
ProbabilityOf(i) ==
    [b \in {<<"probability", v, r>> : v \in Vectors, r \in 1 .. Tiles[i].rowLoops} |->
        Tag("P", i, b[3])]

-----------------------------------------------------------------------------
(* The Cube's program.                                                     *)
CEvent(name, id) == Event(Cube, name, id)

(* Rows fill at most one L0 tile and the head dimension is one L0 tile, so *)
(* the m and k loops of QK, and the m loop and outer k loop of PV, run     *)
(* once; a subtile is one turn of QK's n loop and of PV's inner k loop.    *)
LoadQuery(i) ==
    <<Move("MTE2", {}, None, <<"L1Q">> :> Tag("Q", Tiles[i].span, 0),
           {CEvent("MTE2_MTE1", 3)}),
      Sync("MTE1", {CEvent("MTE2_MTE1", 3)}, {})>>

Stage(i, n) == (SubtilesBefore(i) + n - 1) % 2      \* the ping-pong flags agree

(* A slip of the copy: it does not wait for its L1 buffer.                 *)
CopyKeyUnwaited(i, n) ==
    Move("MTE2", {}, None, <<"L1K", Stage(i, n)>> :> Tag("K", i, n),
         {CEvent("MTE2_MTE1", Stage(i, n))})

CopyKey(i, n) ==
    Move("MTE2", {CEvent("MTE1_MTE2", Stage(i, n))}, None,
         <<"L1K", Stage(i, n)>> :> Tag("K", i, n),
         {CEvent("MTE2_MTE1", Stage(i, n))})

QkSubtile(i, n) ==
    LET b == Stage(i, n)
    IN <<CopyKey(i, n),
         Move("MTE1", {CEvent("M_MTE1", b)},
              <<"L1Q">> :> Tag("Q", Tiles[i].span, 0),
              <<"L0A", b>> :> Tag("Q", i, n), {}),
         Move("MTE1", {CEvent("MTE2_MTE1", b), CEvent("M_MTE1", b + 2)},
              <<"L1K", b>> :> Tag("K", i, n),
              <<"L0B", b>> :> Tag("K", i, n),
              {CEvent("MTE1_MTE2", b), CEvent("MTE1_M", 0)}),
         Move("M", {CEvent("FIX_M", b), CEvent("MTE1_M", 0)},
              <<"L0A", b>> :> Tag("Q", i, n) @@ <<"L0B", b>> :> Tag("K", i, n),
              <<"L0C", b>> :> Tag("S", i, n),
              {CEvent("M_MTE1", b), CEvent("M_MTE1", b + 2), CEvent("M_FIX", 0)}),
         Marked(IF n = 1 THEN "scoring" ELSE "none",
             Move("FIX", {CEvent("M_FIX", 0)},
                  <<"L0C", b>> :> Tag("S", i, n),
                  <<"score", n>> :> Tag("S", i, n), {CEvent("FIX_M", b)}))>>

Qk(i) == FlattenSeq([n \in 1 .. Tiles[i].subtiles |-> QkSubtile(i, n)])

(* The products of a tile accumulate into one output tile.                 *)
PvSubtile(i, n) ==
    LET b == Stage(i, n)                        \* l0ABPingPongFlag
        t == (i - 1) % 2                        \* l1PPingPongFlag, l0CPingPongFlag
        first == n = 1
        last == n = Tiles[i].subtiles
        Only(c, events) == IF c THEN events ELSE {}
    IN <<Move("MTE1",
              {CEvent("M_MTE1", b)} \cup Only(first, {CEvent("MTE2_MTE1", t)}),
              <<"L1P", t>> :> Tag("P", i, 0),
              <<"L0A", b>> :> Tag("P", i, n),
              Only(last, {CEvent("MTE1_MTE2", t)})),
         Move("MTE1", {CEvent("M_MTE1", b + 2)},
              <<"L1V">> :> Tag("V", i, 0),
              <<"L0B", b>> :> Tag("V", i, n), {CEvent("MTE1_M", 0)}),
         Move("M",
              {CEvent("MTE1_M", 0)} \cup Only(first, {CEvent("FIX_M", t)}),
              <<"L0A", b>> :> Tag("P", i, n) @@ <<"L0B", b>> :> Tag("V", i, n)
                  @@ (IF first THEN None ELSE <<"L0C", t>> :> Tag("T", i, n - 1)),
              <<"L0C", t>> :> Tag("T", i, n),
              {CEvent("M_MTE1", b), CEvent("M_MTE1", b + 2)}
                  \cup Only(last, {CEvent("M_FIX", 0)}))>>

AwaitSoftmax == Marked("probTaken", Sync("S", FlagsOfAll("softmaxReady"), {}))

CopyProbability(i) ==
    LET t == (i - 1) % 2
    IN Marked("probRead",
           Move("MTE2", {CEvent("MTE1_MTE2", t)}, ProbabilityOf(i),
                <<"L1P", t>> :> Tag("P", i, 0), {CEvent("MTE2_MTE1", t)}))

(* A slip of the order: the copy is issued before the wait.                *)
TakeProbabilityEarly(i) == <<CopyProbability(i), AwaitSoftmax>>

TakeProbability(i) == <<AwaitSoftmax, CopyProbability(i)>>

(* Values are loaded before the scalar unit waits for the softmax.         *)
Pv(i) ==
    LET t == (i - 1) % 2
    IN <<Move("MTE2", {CEvent("MTE1_MTE2", 4)}, None,
              <<"L1V">> :> Tag("V", i, 0), {CEvent("MTE2_MTE1", 0)}),
         Sync("MTE1", {CEvent("MTE2_MTE1", 0)}, {})>>
       \o TakeProbability(i)
       \o FlattenSeq([n \in 1 .. Tiles[i].subtiles |-> PvSubtile(i, n)])
       \o <<Marked("multiplying",
                Move("FIX", {CEvent("M_FIX", 0)},
                     <<"L0C", t>> :> Tag("T", i, Tiles[i].subtiles),
                     <<"outputTmp">> :> Tag("T", i, 0), {CEvent("FIX_M", t)})),
            Sync("MTE1", {}, {CEvent("MTE1_MTE2", 4)})>>

(* A slip of the order: the flag is raised before the scores.              *)
CubeTileFlagFirst(i) ==
    (IF Tiles[i].first THEN LoadQuery(i) ELSE <<>>)
    \o <<Marked("scored", Sync("FIX", {}, FlagsOfAll("qkReady")))>>
    \o Qk(i) \o Pv(i)
    \o <<Marked("multiplied", Sync("FIX", {}, FlagsOfAll("pvReady")))>>

CubeTile(i) ==
    (IF Tiles[i].first THEN LoadQuery(i) ELSE <<>>)
    \o Qk(i)
    \o <<Marked("scored", Sync("FIX", {}, FlagsOfAll("qkReady")))>>
    \o Pv(i)
    \o <<Marked("multiplied", Sync("FIX", {}, FlagsOfAll("pvReady")))>>

InitCubeEvents ==
    <<Sync("M", {}, {CEvent("M_MTE1", e) : e \in 0 .. 7}),
      Sync("MTE1", {}, {CEvent("MTE1_MTE2", e) : e \in 0 .. 7}),
      Sync("FIX", {}, {CEvent("FIX_M", e) : e \in 0 .. 1})>>

(* A slip of the drain: the FIX_M events stay pending.                     *)
FinalizeCubeEventsPartly ==
    <<Sync("MTE1", {CEvent("M_MTE1", e) : e \in 0 .. 7}, {}),
      Sync("MTE2", {CEvent("MTE1_MTE2", e) : e \in 0 .. 7}, {})>>

FinalizeCubeEvents ==
    <<Sync("MTE1", {CEvent("M_MTE1", e) : e \in 0 .. 7}, {}),
      Sync("M", {CEvent("FIX_M", e) : e \in 0 .. 1}, {}),
      Sync("MTE2", {CEvent("MTE1_MTE2", e) : e \in 0 .. 7}, {})>>

CubeProgram ==
    InitCubeEvents \o FlattenSeq([i \in 1 .. TileCount |-> CubeTile(i)])
    \o FinalizeCubeEvents

-----------------------------------------------------------------------------
(* A Vector core's program: the online softmax of its rows in row loops,   *)
(* each load one loop ahead of its computation, then the rescale of its    *)
(* rows in a single pass, and the store after a span's last tile.          *)
LoadScore(v, i, r) ==
    LET p == (r - 1) % 2
    IN <<Marked(IF r = Tiles[i].rowLoops THEN "scoreRead" ELSE "none",
             Move("MTE2", {Event(v, "V_MTE2", p)}, ScoreOf(i),
                  <<v, "ls", p>> :> Tag("S", i, r), {Event(v, "MTE2_V", p)}))>>

SubCoreCompute(v, i, r) ==
    LET p == (r - 1) % 2
        ls == <<v, "ls", p>>
        lp == <<v, "lp", p>>
    IN <<Move("V", {Event(v, "MTE2_V", p)}, ls :> Tag("S", i, r),
              ls :> Tag("E", i, r), {}),
         Move("V", {Event(v, "MTE3_V", p)}, ls :> Tag("E", i, r),
              lp :> Tag("P", i, r), {Event(v, "V_MTE3", p)}),
         Move("V", {}, ls :> Tag("E", i, r), None, {Event(v, "V_MTE2", p)}),
         Marked(IF r = 1 THEN "publishing" ELSE "none",
             Move("MTE3", {Event(v, "V_MTE3", p)}, lp :> Tag("P", i, r),
                  <<"probability", v, r>> :> Tag("P", i, r),
                  {Event(v, "MTE3_V", p)}))>>

OnlineSoftmax(v, i) ==
    FlattenSeq([r \in 1 .. Tiles[i].rowLoops + 1 |->
        (IF r <= Tiles[i].rowLoops THEN LoadScore(v, i, r) ELSE <<>>)
        \o (IF r > 1 THEN SubCoreCompute(v, i, r - 1) ELSE <<>>)])
    \o <<Marked("published", Sync("MTE3", {}, {Flag(v, "softmaxReady")}))>>

(* The accumulator "go" takes the first tile as it is and adds the others. *)
AccumulateFirst(v, i) ==
    <<Marked("outRead",
          Move("MTE2", {Event(v, "MTE3_MTE2", 6)}, <<"outputTmp">> :> Tag("T", i, 0),
               <<v, "go">> :> Tag("O", i, 0), {Event(v, "MTE2_V", 0)})),
      Sync("V", {Event(v, "MTE2_V", 0)}, {})>>

AccumulateNext(v, i) ==
    LET go == <<v, "go">>
        lo == <<v, "lo">>
    IN <<Marked("outRead",
             Move("MTE2", {Event(v, "V_MTE2", 3)}, <<"outputTmp">> :> Tag("T", i, 0),
                  lo :> Tag("T", i, 0), {Event(v, "MTE2_V", 0)})),
         Sync("MTE2", {Event(v, "MTE3_MTE2", 6)}, {}),
         Move("V", {}, go :> Tag("O", i - 1, 0), go :> Tag("O", i, 1), {}),
         Move("V", {Event(v, "MTE2_V", 0)},
              go :> Tag("O", i, 1) @@ lo :> Tag("T", i, 0),
              go :> Tag("O", i, 0), {Event(v, "V_MTE2", 3)})>>

StoreOutput(v, i) ==
    LET go == <<v, "go">>
    IN <<Move("V", {}, go :> Tag("O", i, 0), go :> Tag("R", i, 0),
              {Event(v, "V_MTE3", 0)}),
         Move("MTE3", {Event(v, "V_MTE3", 0)}, go :> Tag("R", i, 0),
              <<"output", v, Tiles[i].span>> :> Tag("R", i, 0), {})>>

RescaleOutput(v, i) ==
    (IF Tiles[i].first THEN AccumulateFirst(v, i) ELSE AccumulateNext(v, i))
    \o (IF Tiles[i].last THEN StoreOutput(v, i) ELSE <<>>)
    \o <<Sync("MTE3", {}, {Event(v, "MTE3_MTE2", 6)})>>

VectorTile(v, i) ==
    <<Marked("scoreTaken", Sync("S", {Flag(v, "qkReady")}, {}))>>
    \o OnlineSoftmax(v, i)
    \o <<Marked("outTaken", Sync("S", {Flag(v, "pvReady")}, {}))>>
    \o RescaleOutput(v, i)

VectorTokens(v) ==
    [MTE3_V    |-> {Event(v, "MTE3_V", e) : e \in {0, 1, 2, 4}},
     MTE3_MTE2 |-> {Event(v, "MTE3_MTE2", e) : e \in 2 .. 6},
     V_MTE2    |-> {Event(v, "V_MTE2", e) : e \in 0 .. 3}]

(* A slip of the initial events: V_MTE2(EVENT_ID3) is forgotten.           *)
InitVectorEventsPartly(v) ==
    <<Sync("MTE3", {}, VectorTokens(v).MTE3_V \cup VectorTokens(v).MTE3_MTE2),
      Sync("V", {}, VectorTokens(v).V_MTE2 \ {Event(v, "V_MTE2", 3)})>>

InitVectorEvents(v) ==
    <<Sync("MTE3", {}, VectorTokens(v).MTE3_V \cup VectorTokens(v).MTE3_MTE2),
      Sync("V", {}, VectorTokens(v).V_MTE2)>>

FinalizeVectorEvents(v) ==
    <<Sync("MTE2", VectorTokens(v).MTE3_MTE2, {}),
      Sync("V", VectorTokens(v).MTE3_V, {}),
      Sync("MTE2", VectorTokens(v).V_MTE2, {})>>

VectorProgram(v) ==
    InitVectorEvents(v) \o FlattenSeq([i \in 1 .. TileCount |-> VectorTile(v, i)])
    \o FinalizeVectorEvents(v)

-----------------------------------------------------------------------------
LaunchProgram == (Cube :> CubeProgram) @@ [v \in Vectors |-> VectorProgram(v)]

CubePipes == {"S", "MTE2", "MTE1", "M", "FIX"}
VectorPipes == {"S", "MTE2", "V", "MTE3"}
Pipes == ({Cube} \X CubePipes) \cup (Vectors \X VectorPipes)

(***************************************************************************)
(* A pipe's queue is the core's program restricted to it; "after" is the   *)
(* number of waits of the scalar unit that precede an instruction and hold *)
(* it back.                                                                *)
(***************************************************************************)
QueueOf(program, pipe) ==
    LET waitsBefore(k) == Cardinality({j \in 1 .. k - 1 : program[j].pipe = "S"})
    IN FlattenSeq([k \in 1 .. Len(program) |->
           IF program[k].pipe = pipe
           THEN <<[op |-> program[k], after |-> waitsBefore(k)]>> ELSE <<>>])

LaunchQueue == [p \in Pipes |-> QueueOf(LaunchProgram[p[1]], p[2])]
=============================================================================
