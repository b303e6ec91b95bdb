----------------------------- MODULE MixProtocol -----------------------------
(***************************************************************************)
(* What the Cube and the Vector cores of one AI core promise each other    *)
(* while they work through the KV tiles of a launch: who owns the score,   *)
(* probability and output tiles they share in global memory.               *)
(*                                                                         *)
(* Each of the three tensors is a single buffer that the next tile reuses. *)
(* The only synchronisation between the cores are the three counting flags *)
(* qkReady, softmaxReady and pvReady; the rest of the argument is the      *)
(* order in which each core's own queues (pipes) execute its instructions. *)
(* A field counts the tiles for which the named event has happened; a      *)
(* write is two events, its begin and the flag that announces its end.     *)
(***************************************************************************)
EXTENDS Integers

CONSTANTS
    Vectors,        \* the Vector cores of the AI core
    TileCount       \* KV tiles processed by one launch on this core

(* Asked for by the theorems of TileProofs.                                *)
ProtocolAssumption == Vectors # {} /\ TileCount \in Nat

VARIABLES
    cube,           \* progress of the Cube
    vector,         \* progress of each Vector core
    flag            \* pending cross-core flags, per Vector core

protocolVars == <<cube, vector, flag>>

CubeEvents ==
    {"scoring", "scored",           \* score_ begun; qkReady set
     "probTaken", "probRead",       \* softmaxReady waited for; probability_ in L1
     "multiplying", "multiplied"}   \* outputTmp_ begun; pvReady set
VectorEvents ==
    {"scoreTaken", "scoreRead",     \* qkReady waited for; score_ in local memory
     "publishing", "published",     \* probability_ begun; softmaxReady set
     "outTaken", "outRead"}         \* pvReady waited for; outputTmp_ in local memory
Flags == {"qkReady", "softmaxReady", "pvReady"}

Advance(record, event) == [record EXCEPT ![event] = @ + 1]

CubeDoes(event) == cube' = Advance(cube, event)
VectorDoes(v, event) == vector' = [vector EXCEPT ![v] = Advance(@, event)]

(* The Cube signals every Vector core, and waits until all have signalled. *)
CubeSets(f) == flag' = [v \in Vectors |-> Advance(flag[v], f)]
CubeWaits(f) ==
    /\ \A v \in Vectors : flag[v][f] > 0
    /\ flag' = [v \in Vectors |-> [flag[v] EXCEPT ![f] = @ - 1]]
VectorSets(v, f) == flag' = [flag EXCEPT ![v] = Advance(@, f)]
VectorWaits(v, f) ==
    /\ flag[v][f] > 0
    /\ flag' = [flag EXCEPT ![v][f] = @ - 1]

ProtocolInit ==
    /\ cube = [e \in CubeEvents |-> 0]
    /\ vector = [v \in Vectors |-> [e \in VectorEvents |-> 0]]
    /\ flag = [v \in Vectors |-> [f \in Flags |-> 0]]

-----------------------------------------------------------------------------
(* The Cube. Scores and outputs leave through one in-order pipe (FIX), so  *)
(* they alternate; the flag that announces a write follows it on that pipe.*)

StartScore ==
    /\ cube["scoring"] < TileCount
    /\ cube["scoring"] = cube["multiplied"]
    /\ CubeDoes("scoring")
    /\ UNCHANGED <<vector, flag>>

FinishScore ==
    /\ cube["scored"] < cube["scoring"]
    /\ CubeDoes("scored")
    /\ CubeSets("qkReady")
    /\ UNCHANGED vector

TakeProbability ==
    /\ CubeWaits("softmaxReady")
    /\ CubeDoes("probTaken")
    /\ UNCHANGED vector

ReadProbability ==
    /\ cube["probRead"] < cube["probTaken"]
    /\ CubeDoes("probRead")
    /\ UNCHANGED <<vector, flag>>

StartOutput ==
    /\ cube["multiplying"] < cube["scored"]
    /\ cube["multiplying"] < cube["probRead"]
    /\ CubeDoes("multiplying")
    /\ UNCHANGED <<vector, flag>>

FinishOutput ==
    /\ cube["multiplied"] < cube["multiplying"]
    /\ CubeDoes("multiplied")
    /\ CubeSets("pvReady")
    /\ UNCHANGED vector

(* A Vector core. It waits for the two flags of a tile in turn; its reads  *)
(* share one in-order pipe (MTE2), so they alternate as well.              *)
TakeScore(v) ==
    /\ vector[v]["scoreTaken"] = vector[v]["outTaken"]
    /\ VectorWaits(v, "qkReady")
    /\ VectorDoes(v, "scoreTaken")
    /\ UNCHANGED cube

ReadScore(v) ==
    /\ vector[v]["scoreRead"] < vector[v]["scoreTaken"]
    /\ vector[v]["scoreRead"] = vector[v]["outRead"]
    /\ VectorDoes(v, "scoreRead")
    /\ UNCHANGED <<cube, flag>>

(* The first rows may be stored while the last are still being read.       *)
StartPublish(v) ==
    /\ vector[v]["publishing"] < vector[v]["scoreTaken"]
    /\ vector[v]["publishing"] = vector[v]["published"]
    /\ VectorDoes(v, "publishing")
    /\ UNCHANGED <<cube, flag>>

FinishPublish(v) ==
    /\ vector[v]["published"] < vector[v]["publishing"]
    /\ vector[v]["published"] < vector[v]["scoreRead"]
    /\ VectorDoes(v, "published")
    /\ VectorSets(v, "softmaxReady")
    /\ UNCHANGED cube

TakeOutput(v) ==
    /\ vector[v]["outTaken"] < vector[v]["scoreTaken"]
    /\ VectorWaits(v, "pvReady")
    /\ VectorDoes(v, "outTaken")
    /\ UNCHANGED cube

ReadOutput(v) ==
    /\ vector[v]["outRead"] < vector[v]["outTaken"]
    /\ vector[v]["outRead"] < vector[v]["scoreRead"]
    /\ VectorDoes(v, "outRead")
    /\ UNCHANGED <<cube, flag>>

CubeNext ==
    \/ StartScore \/ FinishScore \/ TakeProbability
    \/ ReadProbability \/ StartOutput \/ FinishOutput

VectorNext(v) ==
    \/ TakeScore(v) \/ ReadScore(v) \/ StartPublish(v)
    \/ FinishPublish(v) \/ TakeOutput(v) \/ ReadOutput(v)

ProtocolNext == CubeNext \/ \E v \in Vectors : VectorNext(v)

ProtocolSpec == ProtocolInit /\ [][ProtocolNext]_protocolVars

-----------------------------------------------------------------------------
(* Every counter is a natural number of tiles.                             *)
ProtocolTypeOK ==
    /\ cube \in [CubeEvents -> Nat]
    /\ vector \in [Vectors -> [VectorEvents -> Nat]]
    /\ flag \in [Vectors -> [Flags -> Nat]]

(* While a Vector core reads a tile's scores, score_ holds that tile and   *)
(* the Cube has not begun to write the next (fast path, qk and qkReady).   *)
ScoreStable ==
    \A v \in Vectors : vector[v]["scoreRead"] < vector[v]["scoreTaken"] =>
        /\ cube["scored"] = vector[v]["scoreRead"] + 1
        /\ cube["scoring"] = cube["scored"]

(* While the Cube reads a tile's probabilities, probability_ holds the     *)
(* rows of all Vector cores for that tile, and none has begun to overwrite *)
(* its rows (onlineSoftmax and softmaxReady).                              *)
ProbabilityStable ==
    cube["probRead"] < cube["probTaken"] =>
        \A v \in Vectors :
            /\ vector[v]["published"] = cube["probRead"] + 1
            /\ vector[v]["publishing"] = vector[v]["published"]

(* While a Vector core reads a tile's output, outputTmp_ holds that tile   *)
(* and the Cube has not begun to write the next (pv and pvReady).          *)
OutputStable ==
    \A v \in Vectors : vector[v]["outRead"] < vector[v]["outTaken"] =>
        /\ cube["multiplied"] = vector[v]["outRead"] + 1
        /\ cube["multiplying"] = cube["multiplied"]

(* No flag is ever raised twice before it is waited for: the cores stay    *)
(* within one tile of each other, far from the flag counters' limit.       *)
FlagsSingle == \A v \in Vectors, f \in Flags : flag[v][f] <= 1
=============================================================================
