---------------------------- MODULE PipelineProofs ----------------------------
(***************************************************************************)
(* What an order of the instructions implies of every interleaving of the  *)
(* pipes: of a launch with an ordered queue no two pipes race for a buffer,*)
(* every instruction reads what it was meant to, the events are drained,   *)
(* and the pipes never get stuck.  The depths of the events and flags and  *)
(* the length of the launch are arbitrary.                                 *)
(***************************************************************************)
EXTENDS MixPipeline, FiniteSetTheorems, WellFoundedInduction, TLAPS

(* The places the pipes have executed.                                     *)
Executed == {x \in Places(Queue) : x[2] <= done[x[1]]}

(* Places of one pipe.                                                     *)
InOnePipe(places) ==
    places \subseteq Places(Queue) /\ \A x, y \in places : x[1] = y[1]

-----------------------------------------------------------------------------
(* Queues and places.                                                      *)

LEMMA QueuePipes == DOMAIN Queue = Pipes
  BY QueueAssumption DEF LaunchQueue

(* A place is a pipe of the cores and a position in its queue.             *)
LEMMA PlaceFacts ==
    ASSUME Sequenced(Queue), NEW x
    PROVE  x \in Places(Queue) <=>
             \E p \in Pipes : \E i \in 1 .. Len(Queue[p]) : x = <<p, i>>
  BY QueuePipes DEF Places

LEMMA PlaceParts ==
    ASSUME Sequenced(Queue), NEW x \in Places(Queue)
    PROVE  /\ x[1] \in Pipes
           /\ x[2] \in 1 .. Len(Queue[x[1]])
           /\ x = <<x[1], x[2]>>
           /\ Len(Queue[x[1]]) \in Nat
  BY PlaceFacts, QueuePipes DEF Sequenced

(* The places of one pipe are finitely many.                               *)
LEMMA PipeFinite ==
    ASSUME Sequenced(Queue), NEW S, InOnePipe(S)
    PROVE  IsFiniteSet(S)
<1>1. CASE S = {}
  BY <1>1, FS_EmptySet
<1>2. CASE S # {}
  <2> PICK z \in S : TRUE
    BY <1>2
  <2>1. z \in Places(Queue) /\ Len(Queue[z[1]]) \in Nat
    BY PlaceParts DEF InOnePipe
  <2>2. IsFiniteSet({z[1]} \X (1 .. Len(Queue[z[1]])))
    <3>1. IsFiniteSet({z[1]})
      BY FS_Singleton
    <3>2. IsFiniteSet(1 .. Len(Queue[z[1]]))
      BY <2>1, FS_Interval
    <3> QED
      BY <3>1, <3>2, FS_Product
  <2>3. \A x \in S : x = <<z[1], x[2]>> /\ x[2] \in 1 .. Len(Queue[z[1]])
    BY PlaceParts DEF InOnePipe
  <2>4. S \subseteq {z[1]} \X (1 .. Len(Queue[z[1]]))
    BY <2>3
  <2> QED
    BY <2>2, <2>4, FS_Subset
<1> QED
  BY <1>1, <1>2

-----------------------------------------------------------------------------
(* Counting what a pipe has executed of some of its places.                *)

(* Every pipe has executed a part of its queue.                            *)
DoneOK == done \in [Pipes -> Nat] /\ \A p \in Pipes : done[p] <= Len(Queue[p])

Done(places) == Cardinality(places \cap Executed)

LEMMA DoneNatural ==
    ASSUME Sequenced(Queue), NEW S, InOnePipe(S)
    PROVE  /\ Done(S) \in Nat
           /\ IsFiniteSet(S \cap Executed)
  BY PipeFinite, FS_Subset, FS_CardinalityType DEF Done

LEMMA UpToFinite ==
    ASSUME Sequenced(Queue), NEW S, InOnePipe(S), NEW z
    PROVE  /\ IsFiniteSet({y \in S : y[2] <= z[2]})
           /\ Ordinal(z, S) \in Nat
  BY PipeFinite, FS_Subset, FS_CardinalityType DEF Ordinal

(* The next place of its pipe is numbered one more than was executed.      *)
LEMMA NextOrdinal ==
    ASSUME Sequenced(Queue), DoneOK, NEW S, InOnePipe(S), NEW z \in S,
           z[2] = done[z[1]] + 1
    PROVE  Ordinal(z, S) = Done(S) + 1
<1>1. \A y \in S : y[1] = z[1] /\ y[1] \in Pipes /\ y[2] \in Nat /\ y = <<y[1], y[2]>>
            /\ y \in Places(Queue)
  BY PlaceParts DEF InOnePipe
<1>2. done[z[1]] \in Nat
  BY <1>1 DEF DoneOK
<1>3. {y \in S : y[2] <= z[2]} = (S \cap Executed) \cup {z}
  <2>1. \A y \in S : y[2] <= z[2] <=> (y[2] <= done[z[1]] \/ y[2] = z[2])
    BY <1>1, <1>2
  <2>2. \A y \in S : y[2] = z[2] => y = z
    BY <1>1
  <2> QED
    BY <1>1, <2>1, <2>2 DEF Executed
<1>4. z \notin S \cap Executed
  BY <1>2 DEF Executed
<1> QED
  BY <1>3, <1>4, DoneNatural, FS_AddElement DEF Ordinal, Done

(* An executed place is among the executed ones.                           *)
LEMMA ExecutedOrdinal ==
    ASSUME Sequenced(Queue), DoneOK, NEW S, InOnePipe(S), NEW z \in S,
           z \in Executed
    PROVE  Ordinal(z, S) <= Done(S)
<1>1. \A y \in S : y[1] = z[1] /\ y[1] \in Pipes /\ y[2] \in Nat /\ y \in Places(Queue)
  BY PlaceParts DEF InOnePipe
<1>2. done[z[1]] \in Nat /\ z[2] <= done[z[1]]
  BY <1>1 DEF DoneOK, Executed
<1>3. {y \in S : y[2] <= z[2]} \subseteq S \cap Executed
  <2> SUFFICES ASSUME NEW y \in S, y[2] <= z[2] PROVE y \in Executed
    OBVIOUS
  <2>1. y[2] <= done[y[1]]
    BY <1>1, <1>2
  <2> QED
    BY <1>1, <2>1 DEF Executed
<1> QED
  BY <1>3, DoneNatural, FS_Subset DEF Ordinal, Done

(* A place still to execute is numbered above the executed ones.           *)
LEMMA OpenOrdinal ==
    ASSUME Sequenced(Queue), DoneOK, NEW S, InOnePipe(S), NEW z \in S,
           z \notin Executed
    PROVE  Done(S) < Ordinal(z, S)
<1>1. \A y \in S : y[1] = z[1] /\ y[1] \in Pipes /\ y[2] \in Nat /\ y \in Places(Queue)
  BY PlaceParts DEF InOnePipe
<1>2. done[z[1]] \in Nat /\ ~(z[2] <= done[z[1]])
  BY <1>1 DEF DoneOK, Executed
<1> DEFINE U == {y \in S : y[2] <= z[2]}
<1>3. S \cap Executed \subseteq U \ {z}
  <2> SUFFICES ASSUME NEW y \in S, y \in Executed PROVE y[2] <= z[2] /\ y # z
    OBVIOUS
  <2>1. y[2] <= done[z[1]]
    BY <1>1 DEF Executed
  <2> QED
    BY <1>1, <1>2, <2>1
<1>4. z \in U
  BY <1>1
<1>5. IsFiniteSet(U) /\ Cardinality(U) = Ordinal(z, S) /\ Ordinal(z, S) \in Nat
  BY UpToFinite DEF Ordinal
<1>6. IsFiniteSet(U \ {z}) /\ Cardinality(U \ {z}) = Ordinal(z, S) - 1
  BY <1>4, <1>5, FS_RemoveElement
<1>7. Done(S) <= Cardinality(U \ {z})
  BY <1>3, <1>6, FS_Subset DEF Done
<1>8. Done(S) \in Nat
  BY DoneNatural
<1> HIDE DEF U
<1> QED
  BY <1>5, <1>6, <1>7, <1>8

-----------------------------------------------------------------------------
(* The invariant.                                                          *)

(* What is pending of a token is what was set and not waited for.          *)
Counted ==
    /\ IsABag(pending)
    /\ \A e : Pending(e) = Done(SetsOf(Queue, e)) - Done(WaitsFor(Queue, e))

(* What a clock says comes before an executed place is executed.           *)
Clocked(clock) == \A x \in Executed, p \in Pipes : clock[x][p] <= done[p]

(* A buffer holds what its last executed writer put there.                 *)
LastWritten(clock) ==
    \A w \in Executed : \A b \in DOMAIN Writes(Queue, w) :
        (\A v \in WritersOf(Queue, b) \cap Executed : v = w \/ Before(clock, v, w))
            => content[b] = Writes(Queue, w)[b]

IInv(clock) == DoneOK /\ Counted /\ Clocked(clock) /\ LastWritten(clock)

(* The sets of a token are in one pipe, and so are its waits.              *)
LEMMA TokenPlaces ==
    ASSUME Sequenced(Queue), Paired(Queue), NEW e
    PROVE  /\ InOnePipe(SetsOf(Queue, e)) /\ InOnePipe(WaitsFor(Queue, e))
           /\ SetsOf(Queue, e) \cap WaitsFor(Queue, e) = {}
<1>1. CASE e \in TokensOf(Queue)
  BY <1>1 DEF Paired, InOnePipe, SetsOf, WaitsFor
<1>2. CASE e \notin TokensOf(Queue)
  BY <1>2 DEF TokensOf, InOnePipe, SetsOf, WaitsFor
<1> QED
  BY <1>1, <1>2

(* The place a pipe is to execute next.                                    *)
Here(p) == <<p, done[p] + 1>>

LEMMA HereFacts ==
    ASSUME Sequenced(Queue), DoneOK, NEW p \in Pipes, ~Finished(p)
    PROVE  /\ Here(p) \in Places(Queue) /\ Here(p) \notin Executed
           /\ At(Queue, Here(p)) = Current(p)
           /\ Here(p)[1] = p /\ Here(p)[2] = done[p] + 1
           /\ done[p] \in Nat
<1>1. done[p] \in Nat /\ Len(Queue[p]) \in Nat /\ done[p] <= Len(Queue[p])
  BY QueuePipes DEF DoneOK, Sequenced
<1>2. done[p] + 1 \in 1 .. Len(Queue[p])
  BY <1>1 DEF Finished
<1>3. Here(p) \in Places(Queue)
  BY <1>2, PlaceFacts DEF Here
<1> QED
  BY <1>1, <1>3 DEF Here, Executed, At, Current

(* Bags: the copies of a token.                                            *)
LEMMA PendingAfter ==
    ASSUME IsABag(pending), NEW waits, NEW sets, waits \cap sets = {},
           \A e \in waits : BagIn(e, pending),
           pending' = (pending (-) SetToBag(waits)) (+) SetToBag(sets)
    PROVE  /\ IsABag(pending')
           /\ \A e : Pending(e)' = IF e \in waits THEN Pending(e) - 1
                                   ELSE IF e \in sets THEN Pending(e) + 1
                                   ELSE Pending(e)
<1>1. \A e \in DOMAIN pending : pending[e] \in Nat /\ pending[e] > 0
  BY DEF IsABag
<1> DEFINE taken == [e \in DOMAIN pending |-> IF e \in waits THEN pending[e] - 1
                                                             ELSE pending[e]]
           rest == [e \in {d \in DOMAIN pending : taken[d] > 0} |-> taken[e]]
<1>2. pending (-) SetToBag(waits) = rest
  BY DEF (-), SetToBag
<1>3. pending' = [e \in DOMAIN rest \cup sets |->
           (IF e \in DOMAIN rest THEN rest[e] ELSE 0) + (IF e \in sets THEN 1 ELSE 0)]
  BY <1>2 DEF (+), SetToBag
<1>4. \A e \in DOMAIN rest : rest[e] \in Nat /\ rest[e] > 0
  BY <1>1
<1>5. \A e : Pending(e)' = (IF e \in DOMAIN rest THEN rest[e] ELSE 0)
                               + (IF e \in sets THEN 1 ELSE 0)
  BY <1>3, <1>4 DEF Pending, BagIn, BagToSet
<1>6. \A e : (IF e \in DOMAIN rest THEN rest[e] ELSE 0)
               = IF e \in waits THEN Pending(e) - 1 ELSE Pending(e)
  BY <1>1 DEF Pending, BagIn, BagToSet
<1>7. IsABag(pending')
  BY <1>3, <1>4 DEF IsABag
<1>8. \A e : Pending(e) \in Nat
  BY <1>1 DEF Pending, BagIn, BagToSet
<1>9. ASSUME NEW e
      PROVE  Pending(e)' = IF e \in waits THEN Pending(e) - 1
                           ELSE IF e \in sets THEN Pending(e) + 1
                           ELSE Pending(e)
  <2> DEFINE left == IF e \in DOMAIN rest THEN rest[e] ELSE 0
  <2>1. Pending(e)' = left + (IF e \in sets THEN 1 ELSE 0)
    BY <1>5
  <2>2. left = IF e \in waits THEN Pending(e) - 1 ELSE Pending(e)
    BY <1>6
  <2>3. Pending(e) \in Nat
    BY <1>8
  <2> HIDE DEF left
  <2>4. e \in waits => e \notin sets
    OBVIOUS
  <2> QED
    BY <2>1, <2>2, <2>3, <2>4
<1> QED
  BY <1>7, <1>9

LEMMA PendingNatural ==
    ASSUME IsABag(pending), NEW e
    PROVE  Pending(e) \in Nat /\ (BagIn(e, pending) <=> Pending(e) > 0)
  BY DEF IsABag, Pending, BagIn, BagToSet

-----------------------------------------------------------------------------
(* What an active pipe may rely on.                                        *)

(* Whatever precedes the instruction of an active pipe is executed.        *)
LEMMA PredecessorsExecuted ==
    ASSUME Sequenced(Queue), Paired(Queue), DoneOK, Counted,
           NEW p \in Pipes, Active(p)
    PROVE  Predecessors(Queue, Here(p)) \subseteq Executed
<1> DEFINE x == Here(p)
<1>1. /\ x \in Places(Queue) /\ At(Queue, x) = Current(p)
      /\ x[1] = p /\ x[2] = done[p] + 1 /\ done[p] \in Nat
  BY HereFacts DEF Active
<1> HIDE DEF x
<1> SUFFICES ASSUME NEW y \in Predecessors(Queue, x)
             PROVE  y \in Executed
  BY DEF x
<1>2. CASE y \in Places(Queue) /\ y = <<x[1], x[2] - 1>>
  BY <1>1, <1>2 DEF Executed
<1>3. CASE y \in Places(Queue) /\ y = ScalarWait(Queue, x)
  BY <1>1, <1>3 DEF Executed, ScalarWait, Active
<1>4. ASSUME NEW e \in Waits(Queue, x), y \in SetsTaken(Queue, x, e)
      PROVE  y \in Executed
  <2>1. /\ InOnePipe(SetsOf(Queue, e)) /\ InOnePipe(WaitsFor(Queue, e))
    BY TokenPlaces
  <2>2. x \in WaitsFor(Queue, e) /\ y \in SetsOf(Queue, e)
    BY <1>1, <1>4 DEF WaitsFor, SetsTaken
  <2>3. Ordinal(x, WaitsFor(Queue, e)) = Done(WaitsFor(Queue, e)) + 1
    BY <1>1, <2>1, <2>2, NextOrdinal
  <2>4. Pending(e) > 0
    BY <1>1, PendingNatural DEF Waits, Active, Counted
  <2>5. Done(WaitsFor(Queue, e)) \in Nat /\ Done(SetsOf(Queue, e)) \in Nat
    BY <2>1, DoneNatural
  <2>6. Pending(e) = Done(SetsOf(Queue, e)) - Done(WaitsFor(Queue, e))
    BY DEF Counted
  <2>7. Ordinal(y, SetsOf(Queue, e)) = Done(WaitsFor(Queue, e)) + 1
    BY <1>4, <2>3 DEF SetsTaken
  <2>8. ~(Done(SetsOf(Queue, e)) < Ordinal(y, SetsOf(Queue, e)))
    BY <2>4, <2>5, <2>6, <2>7
  <2> QED
    BY <1>1, <2>1, <2>2, <2>8, OpenOrdinal
<1> QED
  BY <1>2, <1>3, <1>4 DEF Predecessors

(* Its clock is passed.                                                    *)
LEMMA ActiveClock ==
    ASSUME NEW clock, Ordered(Queue, clock), DoneOK, Counted, Clocked(clock),
           NEW p \in Pipes, Active(p), NEW q \in Pipes
    PROVE  clock[Here(p)][q] <= done[q]
<1>1. Sequenced(Queue) /\ Paired(Queue) /\ Justified(Queue, clock)
  BY DEF Ordered
<1>2. Here(p) \in Places(Queue)
  BY <1>1, HereFacts DEF Active
<1>3. clock[Here(p)][q] \in Nat /\ done[q] \in Nat
  BY <1>2, QueuePipes DEF Ordered, DoneOK
<1>4. CASE clock[Here(p)][q] = 0
  BY <1>3, <1>4
<1>5. ASSUME NEW y \in Predecessors(Queue, Here(p)),
             clock[Here(p)][q] <= clock[y][q]
                 \/ (y[1] = q /\ clock[Here(p)][q] <= y[2])
      PROVE  clock[Here(p)][q] <= done[q]
  <2>1. y \in Executed
    BY <1>1, PredecessorsExecuted
  <2>2. clock[y][q] <= done[q] /\ clock[y][q] \in Nat
    BY <2>1, QueuePipes DEF Clocked, Executed, Ordered
  <2>3. y[2] <= done[y[1]] /\ y[2] \in Nat
    BY <1>1, <2>1, PlaceParts DEF Executed
  <2> QED
    BY <1>3, <1>5, <2>2, <2>3
<1> QED
  BY <1>1, <1>2, <1>4, <1>5, QueuePipes DEF Justified

-----------------------------------------------------------------------------
(* The invariant holds.                                                    *)

(* Nothing is executed at first.                                           *)
LEMMA NothingExecuted ==
    ASSUME Sequenced(Queue), Init
    PROVE  Executed = {} /\ \A S : Done(S) = 0
<1>1. Executed = {}
  <2> SUFFICES ASSUME NEW x \in Places(Queue), x[2] <= done[x[1]] PROVE FALSE
    BY DEF Executed
  <2>1. x[1] \in Pipes /\ x[2] \in 1 .. Len(Queue[x[1]]) /\ Len(Queue[x[1]]) \in Nat
    BY PlaceParts
  <2>2. done[x[1]] = 0
    BY <2>1 DEF Init
  <2> QED
    BY <2>1, <2>2
<1> QED
  BY <1>1, FS_EmptySet DEF Done

LEMMA InitInv ==
    ASSUME NEW clock, Ordered(Queue, clock), Init
    PROVE  IInv(clock)
<1>1. Sequenced(Queue)
  BY DEF Ordered
<1>2. \A p \in Pipes : Len(Queue[p]) \in Nat
  BY <1>1, QueuePipes DEF Sequenced
<1>3. DoneOK
  BY <1>2 DEF Init, DoneOK
<1>4. Executed = {} /\ \A S : Done(S) = 0
  BY <1>1, NothingExecuted
<1>5. pending = EmptyBag
  BY DEF Init
<1>6. IsABag(pending) /\ \A e : Pending(e) = 0
  BY <1>5 DEF IsABag, Pending, BagIn, BagToSet, EmptyBag, SetToBag
<1> QED
  BY <1>3, <1>4, <1>6 DEF IInv, Counted, Clocked, LastWritten

(* A place joins the executed ones.                                        *)
LEMMA DoneAfter ==
    ASSUME Sequenced(Queue), NEW S, InOnePipe(S), NEW p \in Pipes,
           Here(p) \notin Executed, Executed' = Executed \cup {Here(p)}
    PROVE  Done(S)' = IF Here(p) \in S THEN Done(S) + 1 ELSE Done(S)
<1>1. CASE Here(p) \in S
  <2>1. S \cap Executed' = (S \cap Executed) \cup {Here(p)}
    BY <1>1
  <2>2. Here(p) \notin S \cap Executed
    OBVIOUS
  <2> QED
    BY <1>1, <2>1, <2>2, DoneNatural, FS_AddElement DEF Done
<1>2. CASE Here(p) \notin S
  <2>1. S \cap Executed' = S \cap Executed
    BY <1>2
  <2> QED
    BY <1>2, <2>1 DEF Done
<1> QED
  BY <1>1, <1>2

(* Executing the next instruction of a pipe.                               *)
LEMMA ExecutedAfter ==
    ASSUME Sequenced(Queue), DoneOK, NEW p \in Pipes, Execute(p)
    PROVE  Executed' = Executed \cup {Here(p)}
<1>1. Here(p) \in Places(Queue) /\ Here(p)[2] = done[p] + 1 /\ done[p] \in Nat
  BY HereFacts DEF Execute, CanFinish, Active
<1>2. \A q \in Pipes : done[q] \in Nat /\ done'[q] = IF q = p THEN done[p] + 1 ELSE done[q]
  BY DEF Execute, DoneOK
<1>3. ASSUME NEW y \in Places(Queue)
      PROVE  y[2] <= done'[y[1]] <=> (y[2] <= done[y[1]] \/ y = Here(p))
  <2>1. y[1] \in Pipes /\ y[2] \in Nat /\ y = <<y[1], y[2]>>
    BY PlaceParts
  <2>2. CASE y[1] = p
    <3>1. y[2] <= done[p] + 1 <=> (y[2] <= done[p] \/ y[2] = done[p] + 1)
      BY <1>1, <2>1
    <3> QED
      BY <1>2, <2>1, <2>2, <3>1 DEF Here
  <2>3. CASE y[1] # p
    BY <1>1, <1>2, <2>1, <2>3 DEF Here
  <2> QED
    BY <2>2, <2>3
<1> QED
  BY <1>1, <1>3 DEF Executed

LEMMA StepInv ==
    ASSUME NEW clock, Ordered(Queue, clock), IInv(clock),
           NEW p \in Pipes, Execute(p)
    PROVE  IInv(clock)'
<1> DEFINE op == Current(p).op
<1>1. /\ Sequenced(Queue) /\ Paired(Queue) /\ DoneOK /\ Counted /\ Clocked(clock)
      /\ LastWritten(clock) /\ Active(p) /\ ~Finished(p)
  BY DEF Ordered, IInv, Execute, CanFinish, Active
<1>2. /\ Here(p) \in Places(Queue) /\ Here(p) \notin Executed
      /\ At(Queue, Here(p)) = Current(p)
      /\ Here(p)[1] = p /\ Here(p)[2] = done[p] + 1 /\ done[p] \in Nat
  BY <1>1, HereFacts
<1>3. /\ done' = [done EXCEPT ![p] = @ + 1]
      /\ pending' = (pending (-) SetToBag(op.waits)) (+) SetToBag(op.sets)
      /\ content' = [b \in Buffers |->
             IF b \in DOMAIN op.writes THEN op.writes[b] ELSE content[b]]
  BY DEF Execute
<1>4. \A q \in Pipes : done[q] \in Nat /\ done'[q] = IF q = p THEN done[p] + 1 ELSE done[q]
  BY <1>1, <1>3 DEF DoneOK
<1>5. DoneOK'
  <2>1. done[p] + 1 <= Len(Queue[p])
    BY <1>1, <1>2, PlaceParts
  <2>2. done' \in [Pipes -> Nat]
    BY <1>1, <1>3, <1>4 DEF DoneOK
  <2> QED
    BY <1>1, <1>4, <2>1, <2>2 DEF DoneOK
<1>6. Executed' = Executed \cup {Here(p)}
  BY <1>1, ExecutedAfter
<1>7. op.waits = Waits(Queue, Here(p)) /\ op.sets = Sets(Queue, Here(p))
      /\ op.writes = Writes(Queue, Here(p))
  BY <1>2 DEF Waits, Sets, Writes
<1> HIDE DEF op
<1>8. Counted'
  <2>1. op.waits \cap op.sets = {}
    <3> SUFFICES ASSUME NEW e \in op.waits, e \in op.sets PROVE FALSE
      OBVIOUS
    <3>1. Here(p) \in SetsOf(Queue, e) \cap WaitsFor(Queue, e)
      BY <1>2, <1>7 DEF SetsOf, WaitsFor
    <3> QED
      BY <1>1, <3>1, TokenPlaces
  <2>2. \A e \in op.waits : BagIn(e, pending)
    BY <1>1 DEF Active, op
  <2>3. /\ IsABag(pending')
        /\ \A e : Pending(e)' = IF e \in op.waits THEN Pending(e) - 1
                                ELSE IF e \in op.sets THEN Pending(e) + 1
                                ELSE Pending(e)
    BY <1>1, <1>3, <2>1, <2>2, PendingAfter DEF Counted
  <2>4. ASSUME NEW e
        PROVE  Pending(e)' = Done(SetsOf(Queue, e))' - Done(WaitsFor(Queue, e))'
    <3> DEFINE S == SetsOf(Queue, e)
               W == WaitsFor(Queue, e)
    <3>1. InOnePipe(S) /\ InOnePipe(W)
      BY <1>1, TokenPlaces
    <3>2. (Here(p) \in S <=> e \in op.sets) /\ (Here(p) \in W <=> e \in op.waits)
      BY <1>2, <1>7 DEF SetsOf, WaitsFor
    <3>3. Done(S) \in Nat /\ Done(W) \in Nat /\ Pending(e) = Done(S) - Done(W)
      BY <1>1, <3>1, DoneNatural DEF Counted
    <3> HIDE DEF S, W
    <3>4. Done(S)' = IF Here(p) \in S THEN Done(S) + 1 ELSE Done(S)
      BY <1>1, <1>2, <1>6, <3>1, DoneAfter
    <3>5. Done(W)' = IF Here(p) \in W THEN Done(W) + 1 ELSE Done(W)
      BY <1>1, <1>2, <1>6, <3>1, DoneAfter
    <3>6. Pending(e)' = Done(S)' - Done(W)'
      BY <2>1, <2>3, <3>2, <3>3, <3>4, <3>5
    <3> QED
      BY <3>6 DEF S, W
  <2> QED
    BY <2>3, <2>4 DEF Counted
<1>9. Clocked(clock)'
  <2> SUFFICES ASSUME NEW y \in Executed', NEW q \in Pipes
               PROVE  clock[y][q] <= done'[q]
    BY DEF Clocked
  <2>1. clock[y][q] \in Nat
    BY <1>1, <1>2, <1>6, QueuePipes DEF Ordered, Executed
  <2>2. clock[y][q] <= done[q]
    BY <1>1, <1>6, ActiveClock DEF Clocked
  <2> QED
    BY <1>4, <2>1, <2>2
<1>10. LastWritten(clock)'
  <2> SUFFICES ASSUME NEW w \in Executed', NEW b \in DOMAIN Writes(Queue, w),
                      \A v \in WritersOf(Queue, b) \cap Executed' :
                          v = w \/ Before(clock, v, w)
               PROVE  content'[b] = Writes(Queue, w)[b]
    BY DEF LastWritten
  <2>1. w \in Places(Queue) /\ b \in Buffers
    BY <1>2, <1>6 DEF Executed, Buffers
  <2>2. content'[b] = IF b \in DOMAIN Writes(Queue, Here(p))
                      THEN Writes(Queue, Here(p))[b] ELSE content[b]
    BY <1>3, <1>7, <2>1
  <2>3. CASE w = Here(p)
    BY <2>2, <2>3
  <2>4. CASE w # Here(p)
    <3>1. w \in Executed
      BY <1>6, <2>4
    <3>2. b \notin DOMAIN Writes(Queue, Here(p))
      <4> SUFFICES ASSUME b \in DOMAIN Writes(Queue, Here(p)) PROVE FALSE
        OBVIOUS
      <4>1. Before(clock, Here(p), w)
        BY <1>2, <1>6, <2>4 DEF WritersOf
      <4>2. clock[w][p] <= done[p] /\ clock[w][p] \in Nat
        BY <1>1, <2>1, <3>1, QueuePipes DEF Clocked, Ordered
      <4> QED
        BY <1>2, <4>1, <4>2 DEF Before
    <3>3. \A v \in WritersOf(Queue, b) \cap Executed : v = w \/ Before(clock, v, w)
      BY <1>6
    <3> QED
      BY <1>1, <2>2, <3>1, <3>2, <3>3 DEF LastWritten
  <2> QED
    BY <2>3, <2>4
<1> QED
  BY <1>5, <1>8, <1>9, <1>10 DEF IInv

(* A step is an instruction of some pipe.                                  *)
LEMMA NextExecutes == Next => \E p \in Pipes : Execute(p)
  BY DEF Next, CubeStep, VectorStep, Pipes

LEMMA InvHolds ==
    ASSUME NEW clock, Ordered(Queue, clock)
    PROVE  Spec => []IInv(clock)
<1>1. Init => IInv(clock)
  BY InitInv
<1>2. IInv(clock) /\ [Next]_vars => IInv(clock)'
  <2>1. IInv(clock) /\ Next => IInv(clock)'
    BY NextExecutes, StepInv
  <2>2. IInv(clock) /\ UNCHANGED vars => IInv(clock)'
    BY DEF IInv, DoneOK, Counted, Clocked, LastWritten, Executed, Done, Pending, vars
  <2> QED
    BY <2>1, <2>2
<1> QED
  BY <1>1, <1>2, PTL DEF Spec

-----------------------------------------------------------------------------
(* What the invariant says of an active pipe.                              *)

(* What is before an active instruction is executed.                       *)
LEMMA BeforeActive ==
    ASSUME NEW clock, Ordered(Queue, clock), IInv(clock),
           NEW p \in Pipes, Active(p),
           NEW x \in Places(Queue), Before(clock, x, Here(p))
    PROVE  x \in Executed
<1>1. Sequenced(Queue)
  BY DEF Ordered
<1>2. x[1] \in Pipes /\ x[2] \in Nat
  BY <1>1, PlaceParts
<1>3. clock[Here(p)][x[1]] <= done[x[1]]
  BY <1>2, ActiveClock DEF IInv
<1>4. Here(p) \in Places(Queue)
  BY <1>1, HereFacts DEF IInv, Active
<1>5. clock[Here(p)][x[1]] \in Nat /\ done[x[1]] \in Nat
  BY <1>2, <1>4, QueuePipes DEF Ordered, IInv, DoneOK
<1> QED
  BY <1>2, <1>3, <1>5 DEF Before, Executed

(* What is before an executed instruction is executed.                     *)
LEMMA BeforeExecuted ==
    ASSUME NEW clock, Ordered(Queue, clock), IInv(clock),
           NEW y \in Executed, NEW x \in Places(Queue), Before(clock, x, y)
    PROVE  x \in Executed
<1>1. Sequenced(Queue)
  BY DEF Ordered
<1>2. x[1] \in Pipes /\ x[2] \in Nat
  BY <1>1, PlaceParts
<1>3. clock[y][x[1]] <= done[x[1]]
  BY <1>2 DEF IInv, Clocked
<1>4. clock[y][x[1]] \in Nat /\ done[x[1]] \in Nat
  BY <1>2, QueuePipes DEF Ordered, IInv, DoneOK, Executed
<1> QED
  BY <1>2, <1>3, <1>4 DEF Before, Executed

LEMMA NoRaceHolds ==
    ASSUME NEW clock, Ordered(Queue, clock), IInv(clock)
    PROVE  NoRace
<1> SUFFICES ASSUME NEW p \in Pipes, NEW q \in Pipes, Active(p), Active(q), p # q
             PROVE  DOMAIN Current(p).op.writes
                      \cap (DOMAIN Current(q).op.reads \cup DOMAIN Current(q).op.writes) = {}
  BY DEF NoRace
<1>1. Sequenced(Queue) /\ DoneOK /\ ~Finished(p) /\ ~Finished(q)
  BY DEF Ordered, IInv, Active
<1>2. /\ Here(p) \in Places(Queue) /\ Here(p) \notin Executed
      /\ Here(q) \in Places(Queue) /\ Here(q) \notin Executed
      /\ At(Queue, Here(p)) = Current(p) /\ At(Queue, Here(q)) = Current(q)
      /\ Here(p)[1] = p /\ Here(q)[1] = q
  BY <1>1, HereFacts
<1>3. ~Before(clock, Here(p), Here(q)) /\ ~Before(clock, Here(q), Here(p))
  BY <1>2, BeforeActive
<1> QED
  BY <1>2, <1>3 DEF Ordered, AccessesOrdered, Reads, Writes

LEMMA ReadsHold ==
    ASSUME NEW clock, Ordered(Queue, clock), IInv(clock)
    PROVE  ReadsOwnTile
<1> SUFFICES ASSUME NEW p \in Pipes, Active(p), NEW b \in DOMAIN Current(p).op.reads
             PROVE  content[b] = Current(p).op.reads[b]
  BY DEF ReadsOwnTile
<1>1. Sequenced(Queue) /\ DoneOK /\ ~Finished(p) /\ LastWritten(clock)
  BY DEF Ordered, IInv, Active
<1>2. /\ Here(p) \in Places(Queue) /\ Here(p) \notin Executed
      /\ Reads(Queue, Here(p)) = Current(p).op.reads
  BY <1>1, HereFacts DEF Reads
<1>3. PICK w \in WritersOf(Queue, b) :
          /\ Writes(Queue, w)[b] = Reads(Queue, Here(p))[b]
          /\ Before(clock, w, Here(p))
          /\ \A v \in WritersOf(Queue, b) \ {w, Here(p)} :
                Before(clock, v, w) \/ Before(clock, Here(p), v)
  BY <1>2 DEF Ordered, ReadsSourced
<1>4. w \in Executed /\ b \in DOMAIN Writes(Queue, w)
  BY <1>3, BeforeActive DEF WritersOf
<1>5. ASSUME NEW v \in WritersOf(Queue, b) \cap Executed
      PROVE  v = w \/ Before(clock, v, w)
  <2>1. ~Before(clock, Here(p), v)
    BY <1>2, BeforeExecuted
  <2> QED
    BY <1>2, <1>3, <2>1
<1> QED
  BY <1>1, <1>2, <1>3, <1>4, <1>5 DEF LastWritten

LEMMA DrainedHolds ==
    ASSUME NEW clock, Ordered(Queue, clock), IInv(clock)
    PROVE  EventsDrained
<1> SUFFICES ASSUME AllFinished PROVE pending = EmptyBag
  BY DEF EventsDrained
<1>1. Sequenced(Queue) /\ Paired(Queue) /\ DoneOK /\ Counted
  BY DEF Ordered, IInv
<1>2. Executed = Places(Queue)
  <2> SUFFICES ASSUME NEW x \in Places(Queue) PROVE x[2] <= done[x[1]]
    BY DEF Executed
  <2>1. x[1] \in Pipes /\ x[2] \in 1 .. Len(Queue[x[1]]) /\ Len(Queue[x[1]]) \in Nat
    BY <1>1, PlaceParts
  <2> QED
    BY <2>1 DEF AllFinished, Finished
<1>3. ASSUME NEW e PROVE Pending(e) = 0
  <2>1. SetsOf(Queue, e) \cap Executed = SetsOf(Queue, e)
        /\ WaitsFor(Queue, e) \cap Executed = WaitsFor(Queue, e)
    BY <1>2 DEF SetsOf, WaitsFor
  <2>2. Done(SetsOf(Queue, e)) = Done(WaitsFor(Queue, e))
    <3>1. CASE e \in TokensOf(Queue)
      BY <1>1, <2>1, <3>1 DEF Paired, Done
    <3>2. CASE e \notin TokensOf(Queue)
      <4>1. SetsOf(Queue, e) = {} /\ WaitsFor(Queue, e) = {}
        BY <3>2 DEF TokensOf, SetsOf, WaitsFor
      <4> QED
        BY <4>1 DEF Done
    <3> QED
      BY <3>1, <3>2
  <2>3. Done(SetsOf(Queue, e)) \in Nat
    BY <1>1, TokenPlaces, DoneNatural
  <2> QED
    BY <1>1, <2>2, <2>3 DEF Counted
<1>4. DOMAIN pending = {}
  <2> SUFFICES ASSUME NEW e \in DOMAIN pending PROVE FALSE
    OBVIOUS
  <2>1. Pending(e) > 0
    BY <1>1, PendingNatural DEF Counted, BagIn, BagToSet
  <2> QED
    BY <1>3, <2>1
<1> QED
  BY <1>1, <1>4 DEF Counted, IsABag, EmptyBag, SetToBag

-----------------------------------------------------------------------------
(* Nothing gets stuck.                                                     *)

(* The room assumed of a token is there on every hardware of EventDepths.  *)
HasRoom(room) ==
    \A e \in Tokens :
        /\ room[e] \in Nat
        /\ IF e[2] \in {"qkReady", "softmaxReady", "pvReady"} THEN room[e] <= FlagDepth
           ELSE \A d \in EventDepths : room[e] <= d

NeverStuck == AllFinished \/ \E p \in Pipes : CanFinish(p)

(* Some open place has no open place of a lower rank.                      *)
LEMMA LowestOpen ==
    ASSUME NEW room, NEW rank, Ranked(Queue, room, rank),
           NEW open, open # {}, open \subseteq Places(Queue)
    PROVE  \E x \in open : \A y \in open : ~(rank[y] < rank[x])
<1> DEFINE T == {rank[x] : x \in open}
<1>1. T \subseteq Nat /\ T # {}
  BY DEF Ranked
<1> HIDE DEF T
<1>2. PICK n \in T : \A m \in T : ~(<<m, n>> \in OpToRel(<, Nat))
  BY <1>1, WFMin, NatLessThanWellFounded, Zenon
<1>3. \A m \in T : ~(m < n)
  BY <1>1, <1>2 DEF OpToRel
<1> QED
  BY <1>3 DEF T

(* A place whose predecessors are executed is the next of its pipe, which  *)
(* is active.                                                              *)
LEMMA LowestActive ==
    ASSUME NEW room, NEW rank, Sequenced(Queue), Paired(Queue),
           Ranked(Queue, room, rank), DoneOK, Counted,
           NEW x \in Places(Queue), x \notin Executed,
           Predecessors(Queue, x) \subseteq Executed
    PROVE  x = Here(x[1]) /\ x[1] \in Pipes /\ Active(x[1])
<1> DEFINE p == x[1]
<1>1. p \in Pipes /\ x[2] \in 1 .. Len(Queue[p]) /\ x = <<p, x[2]>> /\ Len(Queue[p]) \in Nat
  BY PlaceParts
<1>2. done[p] \in Nat /\ done[p] < x[2]
  BY <1>1 DEF DoneOK, Executed
<1>3. x[2] <= done[p] + 1
  <2>1. CASE x[2] = 1
    BY <1>2, <2>1
  <2>2. CASE x[2] # 1
    <3>1. <<p, x[2] - 1>> \in Places(Queue)
      <4>1. x[2] - 1 \in 1 .. Len(Queue[p])
        BY <1>1, <2>2
      <4> QED
        BY <1>1, <4>1, PlaceFacts
    <3>2. <<p, x[2] - 1>> \in Executed
      BY <3>1 DEF Predecessors
    <3> QED
      BY <1>1, <1>2, <3>2 DEF Executed
  <2> QED
    BY <2>1, <2>2
<1>4. x = Here(p) /\ ~Finished(p)
  BY <1>1, <1>2, <1>3 DEF Here, Finished
<1>5. At(Queue, x) = Current(p)
  BY <1>1, <1>4, HereFacts
<1> HIDE DEF p
<1>6. Current(p).after <= done[<<p[1], "S">>]
  <2>1. <<p[1], "S">> \in Pipes
    BY <1>1 DEF Pipes, CubePipes, VectorPipes
  <2>2. done[<<p[1], "S">>] \in Nat
    BY <2>1 DEF DoneOK
  <2>3. CASE At(Queue, x).after = 0
    BY <1>5, <2>2, <2>3
  <2>4. CASE At(Queue, x).after # 0
    <3>1. ScalarWait(Queue, x) \in Executed
      BY <2>4 DEF Ranked, Predecessors
    <3> QED
      BY <1>5, <3>1 DEF Executed, ScalarWait, p
  <2> QED
    BY <2>3, <2>4
<1>7. ASSUME NEW e \in Current(p).op.waits
      PROVE  BagIn(e, pending)
  <2>1. e \in Waits(Queue, x) /\ x \in WaitsFor(Queue, e)
    BY <1>5 DEF Waits, WaitsFor
  <2>2. InOnePipe(SetsOf(Queue, e)) /\ InOnePipe(WaitsFor(Queue, e))
    BY TokenPlaces
  <2>3. PICK y \in SetsTaken(Queue, x, e) : TRUE
    BY <2>1 DEF Ranked
  <2>4. y \in Executed /\ y \in SetsOf(Queue, e)
    BY <2>1, <2>3 DEF Predecessors, SetsTaken
  <2>5. Ordinal(y, SetsOf(Queue, e)) <= Done(SetsOf(Queue, e))
    BY <2>2, <2>4, ExecutedOrdinal
  <2>6. Done(WaitsFor(Queue, e)) < Ordinal(x, WaitsFor(Queue, e))
    BY <2>1, <2>2, OpenOrdinal
  <2>7. Ordinal(y, SetsOf(Queue, e)) = Ordinal(x, WaitsFor(Queue, e))
    BY <2>3 DEF SetsTaken
  <2>8. /\ Done(SetsOf(Queue, e)) \in Nat /\ Done(WaitsFor(Queue, e)) \in Nat
        /\ Ordinal(x, WaitsFor(Queue, e)) \in Nat
    BY <2>2, DoneNatural, UpToFinite
  <2>9. Pending(e) = Done(SetsOf(Queue, e)) - Done(WaitsFor(Queue, e))
    BY DEF Counted
  <2>10. Pending(e) > 0
    BY <2>5, <2>6, <2>7, <2>8, <2>9
  <2> QED
    BY <2>10, PendingNatural DEF Counted
<1> QED
  BY <1>1, <1>4, <1>6, <1>7 DEF Active, p

(* The room its sets need is there.                                        *)
LEMMA LowestFinishes ==
    ASSUME NEW room, NEW rank, Sequenced(Queue), Paired(Queue), HasRoom(room),
           Ranked(Queue, room, rank), DoneOK, Counted, eventDepth \in EventDepths,
           NEW p \in Pipes, Active(p),
           \A y \in Places(Queue) : rank[y] < rank[Here(p)] => y \in Executed
    PROVE  CanFinish(p)
<1> DEFINE x == Here(p)
<1>1. /\ x \in Places(Queue) /\ x \notin Executed /\ At(Queue, x) = Current(p)
      /\ x[1] = p /\ x[2] = done[x[1]] + 1
  BY HereFacts DEF Active
<1> SUFFICES ASSUME NEW e \in Current(p).op.sets
             PROVE  Pending(e) < Depth(e)
  BY DEF CanFinish
<1>2. e \in Sets(Queue, x) /\ x \in SetsOf(Queue, e) /\ e \in Tokens
  BY <1>1 DEF Sets, SetsOf, Tokens, TokensOf
<1>3. room[e] \in Nat /\ room[e] <= Depth(e) /\ Depth(e) \in Nat
  BY <1>2, DepthAssumption DEF HasRoom, Depth
<1>4. InOnePipe(SetsOf(Queue, e)) /\ InOnePipe(WaitsFor(Queue, e))
  BY TokenPlaces
<1> HIDE DEF x
<1>5. Ordinal(x, SetsOf(Queue, e)) = Done(SetsOf(Queue, e)) + 1
  BY <1>1, <1>2, <1>4, NextOrdinal
<1>6. Done(SetsOf(Queue, e)) \in Nat /\ Done(WaitsFor(Queue, e)) \in Nat
      /\ Pending(e) = Done(SetsOf(Queue, e)) - Done(WaitsFor(Queue, e))
  BY <1>4, DoneNatural DEF Counted
<1>7. CASE Ordinal(x, SetsOf(Queue, e)) <= room[e]
  BY <1>3, <1>5, <1>6, <1>7
<1>8. CASE \E y \in RoomMakers(Queue, x, e, room[e]) : rank[y] < rank[x]
  <2>1. PICK y \in RoomMakers(Queue, x, e, room[e]) : rank[y] < rank[x]
    BY <1>8
  <2>2. /\ y \in WaitsFor(Queue, e) /\ y \in Places(Queue)
        /\ Ordinal(x, SetsOf(Queue, e)) = Ordinal(y, WaitsFor(Queue, e)) + room[e]
    BY <2>1 DEF RoomMakers, WaitsFor
  <2>3. y \in Executed
    BY <2>1, <2>2 DEF x
  <2>4. Ordinal(y, WaitsFor(Queue, e)) <= Done(WaitsFor(Queue, e))
        /\ Ordinal(y, WaitsFor(Queue, e)) \in Nat
    BY <1>4, <2>2, <2>3, ExecutedOrdinal, UpToFinite
  <2> QED
    BY <1>3, <1>5, <1>6, <2>2, <2>4
<1> QED
  BY <1>1, <1>2, <1>7, <1>8 DEF Ranked

LEMMA NotStuck ==
    ASSUME NEW clock, NEW room, NEW rank, Ordered(Queue, clock), IInv(clock),
           HasRoom(room), Ranked(Queue, room, rank), eventDepth \in EventDepths
    PROVE  NeverStuck
<1> DEFINE open == Places(Queue) \ Executed
<1>1. Sequenced(Queue) /\ Paired(Queue) /\ DoneOK /\ Counted
  BY DEF Ordered, IInv
<1>2. CASE open = {}
  <2>1. ASSUME NEW p \in Pipes, ~Finished(p) PROVE FALSE
    BY <1>1, <1>2, <2>1, HereFacts
  <2> QED
    BY <2>1 DEF NeverStuck, AllFinished
<1>3. CASE open # {}
  <2>1. PICK x \in open : \A y \in open : ~(rank[y] < rank[x])
    BY <1>3, LowestOpen
  <2>2. \A y \in Places(Queue) : rank[y] < rank[x] => y \in Executed
    BY <2>1
  <2>3. Predecessors(Queue, x) \subseteq Executed
    <3>1. Predecessors(Queue, x) \subseteq Places(Queue)
      BY DEF Predecessors, SetsTaken, SetsOf
    <3> QED
      BY <2>1, <2>2, <3>1 DEF Ranked
  <2>4. x = Here(x[1]) /\ x[1] \in Pipes /\ Active(x[1])
    BY <1>1, <2>1, <2>3, LowestActive
  <2>5. CanFinish(x[1])
    BY <1>1, <2>2, <2>4, LowestFinishes
  <2> QED
    BY <2>4, <2>5 DEF NeverStuck
<1> QED
  BY <1>2, <1>3

-----------------------------------------------------------------------------
(* The protocol of the shared tiles.                                       *)

FlagNames == {"qkReady", "softmaxReady", "pvReady"}
FlagTokensAll == FlagTokens(Vectors, FlagNames)

(* What the guards of a core ask of its places.                            *)
LEMMA GuardFacts ==
    ASSUME NEW clock, NEW core, NEW guards, NEW partners,
           KeepsGuards(Queue, clock, core, guards, Vectors, partners)
    PROVE  /\ \A x \in Places(Queue) : x[1][1] = core =>
                 IF At(Queue, x).op.mark = "none"
                 THEN (At(Queue, x).op.waits \cup At(Queue, x).op.sets) \cap FlagTokensAll = {}
                 ELSE /\ At(Queue, x).op.mark \in DOMAIN guards
                      /\ At(Queue, x).op.waits \cap FlagTokensAll
                            = FlagTokens(partners, guards[At(Queue, x).op.mark].takes)
                      /\ At(Queue, x).op.sets \cap FlagTokensAll
                            = FlagTokens(partners, guards[At(Queue, x).op.mark].gives)
           /\ \A m \in DOMAIN guards :
                 /\ MarkedAt(Queue, core, m) # {}
                 /\ InOnePipe(MarkedAt(Queue, core, m))
                 /\ \A x \in MarkedAt(Queue, core, m) :
                       /\ \A n \in guards[m].more :
                             AtMost(clock, MarkedAt(Queue, core, m), x)
                                 < AtLeast(clock, MarkedAt(Queue, core, n), x)
                       /\ \A n \in guards[m].same :
                             /\ AtMost(clock, MarkedAt(Queue, core, m), x)
                                    <= AtLeast(clock, MarkedAt(Queue, core, n), x)
                             /\ AtMost(clock, MarkedAt(Queue, core, n), x)
                                    <= AtLeast(clock, MarkedAt(Queue, core, m), x)
<1>1. \A m : MarkedAt(Queue, core, m) \subseteq Places(Queue)
  BY DEF MarkedAt
<1> QED
  BY <1>1 DEF KeepsGuards, InOnePipe, FlagTokensAll, FlagNames

(* At an active instruction the count of executed places is within what    *)
(* the clock tells.                                                        *)
LEMMA DoneBetween ==
    ASSUME NEW clock, Ordered(Queue, clock), IInv(clock),
           NEW p \in Pipes, Active(p), NEW S, InOnePipe(S)
    PROVE  /\ AtLeast(clock, S, Here(p)) <= Done(S)
           /\ Done(S) <= AtMost(clock, S, Here(p))
           /\ Done(S) \in Nat
           /\ AtLeast(clock, S, Here(p)) \in Nat /\ AtMost(clock, S, Here(p)) \in Nat
<1>1. Sequenced(Queue) /\ IsFiniteSet(S) /\ S \subseteq Places(Queue)
  BY PipeFinite DEF Ordered, InOnePipe
<1>2. IsFiniteSet(S \cap Executed) /\ Done(S) \in Nat
  BY <1>1, DoneNatural
<1> DEFINE A == {y \in S : Before(clock, y, Here(p))}
           B == {y \in S : y # Here(p) /\ ~Before(clock, Here(p), y)}
<1>3. Here(p) \in Places(Queue) /\ Here(p) \notin Executed
  BY <1>1, HereFacts DEF IInv, Active
<1>4. A \subseteq S \cap Executed
  BY <1>1, BeforeActive
<1>5. S \cap Executed \subseteq B
  BY <1>3, BeforeExecuted
<1>6. IsFiniteSet(A) /\ IsFiniteSet(B)
  BY <1>1, FS_Subset
<1>7. Cardinality(A) <= Done(S) /\ Done(S) <= Cardinality(B)
  BY <1>2, <1>4, <1>5, <1>6, FS_Subset DEF Done
<1>8. Cardinality(A) \in Nat /\ Cardinality(B) \in Nat
  BY <1>6, FS_CardinalityType
<1> QED
  BY <1>2, <1>7, <1>8 DEF AtLeast, AtMost

(* The marks of the cores are the events of the protocol.                  *)
LEMMA MarksAreEvents ==
    ASSUME NEW clock, KeepsProtocol(Queue, clock, Cube, Vectors, TileCount)
    PROVE  /\ MarksOf(Cube) = DOMAIN CubeGuards
           /\ \A v \in Vectors : MarksOf(v) = DOMAIN VectorGuards
           /\ \A c \in Cores : \A m \in MarksOf(c) :
                 m # "none" /\ InOnePipe(MarkedAt(Queue, c, m))
<1>1. ASSUME NEW core, NEW guards, NEW partners, "none" \notin DOMAIN guards,
             KeepsGuards(Queue, clock, core, guards, Vectors, partners)
      PROVE  /\ MarksOf(core) = DOMAIN guards
             /\ \A m \in MarksOf(core) : InOnePipe(MarkedAt(Queue, core, m))
  <2>1. /\ \A x \in Places(Queue) : x[1][1] = core =>
              At(Queue, x).op.mark = "none" \/ At(Queue, x).op.mark \in DOMAIN guards
        /\ \A m \in DOMAIN guards :
              MarkedAt(Queue, core, m) # {} /\ InOnePipe(MarkedAt(Queue, core, m))
    BY <1>1, GuardFacts
  <2>2. ASSUME NEW m \in DOMAIN guards
        PROVE  m \in MarksOf(core)
    <3>1. PICK x \in MarkedAt(Queue, core, m) : TRUE
      BY <2>1
    <3> QED
      BY <1>1, <3>1 DEF MarkedAt, MarksOf
  <2>3. MarksOf(core) \subseteq DOMAIN guards
    BY <2>1 DEF MarksOf
  <2> QED
    BY <2>1, <2>2, <2>3
<1>2. "none" \notin DOMAIN CubeGuards /\ "none" \notin DOMAIN VectorGuards
  BY DEF CubeGuards, VectorGuards
<1>3. /\ MarksOf(Cube) = DOMAIN CubeGuards
      /\ \A m \in MarksOf(Cube) : InOnePipe(MarkedAt(Queue, Cube, m))
  BY <1>1, <1>2 DEF KeepsProtocol
<1>4. ASSUME NEW v \in Vectors
      PROVE  /\ MarksOf(v) = DOMAIN VectorGuards
             /\ \A m \in MarksOf(v) : InOnePipe(MarkedAt(Queue, v, m))
  BY <1>1, <1>2 DEF KeepsProtocol
<1> QED
  BY <1>3, <1>4 DEF Cores, MarksOf

(* The progress of a core counts its marked instructions.                  *)
Progressed ==
    progress = [c \in Cores |-> [m \in MarksOf(c) |-> Done(MarkedAt(Queue, c, m))]]

LEMMA InitProgressed ==
    ASSUME NEW clock, Ordered(Queue, clock), Init
    PROVE  Progressed
  BY NothingExecuted DEF Ordered, Init, Progressed

LEMMA StepProgressed ==
    ASSUME NEW clock, Ordered(Queue, clock), IInv(clock), Progressed,
           KeepsProtocol(Queue, clock, Cube, Vectors, TileCount),
           NEW p \in Pipes, Execute(p)
    PROVE  Progressed'
<1> DEFINE mark == Current(p).op.mark
<1>1. Sequenced(Queue) /\ DoneOK /\ Active(p) /\ ~Finished(p)
  BY DEF Ordered, IInv, Execute, CanFinish, Active
<1>2. /\ Here(p) \in Places(Queue) /\ Here(p) \notin Executed
      /\ At(Queue, Here(p)) = Current(p) /\ Here(p)[1] = p
  BY <1>1, HereFacts
<1>3. Executed' = Executed \cup {Here(p)}
  BY <1>1, ExecutedAfter
<1>4. progress' = IF mark = "none" THEN progress
                  ELSE [progress EXCEPT ![p[1]][mark] = @ + 1]
  BY DEF Execute
<1>5. ASSUME NEW c \in Cores, NEW m \in MarksOf(c)
      PROVE  Done(MarkedAt(Queue, c, m))'
               = IF p[1] = c /\ mark = m THEN Done(MarkedAt(Queue, c, m)) + 1
                 ELSE Done(MarkedAt(Queue, c, m))
  <2>1. InOnePipe(MarkedAt(Queue, c, m))
    BY MarksAreEvents
  <2>2. Here(p) \in MarkedAt(Queue, c, m) <=> (p[1] = c /\ mark = m)
    BY <1>2 DEF MarkedAt
  <2> QED
    BY <1>1, <1>2, <1>3, <2>1, <2>2, DoneAfter
<1>6. mark # "none" => p[1] \in Cores /\ mark \in MarksOf(p[1])
  BY <1>2 DEF Pipes, Cores, MarksOf
<1>7. \A c \in Cores : \A m \in MarksOf(c) : m # "none"
  BY DEF MarksOf
<1> HIDE DEF mark
<1>8. progress' = [c \in Cores |-> [m \in MarksOf(c) |->
          IF p[1] = c /\ mark = m THEN Done(MarkedAt(Queue, c, m)) + 1
          ELSE Done(MarkedAt(Queue, c, m))]]
  BY <1>4, <1>6, <1>7 DEF Progressed
<1>9. progress' = [c \in Cores |-> [m \in MarksOf(c) |-> Done(MarkedAt(Queue, c, m))']]
  BY <1>5, <1>8
<1> QED
  BY <1>9 DEF Progressed

(* A marked instruction has its guards, takes its flags and gives its own. *)
LEMMA MarkedStep ==
    ASSUME NEW clock, Ordered(Queue, clock), IInv(clock), Progressed,
           KeepsProtocol(Queue, clock, Cube, Vectors, TileCount),
           NEW core \in Cores, NEW guards, NEW partners \in SUBSET Vectors,
           KeepsGuards(Queue, clock, core, guards, Vectors, partners),
           DOMAIN guards = MarksOf(core),
           NEW p \in Pipes, p[1] = core, Execute(p), Current(p).op.mark # "none"
    PROVE  /\ Current(p).op.mark \in DOMAIN guards
           /\ \A n \in guards[Current(p).op.mark].more \cap MarksOf(core) :
                 progress[core][Current(p).op.mark] < progress[core][n]
           /\ \A n \in guards[Current(p).op.mark].same \cap MarksOf(core) :
                 progress[core][Current(p).op.mark] = progress[core][n]
           /\ \A v \in Vectors, f \in FlagNames :
                 /\ v \in partners /\ f \in guards[Current(p).op.mark].takes
                       => Pending(Flag(v, f)) > 0
                 /\ Pending(Flag(v, f))' =
                       IF v \in partners /\ f \in guards[Current(p).op.mark].takes
                       THEN Pending(Flag(v, f)) - 1
                       ELSE IF v \in partners /\ f \in guards[Current(p).op.mark].gives
                       THEN Pending(Flag(v, f)) + 1
                       ELSE Pending(Flag(v, f))
           /\ progress' = [progress EXCEPT ![core][Current(p).op.mark] = @ + 1]
<1> DEFINE op == Current(p).op
           m == op.mark
<1>1. Sequenced(Queue) /\ Paired(Queue) /\ DoneOK /\ Counted /\ Active(p) /\ ~Finished(p)
  BY DEF Ordered, IInv, Execute, CanFinish, Active
<1>2. /\ Here(p) \in Places(Queue) /\ Here(p)[1][1] = core /\ At(Queue, Here(p)).op = op
  BY <1>1, HereFacts
<1>3. /\ m \in DOMAIN guards
      /\ op.waits \cap FlagTokensAll = FlagTokens(partners, guards[m].takes)
      /\ op.sets \cap FlagTokensAll = FlagTokens(partners, guards[m].gives)
  BY <1>2, GuardFacts
<1>4. Here(p) \in MarkedAt(Queue, core, m)
  BY <1>2 DEF MarkedAt
<1>5. \A n \in MarksOf(core) :
         progress[core][n] = Done(MarkedAt(Queue, core, n))
  BY DEF Progressed
<1>6. \A n \in MarksOf(core) :
         LET S == MarkedAt(Queue, core, n)
         IN /\ AtLeast(clock, S, Here(p)) <= Done(S)
            /\ Done(S) <= AtMost(clock, S, Here(p))
            /\ Done(S) \in Nat
            /\ AtLeast(clock, S, Here(p)) \in Nat /\ AtMost(clock, S, Here(p)) \in Nat
  BY <1>1, MarksAreEvents, DoneBetween
<1>7. /\ \A n \in guards[m].more :
            AtMost(clock, MarkedAt(Queue, core, m), Here(p))
                < AtLeast(clock, MarkedAt(Queue, core, n), Here(p))
      /\ \A n \in guards[m].same :
            /\ AtMost(clock, MarkedAt(Queue, core, m), Here(p))
                   <= AtLeast(clock, MarkedAt(Queue, core, n), Here(p))
            /\ AtMost(clock, MarkedAt(Queue, core, n), Here(p))
                   <= AtLeast(clock, MarkedAt(Queue, core, m), Here(p))
  BY <1>3, <1>4, GuardFacts
<1>8. op.waits \cap op.sets = {}
  BY <1>1, <1>2, TokenPlaces DEF SetsOf, WaitsFor, Waits, Sets
<1>9. \A e \in op.waits : BagIn(e, pending)
  BY <1>1 DEF Active
<1>10. /\ pending' = (pending (-) SetToBag(op.waits)) (+) SetToBag(op.sets)
       /\ progress' = IF m = "none" THEN progress
                      ELSE [progress EXCEPT ![p[1]][m] = @ + 1]
  BY DEF Execute
<1> HIDE DEF op
<1>11. \A e : Pending(e)' = IF e \in op.waits THEN Pending(e) - 1
                            ELSE IF e \in op.sets THEN Pending(e) + 1
                            ELSE Pending(e)
  BY <1>1, <1>8, <1>9, <1>10, PendingAfter DEF Counted
<1>12. ASSUME NEW v \in Vectors, NEW f \in FlagNames
       PROVE  /\ Flag(v, f) \in op.waits <=> v \in partners /\ f \in guards[m].takes
              /\ Flag(v, f) \in op.sets <=> v \in partners /\ f \in guards[m].gives
  <2>1. Flag(v, f) \in FlagTokensAll
    BY DEF FlagTokensAll, FlagTokens, Flag
  <2>2. \A names : Flag(v, f) \in FlagTokens(partners, names)
                     <=> v \in partners /\ f \in names
    BY DEF FlagTokens, Flag
  <2> QED
    BY <1>3, <2>1, <2>2
<1>13. \A v \in Vectors, f \in FlagNames :
          v \in partners /\ f \in guards[m].takes => Pending(Flag(v, f)) > 0
  BY <1>1, <1>9, <1>12, PendingNatural DEF Counted
<1>14. \A n \in guards[m].more \cap MarksOf(core) : progress[core][m] < progress[core][n]
  BY <1>3, <1>5, <1>6, <1>7
<1>15. \A n \in guards[m].same \cap MarksOf(core) : progress[core][m] = progress[core][n]
  BY <1>3, <1>5, <1>6, <1>7
<1> QED
  BY <1>3, <1>10, <1>11, <1>12, <1>13, <1>14, <1>15 DEF op

(* The flags the protocol sees.                                            *)
FlagView ==
    [v \in Vectors |->
        [f \in {"qkReady", "softmaxReady", "pvReady"} |-> Pending(Flag(v, f))]]
VectorView == [v \in Vectors |-> progress[v]]

(* A step of the Cube that is marked is its step of the protocol.          *)
LEMMA CubeStepImplements ==
    ASSUME NEW clock, Ordered(Queue, clock), IInv(clock), Progressed,
           KeepsProtocol(Queue, clock, Cube, Vectors, TileCount),
           NEW p \in Pipes, p[1] = Cube, Execute(p), Current(p).op.mark # "none"
    PROVE  Protocol!CubeNext
<1> DEFINE m == Current(p).op.mark
<1>1. KeepsGuards(Queue, clock, Cube, CubeGuards, Vectors, Vectors)
  BY DEF KeepsProtocol
<1>2. MarksOf(Cube) = DOMAIN CubeGuards /\ Cube \in Cores /\ Cube \notin Vectors
  BY MarksAreEvents, CubeAssumption DEF Cores
<1>3. /\ m \in DOMAIN CubeGuards
      /\ \A n \in CubeGuards[m].more \cap MarksOf(Cube) : progress[Cube][m] < progress[Cube][n]
      /\ \A n \in CubeGuards[m].same \cap MarksOf(Cube) : progress[Cube][m] = progress[Cube][n]
      /\ \A v \in Vectors, f \in FlagNames :
            /\ f \in CubeGuards[m].takes => Pending(Flag(v, f)) > 0
            /\ Pending(Flag(v, f))' = IF f \in CubeGuards[m].takes THEN Pending(Flag(v, f)) - 1
                                      ELSE IF f \in CubeGuards[m].gives
                                      THEN Pending(Flag(v, f)) + 1
                                      ELSE Pending(Flag(v, f))
      /\ progress' = [progress EXCEPT ![Cube][m] = @ + 1]
  BY <1>1, <1>2, MarkedStep
<1>4. m = "scoring" => progress[Cube]["scoring"] < TileCount
  <2> SUFFICES ASSUME m = "scoring"
               PROVE  progress[Cube]["scoring"] < TileCount
    OBVIOUS
  <2> DEFINE S == MarkedAt(Queue, Cube, "scoring")
  <2>1. Sequenced(Queue) /\ DoneOK /\ ~Finished(p)
    BY DEF Ordered, IInv, Execute, CanFinish, Active
  <2>2. /\ Here(p) \in Places(Queue) /\ Here(p) \notin Executed
        /\ At(Queue, Here(p)) = Current(p) /\ Here(p)[1] = p
    BY <2>1, HereFacts
  <2>3. Here(p) \in S
    BY <2>2 DEF MarkedAt
  <2>4. "scoring" \in MarksOf(Cube)
    BY <1>2, <1>3
  <2>5. InOnePipe(S)
    BY <1>2, <2>4, MarksAreEvents
  <2>6. progress[Cube]["scoring"] = Done(S)
    BY <1>2, <2>4 DEF Progressed
  <2>7. IsFiniteSet(S) /\ Cardinality(S \ {Here(p)}) = Cardinality(S) - 1
        /\ IsFiniteSet(S \ {Here(p)}) /\ Cardinality(S) \in Nat
    BY <2>1, <2>3, <2>5, PipeFinite, FS_RemoveElement, FS_CardinalityType
  <2>8. S \cap Executed \subseteq S \ {Here(p)}
    BY <2>2
  <2>9. Done(S) <= Cardinality(S \ {Here(p)}) /\ Done(S) \in Nat
    BY <2>1, <2>5, <2>7, <2>8, FS_Subset, DoneNatural DEF Done
  <2>10. Cardinality(S) <= TileCount /\ TileCount \in Nat
    BY DEF KeepsProtocol
  <2> HIDE DEF S
  <2> QED
    BY <2>6, <2>7, <2>9, <2>10
<1> HIDE DEF m
<1>5. progress'[Cube] = [progress[Cube] EXCEPT ![m] = @ + 1] /\ VectorView' = VectorView
  BY <1>2, <1>3 DEF Progressed, VectorView, Cores
<1>6. CASE m = "scoring"
  <2>1. progress[Cube]["scoring"] = progress[Cube]["multiplied"]
    BY <1>2, <1>3, <1>6 DEF CubeGuards, Guard
  <2>2. FlagView' = FlagView
    BY <1>2, <1>3, <1>6 DEF CubeGuards, Guard, FlagView, FlagNames
  <2>3. Protocol!StartScore
    BY <1>6, <1>4, <1>5, <2>1, <2>2
       DEF Protocol!StartScore, Protocol!CubeDoes, Protocol!Advance, FlagView,
           VectorView
  <2> QED
    BY <2>3 DEF Protocol!CubeNext
<1>7. CASE m = "scored"
  <2>1. progress[Cube]["scored"] < progress[Cube]["scoring"]
    BY <1>2, <1>3, <1>7 DEF CubeGuards, Guard
  <2>2. /\ \A v \in Vectors, f \in FlagNames :
              Pending(Flag(v, f))' = IF f = "qkReady" THEN Pending(Flag(v, f)) + 1
                                     ELSE Pending(Flag(v, f))
        /\ "qkReady" \in FlagNames
    BY <1>3, <1>7 DEF CubeGuards, Guard, FlagNames
  <2>3. FlagView' = [v \in Vectors |-> [FlagView[v] EXCEPT !["qkReady"] = @ + 1]]
    BY <2>2 DEF FlagView, FlagNames
  <2>4. Protocol!FinishScore
    BY <1>7, <1>5, <2>1, <2>3
       DEF Protocol!FinishScore, Protocol!CubeDoes, Protocol!Advance,
           Protocol!CubeSets, FlagView, VectorView
  <2> QED
    BY <2>4 DEF Protocol!CubeNext
<1>8. CASE m = "probTaken"
  <2>1. /\ \A v \in Vectors, f \in FlagNames :
              Pending(Flag(v, f))' = IF f = "softmaxReady" THEN Pending(Flag(v, f)) - 1
                                     ELSE Pending(Flag(v, f))
        /\ "softmaxReady" \in FlagNames
        /\ \A v \in Vectors : Pending(Flag(v, "softmaxReady")) > 0
    BY <1>3, <1>8 DEF CubeGuards, Guard, FlagNames
  <2>2. FlagView' = [v \in Vectors |-> [FlagView[v] EXCEPT !["softmaxReady"] = @ - 1]]
    BY <2>1 DEF FlagView, FlagNames
  <2>3. \A v \in Vectors : FlagView[v]["softmaxReady"] > 0
    BY <2>1 DEF FlagView, FlagNames
  <2>4. Protocol!TakeProbability
    BY <1>8, <1>5, <2>2, <2>3
       DEF Protocol!TakeProbability, Protocol!CubeDoes, Protocol!Advance,
           Protocol!CubeWaits, FlagView, VectorView
  <2> QED
    BY <2>4 DEF Protocol!CubeNext
<1>9. CASE m = "probRead"
  <2>1. progress[Cube]["probRead"] < progress[Cube]["probTaken"]
    BY <1>2, <1>3, <1>9 DEF CubeGuards, Guard
  <2>2. FlagView' = FlagView
    BY <1>2, <1>3, <1>9 DEF CubeGuards, Guard, FlagView, FlagNames
  <2>3. Protocol!ReadProbability
    BY <1>9, <1>5, <2>1, <2>2
       DEF Protocol!ReadProbability, Protocol!CubeDoes, Protocol!Advance,
           FlagView, VectorView
  <2> QED
    BY <2>3 DEF Protocol!CubeNext
<1>10. CASE m = "multiplying"
  <2>1. progress[Cube]["multiplying"] < progress[Cube]["scored"]
        /\ progress[Cube]["multiplying"] < progress[Cube]["probRead"]
    BY <1>2, <1>3, <1>10 DEF CubeGuards, Guard
  <2>2. FlagView' = FlagView
    BY <1>2, <1>3, <1>10 DEF CubeGuards, Guard, FlagView, FlagNames
  <2>3. Protocol!StartOutput
    BY <1>10, <1>5, <2>1, <2>2
       DEF Protocol!StartOutput, Protocol!CubeDoes, Protocol!Advance, FlagView,
           VectorView
  <2> QED
    BY <2>3 DEF Protocol!CubeNext
<1>11. CASE m = "multiplied"
  <2>1. progress[Cube]["multiplied"] < progress[Cube]["multiplying"]
    BY <1>2, <1>3, <1>11 DEF CubeGuards, Guard
  <2>2. /\ \A v \in Vectors, f \in FlagNames :
              Pending(Flag(v, f))' = IF f = "pvReady" THEN Pending(Flag(v, f)) + 1
                                     ELSE Pending(Flag(v, f))
        /\ "pvReady" \in FlagNames
    BY <1>3, <1>11 DEF CubeGuards, Guard, FlagNames
  <2>3. FlagView' = [v \in Vectors |-> [FlagView[v] EXCEPT !["pvReady"] = @ + 1]]
    BY <2>2 DEF FlagView, FlagNames
  <2>4. Protocol!FinishOutput
    BY <1>11, <1>5, <2>1, <2>3
       DEF Protocol!FinishOutput, Protocol!CubeDoes, Protocol!Advance,
           Protocol!CubeSets, FlagView, VectorView
  <2> QED
    BY <2>4 DEF Protocol!CubeNext
<1> QED
  BY <1>3, <1>6, <1>7, <1>8, <1>9, <1>10, <1>11 DEF CubeGuards

(* A step of a Vector core that is marked is its step of the protocol.     *)
LEMMA VectorStepImplements ==
    ASSUME NEW clock, Ordered(Queue, clock), IInv(clock), Progressed,
           KeepsProtocol(Queue, clock, Cube, Vectors, TileCount),
           NEW v \in Vectors,
           NEW p \in Pipes, p[1] = v, Execute(p), Current(p).op.mark # "none"
    PROVE  Protocol!VectorNext(v)
<1> DEFINE m == Current(p).op.mark
<1>1. KeepsGuards(Queue, clock, v, VectorGuards, Vectors, {v})
  BY DEF KeepsProtocol
<1>2. MarksOf(v) = DOMAIN VectorGuards /\ v \in Cores /\ Cube \notin Vectors
  BY MarksAreEvents, CubeAssumption DEF Cores
<1>3. /\ m \in DOMAIN VectorGuards
      /\ \A n \in VectorGuards[m].more \cap MarksOf(v) : progress[v][m] < progress[v][n]
      /\ \A n \in VectorGuards[m].same \cap MarksOf(v) : progress[v][m] = progress[v][n]
      /\ \A w \in Vectors, f \in FlagNames :
            /\ w \in {v} /\ f \in VectorGuards[m].takes => Pending(Flag(w, f)) > 0
            /\ Pending(Flag(w, f))' = IF w \in {v} /\ f \in VectorGuards[m].takes
                                      THEN Pending(Flag(w, f)) - 1
                                      ELSE IF w \in {v} /\ f \in VectorGuards[m].gives
                                      THEN Pending(Flag(w, f)) + 1
                                      ELSE Pending(Flag(w, f))
      /\ progress' = [progress EXCEPT ![v][m] = @ + 1]
  BY <1>1, <1>2, MarkedStep
<1> HIDE DEF m
<1>4. /\ VectorView' = [VectorView EXCEPT ![v] = [VectorView[v] EXCEPT ![m] = @ + 1]]
      /\ progress'[Cube] = progress[Cube]
  BY <1>2, <1>3 DEF Progressed, VectorView, Cores
<1>5. \A e : VectorView[v][e] = progress[v][e]
  BY DEF VectorView
<1>6. CASE m = "scoreTaken"
  <2>1. VectorView[v]["scoreTaken"] = VectorView[v]["outTaken"]
    BY <1>2, <1>3, <1>5, <1>6 DEF VectorGuards, Guard
  <2>2. /\ \A w \in Vectors, f \in FlagNames :
              Pending(Flag(w, f))' = IF w = v /\ f = "qkReady" THEN Pending(Flag(w, f)) - 1
                                     ELSE Pending(Flag(w, f))
        /\ "qkReady" \in FlagNames
        /\ Pending(Flag(v, "qkReady")) > 0
    BY <1>3, <1>6 DEF VectorGuards, Guard, FlagNames
  <2>3. FlagView' = [FlagView EXCEPT ![v] = [FlagView[v] EXCEPT !["qkReady"] = @ - 1]]
    BY <2>2 DEF FlagView, FlagNames
  <2>4. FlagView[v]["qkReady"] > 0
    BY <2>2 DEF FlagView, FlagNames
  <2>5. Protocol!TakeScore(v)
    BY <1>6, <1>4, <2>1, <2>3, <2>4
       DEF Protocol!TakeScore, Protocol!VectorDoes, Protocol!Advance,
           Protocol!VectorWaits, FlagView, VectorView
  <2> QED
    BY <2>5 DEF Protocol!VectorNext
<1>7. CASE m = "scoreRead"
  <2>1. /\ VectorView[v]["scoreRead"] < VectorView[v]["scoreTaken"]
        /\ VectorView[v]["scoreRead"] = VectorView[v]["outRead"]
    BY <1>2, <1>3, <1>5, <1>7 DEF VectorGuards, Guard
  <2>2. FlagView' = FlagView
    BY <1>2, <1>3, <1>7 DEF VectorGuards, Guard, FlagView, FlagNames
  <2>3. Protocol!ReadScore(v)
    BY <1>7, <1>4, <2>1, <2>2
       DEF Protocol!ReadScore, Protocol!VectorDoes, Protocol!Advance, FlagView,
           VectorView
  <2> QED
    BY <2>3 DEF Protocol!VectorNext
<1>8. CASE m = "publishing"
  <2>1. /\ VectorView[v]["publishing"] < VectorView[v]["scoreTaken"]
        /\ VectorView[v]["publishing"] = VectorView[v]["published"]
    BY <1>2, <1>3, <1>5, <1>8 DEF VectorGuards, Guard
  <2>2. FlagView' = FlagView
    BY <1>2, <1>3, <1>8 DEF VectorGuards, Guard, FlagView, FlagNames
  <2>3. Protocol!StartPublish(v)
    BY <1>8, <1>4, <2>1, <2>2
       DEF Protocol!StartPublish, Protocol!VectorDoes, Protocol!Advance,
           FlagView, VectorView
  <2> QED
    BY <2>3 DEF Protocol!VectorNext
<1>9. CASE m = "published"
  <2>1. /\ VectorView[v]["published"] < VectorView[v]["publishing"]
        /\ VectorView[v]["published"] < VectorView[v]["scoreRead"]
    BY <1>2, <1>3, <1>5, <1>9 DEF VectorGuards, Guard
  <2>2. /\ \A w \in Vectors, f \in FlagNames :
              Pending(Flag(w, f))' = IF w = v /\ f = "softmaxReady" THEN Pending(Flag(w, f)) + 1
                                     ELSE Pending(Flag(w, f))
        /\ "softmaxReady" \in FlagNames
    BY <1>3, <1>9 DEF VectorGuards, Guard, FlagNames
  <2>3. FlagView' = [FlagView EXCEPT ![v] = [FlagView[v] EXCEPT !["softmaxReady"] = @ + 1]]
    BY <2>2 DEF FlagView, FlagNames
  <2>4. Protocol!FinishPublish(v)
    BY <1>9, <1>4, <2>1, <2>3
       DEF Protocol!FinishPublish, Protocol!VectorDoes, Protocol!Advance,
           Protocol!VectorSets, FlagView, VectorView
  <2> QED
    BY <2>4 DEF Protocol!VectorNext
<1>10. CASE m = "outTaken"
  <2>1. VectorView[v]["outTaken"] < VectorView[v]["scoreTaken"]
    BY <1>2, <1>3, <1>5, <1>10 DEF VectorGuards, Guard
  <2>2. /\ \A w \in Vectors, f \in FlagNames :
              Pending(Flag(w, f))' = IF w = v /\ f = "pvReady" THEN Pending(Flag(w, f)) - 1
                                     ELSE Pending(Flag(w, f))
        /\ "pvReady" \in FlagNames
        /\ Pending(Flag(v, "pvReady")) > 0
    BY <1>3, <1>10 DEF VectorGuards, Guard, FlagNames
  <2>3. FlagView' = [FlagView EXCEPT ![v] = [FlagView[v] EXCEPT !["pvReady"] = @ - 1]]
    BY <2>2 DEF FlagView, FlagNames
  <2>4. FlagView[v]["pvReady"] > 0
    BY <2>2 DEF FlagView, FlagNames
  <2>5. Protocol!TakeOutput(v)
    BY <1>10, <1>4, <2>1, <2>3, <2>4
       DEF Protocol!TakeOutput, Protocol!VectorDoes, Protocol!Advance,
           Protocol!VectorWaits, FlagView, VectorView
  <2> QED
    BY <2>5 DEF Protocol!VectorNext
<1>11. CASE m = "outRead"
  <2>1. /\ VectorView[v]["outRead"] < VectorView[v]["outTaken"]
        /\ VectorView[v]["outRead"] < VectorView[v]["scoreRead"]
    BY <1>2, <1>3, <1>5, <1>11 DEF VectorGuards, Guard
  <2>2. FlagView' = FlagView
    BY <1>2, <1>3, <1>11 DEF VectorGuards, Guard, FlagView, FlagNames
  <2>3. Protocol!ReadOutput(v)
    BY <1>11, <1>4, <2>1, <2>2
       DEF Protocol!ReadOutput, Protocol!VectorDoes, Protocol!Advance,
           FlagView, VectorView
  <2> QED
    BY <2>3 DEF Protocol!VectorNext
<1> QED
  BY <1>3, <1>6, <1>7, <1>8, <1>9, <1>10, <1>11 DEF VectorGuards

(* Any other step leaves the protocol unchanged.                           *)
LEMMA OtherStepStutters ==
    ASSUME NEW clock, Ordered(Queue, clock), IInv(clock),
           KeepsProtocol(Queue, clock, Cube, Vectors, TileCount),
           NEW p \in Pipes, Execute(p), Current(p).op.mark = "none"
    PROVE  progress' = progress /\ FlagView' = FlagView
<1> DEFINE op == Current(p).op
<1>1. Sequenced(Queue) /\ Paired(Queue) /\ DoneOK /\ Counted /\ Active(p) /\ ~Finished(p)
  BY DEF Ordered, IInv, Execute, CanFinish, Active
<1>2. Here(p) \in Places(Queue) /\ Here(p)[1] = p /\ At(Queue, Here(p)).op = op
  BY <1>1, HereFacts
<1>3. (op.waits \cup op.sets) \cap FlagTokensAll = {}
  <2>1. CASE p[1] = Cube
    BY <1>2, <2>1, GuardFacts DEF KeepsProtocol
  <2>2. CASE p[1] \in Vectors
    <3>1. KeepsGuards(Queue, clock, p[1], VectorGuards, Vectors, {p[1]})
      BY <2>2 DEF KeepsProtocol
    <3> QED
      BY <1>2, <3>1, GuardFacts
  <2> QED
    BY <2>1, <2>2 DEF Pipes
<1>4. op.waits \cap op.sets = {}
  BY <1>1, <1>2, TokenPlaces DEF SetsOf, WaitsFor, Waits, Sets
<1>5. \A e \in op.waits : BagIn(e, pending)
  BY <1>1 DEF Active
<1>6. /\ pending' = (pending (-) SetToBag(op.waits)) (+) SetToBag(op.sets)
      /\ progress' = progress
  BY DEF Execute
<1> HIDE DEF op
<1>7. \A e : Pending(e)' = IF e \in op.waits THEN Pending(e) - 1
                           ELSE IF e \in op.sets THEN Pending(e) + 1
                           ELSE Pending(e)
  BY <1>1, <1>4, <1>5, <1>6, PendingAfter DEF Counted
<1>8. ASSUME NEW v \in Vectors, NEW f \in FlagNames
      PROVE  Pending(Flag(v, f))' = Pending(Flag(v, f))
  <2>1. Flag(v, f) \in FlagTokensAll
    BY DEF FlagTokensAll, FlagTokens, Flag
  <2> QED
    BY <1>3, <1>7, <2>1
<1> QED
  BY <1>6, <1>8 DEF FlagView, FlagNames

(* The pipes start where the protocol does.                                *)
LEMMA InitImplements ==
    ASSUME NEW clock, Ordered(Queue, clock), Init,
           KeepsProtocol(Queue, clock, Cube, Vectors, TileCount)
    PROVE  Protocol!ProtocolInit
<1>1. /\ MarksOf(Cube) = DOMAIN CubeGuards /\ Cube \in Cores /\ Vectors \subseteq Cores
      /\ \A v \in Vectors : MarksOf(v) = DOMAIN VectorGuards
  BY MarksAreEvents DEF Cores
<1>2. /\ DOMAIN CubeGuards = Protocol!CubeEvents
      /\ DOMAIN VectorGuards = Protocol!VectorEvents
  BY DEF CubeGuards, VectorGuards, Protocol!CubeEvents, Protocol!VectorEvents
<1>3. progress = [c \in Cores |-> [m \in MarksOf(c) |-> 0]]
  BY DEF Init
<1>4. progress[Cube] = [e \in Protocol!CubeEvents |-> 0]
  BY <1>1, <1>2, <1>3
<1>5. VectorView = [v \in Vectors |-> [e \in Protocol!VectorEvents |-> 0]]
  BY <1>1, <1>2, <1>3 DEF VectorView
<1>6. \A e : Pending(e) = 0
  BY DEF Init, Pending, BagIn, BagToSet, EmptyBag, SetToBag
<1>7. FlagView = [v \in Vectors |-> [f \in Protocol!Flags |-> 0]]
  BY <1>6 DEF FlagView, Protocol!Flags
<1> QED
  BY <1>4, <1>5, <1>7 DEF Protocol!ProtocolInit, VectorView, FlagView

(* A step of the pipes is a step of the protocol or leaves it unchanged.   *)
LEMMA StepImplements ==
    ASSUME NEW clock, Ordered(Queue, clock), IInv(clock), Progressed,
           KeepsProtocol(Queue, clock, Cube, Vectors, TileCount), [Next]_vars
    PROVE  [Protocol!ProtocolNext]_Protocol!protocolVars
<1>1. CASE Next
  <2>1. PICK p \in Pipes : Execute(p)
    BY <1>1, NextExecutes
  <2>2. CASE Current(p).op.mark = "none"
    <3>1. progress' = progress /\ FlagView' = FlagView
      BY <2>1, <2>2, OtherStepStutters
    <3>2. VectorView' = VectorView
      BY <3>1 DEF VectorView
    <3> QED
      BY <3>1, <3>2 DEF Protocol!protocolVars, VectorView, FlagView
  <2>3. CASE Current(p).op.mark # "none" /\ p[1] = Cube
    BY <2>1, <2>3, CubeStepImplements DEF Protocol!ProtocolNext
  <2>4. CASE Current(p).op.mark # "none" /\ p[1] \in Vectors
    BY <2>1, <2>4, VectorStepImplements DEF Protocol!ProtocolNext
  <2> QED
    BY <2>2, <2>3, <2>4 DEF Pipes
<1>2. CASE UNCHANGED vars
  <2>1. progress' = progress /\ FlagView' = FlagView
    BY <1>2 DEF vars, FlagView, Pending
  <2>2. VectorView' = VectorView
    BY <2>1 DEF VectorView
  <2> QED
    BY <2>1, <2>2 DEF Protocol!protocolVars, VectorView, FlagView
<1> QED
  BY <1>1, <1>2

-----------------------------------------------------------------------------
(* The theorems.                                                           *)

(* No pipe writes a buffer that another pipe is using, in any interleaving *)
(* of the pipes: the events and flags of the kernel order the accesses.    *)
THEOREM PipesDoNotRace ==
    ASSUME NEW clock, Ordered(Queue, clock)
    PROVE  Spec => []NoRace
<1>1. IInv(clock) => NoRace
  BY NoRaceHolds
<1> QED
  BY <1>1, InvHolds, PTL

(* Every instruction reads the query, subtile, probabilities and           *)
(* accumulator it was meant to, in any interleaving of the pipes.          *)
THEOREM PipesReadTheirTile ==
    ASSUME NEW clock, Ordered(Queue, clock)
    PROVE  Spec => []ReadsOwnTile
<1>1. IInv(clock) => ReadsOwnTile
  BY ReadsHold
<1> QED
  BY <1>1, InvHolds, PTL

(* No event and no cross-core flag is pending when the kernel returns.     *)
THEOREM PipesDrainEvents ==
    ASSUME NEW clock, Ordered(Queue, clock)
    PROVE  Spec => []EventsDrained
<1>1. IInv(clock) => EventsDrained
  BY DrainedHolds
<1> QED
  BY <1>1, InvHolds, PTL

(* As long as the launch is not over some pipe can execute an instruction: *)
(* a launch that can be executed in one order, with no more pending sets   *)
(* than there is room for, gets stuck in no order.                         *)
THEOREM PipesNeverStuck ==
    ASSUME NEW clock, NEW room, NEW rank, Ordered(Queue, clock),
           HasRoom(room), Ranked(Queue, room, rank)
    PROVE  Spec => []NeverStuck
<1>1. Init => eventDepth \in EventDepths
  BY DEF Init
<1>2. eventDepth \in EventDepths /\ [Next]_vars => (eventDepth \in EventDepths)'
  BY NextExecutes DEF Execute, vars
<1>3. IInv(clock) /\ eventDepth \in EventDepths => NeverStuck
  BY NotStuck
<1> QED
  BY <1>1, <1>2, <1>3, InvHolds, PTL DEF Spec

(* The pipes implement the ownership protocol of the shared tiles, whose   *)
(* invariants TileProofs proves: score_, probability_ and outputTmp_ are   *)
(* stable while they are read.                                             *)
THEOREM PipesImplementProtocol ==
    ASSUME NEW clock, Ordered(Queue, clock),
           KeepsProtocol(Queue, clock, Cube, Vectors, TileCount)
    PROVE  Spec => ProtocolSpec
<1>1. Init => Protocol!ProtocolInit /\ Progressed
  BY InitImplements, InitProgressed
<1>2. IInv(clock) /\ Progressed /\ [Next]_vars => Progressed'
  <2>1. IInv(clock) /\ Progressed /\ Next => Progressed'
    BY NextExecutes, StepProgressed
  <2>2. Progressed /\ UNCHANGED vars => Progressed'
    BY DEF Progressed, Executed, Done, vars
  <2> QED
    BY <2>1, <2>2
<1>3. IInv(clock) /\ Progressed /\ [Next]_vars
         => [Protocol!ProtocolNext]_Protocol!protocolVars
  BY StepImplements
<1> QED
  BY <1>1, <1>2, <1>3, InvHolds, PTL DEF Spec, ProtocolSpec, Protocol!ProtocolSpec
=============================================================================
