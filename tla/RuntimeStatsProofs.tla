-------------------------- MODULE RuntimeStatsProofs --------------------------
(***************************************************************************)
(* The bounds of the queues, the export of the boundaries and what the     *)
(* counters account for, for any threads, plans, capacities and intervals. *)
(***************************************************************************)
EXTENDS RuntimeStats, FiniteSetTheorems, FunctionTheorems,
        SequenceTheorems, TLAPS

Counters == [requests : Nat, eligible : Nat, ineligible : Nat, direct : Nat,
             fia : Nat, deltasDropped : Nat, eventsDropped : Nat]

Entries == [plan : Plan, direct : Nat, fia : Nat, events : Nat, dropped : Nat]

Deltas == [kind : {"planner", "layer"}, plan : Plan]

(* The variables in their domains and the queues in their bounds.          *)
Types ==
    /\ counters \in Counters
    /\ seen \in Seq(Plan) /\ Len(seen) <= SeenCapacity
    /\ recentCapacity \in Nat
    /\ recent \in Seq(Entries) /\ Len(recent) <= recentCapacity
    /\ deltas \in Seq(Deltas) /\ Len(deltas) <= LogCapacity
    /\ due \subseteq Plan /\ active \subseteq Plan
    /\ interval \in Nat /\ nextLog \in Nat /\ lastBoundary \in Nat
    /\ pc \in [Thread -> {"idle", "layer", "log"}]
    /\ DOMAIN job = Thread
    /\ \A t \in Thread : pc[t] = "layer" =>
          job[t] \in [plan : Plan, route : {"direct", "fia"}]

(* An overdue boundary has something to export and a layer that will.      *)
Overdue == interval # 0 /\ counters.requests >= nextLog

OverdueIsPending ==
    Overdue => deltas # << >> /\ \E t \in Thread : pc[t] # "idle"

(* The next boundary is a multiple of the interval above the last one.     *)
BoundaryOrder ==
    interval # 0 =>
        /\ lastBoundary < nextLog
        /\ \E k \in Nat : nextLog = k * interval

LInv == Types /\ OverdueIsPending /\ BoundaryOrder

-----------------------------------------------------------------------------
(* Integer division, and the bounded queues.                               *)

(* A function on 1 .. n is a sequence.                                     *)
LEMMA FunctionIsSeq ==
    ASSUME NEW S, NEW n \in Nat, NEW f \in [1 .. n -> S]
    PROVE  f \in Seq(S) /\ Len(f) = n
  OBVIOUS

(* The largest multiple of d up to n, and the next one.                    *)
LEMMA DivBound ==
    ASSUME NEW n \in Nat, NEW d \in Nat \ {0}
    PROVE  /\ n \div d \in Nat
           /\ (n \div d) * d \in Nat
           /\ (n \div d + 1) * d \in Nat
           /\ (n \div d + 1) * d = (n \div d) * d + d
           /\ (n \div d) * d <= n
           /\ n < (n \div d) * d + d
  OBVIOUS

(* Different multiples of d are d apart.                                   *)
LEMMA Multiples ==
    ASSUME NEW a \in Nat, NEW b \in Nat, NEW d \in Nat \ {0}, a < b
    PROVE  a * d + d <= b * d
  OBVIOUS

(* The largest multiple of d up to n is no smaller than any other.         *)
LEMMA LargestMultiple ==
    ASSUME NEW n \in Nat, NEW d \in Nat \ {0}, NEW k \in Nat, k * d <= n
    PROVE  k * d <= (n \div d) * d
<1> DEFINE q == n \div d
<1>1. q \in Nat /\ n < q * d + d
  BY DivBound
<1>2. ~(q < k)
  <2> HIDE DEF q
  <2> SUFFICES ASSUME q < k PROVE FALSE
    OBVIOUS
  <2>1. q * d + d <= k * d
    BY <1>1, Multiples
  <2> QED
    BY <2>1, <1>1
<1>3. q = k \/ k < q
  BY <1>1, <1>2
<1>4. CASE q = k
  BY <1>4
<1>5. CASE k < q
  <2>1. k * d + d <= q * d
    BY <1>1, <1>5, Multiples
  <2> QED
    BY <2>1, <1>1
<1> QED
  BY <1>3, <1>4, <1>5

(* The newest n items of a sequence.                                       *)
LEMMA NewestFacts ==
    ASSUME NEW S, NEW s \in Seq(S), NEW n \in Nat
    PROVE  /\ Newest(s, n) \in Seq(S)
           /\ Len(Newest(s, n)) <= n
<1>1. CASE Len(s) > n
  <2>1. /\ Len(s) - n + 1 \in Int /\ Len(s) \in Nat
        /\ Len(s) - n + 1 >= 1
    BY <1>1
  <2>2. /\ SubSeq(s, Len(s) - n + 1, Len(s)) \in Seq(S)
        /\ Len(SubSeq(s, Len(s) - n + 1, Len(s))) <= n
    BY <2>1
  <2> QED
    BY <1>1, <2>2 DEF Newest
<1>2. CASE ~(Len(s) > n)
  BY <1>2 DEF Newest
<1> QED
  BY <1>1, <1>2

(* One more delta: the queue stays within its capacity and is not empty.   *)
LEMMA AppendDeltaFacts ==
    ASSUME deltas \in Seq(Deltas), NEW d \in Deltas
    PROVE  /\ AppendDelta(d) \in Seq(Deltas)
           /\ Len(AppendDelta(d)) <= LogCapacity
           /\ AppendDelta(d) # << >>
<1>1. LogCapacity - 1 \in Nat
  BY StatsAssumption
<1>2. /\ Newest(deltas, LogCapacity - 1) \in Seq(Deltas)
      /\ Len(Newest(deltas, LogCapacity - 1)) <= LogCapacity - 1
  BY <1>1, NewestFacts
<1> HIDE DEF Newest
<1>3. /\ Append(Newest(deltas, LogCapacity - 1), d) \in Seq(Deltas)
      /\ Len(Append(Newest(deltas, LogCapacity - 1), d))
            = Len(Newest(deltas, LogCapacity - 1)) + 1
  BY <1>2
<1>4. Len(Newest(deltas, LogCapacity - 1)) \in Nat
  BY <1>2
<1> QED
  BY <1>2, <1>3, <1>4, StatsAssumption DEF AppendDelta

(* The window of recent plans stays within its capacity.                   *)
LEMMA RecentFacts ==
    ASSUME NEW p \in Plan, recent \in Seq(Entries), recentCapacity \in Nat
    PROVE  /\ Newest(RecordRecent(p), recentCapacity) \in Seq(Entries)
           /\ Len(Newest(RecordRecent(p), recentCapacity)) <= recentCapacity
<1>1. RecentEntry(p) \in Entries
  BY DEF RecentEntry, Entries
<1>2. DOMAIN recent = 1 .. Len(recent) /\ Len(recent) \in Nat
  OBVIOUS
<1>3. RecordRecent(p) \in Seq(Entries)
  <2>1. CASE \E e \in Elements(recent) : e.plan = p
    <3>1. RecordRecent(p) =
             [i \in 1 .. Len(recent) |->
                 IF recent[i].plan = p THEN RecentEntry(p) ELSE recent[i]]
      BY <2>1, <1>2 DEF RecordRecent
    <3>2. \A i \in 1 .. Len(recent) : RecordRecent(p)[i] \in Entries
      BY <3>1, <1>1, ElementOfSeq
    <3> QED
      BY <3>1, <3>2, <1>2, IsASeq
  <2>2. CASE ~\E e \in Elements(recent) : e.plan = p
    BY <2>2, <1>1 DEF RecordRecent
  <2> QED
    BY <2>1, <2>2
<1> QED
  BY <1>3, NewestFacts

(* Counting an execution keeps the entries.                                *)
LEMMA UpdateFacts ==
    ASSUME NEW p \in Plan, NEW route, recent \in Seq(Entries),
           NEW r, r = [i \in DOMAIN recent |->
                          IF recent[i].plan = p
                          THEN UpdateExecution(recent[i], route)
                          ELSE recent[i]]
    PROVE  r \in Seq(Entries) /\ Len(r) = Len(recent)
<1>1. DOMAIN recent = 1 .. Len(recent) /\ Len(recent) \in Nat
  OBVIOUS
<1>2. \A e \in Entries : UpdateExecution(e, route) \in Entries
  <2> SUFFICES ASSUME NEW e \in Entries
               PROVE  UpdateExecution(e, route) \in Entries
    OBVIOUS
  <2> DEFINE direct == IF route = "direct" THEN e.direct + 1 ELSE e.direct
             fia == IF route = "fia" THEN e.fia + 1 ELSE e.fia
             events == IF e.events >= EventCapacity THEN e.events
                       ELSE e.events + 1
             dropped == IF e.events >= EventCapacity THEN e.dropped + 1
                        ELSE e.dropped
  <2>1. UpdateExecution(e, route) =
           [e EXCEPT !.direct = direct, !.fia = fia, !.events = events,
                     !.dropped = dropped]
    BY DEF UpdateExecution
  <2>2. direct \in Nat /\ fia \in Nat /\ events \in Nat /\ dropped \in Nat
    BY DEF Entries
  <2> HIDE DEF direct, fia, events, dropped
  <2> QED
    BY <2>1, <2>2 DEF Entries
<1>3. \A i \in 1 .. Len(recent) : r[i] \in Entries
  BY <1>1, <1>2, ElementOfSeq
<1>4. r \in Seq(Entries)
  BY <1>1, <1>3, IsASeq
<1> QED
  BY <1>1, <1>4, LenProperties

(* The next boundary is a multiple of the interval, and lies ahead.        *)
LEMMA BoundaryAhead ==
    ASSUME NEW total \in Nat, NEW n \in Nat, n # 0
    PROVE  /\ NextBoundary(total, n) \in Nat
           /\ total < NextBoundary(total, n)
           /\ \E k \in Nat : NextBoundary(total, n) = k * n
<1>1. /\ total \div n \in Nat
      /\ (total \div n + 1) * n \in Nat
      /\ total < (total \div n + 1) * n
  BY DivBound
<1>2. NextBoundary(total, n) = (total \div n + 1) * n
  BY DEF NextBoundary
<1>3. total \div n + 1 \in Nat
  BY <1>1
<1> HIDE DEF NextBoundary
<1>4. \E k \in Nat : NextBoundary(total, n) = k * n
  BY <1>2, <1>3
<1> QED
  BY <1>1, <1>2, <1>4

-----------------------------------------------------------------------------
(* Sums.  Total counts units, so that its laws are those of the finite     *)
(* sets.                                                                   *)

(* The units of a sequence of naturals, which Total counts.                *)
Column(i, n) == {i} \X (1 .. n)
Units(w) == UNION {Column(i, w[i]) : i \in DOMAIN w}

(* The units of v, k positions further.                                    *)
Moved(v, k) == [u \in Units(v) |-> << u[1] + k, u[2] >>]

(* So f moves them, and none onto another.                                 *)
MovesApart(n, v, k, f) ==
    /\ \A i \in 1 .. n : \A j \in 1 .. v[i] :
          /\ << i, j >> \in Units(v)
          /\ f[<< i, j >>] = << i + k, j >>
    /\ \A a, b \in Units(v) : f[a] = f[b] => a = b

(* The units of one position.                                              *)
LEMMA ColumnOfUnits ==
    ASSUME NEW i, NEW n \in Nat
    PROVE  IsFiniteSet(Column(i, n)) /\ Cardinality(Column(i, n)) = n
<1> DEFINE f == [j \in 1 .. n |-> << i, j >>]
           column == Column(i, n)
<1>1. IsFiniteSet(1 .. n) /\ Cardinality(1 .. n) = n
  BY FS_Interval
<1>2. f \in Bijection(1 .. n, column)
  <2>1. f \in [1 .. n -> column]
    BY DEF Column
  <2>2. \A a, b \in 1 .. n : f[a] = f[b] => a = b
    OBVIOUS
  <2>3. \A u \in column : \E j \in 1 .. n : f[j] = u
    BY DEF Column
  <2> QED
    BY <2>1, <2>2, <2>3, Fun_IsBij
<1> HIDE DEF f, column
<1>3. ExistsBijection(1 .. n, column)
  BY <1>2 DEF ExistsBijection
<1>4. IsFiniteSet(column) /\ Cardinality(column) = n
  BY <1>1, <1>3, FS_Bijection
<1> QED
  BY <1>4 DEF column

(* A unit is a position and a number up to the element there.              *)
LEMMA UnitsOf ==
    ASSUME NEW n \in Nat, NEW w \in [1 .. n -> Nat]
    PROVE  /\ \A u : u \in Units(w) <=>
                 \E i \in 1 .. n : \E j \in 1 .. w[i] : u = << i, j >>
           /\ \A i \in 1 .. n : \A j \in 1 .. w[i] : << i, j >> \in Units(w)
  BY DEF Units, Column

(* The units of a sequence are finitely many.                              *)
LEMMA TotalType ==
    ASSUME NEW n \in Nat, NEW w \in [1 .. n -> Nat]
    PROVE  /\ IsFiniteSet(Units(w))
           /\ Total(w) = Cardinality(Units(w))
           /\ Total(w) \in Nat
<1> DEFINE column == [i \in 1 .. n |-> Column(i, w[i])]
           columns == {Column(i, w[i]) : i \in 1 .. n}
<1>1. IsFiniteSet(1 .. n)
  BY FS_Interval
<1>2. column \in Surjection(1 .. n, columns)
  BY Fun_IsSurj
<1>3. \A c \in columns : IsFiniteSet(c)
  <2>1. \A i \in 1 .. n : w[i] \in Nat
    OBVIOUS
  <2> QED
    BY <2>1, ColumnOfUnits
<1>4. Units(w) = UNION columns
  BY DEF Units
<1> HIDE DEF column, columns
<1>5. IsFiniteSet(columns)
  BY <1>1, <1>2, FS_Surjection
<1>6. IsFiniteSet(Units(w))
  BY <1>3, <1>4, <1>5, FS_UNION
<1>7. Total(w) = Cardinality(Units(w))
  BY DEF Total, Units, Column
<1> QED
  BY <1>6, <1>7, FS_CardinalityType

(* One more element adds itself to the total.                              *)
LEMMA TotalOfAppended ==
    ASSUME NEW n \in Nat, NEW v \in [1 .. n -> Nat],
           NEW w \in [1 .. n + 1 -> Nat], \A i \in 1 .. n : w[i] = v[i]
    PROVE  Total(w) = Total(v) + w[n + 1]
<1> DEFINE last == Column(n + 1, w[n + 1])
<1>0. n + 1 \in Nat /\ w[n + 1] \in Nat
  OBVIOUS
<1>1. IsFiniteSet(last) /\ Cardinality(last) = w[n + 1]
  BY <1>0, ColumnOfUnits
<1>2. /\ IsFiniteSet(Units(v)) /\ Total(v) = Cardinality(Units(v))
      /\ Total(w) = Cardinality(Units(w))
      /\ Total(v) \in Nat
  BY <1>0, TotalType
<1>3. Units(w) = Units(v) \cup last
  <2>1. ASSUME NEW u \in Units(w)
        PROVE  u \in Units(v) \/ u \in last
    <3>1. PICK i \in 1 .. n + 1 : \E j \in 1 .. w[i] : u = << i, j >>
      BY <1>0, UnitsOf
    <3>2. CASE i = n + 1
      BY <3>1, <3>2 DEF Column
    <3>3. CASE i \in 1 .. n
      BY <3>1, <3>3, UnitsOf
    <3> QED
      BY <3>2, <3>3
  <2>2. ASSUME NEW u \in Units(v)
        PROVE  u \in Units(w)
    <3>1. PICK i \in 1 .. n : \E j \in 1 .. v[i] : u = << i, j >>
      BY UnitsOf
    <3>2. i \in 1 .. n + 1 /\ w[i] = v[i]
      OBVIOUS
    <3> QED
      BY <1>0, <3>1, <3>2, UnitsOf
  <2>3. ASSUME NEW u \in last
        PROVE  u \in Units(w)
    <3>1. n + 1 \in 1 .. n + 1
      OBVIOUS
    <3>2. PICK j \in 1 .. w[n + 1] : u = << n + 1, j >>
      BY DEF Column
    <3>3. \A m \in 1 .. w[n + 1] : << n + 1, m >> \in Units(w)
      BY <1>0, <3>1, UnitsOf
    <3> QED
      BY <3>2, <3>3
  <2> QED
    BY <2>1, <2>2, <2>3
<1>4. Units(v) \cap last = {}
  <2>1. ASSUME NEW u \in Units(v) PROVE u \notin last
    <3>1. PICK i \in 1 .. n : \E j \in 1 .. v[i] : u = << i, j >>
      BY UnitsOf
    <3> QED
      BY <3>1 DEF Column
  <2> QED
    BY <2>1
<1> HIDE DEF last
<1>5. Cardinality(Units(v) \cap last) = 0
  BY <1>4, FS_EmptySet
<1>6. Cardinality(Units(w))
         = Cardinality(Units(v)) + Cardinality(last)
              - Cardinality(Units(v) \cap last)
  BY <1>1, <1>2, <1>3, FS_Union
<1> QED
  BY <1>0, <1>1, <1>2, <1>5, <1>6

(* Units keep apart when their positions move by k.                        *)
LEMMA UnitsMoved ==
    ASSUME NEW n \in Nat, NEW k \in Nat, NEW v \in [1 .. n -> Nat]
    PROVE  MovesApart(n, v, k, Moved(v, k))
<1>1. \A i \in 1 .. n : \A j \in 1 .. v[i] :
         /\ << i, j >> \in Units(v)
         /\ Moved(v, k)[<< i, j >>] = << i + k, j >>
  BY UnitsOf DEF Moved
<1>2. ASSUME NEW a \in Units(v), NEW b \in Units(v),
             Moved(v, k)[a] = Moved(v, k)[b]
      PROVE  a = b
  <2>1. PICK i \in 1 .. n : \E j \in 1 .. v[i] : a = << i, j >>
    BY UnitsOf
  <2>2. PICK j \in 1 .. v[i] : a = << i, j >>
    BY <2>1
  <2>3. PICK x \in 1 .. n : \E y \in 1 .. v[x] : b = << x, y >>
    BY UnitsOf
  <2>4. PICK y \in 1 .. v[x] : b = << x, y >>
    BY <2>3
  <2>5. << i + k, j >> = << x + k, y >>
    BY <1>1, <1>2, <2>2, <2>4
  <2>6. i + k = x + k /\ j = y
    BY <2>5
  <2> QED
    BY <2>2, <2>4, <2>6
<1> QED
  BY <1>1, <1>2 DEF MovesApart

(* Dropping k elements at the front, or lowering others, lowers the total. *)
LEMMA TotalOfNewest ==
    ASSUME NEW n \in Nat, NEW k \in Nat, NEW v \in [1 .. n -> Nat],
           NEW w \in [1 .. n + k -> Nat], \A i \in 1 .. n : v[i] <= w[i + k]
    PROVE  Total(v) <= Total(w)
<1> DEFINE f == Moved(v, k)
<1>1. MovesApart(n, v, k, f)
  BY UnitsMoved
<1>2. DOMAIN f = Units(v) /\ f = [u \in Units(v) |-> f[u]]
  BY DEF Moved
<1> HIDE DEF f
<1>3. n + k \in Nat
  OBVIOUS
<1>4. f \in [Units(v) -> Units(w)]
  <2> SUFFICES ASSUME NEW u \in Units(v) PROVE f[u] \in Units(w)
    BY <1>2
  <2>1. PICK i \in 1 .. n : \E j \in 1 .. v[i] : u = << i, j >>
    BY UnitsOf
  <2>2. PICK j \in 1 .. v[i] : u = << i, j >>
    BY <2>1
  <2>3. i + k \in 1 .. n + k /\ j \in 1 .. w[i + k]
    OBVIOUS
  <2>4. << i + k, j >> \in Units(w)
    BY <1>3, <2>3, UnitsOf
  <2> QED
    BY <1>1, <2>2, <2>4 DEF MovesApart
<1>5. f \in Injection(Units(v), Units(w))
  BY <1>1, <1>4, Fun_IsInj DEF MovesApart
<1>6. /\ IsFiniteSet(Units(w)) /\ Total(w) = Cardinality(Units(w))
      /\ Total(v) = Cardinality(Units(v))
  BY <1>3, TotalType
<1> QED
  BY <1>5, <1>6, FS_Injection

(* Without its first element a sequence has the rest of the total.         *)
LEMMA TotalOfRest ==
    ASSUME NEW n \in Nat, NEW v \in [1 .. n -> Nat],
           NEW w \in [1 .. n + 1 -> Nat], \A i \in 1 .. n : v[i] = w[i + 1]
    PROVE  Total(w) = Total(v) + w[1]
<1> DEFINE first == Column(1, w[1])
           rest == Units(w) \ first
           f == Moved(v, 1)
<1>1. w[1] \in Nat /\ n + 1 \in Nat
  OBVIOUS
<1>2. IsFiniteSet(first) /\ Cardinality(first) = w[1]
  BY <1>1, ColumnOfUnits
<1>3. /\ IsFiniteSet(Units(v)) /\ Total(v) = Cardinality(Units(v))
      /\ Total(v) \in Nat
  BY TotalType
<1>4. IsFiniteSet(Units(w)) /\ Total(w) = Cardinality(Units(w))
  BY <1>1, TotalType
<1>5. MovesApart(n, v, 1, f)
  BY UnitsMoved
<1>6. DOMAIN f = Units(v) /\ f = [u \in Units(v) |-> f[u]]
  BY DEF Moved
<1> HIDE DEF f
<1>7. f \in [Units(v) -> rest]
  <2> SUFFICES ASSUME NEW u \in Units(v) PROVE f[u] \in rest
    BY <1>6
  <2>1. PICK i \in 1 .. n : \E j \in 1 .. v[i] : u = << i, j >>
    BY UnitsOf
  <2>2. PICK j \in 1 .. v[i] : u = << i, j >>
    BY <2>1
  <2>3. i + 1 \in 1 .. n + 1 /\ j \in 1 .. w[i + 1] /\ i + 1 # 1
    OBVIOUS
  <2>4. << i + 1, j >> \in Units(w)
    BY <1>1, <2>3, UnitsOf
  <2>5. << i + 1, j >> \in rest
    BY <2>3, <2>4 DEF Column
  <2>6. f[u] = << i + 1, j >>
    BY <1>5, <2>2 DEF MovesApart
  <2> QED
    BY <2>5, <2>6
<1>8. ASSUME NEW u \in rest
      PROVE  \E x \in Units(v) : f[x] = u
  <2>1. PICK i \in 1 .. n + 1 : \E j \in 1 .. w[i] : u = << i, j >>
    <3>1. u \in Units(w)
      OBVIOUS
    <3>2. \A x : x \in Units(w) <=>
             \E i \in 1 .. n + 1 : \E j \in 1 .. w[i] : x = << i, j >>
      BY <1>1, UnitsOf
    <3> QED
      BY <3>1, <3>2
  <2>2. PICK j \in 1 .. w[i] : u = << i, j >>
    BY <2>1
  <2>3. i # 1
    BY <2>2 DEF Column
  <2>4. i - 1 \in 1 .. n /\ (i - 1) + 1 = i
    BY <2>3
  <2>5. v[i - 1] = w[i]
    BY <2>4
  <2>6. j \in 1 .. v[i - 1]
    BY <2>5
  <2>7. /\ << i - 1, j >> \in Units(v)
        /\ f[<< i - 1, j >>] = << (i - 1) + 1, j >>
    BY <1>5, <2>4, <2>6 DEF MovesApart
  <2> QED
    BY <2>2, <2>4, <2>7
<1>9. Units(w) = first \cup rest /\ first \cap rest = {}
  <2>1. \A j \in 1 .. w[1] : << 1, j >> \in Units(w)
    BY <1>1, UnitsOf
  <2> QED
    BY <2>1 DEF Column
<1> HIDE DEF first, rest
<1>10. f \in Bijection(Units(v), rest)
  BY <1>5, <1>7, <1>8, Fun_IsBij DEF MovesApart
<1>11. IsFiniteSet(rest) /\ Cardinality(rest) = Total(v)
  BY <1>3, <1>10, FS_Bijection DEF ExistsBijection
<1>12. Cardinality(first \cap rest) = 0
  BY <1>9, FS_EmptySet
<1>13. Cardinality(Units(w))
          = Cardinality(first) + Cardinality(rest) - Cardinality(first \cap rest)
  BY <1>2, <1>9, <1>11, FS_Union
<1> QED
  BY <1>1, <1>2, <1>3, <1>4, <1>11, <1>12, <1>13

(* One element more by one is one more in total.                           *)
OneMore(n, v, w) ==
    \E k \in 1 .. n : /\ w[k] = v[k] + 1
                      /\ \A i \in 1 .. n : i # k => w[i] = v[i]

LEMMA TotalOfOneMore ==
    ASSUME NEW n \in Nat, NEW v \in [1 .. n -> Nat], NEW w \in [1 .. n -> Nat],
           OneMore(n, v, w)
    PROVE  Total(w) = Total(v) + 1
<1>0. PICK k \in 1 .. n : /\ w[k] = v[k] + 1
                         /\ \A i \in 1 .. n : i # k => w[i] = v[i]
  BY DEF OneMore
<1>1. Units(w) = Units(v) \cup {<< k, w[k] >>}
  <2>1. ASSUME NEW i \in 1 .. n, NEW j \in 1 .. w[i]
        PROVE  j \in 1 .. v[i] \/ << i, j >> = << k, w[k] >>
    BY <1>0
  <2>2. ASSUME NEW u \in Units(w)
        PROVE  u \in Units(v) \/ u = << k, w[k] >>
    <3>1. PICK i \in 1 .. n : \E j \in 1 .. w[i] : u = << i, j >>
      BY UnitsOf
    <3>2. PICK j \in 1 .. w[i] : u = << i, j >>
      BY <3>1
    <3> QED
      BY <2>1, <3>2, UnitsOf
  <2>3. ASSUME NEW i \in 1 .. n, NEW j \in 1 .. v[i]
        PROVE  j \in 1 .. w[i]
    BY <1>0
  <2>4. ASSUME NEW u \in Units(v)
        PROVE  u \in Units(w)
    <3>1. PICK i \in 1 .. n : \E j \in 1 .. v[i] : u = << i, j >>
      BY UnitsOf
    <3>2. PICK j \in 1 .. v[i] : u = << i, j >>
      BY <3>1
    <3> QED
      BY <2>3, <3>2, UnitsOf
  <2>5. << k, w[k] >> \in Units(w)
    <3>1. w[k] \in 1 .. w[k]
      BY <1>0
    <3> QED
      BY <3>1, UnitsOf
  <2> QED
    BY <2>2, <2>4, <2>5
<1>2. << k, w[k] >> \notin Units(v)
  BY <1>0, UnitsOf
<1>3. Cardinality(Units(w)) = Cardinality(Units(v)) + 1
  BY <1>1, <1>2, TotalType, FS_AddElement
<1> QED
  BY <1>3, TotalType

-----------------------------------------------------------------------------
(* The sums over the queues.                                               *)

(* A delta stands for a natural number of requests.                        *)
LEMMA RequestsOfDelta == \A d \in Deltas : RequestsOf(d) \in Nat
  BY StatsAssumption DEF Deltas, RequestsOf

(* The requests of each delta of a queue.                                  *)
Amounts(s) == [i \in DOMAIN s |-> RequestsOf(s[i])]

(* They are natural numbers, one for each delta.                           *)
LEMMA AmountsType ==
    ASSUME NEW s \in Seq(Deltas)
    PROVE  /\ Len(s) \in Nat
           /\ Amounts(s) \in [1 .. Len(s) -> Nat]
           /\ \A i \in 1 .. Len(s) : Amounts(s)[i] = RequestsOf(s[i])
           /\ Requests(s) = Total(Amounts(s)) /\ Requests(s) \in Nat
<1>1. Len(s) \in Nat /\ DOMAIN s = 1 .. Len(s)
  OBVIOUS
<1>2. \A i \in 1 .. Len(s) : s[i] \in Deltas
  BY ElementOfSeq
<1>3. /\ Amounts(s) \in [1 .. Len(s) -> Nat]
      /\ \A i \in 1 .. Len(s) : Amounts(s)[i] = RequestsOf(s[i])
  BY <1>1, <1>2, RequestsOfDelta DEF Amounts
<1>4. Requests(s) = Total(Amounts(s))
  BY DEF Requests, Amounts
<1> QED
  BY <1>1, <1>3, <1>4, TotalType

(* A delta appended adds its requests.                                     *)
LEMMA RequestsAppended ==
    ASSUME NEW s \in Seq(Deltas), NEW d \in Deltas
    PROVE  Requests(Append(s, d)) = Requests(s) + RequestsOf(d)
<1> DEFINE n == Len(s)
           t == Append(s, d)
<1>1. /\ t \in Seq(Deltas) /\ Len(t) = n + 1 /\ n \in Nat
      /\ \A i \in 1 .. n : t[i] = s[i]
      /\ t[n + 1] = d
  OBVIOUS
<1>2. /\ Amounts(s) \in [1 .. n -> Nat]
      /\ \A i \in 1 .. n : Amounts(s)[i] = RequestsOf(s[i])
      /\ Requests(s) = Total(Amounts(s))
  BY AmountsType
<1> HIDE DEF n, t
<1>3. /\ Amounts(t) \in [1 .. n + 1 -> Nat]
      /\ \A i \in 1 .. n + 1 : Amounts(t)[i] = RequestsOf(t[i])
      /\ Requests(t) = Total(Amounts(t))
  BY <1>1, AmountsType
<1>4. n + 1 \in 1 .. n + 1 /\ \A i \in 1 .. n : i \in 1 .. n + 1
  BY <1>1
<1>5. \A i \in 1 .. n : Amounts(t)[i] = Amounts(s)[i]
  BY <1>1, <1>2, <1>3, <1>4
<1>6. Amounts(t)[n + 1] = RequestsOf(d)
  BY <1>1, <1>3, <1>4
<1>7. Total(Amounts(t)) = Total(Amounts(s)) + Amounts(t)[n + 1]
  BY <1>1, <1>2, <1>3, <1>5, TotalOfAppended
<1>8. Requests(t) = Requests(s) + RequestsOf(d)
  BY <1>2, <1>3, <1>6, <1>7
<1> QED
  BY <1>8 DEF t

(* Without the oldest delta a queue is short of its requests.              *)
LEMMA RequestsOfRest ==
    ASSUME NEW s \in Seq(Deltas), Len(s) > 0
    PROVE  Requests(s)
              = Requests(SubSeq(s, 2, Len(s))) + RequestsOf(Head(s))
<1> DEFINE n == Len(s) - 1
           t == SubSeq(s, 2, Len(s))
<1>1. /\ n \in Nat /\ Len(s) = n + 1
      /\ t \in Seq(Deltas) /\ Len(t) = n
      /\ \A i \in 1 .. n : t[i] = s[i + 1]
      /\ Head(s) = s[1]
  <2>1. Len(s) \in Nat /\ n \in Nat /\ Len(s) = n + 1 /\ Head(s) = s[1]
    OBVIOUS
  <2>2. t \in Seq(Deltas) /\ Len(t) = n
    BY <2>1
  <2>3. \A i \in 1 .. n : t[i] = s[i + 1]
    BY <2>1
  <2> QED
    BY <2>1, <2>2, <2>3
<1> HIDE DEF n, t
<1>2. /\ Amounts(s) \in [1 .. n + 1 -> Nat]
      /\ \A i \in 1 .. n + 1 : Amounts(s)[i] = RequestsOf(s[i])
      /\ Requests(s) = Total(Amounts(s))
  BY <1>1, AmountsType
<1>3. /\ Amounts(t) \in [1 .. n -> Nat]
      /\ \A i \in 1 .. n : Amounts(t)[i] = RequestsOf(t[i])
      /\ Requests(t) = Total(Amounts(t))
  BY <1>1, AmountsType
<1>4. 1 \in 1 .. n + 1 /\ \A i \in 1 .. n : i + 1 \in 1 .. n + 1
  BY <1>1
<1>5. \A i \in 1 .. n : Amounts(t)[i] = Amounts(s)[i + 1]
  BY <1>1, <1>2, <1>3, <1>4
<1>6. Amounts(s)[1] = RequestsOf(Head(s))
  BY <1>1, <1>2, <1>4
<1>7. Total(Amounts(s)) = Total(Amounts(t)) + Amounts(s)[1]
  BY <1>1, <1>2, <1>3, <1>5, TotalOfRest
<1>8. Requests(s) = Requests(t) + RequestsOf(Head(s))
  BY <1>2, <1>3, <1>6, <1>7
<1> QED
  BY <1>8 DEF t

(* One more delta: its requests are pending, those of a delta it pushes    *)
(* out are dropped, and a push counts a dropped delta.                     *)
LEMMA AppendDeltaRequests ==
    ASSUME deltas \in Seq(Deltas), Len(deltas) <= LogCapacity,
           NEW d \in Deltas
    PROVE  /\ Requests(AppendDelta(d)) \in Nat /\ RequestsDropped \in Nat
           /\ Requests(AppendDelta(d)) + RequestsDropped
                 = Requests(deltas) + RequestsOf(d)
           /\ DeltaDropped \in Nat
           /\ DeltaDropped = 0 => RequestsDropped = 0
<1>1. Requests(AppendDelta(d)) \in Nat /\ Requests(deltas) \in Nat
  BY AmountsType, AppendDeltaFacts
<1>2. RequestsOf(d) \in Nat /\ LogCapacity \in Nat \ {0} /\ Len(deltas) \in Nat
  BY RequestsOfDelta, StatsAssumption
<1>3. CASE Len(deltas) < LogCapacity
  <2>1. Newest(deltas, LogCapacity - 1) = deltas
    BY <1>2, <1>3 DEF Newest
  <2>2. AppendDelta(d) = Append(deltas, d)
    BY <2>1 DEF AppendDelta
  <2>3. RequestsDropped = 0 /\ DeltaDropped = 0
    BY <1>2, <1>3 DEF RequestsDropped, DeltaDropped
  <2>4. Requests(Append(deltas, d)) = Requests(deltas) + RequestsOf(d)
    BY RequestsAppended
  <2> QED
    BY <1>1, <1>2, <2>2, <2>3, <2>4
<1>4. CASE Len(deltas) = LogCapacity
  <2> DEFINE s == SubSeq(deltas, 2, Len(deltas))
  <2>1. Newest(deltas, LogCapacity - 1) = s
    BY <1>2, <1>4 DEF Newest
  <2>2. s \in Seq(Deltas)
    BY <1>2
  <2>3. RequestsDropped = RequestsOf(Head(deltas)) /\ DeltaDropped = 1
    BY <1>2, <1>4 DEF RequestsDropped, DeltaDropped
  <2>4. Head(deltas) \in Deltas /\ Len(deltas) > 0
    BY <1>2, <1>4
  <2>5. Requests(deltas) = Requests(s) + RequestsOf(Head(deltas))
    BY <2>4, RequestsOfRest
  <2> HIDE DEF s
  <2>6. AppendDelta(d) = Append(s, d)
    BY <2>1 DEF AppendDelta
  <2>7. Requests(Append(s, d)) = Requests(s) + RequestsOf(d)
    BY <2>2, RequestsAppended
  <2>8. RequestsOf(Head(deltas)) \in Nat /\ Requests(s) \in Nat
    BY <2>2, <2>4, RequestsOfDelta, AmountsType
  <2> QED
    BY <1>1, <1>2, <2>3, <2>5, <2>6, <2>7, <2>8
<1> QED
  BY <1>2, <1>3, <1>4

(* The newest elements of a queue are the last ones, moved to the front.   *)
Suffix(t, s, k) ==
    /\ k \in Nat /\ Len(s) = Len(t) + k
    /\ \A i \in 1 .. Len(t) : i + k \in 1 .. Len(s) /\ t[i] = s[i + k]

(* The newest n elements are a suffix, of n unless there are fewer.        *)
LEMMA NewestIsSuffix ==
    ASSUME NEW S, NEW s \in Seq(S), NEW n \in Nat
    PROVE  \E k \in Nat : /\ Suffix(Newest(s, n), s, k)
                          /\ IF Len(s) > n THEN Len(Newest(s, n)) = n
                             ELSE k = 0
<1>1. Len(s) \in Nat
  OBVIOUS
<1>2. CASE Len(s) > n
  <2> DEFINE k == Len(s) - n
             t == SubSeq(s, k + 1, Len(s))
  <2>1. k \in Nat /\ k + n = Len(s) /\ k + 1 \in Nat
    BY <1>1, <1>2
  <2>2. Newest(s, n) = t
    BY <1>2 DEF Newest
  <2>3. Len(t) = n /\ \A i \in 1 .. n : t[i] = s[i + k]
    <3>1. k + 1 \in 1 .. Len(s) + 1 /\ Len(s) \in k .. Len(s)
      BY <1>1, <2>1
    <3> HIDE DEF k
    <3>2. Len(s) - (k + 1) + 1 = n
      BY <1>1, <2>1
    <3>3. Len(t) = Len(s) - (k + 1) + 1
      BY <1>1, <2>1, <3>1
    <3>4. \A i \in 1 .. n : t[i] = s[k + 1 + i - 1]
      BY <1>1, <2>1, <3>1, <3>2
    <3> HIDE DEF t
    <3>5. \A i \in 1 .. n : k + 1 + i - 1 = i + k
      BY <2>1
    <3> QED
      BY <3>2, <3>3, <3>4, <3>5
  <2> HIDE DEF k, t
  <2>4. \A i \in 1 .. n : i + k \in 1 .. Len(s)
    BY <1>1, <2>1
  <2>5. Suffix(t, s, k)
    BY <1>1, <2>1, <2>3, <2>4 DEF Suffix
  <2> QED
    BY <1>2, <2>1, <2>2, <2>3, <2>5
<1>3. CASE ~(Len(s) > n)
  <2>1. Newest(s, n) = s
    BY <1>3 DEF Newest
  <2>2. Suffix(s, s, 0)
    BY <1>1 DEF Suffix
  <2> QED
    BY <1>3, <2>1, <2>2
<1> QED
  BY <1>2, <1>3

(* The dropped events and the direct layers of the entries of a queue.     *)
DroppedOf(r) == [i \in DOMAIN r |-> r[i].dropped]
DirectOf(r) == [i \in DOMAIN r |-> r[i].direct]

(* They are natural numbers, one for each entry.                           *)
LEMMA EntrySums ==
    ASSUME NEW r \in Seq(Entries)
    PROVE  /\ Len(r) \in Nat /\ DOMAIN r = 1 .. Len(r)
           /\ \A i \in 1 .. Len(r) : r[i] \in Entries
           /\ DroppedOf(r) \in [1 .. Len(r) -> Nat]
           /\ DirectOf(r) \in [1 .. Len(r) -> Nat]
           /\ \A i \in 1 .. Len(r) : /\ DroppedOf(r)[i] = r[i].dropped
                                     /\ DirectOf(r)[i] = r[i].direct
           /\ Total(DroppedOf(r)) \in Nat /\ Total(DirectOf(r)) \in Nat
<1>1. Len(r) \in Nat /\ DOMAIN r = 1 .. Len(r)
  OBVIOUS
<1>2. \A i \in 1 .. Len(r) : r[i] \in Entries
  BY ElementOfSeq
<1>3. /\ DroppedOf(r) \in [1 .. Len(r) -> Nat]
      /\ DirectOf(r) \in [1 .. Len(r) -> Nat]
      /\ \A i \in 1 .. Len(r) : /\ DroppedOf(r)[i] = r[i].dropped
                                /\ DirectOf(r)[i] = r[i].direct
  BY <1>1, <1>2 DEF DroppedOf, DirectOf, Entries
<1> QED
  BY <1>1, <1>2, <1>3, TotalType

(* What an entry says of its layers.                                       *)
Accounts(e) ==
    /\ e.events + e.dropped = e.direct + e.fia
    /\ e.dropped > 0 => e.events = EventCapacity
    /\ e.events <= EventCapacity

(* A plan has one entry, and every entry accounts for its layers.          *)
Sampled(r) ==
    /\ \A i, j \in 1 .. Len(r) : r[i].plan = r[j].plan => i = j
    /\ \A i \in 1 .. Len(r) : Accounts(r[i])

(* So it is with a part of the queue, and the sums become no larger.       *)
LEMMA SampledSuffix ==
    ASSUME NEW r \in Seq(Entries), Sampled(r), NEW n \in Nat
    PROVE  /\ Newest(r, n) \in Seq(Entries) /\ Sampled(Newest(r, n))
           /\ Total(DroppedOf(Newest(r, n))) <= Total(DroppedOf(r))
           /\ Total(DirectOf(Newest(r, n))) <= Total(DirectOf(r))
<1> DEFINE t == Newest(r, n)
<1>1. t \in Seq(Entries)
  BY NewestFacts
<1>2. PICK k \in Nat : Suffix(t, r, k)
  BY NewestIsSuffix
<1> HIDE DEF t
<1>3. /\ Len(t) \in Nat
      /\ DroppedOf(t) \in [1 .. Len(t) -> Nat]
      /\ DirectOf(t) \in [1 .. Len(t) -> Nat]
      /\ \A i \in 1 .. Len(t) : /\ DroppedOf(t)[i] = t[i].dropped
                                /\ DirectOf(t)[i] = t[i].direct
  BY <1>1, EntrySums
<1>4. Len(r) = Len(t) + k
  BY <1>2 DEF Suffix
<1>5. /\ DroppedOf(r) \in [1 .. Len(t) + k -> Nat]
      /\ DirectOf(r) \in [1 .. Len(t) + k -> Nat]
      /\ \A i \in 1 .. Len(r) : /\ DroppedOf(r)[i] = r[i].dropped
                                /\ DirectOf(r)[i] = r[i].direct
  BY <1>4, EntrySums
<1>6. \A i \in 1 .. Len(t) : /\ DroppedOf(t)[i] = DroppedOf(r)[i + k]
                             /\ DirectOf(t)[i] = DirectOf(r)[i + k]
  BY <1>2, <1>3, <1>5 DEF Suffix
<1>7. \A i \in 1 .. Len(t) : /\ DroppedOf(t)[i] <= DroppedOf(r)[i + k]
                             /\ DirectOf(t)[i] <= DirectOf(r)[i + k]
  BY <1>3, <1>6
<1>8. Total(DroppedOf(t)) <= Total(DroppedOf(r))
  BY <1>3, <1>5, <1>7, TotalOfNewest
<1>9. Total(DirectOf(t)) <= Total(DirectOf(r))
  BY <1>3, <1>5, <1>7, TotalOfNewest
<1>10. Sampled(t)
  <2>1. ASSUME NEW i \in 1 .. Len(t), NEW j \in 1 .. Len(t),
               t[i].plan = t[j].plan
        PROVE  i = j
    <3>1. i + k = j + k
      BY <1>2, <2>1 DEF Suffix, Sampled
    <3> QED
      BY <1>3, <3>1
  <2>2. \A i \in 1 .. Len(t) : Accounts(t[i])
    BY <1>2 DEF Suffix, Sampled
  <2> QED
    BY <2>1, <2>2 DEF Sampled
<1> QED
  BY <1>1, <1>8, <1>9, <1>10 DEF t

(* An entry of a plan counted again starts over, in its place.             *)
LEMMA SampledRecorded ==
    ASSUME recent \in Seq(Entries), Sampled(recent), NEW p \in Plan
    PROVE  /\ RecordRecent(p) \in Seq(Entries) /\ Sampled(RecordRecent(p))
           /\ Total(DroppedOf(RecordRecent(p))) <= Total(DroppedOf(recent))
           /\ Total(DirectOf(RecordRecent(p))) <= Total(DirectOf(recent))
<1> DEFINE r == RecordRecent(p)
           n == Len(recent)
<1>1. /\ RecentEntry(p) \in Entries /\ Accounts(RecentEntry(p))
      /\ RecentEntry(p).plan = p /\ RecentEntry(p).dropped = 0
      /\ RecentEntry(p).direct = 0
  BY StatsAssumption DEF RecentEntry, Entries, Accounts
<1>2. /\ n \in Nat /\ DOMAIN recent = 1 .. n
      /\ \A i \in 1 .. n : recent[i] \in Entries
      /\ DroppedOf(recent) \in [1 .. n -> Nat]
      /\ DirectOf(recent) \in [1 .. n -> Nat]
      /\ \A i \in 1 .. n : /\ DroppedOf(recent)[i] = recent[i].dropped
                           /\ DirectOf(recent)[i] = recent[i].direct
      /\ Total(DroppedOf(recent)) \in Nat /\ Total(DirectOf(recent)) \in Nat
  BY EntrySums
<1> HIDE DEF n
<1>3. CASE \E e \in Elements(recent) : e.plan = p
  <2>1. r = [i \in 1 .. n |-> IF recent[i].plan = p THEN RecentEntry(p)
                              ELSE recent[i]]
    BY <1>2, <1>3 DEF RecordRecent
  <2> HIDE DEF r
  <2>2. \A i \in 1 .. n : r[i] \in Entries
    BY <1>1, <1>2, <2>1
  <2>3. r \in Seq(Entries) /\ Len(r) = n
    <3>1. r \in [1 .. n -> Entries]
      BY <2>1, <2>2
    <3> QED
      BY <1>2, <3>1, FunctionIsSeq
  <2>4. \A i \in 1 .. n : /\ r[i].plan = recent[i].plan
                          /\ Accounts(r[i])
                          /\ r[i].dropped <= recent[i].dropped
                          /\ r[i].direct <= recent[i].direct
    <3> SUFFICES ASSUME NEW i \in 1 .. n
                 PROVE  /\ r[i].plan = recent[i].plan
                        /\ Accounts(r[i])
                        /\ r[i].dropped <= recent[i].dropped
                        /\ r[i].direct <= recent[i].direct
      OBVIOUS
    <3>1. /\ recent[i].dropped \in Nat /\ recent[i].direct \in Nat
          /\ Accounts(recent[i])
      BY <1>2 DEF Entries, Sampled, n
    <3>2. CASE recent[i].plan = p
      BY <1>1, <2>1, <3>1, <3>2
    <3>3. CASE recent[i].plan # p
      BY <2>1, <3>1, <3>3
    <3> QED
      BY <3>2, <3>3
  <2>5. Sampled(r)
    BY <2>3, <2>4 DEF Sampled, n
  <2>6. /\ DroppedOf(r) \in [1 .. n -> Nat] /\ DirectOf(r) \in [1 .. n -> Nat]
        /\ \A i \in 1 .. n : /\ DroppedOf(r)[i] = r[i].dropped
                             /\ DirectOf(r)[i] = r[i].direct
    BY <2>3, EntrySums
  <2>7. \A i \in 1 .. n : /\ DroppedOf(r)[i] <= DroppedOf(recent)[i + 0]
                          /\ DirectOf(r)[i] <= DirectOf(recent)[i + 0]
    <3>1. \A i \in 1 .. n : i + 0 = i
      BY <1>2
    <3> QED
      BY <1>2, <2>4, <2>6, <3>1
  <2>8. n + 0 = n /\ 0 \in Nat
    BY <1>2
  <2>9. Total(DroppedOf(r)) <= Total(DroppedOf(recent))
    BY <1>2, <2>6, <2>7, <2>8, TotalOfNewest
  <2>10. Total(DirectOf(r)) <= Total(DirectOf(recent))
    BY <1>2, <2>6, <2>7, <2>8, TotalOfNewest
  <2> QED
    BY <2>3, <2>5, <2>9, <2>10 DEF r
<1>4. CASE ~\E e \in Elements(recent) : e.plan = p
  <2>1. r = Append(recent, RecentEntry(p))
    BY <1>4 DEF RecordRecent
  <2> HIDE DEF r
  <2>2. /\ r \in Seq(Entries) /\ Len(r) = n + 1 /\ r[n + 1] = RecentEntry(p)
        /\ \A i \in 1 .. n : r[i] = recent[i]
    BY <1>1, <2>1 DEF n
  <2>3. \A i \in 1 .. n : recent[i].plan # p
    BY <1>2, <1>4 DEF Elements
  <2>4. \A i \in 1 .. n + 1 : i \in 1 .. n \/ i = n + 1
    BY <1>2
  <2>5. Sampled(r)
    BY <1>1, <2>2, <2>3, <2>4 DEF Sampled, n
  <2>6. /\ DroppedOf(r) \in [1 .. n + 1 -> Nat]
        /\ DirectOf(r) \in [1 .. n + 1 -> Nat]
        /\ \A i \in 1 .. n + 1 : /\ DroppedOf(r)[i] = r[i].dropped
                                 /\ DirectOf(r)[i] = r[i].direct
    BY <2>2, EntrySums
  <2>7. /\ n + 1 \in 1 .. n + 1
        /\ \A i \in 1 .. n : i \in 1 .. n + 1
    BY <1>2
  <2>8. \A i \in 1 .. n : /\ DroppedOf(r)[i] = DroppedOf(recent)[i]
                          /\ DirectOf(r)[i] = DirectOf(recent)[i]
    BY <1>2, <2>2, <2>6, <2>7
  <2>9. Total(DroppedOf(r)) = Total(DroppedOf(recent)) + DroppedOf(r)[n + 1]
    BY <1>2, <2>6, <2>8, TotalOfAppended
  <2>10. Total(DirectOf(r)) = Total(DirectOf(recent)) + DirectOf(r)[n + 1]
    BY <1>2, <2>6, <2>8, TotalOfAppended
  <2>11. DroppedOf(r)[n + 1] = 0 /\ DirectOf(r)[n + 1] = 0
    BY <1>1, <2>2, <2>6, <2>7
  <2> QED
    BY <1>2, <2>2, <2>5, <2>9, <2>10, <2>11 DEF r
<1> QED
  BY <1>3, <1>4

(* One more layer of an entry.                                             *)
LEMMA UpdatedEntry ==
    ASSUME NEW e \in Entries, Accounts(e), NEW route \in {"direct", "fia"}
    PROVE  LET u == UpdateExecution(e, route) IN
           /\ u \in Entries /\ Accounts(u) /\ u.plan = e.plan
           /\ u.direct = IF route = "direct" THEN e.direct + 1 ELSE e.direct
           /\ u.dropped = IF e.events >= EventCapacity THEN e.dropped + 1
                          ELSE e.dropped
<1> DEFINE direct == IF route = "direct" THEN e.direct + 1 ELSE e.direct
           fia == IF route = "fia" THEN e.fia + 1 ELSE e.fia
           full == e.events >= EventCapacity
           events == IF full THEN e.events ELSE e.events + 1
           dropped == IF full THEN e.dropped + 1 ELSE e.dropped
           u == [plan |-> e.plan, direct |-> direct, fia |-> fia,
                 events |-> events, dropped |-> dropped]
<1>1. UpdateExecution(e, route) = u
  <2>1. UpdateExecution(e, route) =
           [e EXCEPT !.direct = direct, !.fia = fia, !.events = events,
                     !.dropped = dropped]
    BY DEF UpdateExecution
  <2> HIDE DEF direct, fia, events, dropped
  <2> QED
    BY <2>1 DEF Entries
<1>2. /\ e.plan \in Plan /\ e.direct \in Nat /\ e.fia \in Nat
      /\ e.events \in Nat /\ e.dropped \in Nat /\ EventCapacity \in Nat
      /\ e.events + e.dropped = e.direct + e.fia
      /\ e.dropped > 0 => e.events = EventCapacity
      /\ e.events <= EventCapacity
  BY StatsAssumption DEF Entries, Accounts
<1>3. direct + fia = e.direct + e.fia + 1
  BY <1>2
<1>4. events + dropped = e.events + e.dropped + 1
  BY <1>2
<1>5. (dropped > 0 => events = EventCapacity) /\ events <= EventCapacity
  BY <1>2
<1>6. events + dropped = direct + fia
  BY <1>2, <1>3, <1>4
<1>7. direct \in Nat /\ fia \in Nat /\ events \in Nat /\ dropped \in Nat
  BY <1>2
<1>8. u \in Entries /\ Accounts(u)
  <2> HIDE DEF direct, fia, events, dropped
  <2> QED
    BY <1>2, <1>5, <1>6, <1>7 DEF Entries, Accounts
<1> QED
  BY <1>1, <1>8

(* The trace after one more layer of plan p, and whether its sample is     *)
(* full.                                                                   *)
Updated(r, p, route) ==
    r = [i \in DOMAIN recent |->
            IF recent[i].plan = p THEN UpdateExecution(recent[i], route)
            ELSE recent[i]]

FullFor(p) ==
    \E e \in Elements(recent) : e.plan = p /\ e.events >= EventCapacity

(* Functions that agree are equal.                                         *)
LEMMA SameFunction ==
    ASSUME NEW n, NEW f \in [1 .. n -> Nat], NEW g \in [1 .. n -> Nat],
           \A i \in 1 .. n : f[i] = g[i]
    PROVE  f = g
<1>1. f = [i \in 1 .. n |-> f[i]] /\ g = [i \in 1 .. n |-> g[i]]
  OBVIOUS
<1> QED
  BY <1>1

(* One more layer of a plan: its entry accounts for it, and only that one. *)
LEMMA SampledUpdated ==
    ASSUME recent \in Seq(Entries), Sampled(recent), NEW p \in Plan,
           NEW route \in {"direct", "fia"},
           NEW r, Updated(r, p, route)
    PROVE  /\ Sampled(r)
           /\ Total(DroppedOf(r)) <= Total(DroppedOf(recent))
                                        + IF FullFor(p) THEN 1 ELSE 0
           /\ Total(DirectOf(r)) <= Total(DirectOf(recent))
                                       + IF route = "direct" THEN 1 ELSE 0
<1> DEFINE n == Len(recent)
<1>1. /\ n \in Nat /\ DOMAIN recent = 1 .. n
      /\ \A i \in 1 .. n : recent[i] \in Entries
      /\ DroppedOf(recent) \in [1 .. n -> Nat]
      /\ DirectOf(recent) \in [1 .. n -> Nat]
      /\ \A i \in 1 .. n : /\ DroppedOf(recent)[i] = recent[i].dropped
                           /\ DirectOf(recent)[i] = recent[i].direct
      /\ Total(DroppedOf(recent)) \in Nat /\ Total(DirectOf(recent)) \in Nat
  BY EntrySums
<1>2. r \in Seq(Entries) /\ Len(r) = n
  BY UpdateFacts DEF Updated
<1>3. /\ \A i \in 1 .. n : \A j \in 1 .. n :
            recent[i].plan = recent[j].plan => i = j
      /\ \A i \in 1 .. n : Accounts(recent[i])
  BY DEF Sampled
<1> HIDE DEF n
<1>4. /\ DroppedOf(r) \in [1 .. n -> Nat]
      /\ DirectOf(r) \in [1 .. n -> Nat]
      /\ \A i \in 1 .. n : /\ DroppedOf(r)[i] = r[i].dropped
                           /\ DirectOf(r)[i] = r[i].direct
  BY <1>2, EntrySums
<1>5. \A i \in 1 .. n :
         /\ recent[i].plan = p => r[i] = UpdateExecution(recent[i], route)
         /\ recent[i].plan # p => r[i] = recent[i]
  BY <1>1 DEF Updated
<1>6. \A i \in 1 .. n : Accounts(r[i]) /\ r[i].plan = recent[i].plan
  <2> SUFFICES ASSUME NEW i \in 1 .. n
               PROVE  Accounts(r[i]) /\ r[i].plan = recent[i].plan
    OBVIOUS
  <2>1. recent[i] \in Entries /\ Accounts(recent[i])
    BY <1>1, <1>3
  <2>2. CASE recent[i].plan = p
    <3>1. r[i] = UpdateExecution(recent[i], route)
      BY <1>5, <2>2
    <3>2. /\ Accounts(UpdateExecution(recent[i], route))
          /\ UpdateExecution(recent[i], route).plan = recent[i].plan
      BY <2>1, UpdatedEntry
    <3> QED
      BY <3>1, <3>2
  <2>3. CASE recent[i].plan # p
    BY <1>5, <2>1, <2>3
  <2> QED
    BY <2>2, <2>3
<1>7. Sampled(r)
  BY <1>2, <1>3, <1>6 DEF Sampled
<1>8. CASE \A i \in 1 .. n : recent[i].plan # p
  <2>1. \A i \in 1 .. n : /\ DroppedOf(r)[i] = DroppedOf(recent)[i]
                          /\ DirectOf(r)[i] = DirectOf(recent)[i]
    BY <1>1, <1>4, <1>5, <1>8
  <2>2. DroppedOf(r) = DroppedOf(recent) /\ DirectOf(r) = DirectOf(recent)
    BY <1>1, <1>4, <2>1, SameFunction
  <2> QED
    BY <1>1, <1>7, <2>2
<1>9. CASE \E k \in 1 .. n : recent[k].plan = p
  <2>1. PICK k \in 1 .. n : recent[k].plan = p
    BY <1>9
  <2> DEFINE u == UpdateExecution(recent[k], route)
  <2>2. /\ recent[k] \in Entries /\ Accounts(recent[k])
        /\ recent[k].dropped \in Nat /\ recent[k].direct \in Nat
    BY <1>1, <1>3, <2>1 DEF Entries
  <2>3. /\ u.direct = IF route = "direct" THEN recent[k].direct + 1
                      ELSE recent[k].direct
        /\ u.dropped = IF recent[k].events >= EventCapacity
                       THEN recent[k].dropped + 1 ELSE recent[k].dropped
    BY <2>2, UpdatedEntry
  <2>4. r[k] = u
    BY <1>5, <2>1
  <2> HIDE DEF u
  <2>5. \A i \in 1 .. n : i # k => r[i] = recent[i]
    BY <1>3, <1>5, <2>1
  <2>6. \A i \in 1 .. n : i # k =>
           /\ DroppedOf(r)[i] = DroppedOf(recent)[i]
           /\ DirectOf(r)[i] = DirectOf(recent)[i]
    BY <1>1, <1>4, <2>5
  <2>7. recent[k].events >= EventCapacity => FullFor(p)
    BY <1>1, <2>1 DEF Elements, FullFor
  <2>8. Total(DroppedOf(r)) <= Total(DroppedOf(recent))
                                  + IF FullFor(p) THEN 1 ELSE 0
    <3>1. CASE recent[k].events >= EventCapacity
      <4>1. DroppedOf(r)[k] = DroppedOf(recent)[k] + 1
        BY <1>1, <1>4, <2>1, <2>3, <2>4, <3>1
      <4>2. Total(DroppedOf(r)) = Total(DroppedOf(recent)) + 1
        <5>1. OneMore(n, DroppedOf(recent), DroppedOf(r))
          BY <2>1, <2>6, <4>1 DEF OneMore
        <5> QED
          BY <1>1, <1>4, <5>1, TotalOfOneMore
      <4> QED
        BY <1>1, <2>7, <3>1, <4>2
    <3>2. CASE ~(recent[k].events >= EventCapacity)
      <4>1. DroppedOf(r)[k] = DroppedOf(recent)[k]
        BY <1>1, <1>4, <2>1, <2>3, <2>4, <3>2
      <4>2. DroppedOf(r) = DroppedOf(recent)
        <5>1. \A i \in 1 .. n : DroppedOf(r)[i] = DroppedOf(recent)[i]
          BY <2>6, <4>1
        <5>2. /\ DroppedOf(r) \in [1 .. n -> Nat]
              /\ DroppedOf(recent) \in [1 .. n -> Nat]
          BY <1>1, <1>4
        <5> QED
          BY <5>1, <5>2, SameFunction
      <4> QED
        BY <1>1, <4>2
    <3> QED
      BY <3>1, <3>2
  <2>9. Total(DirectOf(r)) <= Total(DirectOf(recent))
                                 + IF route = "direct" THEN 1 ELSE 0
    <3>1. CASE route = "direct"
      <4>1. DirectOf(r)[k] = DirectOf(recent)[k] + 1
        BY <1>1, <1>4, <2>1, <2>3, <2>4, <3>1
      <4>2. Total(DirectOf(r)) = Total(DirectOf(recent)) + 1
        <5>1. OneMore(n, DirectOf(recent), DirectOf(r))
          BY <2>1, <2>6, <4>1 DEF OneMore
        <5> QED
          BY <1>1, <1>4, <5>1, TotalOfOneMore
      <4> QED
        BY <1>1, <3>1, <4>2
    <3>2. CASE route # "direct"
      <4>1. DirectOf(r)[k] = DirectOf(recent)[k]
        BY <1>1, <1>4, <2>1, <2>3, <2>4, <3>2
      <4>2. DirectOf(r) = DirectOf(recent)
        <5>1. \A i \in 1 .. n : DirectOf(r)[i] = DirectOf(recent)[i]
          BY <2>6, <4>1
        <5>2. /\ DirectOf(r) \in [1 .. n -> Nat]
              /\ DirectOf(recent) \in [1 .. n -> Nat]
          BY <1>1, <1>4
        <5> QED
          BY <5>1, <5>2, SameFunction
      <4> QED
        BY <1>1, <4>2, <3>2
    <3> QED
      BY <3>1, <3>2
  <2> QED
    BY <1>7, <2>8, <2>9
<1> QED
  BY <1>8, <1>9

-----------------------------------------------------------------------------
(* The invariant holds initially and every step keeps it.                  *)

LEMMA InitLInv == Init => LInv
  BY StatsAssumption DEF Init, LInv, Types, OverdueIsPending, Overdue,
     BoundaryOrder, Zero, Counters

LEMMA ConfigureLInv ==
    ASSUME LInv, NEW capacity \in RecentCapacities, NEW n \in Intervals,
           Configure(capacity, n)
    PROVE  LInv'
<1>1. capacity \in Nat /\ n \in Nat
  BY StatsAssumption
<1>2. recent' \in Seq(Entries) /\ Len(recent') <= recentCapacity'
  BY <1>1, NewestFacts DEF LInv, Types, Configure
<1>3. counters.requests \in Nat
  BY DEF LInv, Types, Counters
<1>4. CASE interval # n
  <2>1. /\ interval' = n /\ deltas' = << >> /\ due' = {} /\ active' = {}
        /\ lastBoundary' = 0
        /\ nextLog' = NextBoundary(counters.requests, n)
        /\ counters' = counters /\ recentCapacity' = capacity
        /\ UNCHANGED << seen, pc, job >>
    BY <1>4 DEF Configure
  <2>2. CASE n = 0
    <3>1. nextLog' = 0
      BY <2>1, <2>2 DEF NextBoundary
    <3> QED
      BY <1>1, <1>2, <2>1, <2>2, <3>1, StatsAssumption
         DEF LInv, Types, OverdueIsPending, Overdue, BoundaryOrder
  <2>3. CASE n # 0
    <3>1. /\ nextLog' \in Nat /\ counters.requests < nextLog'
          /\ \E k \in Nat : nextLog' = k * interval'
      BY <1>1, <1>3, <2>1, <2>3, BoundaryAhead
    <3>2. Types'
      BY <1>1, <1>2, <2>1, <3>1, StatsAssumption DEF LInv, Types
    <3> QED
      BY <1>3, <2>1, <3>1, <3>2
         DEF LInv, OverdueIsPending, Overdue, BoundaryOrder
  <2> QED
    BY <2>2, <2>3
<1>5. CASE interval = n
  <2>1. /\ recentCapacity' = capacity
        /\ UNCHANGED << counters, seen, interval, deltas, due, active,
                        lastBoundary, nextLog, pc, job >>
    BY <1>5 DEF Configure
  <2> QED
    BY <1>1, <1>2, <2>1
       DEF LInv, Types, OverdueIsPending, Overdue, BoundaryOrder
<1> QED
  BY <1>4, <1>5

LEMMA RecordPlannerDecisionLInv ==
    ASSUME LInv, NEW t \in Thread, NEW p \in Plan,
           NEW route \in {"direct", "fia"},
           RecordPlannerDecision(t, p, route)
    PROVE  LInv'
<1>1. /\ pc' = [pc EXCEPT ![t] = "layer"]
      /\ job' = [job EXCEPT ![t] = [plan |-> p, route |-> route]]
  BY DEF RecordPlannerDecision
<1>2. /\ pc' \in [Thread -> {"idle", "layer", "log"}]
      /\ DOMAIN job' = Thread
      /\ \A u \in Thread : pc'[u] = "layer" =>
            job'[u] \in [plan : Plan, route : {"direct", "fia"}]
      /\ \E u \in Thread : pc'[u] # "idle"
  BY <1>1 DEF LInv, Types
<1>3. CASE p \in Elements(seen)
  BY <1>2, <1>3 DEF RecordPlannerDecision, statsVars, LInv, Types,
     OverdueIsPending, Overdue, BoundaryOrder
<1>4. CASE p \notin Elements(seen)
  <2>1. /\ Batch[p].size \in Nat /\ Batch[p].eligible \in Nat
        /\ Batch[p].size - Batch[p].eligible \in Nat
    BY StatsAssumption
  <2>2. counters' \in Counters
    <3>1. DeltaDropped \in Nat
      BY DEF DeltaDropped
    <3>2. counters' =
             [counters EXCEPT
                !.requests = counters.requests + Batch[p].size,
                !.eligible = @ + Batch[p].eligible,
                !.ineligible = @ + Batch[p].size - Batch[p].eligible,
                !.deltasDropped =
                    IF interval = 0 THEN @ ELSE @ + DeltaDropped]
      BY <1>4 DEF RecordPlannerDecision
    <3>3. counters \in Counters
      BY DEF LInv, Types
    <3> HIDE DEF DeltaDropped
    <3>4. counters' =
             [requests |-> counters.requests + Batch[p].size,
              eligible |-> counters.eligible + Batch[p].eligible,
              ineligible |-> counters.ineligible + Batch[p].size
                                - Batch[p].eligible,
              direct |-> counters.direct, fia |-> counters.fia,
              deltasDropped |-> IF interval = 0 THEN counters.deltasDropped
                                ELSE counters.deltasDropped + DeltaDropped,
              eventsDropped |-> counters.eventsDropped]
      BY <3>2, <3>3 DEF Counters
    <3> QED
      BY <2>1, <3>1, <3>3, <3>4 DEF Counters
  <2>3. seen' \in Seq(Plan) /\ Len(seen') <= SeenCapacity
    <3>1. Append(seen, p) \in Seq(Plan)
      BY DEF LInv, Types
    <3>2. seen' = Newest(Append(seen, p), SeenCapacity)
      BY <1>4 DEF RecordPlannerDecision
    <3> QED
      BY <3>1, <3>2, NewestFacts, StatsAssumption
  <2>4. recent' \in Seq(Entries) /\ Len(recent') <= recentCapacity
    <3>1. recent' = IF recentCapacity = 0 THEN recent
                    ELSE Newest(RecordRecent(p), recentCapacity)
      BY <1>4 DEF RecordPlannerDecision
    <3> QED
      BY <3>1, RecentFacts DEF LInv, Types
  <2>5. UNCHANGED << recentCapacity, active, interval, nextLog,
                     lastBoundary >>
    BY <1>4 DEF RecordPlannerDecision
  <2>6. /\ deltas' \in Seq(Deltas) /\ Len(deltas') <= LogCapacity
        /\ due' \subseteq Plan
        /\ interval # 0 => deltas' # << >>
    <3>1. CASE interval = 0
      BY <1>4, <3>1 DEF RecordPlannerDecision, LInv, Types
    <3>2. CASE interval # 0
      <4>1. [kind |-> "planner", plan |-> p] \in Deltas
        BY DEF Deltas
      <4>2. /\ deltas' = AppendDelta([kind |-> "planner", plan |-> p])
            /\ due' \subseteq due \cup {p}
        BY <1>4, <3>2 DEF RecordPlannerDecision
      <4> QED
        BY <4>1, <4>2, AppendDeltaFacts DEF LInv, Types
    <3> QED
      BY <3>1, <3>2
  <2>7. Types'
    BY <1>2, <2>2, <2>3, <2>4, <2>5, <2>6 DEF LInv, Types
  <2> QED
    BY <1>2, <2>5, <2>6, <2>7
       DEF LInv, OverdueIsPending, Overdue, BoundaryOrder
<1> QED
  BY <1>3, <1>4

LEMMA CapturedLayerLInv ==
    ASSUME LInv, NEW t \in Thread, NEW p \in Plan, CapturedLayer(t, p)
    PROVE  LInv'
  BY DEF CapturedLayer, statsVars, LInv, Types, OverdueIsPending, Overdue,
     BoundaryOrder

LEMMA RecordLayerLInv ==
    ASSUME LInv, NEW t \in Thread, RecordLayer(t)
    PROVE  LInv'
<1> DEFINE p == job[t].plan
           route == job[t].route
           logs == interval # 0 /\ p \in Elements(seen)
<1>1. p \in Plan /\ pc[t] = "layer"
  BY DEF RecordLayer, LInv, Types
<1>2. /\ pc' = [pc EXCEPT ![t] = "log"]
      /\ UNCHANGED << seen, recentCapacity, due, active, interval, nextLog,
                      lastBoundary, job >>
  BY DEF RecordLayer
<1>3. /\ recent' \in Seq(Entries)
      /\ Len(recent') = Len(recent)
  <2>1. recent' = [i \in DOMAIN recent |->
                      IF recent[i].plan = p
                      THEN UpdateExecution(recent[i], route)
                      ELSE recent[i]]
    BY DEF RecordLayer
  <2> QED
    BY <1>1, <2>1, UpdateFacts DEF LInv, Types
<1>4. /\ deltas' \in Seq(Deltas) /\ Len(deltas') <= LogCapacity
      /\ deltas # << >> => deltas' # << >>
  <2>1. [kind |-> "layer", plan |-> p] \in Deltas
    BY <1>1 DEF Deltas
  <2>2. \/ deltas' = AppendDelta([kind |-> "layer", plan |-> p])
        \/ deltas' = deltas
    BY DEF RecordLayer
  <2> QED
    BY <2>1, <2>2, AppendDeltaFacts DEF LInv, Types
<1>5. counters' \in Counters /\ counters'.requests = counters.requests
  <2>1. DeltaDropped \in Nat
    BY DEF DeltaDropped
  <2> DEFINE full == \E e \in Elements(recent) :
                         e.plan = p /\ e.events >= EventCapacity
  <2>2. counters' =
          [counters EXCEPT
             !.direct = IF route = "direct" THEN @ + 1 ELSE @,
             !.fia = IF route = "fia" THEN @ + 1 ELSE @,
             !.deltasDropped = IF logs THEN @ + DeltaDropped ELSE @,
             !.eventsDropped = IF full THEN @ + 1 ELSE @]
    BY DEF RecordLayer
  <2> HIDE DEF full, logs, route, DeltaDropped
  <2>3. counters \in Counters
    BY DEF LInv, Types
  <2>4. counters' =
          [requests |-> counters.requests, eligible |-> counters.eligible,
           ineligible |-> counters.ineligible,
           direct |-> IF route = "direct" THEN counters.direct + 1
                      ELSE counters.direct,
           fia |-> IF route = "fia" THEN counters.fia + 1 ELSE counters.fia,
           deltasDropped |-> IF logs THEN counters.deltasDropped + DeltaDropped
                             ELSE counters.deltasDropped,
           eventsDropped |-> IF full THEN counters.eventsDropped + 1
                             ELSE counters.eventsDropped]
    BY <2>2, <2>3 DEF Counters
  <2> QED
    BY <2>1, <2>3, <2>4 DEF Counters
<1>6. Types'
  BY <1>2, <1>3, <1>4, <1>5 DEF LInv, Types
<1>7. \E u \in Thread : pc'[u] # "idle"
  BY <1>2 DEF LInv, Types
<1> QED
  BY <1>2, <1>4, <1>5, <1>6, <1>7
     DEF LInv, OverdueIsPending, Overdue, BoundaryOrder

LEMMA StructuredLogLInv ==
    ASSUME LInv, NEW t \in Thread, StructuredLog(t)
    PROVE  LInv'
<1>1. /\ pc[t] = "log"
      /\ pc' = [pc EXCEPT ![t] = "idle"]
      /\ UNCHANGED << counters, seen, recent, recentCapacity, interval, job >>
  BY DEF StructuredLog
<1>2. /\ pc' \in [Thread -> {"idle", "layer", "log"}]
      /\ \A u \in Thread : pc'[u] = "layer" => pc[u] = "layer"
  BY <1>1 DEF LInv, Types
<1>3. CASE interval = 0 \/ deltas = << >> \/ ~(IsDue \/ Supplemental)
  <2>1. UNCHANGED << deltas, nextLog, lastBoundary, active, due >>
    BY <1>3 DEF StructuredLog
  <2>2. Types'
    BY <1>1, <1>2, <2>1 DEF LInv, Types
  <2>3. ~Overdue
    BY <1>3 DEF LInv, OverdueIsPending, Overdue, IsDue
  <2> QED
    BY <1>1, <2>1, <2>2, <2>3
       DEF LInv, OverdueIsPending, Overdue, BoundaryOrder
<1>4. CASE ~(interval = 0 \/ deltas = << >> \/ ~(IsDue \/ Supplemental))
  <2>1. deltas' = << >> /\ deltas' \in Seq(Deltas) /\ Len(deltas') = 0
    BY <1>4 DEF StructuredLog
  <2>2. CASE ~IsDue
    <3>1. UNCHANGED << nextLog, lastBoundary, active, due >>
      BY <1>4, <2>2 DEF StructuredLog
    <3>2. Types'
      BY <1>1, <1>2, <2>1, <3>1, StatsAssumption DEF LInv, Types
    <3>3. ~Overdue
      BY <2>2 DEF IsDue, Overdue
    <3> QED
      BY <1>1, <3>1, <3>2, <3>3
         DEF LInv, OverdueIsPending, Overdue, BoundaryOrder
  <2>3. CASE IsDue
    <3> DEFINE q == counters.requests \div interval
    <3>1. EmitDue
      BY <1>4, <2>3 DEF StructuredLog
    <3>2. /\ nextLog' = q * interval + interval
          /\ lastBoundary' = q * interval
          /\ active' = due /\ due' = {}
      BY <3>1 DEF EmitDue
    <3>3. counters.requests \in Nat /\ interval \in Nat \ {0}
      BY <1>4 DEF LInv, Types, Counters
    <3>4. /\ q \in Nat /\ q * interval \in Nat
          /\ (q + 1) * interval = q * interval + interval
          /\ counters.requests < q * interval + interval
      BY <3>3, DivBound
    <3> HIDE DEF q
    <3>5. nextLog' \in Nat /\ lastBoundary' \in Nat
      BY <3>2, <3>3, <3>4
    <3>6. /\ lastBoundary' < nextLog'
          /\ \E k \in Nat : nextLog' = k * interval
          /\ counters.requests < nextLog'
      <4>1. q + 1 \in Nat /\ nextLog' = (q + 1) * interval
        BY <3>2, <3>4
      <4>2. lastBoundary' < nextLog' /\ counters.requests < nextLog'
        BY <3>2, <3>3, <3>4
      <4> QED
        BY <4>1, <4>2
    <3>7. Types'
      BY <1>1, <1>2, <2>1, <3>2, <3>5, StatsAssumption DEF LInv, Types
    <3>8. ~Overdue'
      <4>1. ~(counters.requests >= nextLog')
        BY <3>3, <3>5, <3>6
      <4> QED
        BY <1>1, <4>1 DEF Overdue
    <3> QED
      BY <1>1, <3>6, <3>7, <3>8 DEF LInv, OverdueIsPending, BoundaryOrder
  <2> QED
    BY <2>2, <2>3
<1> QED
  BY <1>3, <1>4

LEMMA ResetLInv ==
    ASSUME LInv, Reset
    PROVE  LInv'
<1>1. /\ counters' = Zero
      /\ seen' = << >> /\ recent' = << >> /\ deltas' = << >>
      /\ due' = {} /\ active' = {}
      /\ nextLog' = interval /\ lastBoundary' = 0
      /\ UNCHANGED << recentCapacity, interval, pc, job >>
  BY DEF Reset
<1>2. Types'
  BY <1>1, StatsAssumption DEF LInv, Types, Zero, Counters
<1>3. interval' # 0 => /\ lastBoundary' < nextLog'
                       /\ \E k \in Nat : nextLog' = k * interval'
  <2>1. interval \in Nat /\ interval = 1 * interval
    BY DEF LInv, Types
  <2> QED
    BY <1>1, <2>1
<1>4. ~Overdue'
  BY <1>1 DEF Overdue, Zero, LInv, Types
<1> QED
  BY <1>2, <1>3, <1>4 DEF LInv, OverdueIsPending, BoundaryOrder

LEMMA LInvInvariant == Spec => []LInv
<1>1. ASSUME LInv, [Next]_vars
      PROVE  LInv'
  <2>1. CASE UNCHANGED vars
    BY <1>1, <2>1 DEF vars, statsVars, LInv, Types, OverdueIsPending, Overdue,
       BoundaryOrder
  <2>2. CASE \E capacity \in RecentCapacities, n \in Intervals :
                 Configure(capacity, n)
    BY <1>1, <2>2, ConfigureLInv
  <2>3. CASE \E t \in Thread, p \in Plan :
                 \E route \in {"direct", "fia"} :
                    RecordPlannerDecision(t, p, route)
    BY <1>1, <2>3, RecordPlannerDecisionLInv
  <2>4. CASE \E t \in Thread, p \in Plan : CapturedLayer(t, p)
    BY <1>1, <2>4, CapturedLayerLInv
  <2>5. CASE \E t \in Thread : RecordLayer(t)
    BY <1>1, <2>5, RecordLayerLInv
  <2>6. CASE \E t \in Thread : StructuredLog(t)
    BY <1>1, <2>6, StructuredLogLInv
  <2>7. CASE Reset
    BY <1>1, <2>7, ResetLInv
  <2> QED
    BY <1>1, <2>1, <2>2, <2>3, <2>4, <2>5, <2>6, <2>7 DEF Next
<1> QED
  BY InitLInv, <1>1, PTL DEF Spec

-----------------------------------------------------------------------------
(* The accounts: what the counters, the queues and the log say together.   *)

(* The recent trace accounts for its layers and the counters cover it.     *)
SamplesHold ==
    /\ Sampled(recent)
    /\ Total(DroppedOf(recent)) <= counters.eventsDropped
    /\ Total(DirectOf(recent)) <= counters.direct

(* Every counted request is logged, dropped or pending.                    *)
LogHolds ==
    /\ logged \in [base : Nat, out : Nat, dropped : Nat]
    /\ interval # 0 =>
          counters.requests =
             logged.base + logged.out + logged.dropped + Requests(deltas)
    /\ counters.deltasDropped = 0 => logged.dropped = 0

(* More about the plans of the last boundary has a layer that will log it. *)
MoreIsFollowed ==
    interval # 0 /\ deltas # << >> /\ active # {}
       /\ (\A d \in Elements(deltas) : d.plan \in active)
    => \E t \in Thread : pc[t] # "idle"

(* The seen plans are the last ones counted, all of them until the window  *)
(* is full, and the requests are those of the counted plans.               *)
Sizes(s) == [i \in DOMAIN s |-> Batch[s[i]].size]

WindowHolds ==
    /\ counted \in Seq(Plan)
    /\ \E k \in Nat : /\ Suffix(seen, counted, k)
                      /\ k = 0 \/ Len(seen) = SeenCapacity
    /\ \A i, j \in 1 .. Len(counted) :
          i < j /\ counted[i] = counted[j] => j - i > SeenCapacity
    /\ counters.requests = Total(Sizes(counted))

(* Nothing adds up to nothing.                                             *)
LEMMA TotalOfNothing == Total(<< >>) = 0
<1>1. UNION {{i} \X (1 .. (<< >>)[i]) : i \in DOMAIN << >>} = {}
  OBVIOUS
<1> QED
  BY <1>1, FS_EmptySet DEF Total

(* Empty queues.                                                           *)
LEMMA EmptyQueues ==
    /\ Requests(<< >>) = 0 /\ Total(Sizes(<< >>)) = 0
    /\ Total(DroppedOf(<< >>)) = 0 /\ Total(DirectOf(<< >>)) = 0
    /\ Sampled(<< >>)
<1>1. /\ Amounts(<< >>) = << >> /\ Sizes(<< >>) = << >>
      /\ DroppedOf(<< >>) = << >> /\ DirectOf(<< >>) = << >>
  BY DEF Amounts, Sizes, DroppedOf, DirectOf
<1>2. Requests(<< >>) = Total(Amounts(<< >>))
  BY DEF Requests, Amounts
<1>3. Sampled(<< >>)
  BY DEF Sampled
<1> QED
  BY <1>1, <1>2, <1>3, TotalOfNothing

(* Initially nothing is counted.                                           *)
LEMMA InitAccounts ==
    Init => SamplesHold /\ LogHolds /\ MoreIsFollowed /\ WindowHolds
<1> SUFFICES ASSUME Init
             PROVE  SamplesHold /\ LogHolds /\ MoreIsFollowed /\ WindowHolds
  OBVIOUS
<1>1. /\ recent = << >> /\ deltas = << >> /\ seen = << >> /\ counted = << >>
      /\ interval = 0 /\ logged = [base |-> 0, out |-> 0, dropped |-> 0]
      /\ counters.requests = 0 /\ counters.direct = 0
      /\ counters.eventsDropped = 0 /\ counters.deltasDropped = 0
  BY DEF Init, Zero, NothingLogged
<1>2. SamplesHold
  BY <1>1, EmptyQueues DEF SamplesHold
<1>3. LogHolds
  BY <1>1 DEF LogHolds
<1>4. MoreIsFollowed
  BY <1>1 DEF MoreIsFollowed
<1>5. WindowHolds
  <2>1. Suffix(<< >>, << >>, 0)
    BY DEF Suffix
  <2> QED
    BY <1>1, <2>1, EmptyQueues DEF WindowHolds
<1> QED
  BY <1>2, <1>3, <1>4, <1>5

(* Every step keeps the accounts of the recent trace.                      *)
LEMMA SamplesKept ==
    ASSUME LInv, SamplesHold, [Next]_vars
    PROVE  SamplesHold'
<1>1. /\ recent \in Seq(Entries) /\ recentCapacity \in Nat
      /\ counters \in Counters
      /\ counters.eventsDropped \in Nat /\ counters.direct \in Nat
      /\ Sampled(recent)
      /\ Total(DroppedOf(recent)) <= counters.eventsDropped
      /\ Total(DirectOf(recent)) <= counters.direct
      /\ Total(DroppedOf(recent)) \in Nat /\ Total(DirectOf(recent)) \in Nat
  BY EntrySums DEF LInv, Types, Counters, SamplesHold
<1>2. CASE UNCHANGED vars
  BY <1>2, <1>1 DEF vars, statsVars, SamplesHold
<1>3. ASSUME NEW capacity \in RecentCapacities, NEW n \in Intervals,
             Configure(capacity, n)
      PROVE  SamplesHold'
  <2>1. recent' = Newest(recent, capacity) /\ counters' = counters
    BY <1>3 DEF Configure
  <2>2. capacity \in Nat
    BY StatsAssumption
  <2>3. /\ Newest(recent, capacity) \in Seq(Entries)
        /\ Sampled(Newest(recent, capacity))
        /\ Total(DroppedOf(Newest(recent, capacity)))
              <= Total(DroppedOf(recent))
        /\ Total(DirectOf(Newest(recent, capacity)))
              <= Total(DirectOf(recent))
    BY <1>1, <2>2, SampledSuffix
  <2>4. /\ Total(DroppedOf(recent')) \in Nat /\ Total(DirectOf(recent')) \in Nat
    BY <2>1, <2>3, EntrySums
  <2> QED
    BY <1>1, <2>1, <2>3, <2>4 DEF SamplesHold
<1>4. ASSUME NEW t \in Thread, NEW p \in Plan, NEW route \in {"direct", "fia"},
             RecordPlannerDecision(t, p, route)
      PROVE  SamplesHold'
  <2>1. CASE p \in Elements(seen)
    BY <1>1, <1>4, <2>1 DEF RecordPlannerDecision, statsVars, SamplesHold
  <2>2. CASE p \notin Elements(seen)
    <3>1. /\ counters'.eventsDropped = counters.eventsDropped
          /\ counters'.direct = counters.direct
      BY <1>1, <1>4, <2>2 DEF RecordPlannerDecision, Counters
    <3>2. recent' = IF recentCapacity = 0 THEN recent
                    ELSE Newest(RecordRecent(p), recentCapacity)
      BY <1>4, <2>2 DEF RecordPlannerDecision
    <3>3. CASE recentCapacity = 0
      BY <1>1, <3>1, <3>2, <3>3 DEF SamplesHold
    <3>4. CASE recentCapacity # 0
      <4> DEFINE r == RecordRecent(p)
      <4>1. /\ r \in Seq(Entries) /\ Sampled(r)
            /\ Total(DroppedOf(r)) <= Total(DroppedOf(recent))
            /\ Total(DirectOf(r)) <= Total(DirectOf(recent))
        BY <1>1, SampledRecorded
      <4> HIDE DEF r
      <4>2. /\ Newest(r, recentCapacity) \in Seq(Entries)
            /\ Sampled(Newest(r, recentCapacity))
            /\ Total(DroppedOf(Newest(r, recentCapacity)))
                  <= Total(DroppedOf(r))
            /\ Total(DirectOf(Newest(r, recentCapacity)))
                  <= Total(DirectOf(r))
        BY <1>1, <4>1, SampledSuffix
      <4>3. recent' = Newest(r, recentCapacity)
        BY <3>2, <3>4 DEF r
      <4>4. /\ Total(DroppedOf(r)) \in Nat /\ Total(DirectOf(r)) \in Nat
        BY <4>1, EntrySums
      <4>5. /\ Total(DroppedOf(recent')) \in Nat
            /\ Total(DirectOf(recent')) \in Nat
        BY <4>2, <4>3, EntrySums
      <4> QED
        BY <1>1, <3>1, <4>1, <4>2, <4>3, <4>4, <4>5 DEF SamplesHold
    <3> QED
      BY <3>3, <3>4
  <2> QED
    BY <2>1, <2>2
<1>5. ASSUME NEW t \in Thread, NEW p \in Plan, CapturedLayer(t, p)
      PROVE  SamplesHold'
  BY <1>1, <1>5 DEF CapturedLayer, statsVars, SamplesHold
<1>6. ASSUME NEW t \in Thread, RecordLayer(t)
      PROVE  SamplesHold'
  <2> DEFINE p == job[t].plan
             route == job[t].route
  <2>1. p \in Plan /\ route \in {"direct", "fia"}
    BY <1>6 DEF RecordLayer, LInv, Types
  <2>2. Updated(recent', p, route)
    BY <1>6 DEF RecordLayer, Updated
  <2>3. /\ counters'.direct = counters.direct
                                 + IF route = "direct" THEN 1 ELSE 0
        /\ counters'.eventsDropped = counters.eventsDropped
                                        + IF FullFor(p) THEN 1 ELSE 0
    <3> DEFINE logs == interval # 0 /\ p \in Elements(seen)
    <3>1. counters' =
            [counters EXCEPT
               !.direct = IF route = "direct" THEN @ + 1 ELSE @,
               !.fia = IF route = "fia" THEN @ + 1 ELSE @,
               !.deltasDropped = IF logs THEN @ + DeltaDropped ELSE @,
               !.eventsDropped = IF FullFor(p) THEN @ + 1 ELSE @]
      BY <1>6 DEF RecordLayer, FullFor
    <3> HIDE DEF p, route, logs
    <3>2. /\ counters'.direct = IF route = "direct" THEN counters.direct + 1
                                ELSE counters.direct
          /\ counters'.eventsDropped =
                IF FullFor(p) THEN counters.eventsDropped + 1
                ELSE counters.eventsDropped
      BY <1>1, <3>1 DEF Counters
    <3> QED
      BY <1>1, <3>2
  <2> HIDE DEF p, route
  <2>4. /\ Sampled(recent')
        /\ Total(DroppedOf(recent')) <= Total(DroppedOf(recent))
                                           + IF FullFor(p) THEN 1 ELSE 0
        /\ Total(DirectOf(recent')) <= Total(DirectOf(recent))
                                          + IF route = "direct" THEN 1 ELSE 0
    BY <1>1, <2>1, <2>2, SampledUpdated
  <2>5. recent' \in Seq(Entries)
    BY <1>1, <2>1, <2>2, UpdateFacts DEF Updated
  <2>6. /\ Total(DroppedOf(recent')) \in Nat /\ Total(DirectOf(recent')) \in Nat
    BY <2>5, EntrySums
  <2> QED
    BY <1>1, <2>3, <2>4, <2>6 DEF SamplesHold
<1>7. ASSUME NEW t \in Thread, StructuredLog(t)
      PROVE  SamplesHold'
  BY <1>1, <1>7 DEF StructuredLog, SamplesHold
<1>8. ASSUME Reset
      PROVE  SamplesHold'
  <2>1. /\ recent' = << >> /\ counters'.direct = 0
        /\ counters'.eventsDropped = 0
    BY <1>8 DEF Reset, Zero
  <2> QED
    BY <2>1, EmptyQueues DEF SamplesHold
<1> QED
  BY <1>2, <1>3, <1>4, <1>5, <1>6, <1>7, <1>8 DEF Next

(* Every step keeps the accounts of the log.                               *)
LEMMA LogKept ==
    ASSUME LInv, LogHolds, [Next]_vars
    PROVE  LogHolds'
<1>1. /\ deltas \in Seq(Deltas) /\ Len(deltas) <= LogCapacity
      /\ counters \in Counters
      /\ counters.requests \in Nat /\ counters.deltasDropped \in Nat
      /\ Requests(deltas) \in Nat
  BY AmountsType DEF LInv, Types, Counters
<1>2. /\ logged \in [base : Nat, out : Nat, dropped : Nat]
      /\ logged.base \in Nat /\ logged.out \in Nat /\ logged.dropped \in Nat
      /\ interval # 0 =>
            counters.requests =
               logged.base + logged.out + logged.dropped + Requests(deltas)
      /\ counters.deltasDropped = 0 => logged.dropped = 0
  BY DEF LogHolds
<1>3. CASE UNCHANGED vars
  BY <1>2, <1>3 DEF vars, statsVars, LogHolds
<1>4. ASSUME NEW capacity \in RecentCapacities, NEW n \in Intervals,
             Configure(capacity, n)
      PROVE  LogHolds'
  <2>1. CASE interval # n
    <3>1. /\ deltas' = << >> /\ counters' = counters
          /\ logged' = [base |-> counters.requests, out |-> 0, dropped |-> 0]
      BY <1>4, <2>1 DEF Configure, NothingLogged
    <3> QED
      BY <1>1, <3>1, EmptyQueues DEF LogHolds
  <2>2. CASE interval = n
    BY <1>2, <1>4, <2>2 DEF Configure, LogHolds
  <2> QED
    BY <2>1, <2>2
<1>5. ASSUME NEW t \in Thread, NEW p \in Plan, NEW route \in {"direct", "fia"},
             RecordPlannerDecision(t, p, route)
      PROVE  LogHolds'
  <2>1. CASE p \in Elements(seen)
    BY <1>2, <1>5, <2>1 DEF RecordPlannerDecision, statsVars, LogHolds
  <2>2. CASE p \notin Elements(seen)
    <3> DEFINE d == [kind |-> "planner", plan |-> p]
    <3>1. d \in Deltas /\ RequestsOf(d) = Batch[p].size
      BY DEF Deltas, RequestsOf
    <3>2. Batch[p].size \in Nat
      BY StatsAssumption
    <3>3. /\ counters'.requests = counters.requests + Batch[p].size
          /\ counters'.deltasDropped =
                IF interval = 0 THEN counters.deltasDropped
                ELSE counters.deltasDropped + DeltaDropped
          /\ interval' = interval
      BY <1>1, <1>5, <2>2 DEF RecordPlannerDecision, Counters
    <3>4. CASE interval = 0
      <4>1. logged' = logged
        BY <1>5, <2>2, <3>4 DEF RecordPlannerDecision
      <4> QED
        BY <1>2, <3>3, <3>4, <4>1 DEF LogHolds
    <3>5. CASE interval # 0
      <4>1. /\ deltas' = AppendDelta(d)
            /\ logged' = [logged EXCEPT !.dropped = @ + RequestsDropped]
        BY <1>5, <2>2, <3>5 DEF RecordPlannerDecision
      <4> HIDE DEF d
      <4>2. /\ Requests(AppendDelta(d)) \in Nat /\ RequestsDropped \in Nat
            /\ Requests(AppendDelta(d)) + RequestsDropped
                  = Requests(deltas) + RequestsOf(d)
            /\ DeltaDropped \in Nat
            /\ DeltaDropped = 0 => RequestsDropped = 0
        BY <1>1, <3>1, AppendDeltaRequests
      <4>3. logged' = [base |-> logged.base, out |-> logged.out,
                       dropped |-> logged.dropped + RequestsDropped]
        BY <1>2, <4>1
      <4>4. logged' \in [base : Nat, out : Nat, dropped : Nat]
        BY <1>2, <4>2, <4>3
      <4>5. counters'.requests =
               logged'.base + logged'.out + logged'.dropped + Requests(deltas')
        <5>1. Requests(deltas') + RequestsDropped
                 = Requests(deltas) + Batch[p].size
          BY <3>1, <4>1, <4>2
        <5>2. Requests(deltas') \in Nat
          BY <4>1, <4>2
        <5>3. /\ logged'.base = logged.base /\ logged'.out = logged.out
              /\ logged'.dropped = logged.dropped + RequestsDropped
          BY <4>3
        <5>4. counters.requests =
                 logged.base + logged.out + logged.dropped + Requests(deltas)
          BY <1>2, <3>5
        <5>5. counters'.requests = counters.requests + Batch[p].size
          BY <3>3
        <5> QED
          <6> DEFINE size == Batch[p].size
                     more == Requests(deltas')
                     less == Requests(deltas)
          <6>1. /\ size \in Nat /\ more \in Nat /\ less \in Nat
                /\ RequestsDropped \in Nat /\ counters.requests \in Nat
            BY <1>1, <3>2, <4>2, <5>2
          <6>2. more + RequestsDropped = less + size
            BY <5>1
          <6>3. counters'.requests = counters.requests + size
            BY <5>5
          <6>4. counters.requests
                   = logged.base + logged.out + logged.dropped + less
            BY <5>4
          <6> HIDE DEF size, more, less
          <6>5. counters'.requests =
                   logged'.base + logged'.out + logged'.dropped + more
            BY <1>2, <5>3, <6>1, <6>2, <6>3, <6>4
          <6> QED
            BY <6>5 DEF more
      <4>6. counters'.deltasDropped = 0 => logged'.dropped = 0
        BY <1>1, <1>2, <3>3, <3>5, <4>2, <4>3
      <4> QED
        BY <4>4, <4>5, <4>6 DEF LogHolds
    <3> QED
      BY <3>4, <3>5
  <2> QED
    BY <2>1, <2>2
<1>6. ASSUME NEW t \in Thread, NEW p \in Plan, CapturedLayer(t, p)
      PROVE  LogHolds'
  BY <1>2, <1>6 DEF CapturedLayer, statsVars, LogHolds
<1>7. ASSUME NEW t \in Thread, RecordLayer(t)
      PROVE  LogHolds'
  <2> DEFINE p == job[t].plan
             logs == interval # 0 /\ p \in Elements(seen)
             d == [kind |-> "layer", plan |-> p]
  <2>1. d \in Deltas /\ RequestsOf(d) = 0
    BY <1>7 DEF RecordLayer, LInv, Types, Deltas, RequestsOf
  <2>2. /\ deltas' = IF logs THEN AppendDelta(d) ELSE deltas
        /\ logged' = IF logs
                     THEN [logged EXCEPT !.dropped = @ + RequestsDropped]
                     ELSE logged
        /\ interval' = interval
    BY <1>7 DEF RecordLayer
  <2>3. /\ counters'.requests = counters.requests
        /\ counters'.deltasDropped =
              IF logs THEN counters.deltasDropped + DeltaDropped
              ELSE counters.deltasDropped
    <3> DEFINE route == job[t].route
    <3>1. counters' =
            [counters EXCEPT
               !.direct = IF route = "direct" THEN @ + 1 ELSE @,
               !.fia = IF route = "fia" THEN @ + 1 ELSE @,
               !.deltasDropped = IF logs THEN @ + DeltaDropped ELSE @,
               !.eventsDropped = IF FullFor(p) THEN @ + 1 ELSE @]
      BY <1>7 DEF RecordLayer, FullFor
    <3> HIDE DEF p, route, logs
    <3> QED
      BY <1>1, <3>1 DEF Counters
  <2> HIDE DEF logs, d
  <2>4. CASE ~logs
    BY <1>2, <2>2, <2>3, <2>4 DEF LogHolds
  <2>5. CASE logs
    <3>1. /\ Requests(AppendDelta(d)) \in Nat /\ RequestsDropped \in Nat
          /\ Requests(AppendDelta(d)) + RequestsDropped
                = Requests(deltas) + RequestsOf(d)
          /\ DeltaDropped \in Nat
          /\ DeltaDropped = 0 => RequestsDropped = 0
      BY <1>1, <2>1, AppendDeltaRequests
    <3>2. interval # 0
      BY <2>5 DEF logs
    <3>3. logged' = [base |-> logged.base, out |-> logged.out,
                     dropped |-> logged.dropped + RequestsDropped]
      BY <1>2, <2>2, <2>5
    <3>4. logged' \in [base : Nat, out : Nat, dropped : Nat]
      BY <1>2, <3>1, <3>3
    <3>5. counters'.requests =
             logged'.base + logged'.out + logged'.dropped + Requests(deltas')
      <4>1. Requests(deltas') + RequestsDropped = Requests(deltas)
        BY <1>1, <2>1, <2>2, <2>5, <3>1
      <4>2. Requests(deltas') \in Nat
        BY <2>2, <2>5, <3>1
      <4>3. /\ logged'.base = logged.base /\ logged'.out = logged.out
            /\ logged'.dropped = logged.dropped + RequestsDropped
        BY <3>3
      <4>4. counters.requests =
               logged.base + logged.out + logged.dropped + Requests(deltas)
        BY <1>2, <3>2
      <4> QED
        BY <1>1, <1>2, <2>3, <3>1, <4>1, <4>2, <4>3, <4>4
    <3>6. counters'.deltasDropped = 0 => logged'.dropped = 0
      BY <1>1, <1>2, <2>3, <2>5, <3>1, <3>3
    <3> QED
      BY <3>4, <3>5, <3>6 DEF LogHolds
  <2> QED
    BY <2>4, <2>5
<1>8. ASSUME NEW t \in Thread, StructuredLog(t)
      PROVE  LogHolds'
  <2>1. counters' = counters /\ interval' = interval
    BY <1>8 DEF StructuredLog
  <2>2. CASE interval = 0 \/ deltas = << >> \/ ~(IsDue \/ Supplemental)
    BY <1>2, <1>8, <2>1, <2>2 DEF StructuredLog, LogHolds
  <2>3. CASE ~(interval = 0 \/ deltas = << >> \/ ~(IsDue \/ Supplemental))
    <3>1. /\ deltas' = << >>
          /\ logged' = [logged EXCEPT !.out = @ + Requests(deltas)]
      BY <1>8, <2>3 DEF StructuredLog
    <3>2. logged' = [base |-> logged.base,
                     out |-> logged.out + Requests(deltas),
                     dropped |-> logged.dropped]
      BY <1>2, <3>1
    <3>3. logged' \in [base : Nat, out : Nat, dropped : Nat]
      BY <1>1, <1>2, <3>2
    <3>4. interval' # 0 =>
             counters'.requests =
                logged'.base + logged'.out + logged'.dropped
                   + Requests(deltas')
      BY <1>1, <1>2, <2>1, <3>1, <3>2, EmptyQueues
    <3> QED
      BY <1>2, <2>1, <3>2, <3>3, <3>4 DEF LogHolds
  <2> QED
    BY <2>2, <2>3
<1>9. ASSUME Reset
      PROVE  LogHolds'
  <2>1. /\ deltas' = << >> /\ counters'.requests = 0
        /\ logged' = [base |-> 0, out |-> 0, dropped |-> 0]
    BY <1>9 DEF Reset, Zero, NothingLogged
  <2> QED
    BY <2>1, EmptyQueues DEF LogHolds
<1> QED
  BY <1>3, <1>4, <1>5, <1>6, <1>7, <1>8, <1>9 DEF Next

(* Every step that leaves more about the plans of the last boundary leaves *)
(* a layer between its calls.                                              *)
LEMMA MoreIsFollowedKept ==
    ASSUME LInv, MoreIsFollowed, [Next]_vars
    PROVE  MoreIsFollowed'
<1>1. pc \in [Thread -> {"idle", "layer", "log"}]
  BY DEF LInv, Types
<1>2. CASE UNCHANGED vars
  BY <1>2 DEF vars, statsVars, MoreIsFollowed
<1>3. ASSUME NEW capacity \in RecentCapacities, NEW n \in Intervals,
             Configure(capacity, n)
      PROVE  MoreIsFollowed'
  <2>1. CASE interval # n
    BY <1>3, <2>1 DEF Configure, MoreIsFollowed
  <2>2. CASE interval = n
    BY <1>3, <2>2 DEF Configure, MoreIsFollowed
  <2> QED
    BY <2>1, <2>2
<1>4. ASSUME NEW t \in Thread, pc'[t] # "idle"
      PROVE  MoreIsFollowed'
  BY <1>4 DEF MoreIsFollowed
<1>5. ASSUME NEW t \in Thread, NEW p \in Plan, NEW route \in {"direct", "fia"},
             RecordPlannerDecision(t, p, route)
      PROVE  MoreIsFollowed'
  <2>1. pc' = [pc EXCEPT ![t] = "layer"]
    BY <1>5 DEF RecordPlannerDecision
  <2> QED
    BY <1>1, <1>4, <2>1
<1>6. ASSUME NEW t \in Thread, NEW p \in Plan, CapturedLayer(t, p)
      PROVE  MoreIsFollowed'
  <2>1. pc' = [pc EXCEPT ![t] = "layer"]
    BY <1>6 DEF CapturedLayer
  <2> QED
    BY <1>1, <1>4, <2>1
<1>7. ASSUME NEW t \in Thread, RecordLayer(t)
      PROVE  MoreIsFollowed'
  <2>1. pc' = [pc EXCEPT ![t] = "log"]
    BY <1>7 DEF RecordLayer
  <2> QED
    BY <1>1, <1>4, <2>1
<1>8. ASSUME NEW t \in Thread, StructuredLog(t)
      PROVE  MoreIsFollowed'
  <2>1. CASE interval = 0 \/ deltas = << >> \/ ~(IsDue \/ Supplemental)
    <3>1. UNCHANGED << deltas, active, interval >>
      BY <1>8, <2>1 DEF StructuredLog
    <3>2. \/ interval = 0 \/ deltas = << >> \/ active = {}
          \/ ~\A d \in Elements(deltas) : d.plan \in active
      BY <2>1 DEF Supplemental
    <3> QED
      BY <3>1, <3>2 DEF MoreIsFollowed
  <2>2. CASE ~(interval = 0 \/ deltas = << >> \/ ~(IsDue \/ Supplemental))
    <3>1. deltas' = << >>
      BY <1>8, <2>2 DEF StructuredLog
    <3> QED
      BY <3>1 DEF MoreIsFollowed
  <2> QED
    BY <2>1, <2>2
<1>9. ASSUME Reset
      PROVE  MoreIsFollowed'
  BY <1>9 DEF Reset, MoreIsFollowed
<1> QED
  BY <1>2, <1>3, <1>5, <1>6, <1>7, <1>8, <1>9 DEF Next

(* A suffix of a suffix.                                                   *)
LEMMA SuffixOfSuffix ==
    ASSUME NEW S, NEW s \in Seq(S), NEW t \in Seq(S), NEW u \in Seq(S),
           NEW k, NEW m, Suffix(t, s, k), Suffix(u, t, m)
    PROVE  Suffix(u, s, k + m)
<1>1. /\ k \in Nat /\ m \in Nat /\ k + m \in Nat
      /\ Len(s) = Len(t) + k /\ Len(t) = Len(u) + m
      /\ Len(s) \in Nat /\ Len(t) \in Nat /\ Len(u) \in Nat
  BY DEF Suffix
<1>2. Len(s) = Len(u) + (k + m)
  BY <1>1
<1>3. ASSUME NEW i \in 1 .. Len(u)
      PROVE  i + (k + m) \in 1 .. Len(s) /\ u[i] = s[i + (k + m)]
  <2>1. i + m \in 1 .. Len(t) /\ u[i] = t[i + m]
    BY DEF Suffix
  <2>2. (i + m) + k \in 1 .. Len(s) /\ t[i + m] = s[(i + m) + k]
    BY <2>1 DEF Suffix
  <2>3. (i + m) + k = i + (k + m)
    BY <1>1
  <2> QED
    BY <2>1, <2>2, <2>3
<1> QED
  BY <1>1, <1>2, <1>3 DEF Suffix

(* A plan appended to the counted ones and to the seen ones.               *)
LEMMA SuffixAppended ==
    ASSUME NEW S, NEW s \in Seq(S), NEW t \in Seq(S), NEW p \in S,
           NEW k, Suffix(t, s, k)
    PROVE  Suffix(Append(t, p), Append(s, p), k)
<1> DEFINE n == Len(t)
           ap == Append(s, p)
           at == Append(t, p)
<1>1. /\ k \in Nat /\ Len(s) = n + k /\ n \in Nat
      /\ \A i \in 1 .. n : t[i] = s[i + k]
  BY DEF Suffix
<1>2. /\ Len(ap) = n + k + 1 /\ Len(at) = n + 1
      /\ ap[n + k + 1] = p /\ at[n + 1] = p
      /\ \A i \in 1 .. n : at[i] = t[i]
      /\ \A i \in 1 .. n + k : ap[i] = s[i]
  BY <1>1
<1> HIDE DEF n, ap, at
<1>3. ASSUME NEW i \in 1 .. n + 1
      PROVE  i + k \in 1 .. n + k + 1 /\ at[i] = ap[i + k]
  <2>1. CASE i = n + 1
    <3>1. i + k = n + k + 1
      BY <1>1, <2>1
    <3> QED
      BY <1>1, <1>2, <2>1, <3>1
  <2>2. CASE i \in 1 .. n
    <3>1. i + k \in 1 .. n + k
      BY <1>1, <2>2
    <3> QED
      BY <1>1, <1>2, <2>2, <3>1
  <2> QED
    BY <1>1, <2>1, <2>2
<1>4. n + k + 1 = (n + 1) + k
  BY <1>1
<1>5. Suffix(at, ap, k)
  BY <1>1, <1>2, <1>3, <1>4 DEF Suffix
<1> QED
  BY <1>5 DEF at, ap

(* The sizes of the counted plans, one more of them.                       *)
LEMMA SizesAppended ==
    ASSUME NEW s \in Seq(Plan), NEW p \in Plan
    PROVE  /\ Total(Sizes(Append(s, p))) = Total(Sizes(s)) + Batch[p].size
           /\ Total(Sizes(s)) \in Nat
<1> DEFINE n == Len(s)
           t == Append(s, p)
<1>1. /\ n \in Nat /\ DOMAIN s = 1 .. n /\ DOMAIN t = 1 .. n + 1
      /\ \A i \in 1 .. n : t[i] = s[i]
      /\ t[n + 1] = p
  OBVIOUS
<1>2. \A i \in 1 .. n : s[i] \in Plan
  BY ElementOfSeq
<1> HIDE DEF n, t
<1>3. /\ n + 1 \in 1 .. n + 1
      /\ \A i \in 1 .. n + 1 : i \in 1 .. n \/ i = n + 1
      /\ \A i \in 1 .. n : i \in 1 .. n + 1
  BY <1>1
<1>4. \A i \in 1 .. n + 1 : t[i] \in Plan
  BY <1>1, <1>2, <1>3
<1>5. /\ Sizes(s) \in [1 .. n -> Nat]
      /\ \A i \in 1 .. n : Sizes(s)[i] = Batch[s[i]].size
  BY <1>1, <1>2, StatsAssumption DEF Sizes
<1>6. /\ Sizes(t) \in [1 .. n + 1 -> Nat]
      /\ \A i \in 1 .. n + 1 : Sizes(t)[i] = Batch[t[i]].size
  BY <1>1, <1>4, StatsAssumption DEF Sizes
<1>7. \A i \in 1 .. n : Sizes(t)[i] = Sizes(s)[i]
  BY <1>1, <1>3, <1>5, <1>6
<1>8. Total(Sizes(t)) = Total(Sizes(s)) + Sizes(t)[n + 1]
  BY <1>1, <1>5, <1>6, <1>7, TotalOfAppended
<1>9. Sizes(t)[n + 1] = Batch[p].size
  BY <1>1, <1>3, <1>6
<1>10. Total(Sizes(s)) \in Nat
  BY <1>1, <1>5, TotalType
<1> QED
  BY <1>8, <1>9, <1>10 DEF t

(* A plan that is not in the window is counted again after SeenCapacity    *)
(* others.                                                                 *)
LEMMA PlanCounted ==
    ASSUME LInv, WindowHolds, NEW p \in Plan, p \notin Elements(seen),
           counted' = Append(counted, p),
           seen' = Newest(Append(seen, p), SeenCapacity),
           counters'.requests = counters.requests + Batch[p].size
    PROVE  WindowHolds'
<1> DEFINE c == Len(counted)
<1>1. /\ counted \in Seq(Plan) /\ seen \in Seq(Plan) /\ c \in Nat
      /\ Len(seen) \in Nat /\ Len(seen) <= SeenCapacity
      /\ SeenCapacity \in Nat \ {0}
      /\ \A i \in 1 .. c : \A j \in 1 .. c :
            i < j /\ counted[i] = counted[j] => j - i > SeenCapacity
      /\ counters.requests = Total(Sizes(counted))
  BY StatsAssumption DEF LInv, Types, WindowHolds
<1>2. PICK k \in Nat : /\ Suffix(seen, counted, k)
                       /\ k = 0 \/ Len(seen) = SeenCapacity
  BY DEF WindowHolds
<1>3. /\ c = Len(seen) + k
      /\ \A i \in 1 .. Len(seen) : seen[i] = counted[i + k]
  BY <1>2 DEF Suffix
<1>4. /\ counted' \in Seq(Plan) /\ Len(counted') = c + 1
      /\ counted'[c + 1] = p
      /\ \A i \in 1 .. c : counted'[i] = counted[i]
  BY <1>1
<1>5. counters'.requests = Total(Sizes(counted'))
  BY <1>1, SizesAppended
<1>6. \E m \in Nat : /\ Suffix(seen', counted', m)
                     /\ m = 0 \/ Len(seen') = SeenCapacity
  <2> DEFINE as == Append(seen, p)
  <2>1. as \in Seq(Plan) /\ Len(as) = Len(seen) + 1
    BY <1>1
  <2>2. Suffix(as, counted', k)
    BY <1>1, <1>2, SuffixAppended
  <2> HIDE DEF as
  <2>3. seen' = Newest(as, SeenCapacity)
    BY DEF as
  <2>4. PICK m \in Nat : /\ Suffix(seen', as, m)
                         /\ IF Len(as) > SeenCapacity
                            THEN Len(seen') = SeenCapacity ELSE m = 0
    BY <1>1, <2>1, <2>3, NewestIsSuffix
  <2>5. seen' \in Seq(Plan)
    BY <1>1, <2>1, <2>3, NewestFacts
  <2>6. Suffix(seen', counted', k + m)
    BY <1>4, <2>1, <2>2, <2>4, <2>5, SuffixOfSuffix
  <2>7. k + m = 0 \/ Len(seen') = SeenCapacity
    BY <1>1, <1>2, <2>1, <2>4
  <2>8. k + m \in Nat
    OBVIOUS
  <2> QED
    BY <2>6, <2>7, <2>8
<1>7. ASSUME NEW i \in 1 .. c + 1, NEW j \in 1 .. c + 1,
             i < j, counted'[i] = counted'[j]
      PROVE  j - i > SeenCapacity
  <2>1. i \in 1 .. c
    BY <1>1, <1>7
  <2>2. CASE j \in 1 .. c
    BY <1>1, <1>4, <1>7, <2>1, <2>2
  <2>3. CASE j = c + 1
    <3>1. counted[i] = p
      BY <1>4, <1>7, <2>1, <2>3
    <3>2. ~(i > k)
      <4> SUFFICES ASSUME i > k PROVE FALSE
        OBVIOUS
      <4>1. i - k \in 1 .. Len(seen) /\ (i - k) + k = i
        BY <1>1, <1>3, <2>1
      <4>2. seen[i - k] = p
        BY <1>3, <3>1, <4>1
      <4>3. DOMAIN seen = 1 .. Len(seen)
        BY <1>1
      <4> QED
        BY <4>1, <4>2, <4>3 DEF Elements
    <3>3. Len(seen) = SeenCapacity
      BY <1>2, <2>1, <3>2
    <3> QED
      BY <1>1, <1>3, <2>1, <2>3, <3>2, <3>3
  <2> QED
    BY <1>1, <2>2, <2>3
<1> QED
  BY <1>4, <1>5, <1>6, <1>7 DEF WindowHolds

(* Every step keeps the window.                                            *)
LEMMA WindowKept ==
    ASSUME LInv, WindowHolds, [Next]_vars
    PROVE  WindowHolds'
<1>1. counters \in Counters
  BY DEF LInv, Types
<1>2. ASSUME UNCHANGED << seen, counted >>,
             counters'.requests = counters.requests
      PROVE  WindowHolds'
  BY <1>2 DEF WindowHolds
<1>3. CASE UNCHANGED vars
  BY <1>2, <1>3 DEF vars, statsVars
<1>4. ASSUME NEW capacity \in RecentCapacities, NEW n \in Intervals,
             Configure(capacity, n)
      PROVE  WindowHolds'
  BY <1>2, <1>4 DEF Configure
<1>5. ASSUME NEW t \in Thread, NEW p \in Plan, NEW route \in {"direct", "fia"},
             RecordPlannerDecision(t, p, route)
      PROVE  WindowHolds'
  <2>1. CASE p \in Elements(seen)
    BY <1>2, <1>5, <2>1 DEF RecordPlannerDecision, statsVars
  <2>2. CASE p \notin Elements(seen)
    <3>1. /\ counted' = Append(counted, p)
          /\ seen' = Newest(Append(seen, p), SeenCapacity)
          /\ counters'.requests = counters.requests + Batch[p].size
      BY <1>1, <1>5, <2>2 DEF RecordPlannerDecision, Counters
    <3> QED
      BY <2>2, <3>1, PlanCounted
  <2> QED
    BY <2>1, <2>2
<1>6. ASSUME NEW t \in Thread, NEW p \in Plan, CapturedLayer(t, p)
      PROVE  WindowHolds'
  BY <1>2, <1>6 DEF CapturedLayer, statsVars
<1>7. ASSUME NEW t \in Thread, RecordLayer(t)
      PROVE  WindowHolds'
  BY <1>1, <1>2, <1>7 DEF RecordLayer, Counters
<1>8. ASSUME NEW t \in Thread, StructuredLog(t)
      PROVE  WindowHolds'
  BY <1>2, <1>8 DEF StructuredLog
<1>9. ASSUME Reset
      PROVE  WindowHolds'
  <2>1. counted' = << >> /\ seen' = << >> /\ counters'.requests = 0
    BY <1>9 DEF Reset, Zero
  <2>2. Suffix(<< >>, << >>, 0)
    BY DEF Suffix
  <2> QED
    BY <2>1, <2>2, EmptyQueues DEF WindowHolds
<1> QED
  BY <1>3, <1>4, <1>5, <1>6, <1>7, <1>8, <1>9 DEF Next

(* The accounts hold in every reachable state.                             *)
LEMMA AccountsInvariant ==
    Spec => [](LInv /\ SamplesHold /\ LogHolds /\ MoreIsFollowed /\ WindowHolds)
<1>1. LInv /\ SamplesHold /\ [Next]_vars => SamplesHold'
  BY SamplesKept
<1>2. LInv /\ LogHolds /\ [Next]_vars => LogHolds'
  BY LogKept
<1>3. LInv /\ MoreIsFollowed /\ [Next]_vars => MoreIsFollowed'
  BY MoreIsFollowedKept
<1>4. LInv /\ WindowHolds /\ [Next]_vars => WindowHolds'
  BY WindowKept
<1> QED
  BY <1>1, <1>2, <1>3, <1>4, LInvInvariant, InitAccounts, PTL DEF Spec

-----------------------------------------------------------------------------
(* The queues of seen plans, recent plans and log deltas stay within their *)
(* bounds for any capacities, whatever the threads, configure and reset    *)
(* interleave to.                                                          *)
THEOREM StatsTypeCorrect == Spec => []TypeOK
<1>1. LInv => TypeOK
  <2> SUFFICES ASSUME LInv PROVE TypeOK
    OBVIOUS
  <2>1. \A c \in DOMAIN Zero : counters[c] \in Nat
    BY DEF LInv, Types, Counters, Zero
  <2>2. \A S : \A s \in Seq(S) : Elements(s) \subseteq S
    BY ElementOfSeq DEF Elements
  <2> QED
    BY <2>1, <2>2 DEF LInv, Types, TypeOK, Deltas
<1> QED
  BY LInvInvariant, <1>1, PTL

(* A boundary that has been crossed is exported by the time no layer is    *)
(* between its calls, for any number of threads and any interval.          *)
THEOREM NoOverdue == Spec => []NoOverdueAtRest
<1>1. LInv => NoOverdueAtRest
  BY DEF LInv, Types, Counters, OverdueIsPending, Overdue, NoOverdueAtRest,
     Idle
<1> QED
  BY LInvInvariant, <1>1, PTL

(* The exported boundaries are multiples of the interval and increase      *)
(* until configure or reset start them again, for any interval.            *)
THEOREM BoundariesGrow == Spec => BoundariesIncrease
<1> DEFINE Grows ==
        lastBoundary' # lastBoundary /\ lastBoundary' # 0 =>
          /\ lastBoundary' > lastBoundary
          /\ \E k \in 0 .. counters.requests : lastBoundary' = k * interval
          /\ lastBoundary' <= counters.requests
          /\ counters.requests < nextLog'
<1>1. ASSUME LInv, [Next]_vars
      PROVE  [Grows]_vars
  <2> SUFFICES ASSUME Next, lastBoundary' # lastBoundary, lastBoundary' # 0
               PROVE  Grows
    BY <1>1
  <2>1. PICK t \in Thread : StructuredLog(t)
    BY DEF Next, Configure, RecordPlannerDecision, CapturedLayer, RecordLayer,
       Reset, statsVars
  <2>2. interval # 0 /\ IsDue /\ EmitDue
    BY <2>1 DEF StructuredLog
  <2> DEFINE q == counters.requests \div interval
  <2>3. /\ lastBoundary' = q * interval
        /\ nextLog' = q * interval + interval
    BY <2>2 DEF EmitDue
  <2>4. /\ counters.requests \in Nat /\ interval \in Nat \ {0}
        /\ nextLog \in Nat /\ lastBoundary \in Nat
    BY <1>1, <2>2 DEF LInv, Types, Counters
  <2>5. /\ q \in Nat /\ q * interval \in Nat
        /\ q * interval <= counters.requests
        /\ counters.requests < q * interval + interval
    BY <2>4, DivBound
  <2>6. PICK k \in Nat : nextLog = k * interval
    BY <1>1, <2>2 DEF LInv, BoundaryOrder
  <2>7. k * interval <= q * interval
    BY <2>2, <2>4, <2>6, LargestMultiple DEF IsDue
  <2> HIDE DEF q
  <2>8. lastBoundary < lastBoundary'
    <3>1. lastBoundary < nextLog
      BY <1>1, <2>2 DEF LInv, BoundaryOrder
    <3> QED
      BY <2>3, <2>4, <2>5, <2>6, <2>7, <3>1
  <2>9. q \in 0 .. counters.requests
    <3>1. q <= q * interval
      BY <2>4, <2>5
    <3> QED
      BY <2>4, <2>5, <3>1
  <2> QED
    BY <2>3, <2>4, <2>5, <2>8, <2>9
<1> QED
  BY LInvInvariant, <1>1, PTL DEF Spec, BoundariesIncrease

(* Every request counted since logging was switched on is exported,        *)
(* pending or in a dropped delta, and every layer of a recent plan in its  *)
(* sample or counted as dropped, for any threads, batches and capacities.  *)
THEOREM LogIsComplete == Spec => []LogAccounts
<1>1. LInv /\ SamplesHold /\ LogHolds => LogAccounts
  <2> SUFFICES ASSUME LInv, SamplesHold, LogHolds PROVE LogAccounts
    OBVIOUS
  <2>1. DOMAIN recent = 1 .. Len(recent)
    BY DEF LInv, Types
  <2>2. \A e \in Elements(recent) : Accounts(e)
    BY <2>1 DEF SamplesHold, Sampled, Elements
  <2>3. SampleAccounts
    BY <2>2 DEF SampleAccounts, SamplesHold, Accounts, DroppedOf, DirectOf
  <2> QED
    BY <2>3 DEF LogAccounts, LogHolds
<1> QED
  BY AccountsInvariant, <1>1, PTL

(* What the last boundary's plans did after it is reported by the time no  *)
(* layer is between its calls, for any threads and intervals.              *)
THEOREM BoundaryPlansReported == Spec => []BoundaryPlansFollowed
<1>1. MoreIsFollowed => BoundaryPlansFollowed
  BY DEF MoreIsFollowed, BoundaryPlansFollowed, Idle
<1> QED
  BY AccountsInvariant, <1>1, PTL

(* A plan is counted again only after SeenCapacity others, and the request *)
(* counter is the sum over the counted plans, for any capacity.            *)
THEOREM PlansCountedOnce == Spec => []CountedOnce
<1>1. WindowHolds => CountedOnce
  <2> SUFFICES ASSUME WindowHolds PROVE CountedOnce
    OBVIOUS
  <2>1. DOMAIN counted = 1 .. Len(counted)
    BY DEF WindowHolds
  <2> QED
    BY <2>1 DEF WindowHolds, CountedOnce, Sizes
<1> QED
  BY AccountsInvariant, <1>1, PTL
=============================================================================
