------------------------- MODULE TriangleKernelProofs -------------------------
(***************************************************************************)
(* The kernel stores exact rows, for every geometry and every set of       *)
(* launches that stay clear of the uint32_t wrap.  The inductive invariant *)
(* says where each core is in its loops (Position) and what its            *)
(* accumulator holds on entry to a tile (Partial): the keys of each row    *)
(* that lie before the tile.  The lemmas that carry the argument take the  *)
(* loop counters as parameters, so that they speak of one core's counters  *)
(* before a step as well as after it.                                      *)
(***************************************************************************)
EXTENDS TriangleKernel, SequenceTheorems, TLAPS

-----------------------------------------------------------------------------
(* Quotients: the arithmetic of tiles and tasks.                           *)

(* A quotient and the multiple it stands for.                              *)
LEMMA DivBounds ==
    ASSUME NEW n \in Nat, NEW d \in Nat \ {0}
    PROVE  /\ n \div d \in Nat
           /\ (n \div d) * d <= n
           /\ n < (n \div d) * d + d
  OBVIOUS

(* A smaller count of parts of d ends at least one part earlier.           *)
LEMMA MulStep ==
    ASSUME NEW a \in Nat, NEW b \in Nat, NEW d \in Nat \ {0}, a < b
    PROVE  a * d + d <= b * d
  OBVIOUS

(* Arithmetic below the modulus does not wrap.                             *)
LEMMA ModSmall ==
    ASSUME NEW n \in Nat, NEW d \in Nat \ {0}, n < d
    PROVE  n % d = n
  OBVIOUS

(* A rounded-up quotient: the last of the parts starts below n, and the    *)
(* parts together reach n.                                                 *)
LEMMA CeilBounds ==
    ASSUME NEW n \in Nat \ {0}, NEW d \in Nat \ {0}
    PROVE  /\ (n + d - 1) \div d \in Nat \ {0}
           /\ ((n + d - 1) \div d) * d < n + d
           /\ n <= ((n + d - 1) \div d) * d
<1> DEFINE c == (n + d - 1) \div d
<1>1. /\ c \in Nat
      /\ c * d <= n + d - 1
      /\ n + d - 1 < c * d + d
  BY DivBounds, n + d - 1 \in Nat
<1>2. c # 0
  BY <1>1, c = 0 => c * d = 0
<1> QED
  BY <1>1, <1>2

-----------------------------------------------------------------------------
(* The schedule, for every launch whose lengths stay a KV tile and a query *)
(* tile below the modulus of the uint32_t arithmetic.                      *)

(* The roundings of QueryTileCount and IntervalTileCount do not wrap.      *)
Unwrapped(r) ==
    /\ r.seqLen + QueryTile <= U32Mod
    /\ r.seqLen + KvTile <= U32Mod
    /\ QueryTileCount(r) * KvHeads < U32Mod

(* Whether the row at q is a sparse row of the launch.                     *)
SparseRow(r, q) == SparseBegin <= q /\ q < SparseEnd(r)

-----------------------------------------------------------------------------
(* The tiles of a nonempty interval: each starts inside the interval, each *)
(* but the last is full, and the last ends where the interval ends.        *)
LEMMA TileBounds ==
    ASSUME NEW i, i \in [begin : Nat, end : Nat], i.begin < i.end,
           i.end + KvTile <= U32Mod,
           NEW t \in Nat, t < IntervalTileCount(i)
    PROVE  /\ IntervalTileCount(i) \in Nat \ {0}
           /\ KeyBegin(i, t) \in Nat
           /\ KeyEnd(i, t) \in Nat
           /\ i.begin <= KeyBegin(i, t)
           /\ KeyBegin(i, t) < KeyEnd(i, t)
           /\ KeyEnd(i, t) <= i.end
           /\ t + 1 < IntervalTileCount(i) => KeyEnd(i, t) = KeyBegin(i, t + 1)
           /\ t + 1 >= IntervalTileCount(i) => KeyEnd(i, t) = i.end
<1> USE ScheduleAssumption
<1> DEFINE n == i.end - i.begin
           c == (n + KvTile - 1) \div KvTile
<1>1. n \in Nat \ {0}
  OBVIOUS
<1>2. IntervalTileCount(i) = c
  <2>1. (n + KvTile - 1) % U32Mod = n + KvTile - 1
    BY <1>1, ModSmall, n + KvTile - 1 \in Nat, n + KvTile - 1 < U32Mod
  <2> QED
    BY <2>1 DEF IntervalTileCount, U32
<1>3. /\ c \in Nat \ {0}
      /\ c * KvTile < n + KvTile
      /\ n <= c * KvTile
  BY <1>1, CeilBounds
<1>4. /\ t * KvTile \in Nat
      /\ t * KvTile + KvTile <= c * KvTile
      /\ (t + 1) * KvTile = t * KvTile + KvTile
  BY <1>2, <1>3, MulStep
<1>5. t + 1 < c => (t + 1) * KvTile + KvTile <= c * KvTile
  BY <1>3, MulStep, t + 1 \in Nat
<1>6. t + 1 >= c => c * KvTile = t * KvTile + KvTile
  BY <1>2, <1>3, <1>4, t + 1 >= c => t + 1 = c
<1> HIDE DEF n, c
<1>7. i.end = i.begin + n
  BY DEF n
<1> QED
  BY <1>1, <1>2, <1>3, <1>4, <1>5, <1>6, <1>7 DEF KeyBegin, KeyEnd, MinU32

-----------------------------------------------------------------------------
(* A task index below taskCount names a query tile that starts inside the  *)
(* chunk and is not empty.                                                 *)
LEMMA TaskBounds ==
    ASSUME NEW r \in Request, TilingAccepts(r), Unwrapped(r),
           NEW k \in Nat, k < TaskCount(r)
    PROVE  /\ QueryRow(k) \in Nat
           /\ QueryRow(k) < r.queryTokens
           /\ QueryTileBegin(r, k) \in Nat
           /\ QueryTileEnd(r, k) \in Nat
           /\ QueryTileBegin(r, k) < QueryTileEnd(r, k)
           /\ QueryTileEnd(r, k) <= r.seqLen
           /\ QueryTileEnd(r, k) <= QueryTileBegin(r, k) + QueryTile
<1> USE ScheduleAssumption
<1> DEFINE n == r.queryTokens
           c == (n + QueryTile - 1) \div QueryTile
           h == k \div KvHeads
<1>1. /\ n \in Nat \ {0}
      /\ r.queryStart \in Nat
      /\ r.queryStart + n = r.seqLen
      /\ r.seqLen + QueryTile <= U32Mod
  BY DEF Request, TilingAccepts, Unwrapped
<1>2. QueryTileCount(r) = c
  <2>1. (n + QueryTile - 1) % U32Mod = n + QueryTile - 1
    BY <1>1, ModSmall, n + QueryTile - 1 \in Nat, n + QueryTile - 1 < U32Mod
  <2> QED
    BY <2>1 DEF QueryTileCount, U32
<1>3. /\ c \in Nat \ {0}
      /\ c * QueryTile < n + QueryTile
  BY <1>1, CeilBounds
<1>4. TaskCount(r) = c * KvHeads
  <2>1. c * KvHeads \in Nat
    BY <1>3
  <2>2. c * KvHeads < U32Mod
    BY <1>2 DEF Unwrapped
  <2>3. (c * KvHeads) % U32Mod = c * KvHeads
    BY <2>1, <2>2, ModSmall
  <2> QED
    BY <1>2, <2>3 DEF TaskCount, U32
<1>5. /\ h \in Nat
      /\ h * KvHeads <= k
  BY DivBounds
<1>6. h < c
  <2>1. SUFFICES ASSUME c <= h PROVE FALSE
    BY <1>3, <1>5
  <2>2. c * KvHeads <= h * KvHeads
    BY <1>3, <1>5, <2>1
  <2> QED
    BY <1>3, <1>4, <1>5, <2>2
<1>7. h * QueryTile + QueryTile <= c * QueryTile
  BY <1>3, <1>5, <1>6, MulStep
<1>8. /\ QueryRow(k) = h * QueryTile
      /\ h * QueryTile \in Nat
  BY <1>5 DEF QueryRow
<1>9. /\ QueryRow(k) \in Nat
      /\ QueryRow(k) < n
  BY <1>1, <1>3, <1>7, <1>8
<1>10. U32(n - QueryRow(k)) = n - QueryRow(k)
  BY <1>1, <1>9, ModSmall, n - QueryRow(k) \in Nat,
     n - QueryRow(k) < U32Mod DEF U32
<1> HIDE DEF n, c, h
<1>11. n = r.queryTokens
  BY DEF n
<1> QED
  BY <1>1, <1>9, <1>10, <1>11 DEF QueryTileBegin, QueryTileEnd, MinU32

-----------------------------------------------------------------------------
(* A span of the tile [b, e): nonempty, and its rows all sparse, that is   *)
(* inside [sb, se), or all dense, that is outside or [sb, se) is empty.    *)
QuerySpan == [begin : Nat, end : Nat, sparse : BOOLEAN]

SpanOf(s, b, e, sb, se) ==
    /\ b <= s.begin /\ s.begin < s.end /\ s.end <= e
    /\ s.sparse => sb <= s.begin /\ s.end <= se
    /\ ~s.sparse => s.end <= sb \/ se <= s.begin \/ se <= sb

SpansOf(seq, b, e, sb, se) ==
    /\ seq \in Seq(QuerySpan)
    /\ \A i \in 1 .. Len(seq) : SpanOf(seq[i], b, e, sb, se)

(* Appending a span that is empty or good keeps a list of good spans.      *)
LEMMA AppendSpan ==
    ASSUME NEW b \in Nat, NEW e \in Nat, NEW sb \in Nat, NEW se \in Nat,
           NEW seq, SpansOf(seq, b, e, sb, se),
           NEW x \in Nat, NEW y \in Nat, NEW sparse \in BOOLEAN,
           x < y => SpanOf([begin |-> x, end |-> y, sparse |-> sparse],
                           b, e, sb, se)
    PROVE  SpansOf(AppendQuerySpan(seq, x, y, sparse), b, e, sb, se)
<1> DEFINE s == [begin |-> x, end |-> y, sparse |-> sparse]
<1>1. CASE x >= y \/ Len(seq) >= 3
  BY <1>1 DEF AppendQuerySpan
<1>2. CASE x < y /\ Len(seq) < 3
  <2>1. /\ seq \in Seq(QuerySpan)
        /\ s \in QuerySpan
        /\ SpanOf(s, b, e, sb, se)
    BY <1>2 DEF SpansOf, QuerySpan
  <2>2. AppendQuerySpan(seq, x, y, sparse) = Append(seq, s)
    BY <1>2, <2>1, Len(seq) \in Nat DEF AppendQuerySpan
  <2> HIDE DEF s
  <2>3. \A i \in 1 .. Len(Append(seq, s)) :
            SpanOf(Append(seq, s)[i], b, e, sb, se)
    <3>1. TAKE i \in 1 .. Len(Append(seq, s))
    <3>2. CASE i \in 1 .. Len(seq)
      BY <2>1, <3>2, Append(seq, s)[i] = seq[i] DEF SpansOf
    <3>3. CASE i = Len(seq) + 1
      BY <2>1, <3>3, Append(seq, s)[i] = s
    <3> QED
      BY <2>1, <3>1, <3>2, <3>3
  <2> QED
    BY <2>1, <2>2, <2>3, Append(seq, s) \in Seq(QuerySpan) DEF SpansOf
<1> QED
  BY <1>1, <1>2, Len(seq) \in Nat DEF SpansOf

(* SplitQueryTile cuts a tile into good spans.                             *)
LEMMA SplitSpans ==
    ASSUME NEW b \in Nat, NEW e \in Nat, NEW sb \in Nat, NEW se \in Nat
    PROVE  SpansOf(SplitQueryTile(b, e, sb, se), b, e, sb, se)
<1>1. SpansOf(<< >>, b, e, sb, se)
  BY DEF SpansOf
<1>2. CASE b >= e
  BY <1>1, <1>2 DEF SplitQueryTile
<1>3. CASE b < e /\ sb >= se
  <2>1. SpanOf([begin |-> b, end |-> e, sparse |-> FALSE], b, e, sb, se)
    BY <1>3 DEF SpanOf
  <2> QED
    BY <1>1, <1>3, <2>1, AppendSpan DEF SplitQueryTile
<1>4. CASE b < e /\ sb < se
  <2> DEFINE prefix == AppendQuerySpan(<< >>, b, MinU32(e, sb), FALSE)
             middle == AppendQuerySpan(prefix, MaxU32(b, sb), MinU32(e, se),
                                       TRUE)
  <2>1. SpansOf(prefix, b, e, sb, se)
    <3>1. /\ MinU32(e, sb) \in Nat
          /\ b < MinU32(e, sb) =>
                SpanOf([begin |-> b, end |-> MinU32(e, sb), sparse |-> FALSE],
                       b, e, sb, se)
      BY DEF MinU32, SpanOf
    <3> QED
      BY <1>1, <3>1, AppendSpan
  <2>2. SpansOf(middle, b, e, sb, se)
    <3>1. /\ MaxU32(b, sb) \in Nat
          /\ MinU32(e, se) \in Nat
          /\ MaxU32(b, sb) < MinU32(e, se) =>
                SpanOf([begin |-> MaxU32(b, sb), end |-> MinU32(e, se),
                        sparse |-> TRUE], b, e, sb, se)
      BY DEF MinU32, MaxU32, SpanOf
    <3> HIDE DEF prefix
    <3> QED
      BY <2>1, <3>1, AppendSpan
  <2>3. SpansOf(AppendQuerySpan(middle, MaxU32(b, se), e, FALSE), b, e, sb, se)
    <3>1. /\ MaxU32(b, se) \in Nat
          /\ MaxU32(b, se) < e =>
                SpanOf([begin |-> MaxU32(b, se), end |-> e, sparse |-> FALSE],
                       b, e, sb, se)
      BY DEF MaxU32, SpanOf
    <3> HIDE DEF middle
    <3> QED
      BY <2>2, <3>1, AppendSpan
  <2>4. SplitQueryTile(b, e, sb, se) =
            AppendQuerySpan(middle, MaxU32(b, se), e, FALSE)
    <3> HIDE DEF middle
    <3>1. ~(b >= e) /\ ~(sb >= se)
      BY <1>4
    <3> QED
      BY <3>1, Zenon DEF SplitQueryTile, middle, prefix
  <2> QED
    BY <2>3, <2>4
<1> QED
  BY <1>2, <1>3, <1>4

(* The spans of a task of an accepted launch.                              *)
LEMMA SpanFacts ==
    ASSUME NEW r \in Request, TilingAccepts(r), Unwrapped(r),
           NEW k \in Nat, k < TaskCount(r),
           NEW i \in 1 .. Len(QuerySpans(r, k))
    PROVE  /\ QuerySpans(r, k)[i] \in QuerySpan
           /\ SpanOf(QuerySpans(r, k)[i], QueryTileBegin(r, k),
                     QueryTileEnd(r, k), SparseBegin, SparseEnd(r))
<1>1. SparseBegin \in Nat /\ SparseEnd(r) \in Nat
  BY ScheduleAssumption DEF SparseBegin, SparseEnd, MaxU32, Request
<1>2. SpansOf(QuerySpans(r, k), QueryTileBegin(r, k),
              QueryTileEnd(r, k), SparseBegin, SparseEnd(r))
  BY <1>1, TaskBounds, SplitSpans DEF QuerySpans
<1> QED
  BY <1>2 DEF SpansOf

-----------------------------------------------------------------------------
(* Appending intervals.                                                    *)
LEMMA AppendOne ==
    ASSUME NEW x \in Nat, NEW y \in Nat, x < y
    PROVE  AppendInterval(<< >>, x, y) = << Interval(x, y) >>
  BY DEF AppendInterval

LEMMA AppendPair ==
    ASSUME NEW S, NEW a \in S, NEW b \in S
    PROVE  Append(<< a >>, b) = << a, b >>
<1>1. << a >> \in Seq(S) /\ << a, b >> \in Seq(S)
  OBVIOUS
<1>2. /\ Append(<< a >>, b) \in Seq(S)
      /\ Len(Append(<< a >>, b)) = 2
      /\ Append(<< a >>, b)[1] = a
      /\ Append(<< a >>, b)[2] = b
  BY <1>1
<1>3. \A j \in 1 .. 2 : Append(<< a >>, b)[j] = << a, b >>[j]
  BY <1>2
<1> QED
  BY <1>1, <1>2, <1>3, SeqEqual, Len(<< a, b >>) = 2

LEMMA AppendTwo ==
    ASSUME NEW x \in Nat, NEW y \in Nat, x < y,
           NEW v \in Nat, NEW w \in Nat, v < w
    PROVE  AppendInterval(AppendInterval(<< >>, x, y), v, w)
               = << Interval(x, y), Interval(v, w) >>
<1>1. Append(<< Interval(x, y) >>, Interval(v, w))
          = << Interval(x, y), Interval(v, w) >>
  <2>1. /\ Interval(x, y) \in [begin : Nat, end : Nat]
        /\ Interval(v, w) \in [begin : Nat, end : Nat]
    BY DEF Interval
  <2> QED
    BY <2>1, AppendPair
<1>2. AppendInterval(<< Interval(x, y) >>, v, w)
          = Append(<< Interval(x, y) >>, Interval(v, w))
  BY DEF AppendInterval
<1> QED
  BY AppendOne, <1>1, <1>2

(* A span of a launch: inside the sequence, homogeneous.                   *)
LaunchSpan(r, s) ==
    /\ s \in QuerySpan
    /\ SpanOf(s, 0, r.seqLen, SparseBegin, SparseEnd(r))

(* A dense span visits one interval, from the first key to its end; a      *)
(* sparse span visits the sink and the window of its rows, which never     *)
(* overlap: the merged schedule cannot arise.                              *)
LEMMA IntervalFacts ==
    ASSUME NEW r \in Request, TilingAccepts(r), NEW s, LaunchSpan(r, s)
    PROVE  /\ ~s.sparse => Intervals(r, s) = << Interval(0, s.end) >>
           /\ s.sparse => /\ Intervals(r, s) =
                               << Interval(0, SinkTokens),
                                  Interval(s.begin - WindowTokens, s.end) >>
                          /\ SinkTokens < s.begin - WindowTokens
<1> USE ScheduleAssumption
<1> DEFINE sb == SparseBegin
           se == SparseEnd(r)
           qEnd == MinU32(s.end, r.seqLen)
           sinkEnd == MinU32(SinkTokens, r.seqLen)
           localBegin ==
             MinU32(IF s.begin > WindowTokens THEN s.begin - WindowTokens ELSE 0,
                    qEnd)
           sparse == s.begin >= sb /\ qEnd <= se
<1>1. /\ sb \in Nat /\ sb = SinkTokens + WindowTokens + 1
      /\ se \in Nat
      /\ r.seqLen \in Nat
      /\ s.begin \in Nat /\ s.end \in Nat /\ s.sparse \in BOOLEAN
      /\ s.begin < s.end /\ s.end <= r.seqLen
      /\ s.sparse => sb <= s.begin /\ s.end <= se
      /\ ~s.sparse => s.end <= sb \/ se <= s.begin \/ se <= sb
  BY DEF LaunchSpan, SpanOf, QuerySpan, SparseBegin, SparseEnd, MaxU32,
         Request, TilingAccepts
<1>2. qEnd = s.end
  BY <1>1 DEF MinU32
<1>3. Intervals(r, s) =
          IF ~sparse \/ localBegin <= sinkEnd
          THEN AppendInterval(<< >>, 0, qEnd)
          ELSE AppendInterval(AppendInterval(<< >>, 0, sinkEnd),
                              localBegin, qEnd)
  BY Zenon DEF Intervals, BuildTileSchedule
<1>4. CASE ~s.sparse
  <2>1. ~sparse
    BY <1>1, <1>2, <1>4
  <2>2. AppendInterval(<< >>, 0, s.end) = << Interval(0, s.end) >>
    BY <1>1, AppendOne
  <2> QED
    BY <1>2, <1>3, <1>4, <2>1, <2>2
<1>5. CASE s.sparse
  <2>1. sparse
    BY <1>1, <1>2, <1>5
  <2>2. /\ sinkEnd = SinkTokens
        /\ localBegin = s.begin - WindowTokens
        /\ SinkTokens < s.begin - WindowTokens
        /\ s.begin - WindowTokens \in Nat
        /\ s.begin - WindowTokens < s.end
    BY <1>1, <1>2, <1>5 DEF MinU32
  <2> HIDE DEF sparse, sinkEnd, localBegin, qEnd
  <2>3. AppendInterval(AppendInterval(<< >>, 0, SinkTokens),
                       s.begin - WindowTokens, s.end)
            = << Interval(0, SinkTokens),
                 Interval(s.begin - WindowTokens, s.end) >>
    <3> DEFINE localStart == s.begin - WindowTokens
               rowEnd == s.end
    <3>1. SinkTokens \in Nat /\ 0 < SinkTokens /\ 0 \in Nat
      OBVIOUS
    <3>2. localStart \in Nat /\ rowEnd \in Nat /\ localStart < rowEnd
      BY <1>1, <2>2
    <3> HIDE DEF localStart, rowEnd
    <3>3. AppendInterval(AppendInterval(<< >>, 0, SinkTokens), localStart, rowEnd)
              = << Interval(0, SinkTokens), Interval(localStart, rowEnd) >>
      BY <3>1, <3>2, AppendTwo
    <3> QED
      BY <3>3 DEF localStart, rowEnd
  <2>4. ~(~sparse \/ localBegin <= sinkEnd)
    BY <2>1, <2>2
  <2> QED
    BY <1>2, <1>3, <1>5, <2>2, <2>3, <2>4
<1> QED
  BY <1>1, <1>4, <1>5

(* The keys of a row: all up to its own position, and for a sparse row     *)
(* only those in the sink or in the window.                                *)
LEMMA RowKeysFacts ==
    ASSUME NEW r \in Request, TilingAccepts(r),
           NEW q \in Nat, q < r.seqLen, NEW k \in Nat
    PROVE  k \in RowKeys(r, q) <=>
               /\ k <= q
               /\ SparseRow(r, q) => k < SinkTokens \/ k >= q - WindowTokens
<1> USE ScheduleAssumption
<1> DEFINE sb == SparseBegin
           se == SparseEnd(r)
           causalEnd == MinU32(q + 1, r.seqLen)
           sparse == q >= sb /\ q < se
           sinkEnd == MinU32(SinkTokens, causalEnd)
           localBegin == IF q > WindowTokens THEN q - WindowTokens ELSE 0
           intervals == BuildRowSchedule(r, q)
<1>1. /\ sb = SinkTokens + WindowTokens + 1
      /\ se \in Nat
      /\ r.seqLen \in Nat
      /\ causalEnd = q + 1
  BY DEF SparseBegin, SparseEnd, MaxU32, MinU32, Request, TilingAccepts
<1>2. intervals =
          IF ~sparse \/ localBegin <= sinkEnd
          THEN AppendInterval(<< >>, 0, causalEnd)
          ELSE AppendInterval(AppendInterval(<< >>, 0, sinkEnd),
                              localBegin, causalEnd)
  BY Zenon DEF BuildRowSchedule
<1>3. k \in RowKeys(r, q) <=>
          /\ k < r.seqLen
          /\ \E i \in DOMAIN intervals :
                intervals[i].begin <= k /\ k < intervals[i].end
  BY <1>1 DEF RowKeys
<1>4. SparseRow(r, q) <=> sparse
  BY <1>1 DEF SparseRow
<1>5. CASE ~sparse
  <2>1. intervals = << Interval(0, q + 1) >>
    BY <1>1, <1>2, <1>5, AppendOne
  <2> HIDE DEF intervals, sparse
  <2>2. (\E i \in DOMAIN intervals :
            intervals[i].begin <= k /\ k < intervals[i].end) <=> k < q + 1
    BY <2>1 DEF Interval
  <2> QED
    BY <1>1, <1>3, <1>4, <1>5, <2>2
<1>6. CASE sparse
  <2>1. /\ sinkEnd = SinkTokens
        /\ localBegin = q - WindowTokens
        /\ SinkTokens < q - WindowTokens
        /\ q - WindowTokens \in Nat
    BY <1>1, <1>6 DEF MinU32
  <2> HIDE DEF intervals, sparse, sb, se, causalEnd, sinkEnd, localBegin
  <2>5. AppendInterval(AppendInterval(<< >>, 0, SinkTokens),
                       q - WindowTokens, q + 1)
            = << Interval(0, SinkTokens), Interval(q - WindowTokens, q + 1) >>
    <3>1. /\ 0 \in Nat /\ SinkTokens \in Nat /\ 0 < SinkTokens
          /\ q + 1 \in Nat /\ q - WindowTokens < q + 1
      BY <2>1
    <3> QED
      BY <2>1, <3>1, AppendTwo
  <2>6. ~(~sparse \/ localBegin <= sinkEnd)
    BY <1>6, <2>1
  <2>2. intervals = << Interval(0, SinkTokens), Interval(q - WindowTokens, q + 1) >>
    BY <1>1, <1>2, <2>1, <2>5, <2>6
  <2>3. (\E i \in DOMAIN intervals :
            intervals[i].begin <= k /\ k < intervals[i].end)
        <=> k < SinkTokens \/ (q - WindowTokens <= k /\ k < q + 1)
    BY <2>1, <2>2 DEF Interval
  <2> QED
    BY <1>1, <1>3, <1>4, <1>6, <2>1, <2>3
<1> QED
  BY <1>5, <1>6

(* The mask makes a tile exact: for every row of the span, the keys a tile *)
(* contributes are the keys of that row among the keys of the tile.        *)
LEMMA TileExact ==
    ASSUME NEW r \in Request, TilingAccepts(r), Unwrapped(r),
           NEW s, LaunchSpan(r, s),
           NEW i \in 1 .. Len(Intervals(r, s)),
           NEW t \in Nat, t < IntervalTileCount(Intervals(r, s)[i]),
           NEW q \in Nat, s.begin <= q, q < s.end,
           NEW k \in Nat
    PROVE  k \in TileKeys(s, Intervals(r, s)[i], t, q) <=>
               /\ KeyBegin(Intervals(r, s)[i], t) <= k
               /\ k < KeyEnd(Intervals(r, s)[i], t)
               /\ k \in RowKeys(r, q)
<1> USE ScheduleAssumption
<1> DEFINE v == Intervals(r, s)[i]
           kb == KeyBegin(v, t)
           ke == KeyEnd(v, t)
           mode == MaskMode(IntervalKind(s, v), kb, ke, s.begin, s.end)
<1>1. /\ s.begin \in Nat /\ s.end \in Nat /\ s.sparse \in BOOLEAN
      /\ s.begin < s.end /\ s.end <= r.seqLen
      /\ r.seqLen \in Nat
      /\ s.sparse => SparseBegin <= s.begin /\ s.end <= SparseEnd(r)
      /\ ~s.sparse =>
           \/ s.end <= SparseBegin
           \/ SparseEnd(r) <= s.begin
           \/ SparseEnd(r) <= SparseBegin
      /\ SparseBegin = SinkTokens + WindowTokens + 1
      /\ SparseEnd(r) \in Nat
  BY DEF LaunchSpan, SpanOf, QuerySpan, SparseBegin, SparseEnd, MaxU32,
         Request, TilingAccepts
<1>2. SparseRow(r, q) <=> s.sparse
  BY <1>1 DEF SparseRow
<1>3. k \in RowKeys(r, q) <=>
          /\ k <= q
          /\ s.sparse => k < SinkTokens \/ k >= q - WindowTokens
  BY <1>1, <1>2, RowKeysFacts
<1>4. \/ ~s.sparse /\ v = Interval(0, s.end)
      \/ s.sparse /\ v = Interval(0, SinkTokens)
      \/ /\ s.sparse
         /\ v = Interval(s.begin - WindowTokens, s.end)
         /\ SinkTokens < s.begin - WindowTokens
  BY <1>1, IntervalFacts
<1> HIDE DEF v, kb, ke, mode
<1>5. /\ v \in [begin : Nat, end : Nat]
      /\ v.begin < v.end /\ v.end <= r.seqLen
  <2>1. \E x, y \in Nat : v = Interval(x, y) /\ x < y /\ y <= r.seqLen
    <3>1. CASE ~s.sparse /\ v = Interval(0, s.end)
      BY <1>1, <3>1
    <3>2. CASE s.sparse /\ v = Interval(0, SinkTokens)
      <4>1. SinkTokens \in Nat /\ 0 < SinkTokens /\ SinkTokens <= r.seqLen
        BY <1>1, <3>2
      <4> QED
        BY <3>2, <4>1
    <3>3. CASE s.sparse /\ v = Interval(s.begin - WindowTokens, s.end)
      <4>1. /\ s.begin - WindowTokens \in Nat
            /\ s.begin - WindowTokens < s.end
        BY <1>1, <3>3
      <4> QED
        BY <1>1, <3>3, <4>1
    <3> QED
      BY <1>4, <3>1, <3>2, <3>3
  <2>2. PICK x \in Nat, y \in Nat :
              v = Interval(x, y) /\ x < y /\ y <= r.seqLen
    BY <2>1
  <2> QED
    BY <2>2 DEF Interval
<1>6. /\ kb \in Nat /\ ke \in Nat
      /\ v.begin <= kb /\ kb < ke /\ ke <= v.end
  <2>1. v.end + KvTile <= U32Mod
    BY <1>1, <1>5 DEF Unwrapped
  <2> QED
    BY <1>5, <2>1, TileBounds DEF v, kb, ke
<1>7. k \in TileKeys(s, v, t, q) <=> kb <= k /\ k < ke /\ Unmasked(mode, q, k)
  BY <1>6, k \in kb .. ke - 1 <=> kb <= k /\ k < ke
     DEF TileKeys, mode, kb, ke
<1>8. CASE ~s.sparse /\ v = Interval(0, s.end)
  <2>1. IntervalKind(s, v) = "dense"
    BY <1>8 DEF IntervalKind
  <2>2. mode = IF ke > s.begin + 1 THEN 1 ELSE 0
    BY <2>1 DEF mode, MaskMode, NeedsBoundaryMask
  <2>3. kb <= k /\ k < ke => (Unmasked(mode, q, k) <=> k <= q)
    BY <1>1, <1>6, <2>2 DEF Unmasked
  <2> QED
    BY <1>3, <1>7, <1>8, <2>3 DEF v, kb, ke
<1>9. CASE s.sparse /\ v = Interval(0, SinkTokens)
  <2>1. IntervalKind(s, v) = "sink"
    BY <1>9 DEF IntervalKind, Interval
  <2>2. mode = 0
    BY <2>1 DEF mode, MaskMode, NeedsBoundaryMask
  <2>3. ke <= SinkTokens
    BY <1>6, <1>9 DEF Interval
  <2>4. k < ke => k <= q /\ k < SinkTokens
    BY <1>1, <1>6, <1>9, <2>3
  <2> QED
    BY <1>3, <1>7, <2>2, <2>4 DEF Unmasked, v, kb, ke
<1>10. CASE /\ s.sparse
            /\ v = Interval(s.begin - WindowTokens, s.end)
            /\ SinkTokens < s.begin - WindowTokens
  <2>1. v.begin = s.begin - WindowTokens /\ v.end = s.end
    BY <1>10 DEF Interval
  <2>2. IntervalKind(s, v) = "local"
    BY <1>1, <1>10, <2>1 DEF IntervalKind
  <2>3. mode = IF \/ ke > s.begin + 1
                 \/ kb < (IF s.end - 1 > WindowTokens
                          THEN s.end - 1 - WindowTokens ELSE 0)
               THEN 2 ELSE 0
    BY <2>2 DEF mode, MaskMode, NeedsBoundaryMask
  <2>4. q > WindowTokens /\ k >= 0
    BY <1>1, <1>10
  <2>5. kb <= k /\ k < ke =>
            (Unmasked(mode, q, k) <=> k <= q /\ k >= q - WindowTokens)
    <3>1. CASE mode = 2
      <4>1. Unmasked(mode, q, k) <=> k < q + 1 /\ k >= q - WindowTokens
        BY <3>1, <2>4 DEF Unmasked
      <4> QED
        BY <4>1
    <3>2. CASE mode = 0
      <4>1. s.end - 1 > WindowTokens
        BY <1>1, <1>10
      <4>2. ~(ke > s.begin + 1) /\ ~(kb < s.end - 1 - WindowTokens)
        BY <2>3, <3>2, <4>1
      <4>3. kb <= k /\ k < ke => k <= q /\ k >= q - WindowTokens
        BY <1>1, <1>6, <4>2
      <4> QED
        BY <3>2, <4>3 DEF Unmasked
    <3> QED
      BY <2>3, <3>1, <3>2
  <2>6. kb <= k => ~(k < SinkTokens)
    BY <1>1, <1>6, <1>10, <2>1
  <2> QED
    BY <1>3, <1>7, <1>10, <2>5, <2>6 DEF v, kb, ke
<1> QED
  BY <1>4, <1>8, <1>9, <1>10

-----------------------------------------------------------------------------
(* The kernel.                                                             *)

(* No accepted launch reaches the wrap of the schedule arithmetic.         *)
NoWrap == \A r \in Requests : TilingAccepts(r) => Unwrapped(r)

-----------------------------------------------------------------------------
(* The invariant.                                                          *)

SpanAt(r, t, s) == QuerySpans(r, t)[s]

IntervalsAt(r, t, s) == Intervals(r, SpanAt(r, t, s))

(* The counters of a core are inside the loops they index, and the ordinal *)
(* counts the tiles before the current one.                                *)
PositionAt(r, p, t, s, i, n, o) ==
    /\ p # "idle" => TilingAccepts(r)
    /\ p \in {"span", "tile"} => t < TaskCount(r)
    /\ p = "tile" =>
         /\ s <= Len(QuerySpans(r, t))
         /\ i <= Len(IntervalsAt(r, t, s))
         /\ n < IntervalTileCount(IntervalsAt(r, t, s)[i])
         /\ o = n + (IF i = 1 THEN 0
                     ELSE IntervalTileCount(IntervalsAt(r, t, s)[1]))

(* What a row should have accumulated of the keys below a bound.           *)
Below(r, q, bound, k) == IF k \in RowKeys(r, q) /\ k < bound THEN 1 ELSE 0

(* What the tile starts from holds the row's keys before the tile.         *)
PartialAt(r, p, t, s, i, n, o, a) ==
    p = "tile" =>
        \A slot \in Slots :
            slot[2] < SpanTokens(SpanAt(r, t, s)) =>
                \A k \in Keys(r) :
                    (IF o = 0 THEN 0 ELSE a[slot][k])
                    = Below(r, SpanAt(r, t, s).begin + slot[2],
                            KeyBegin(IntervalsAt(r, t, s)[i], n), k)

Position(c) ==
    PositionAt(request, pc[c], task[c], span[c], interval[c], tile[c],
               tileOrdinal[c])

Partial(c) ==
    PartialAt(request, pc[c], task[c], span[c], interval[c], tile[c],
              tileOrdinal[c], acc[c])

Inv ==
    /\ TypeOK
    /\ host # "launched" => \A c \in Cores : pc[c] = "idle"
    /\ \A c \in Cores : Position(c)
    /\ \A c \in Cores : Partial(c)
    /\ ExactRows

-----------------------------------------------------------------------------
(* The intervals of a span of a launch.                                    *)

LEMMA TilesPositive ==
    ASSUME NEW i, i \in [begin : Nat, end : Nat], i.begin < i.end,
           i.end + KvTile <= U32Mod
    PROVE  IntervalTileCount(i) \in Nat \ {0}
<1> USE ScheduleAssumption
<1> DEFINE n == i.end - i.begin
<1>1. n \in Nat \ {0} /\ n + KvTile - 1 \in Nat /\ n + KvTile - 1 < U32Mod
  OBVIOUS
<1>2. (n + KvTile - 1) % U32Mod = n + KvTile - 1
  BY <1>1, ModSmall
<1>3. (n + KvTile - 1) \div KvTile \in Nat \ {0}
  BY <1>1, CeilBounds
<1> QED
  BY <1>2, <1>3 DEF IntervalTileCount, U32

(* They are one or two, nonempty and ascending; the first starts at key 0, *)
(* the last ends with the span; and no row of the span has a key between   *)
(* the first and the second.                                               *)
LEMMA SpanIntervalFacts ==
    ASSUME NEW r \in Request, TilingAccepts(r), Unwrapped(r),
           NEW s, LaunchSpan(r, s)
    PROVE  LET v == Intervals(r, s)
           IN  /\ Len(v) \in {1, 2}
               /\ \A i \in 1 .. Len(v) :
                     /\ v[i] \in [begin : Nat, end : Nat]
                     /\ v[i].begin < v[i].end
                     /\ v[i].end <= r.seqLen
                     /\ IntervalTileCount(v[i]) \in Nat \ {0}
               /\ v[1].begin = 0
               /\ v[Len(v)].end = s.end
               /\ TotalTiles(v) =
                     IntervalTileCount(v[1])
                     + (IF Len(v) = 1 THEN 0 ELSE IntervalTileCount(v[2]))
               /\ Len(v) = 2 =>
                     \A q \in Nat : s.begin <= q /\ q < s.end =>
                         \A k \in Nat : k \in RowKeys(r, q) =>
                             k < v[1].end \/ v[2].begin <= k
               /\ Len(v) = 2 => v[1].end <= v[2].begin
<1> USE ScheduleAssumption
<1> DEFINE v == Intervals(r, s)
<1>1. /\ s.begin \in Nat /\ s.end \in Nat /\ s.sparse \in BOOLEAN
      /\ s.begin < s.end /\ s.end <= r.seqLen
      /\ r.seqLen \in Nat /\ r.seqLen + KvTile <= U32Mod
      /\ s.sparse => SparseBegin <= s.begin /\ s.end <= SparseEnd(r)
      /\ SparseBegin = SinkTokens + WindowTokens + 1
      /\ SparseEnd(r) \in Nat
  BY DEF LaunchSpan, SpanOf, QuerySpan, SparseBegin, SparseEnd, MaxU32,
         Request, TilingAccepts, Unwrapped
<1>2. \A x, y \in Nat : x < y /\ y <= r.seqLen =>
          /\ Interval(x, y) \in [begin : Nat, end : Nat]
          /\ Interval(x, y).begin = x
          /\ Interval(x, y).end = y
          /\ IntervalTileCount(Interval(x, y)) \in Nat \ {0}
  <2>1. TAKE x, y \in Nat
  <2>2. HAVE x < y /\ y <= r.seqLen
  <2>3. /\ Interval(x, y) \in [begin : Nat, end : Nat]
        /\ Interval(x, y).begin = x
        /\ Interval(x, y).end = y
    BY DEF Interval
  <2> QED
    BY <1>1, <2>2, <2>3, TilesPositive
<1>3. CASE ~s.sparse
  <2>1. v = << Interval(0, s.end) >>
    BY <1>3, IntervalFacts
  <2>2. /\ Interval(0, s.end) \in [begin : Nat, end : Nat]
        /\ Interval(0, s.end).begin = 0
        /\ Interval(0, s.end).end = s.end
        /\ IntervalTileCount(Interval(0, s.end)) \in Nat \ {0}
    BY <1>1, <1>2
  <2>3. Len(v) = 1 /\ v[1] = Interval(0, s.end)
    BY <2>1
  <2> HIDE DEF v
  <2>4. TotalTiles(v) = IntervalTileCount(v[1])
    BY <2>3 DEF TotalTiles
  <2> QED
    BY <1>1, <2>2, <2>3, <2>4 DEF v
<1>4. CASE s.sparse
  <2> DEFINE a == Interval(0, SinkTokens)
             b == Interval(s.begin - WindowTokens, s.end)
  <2>1. /\ v = << a, b >>
        /\ SinkTokens < s.begin - WindowTokens
    BY <1>4, IntervalFacts
  <2>2. /\ a \in [begin : Nat, end : Nat]
        /\ a.begin = 0 /\ a.end = SinkTokens
        /\ IntervalTileCount(a) \in Nat \ {0}
    BY <1>1, <1>2, <2>1, 0 < SinkTokens, SinkTokens <= r.seqLen
  <2>3. /\ b \in [begin : Nat, end : Nat]
        /\ b.begin = s.begin - WindowTokens /\ b.end = s.end
        /\ IntervalTileCount(b) \in Nat \ {0}
    <3>1. /\ s.begin - WindowTokens \in Nat
          /\ s.begin - WindowTokens < s.end
      BY <1>1, <2>1
    <3> QED
      BY <1>1, <1>2, <3>1
  <2> HIDE DEF a, b
  <2>4. Len(v) = 2 /\ v[1] = a /\ v[2] = b
    BY <2>1
  <2> HIDE DEF v
  <2>5. TotalTiles(v) = IntervalTileCount(a) + IntervalTileCount(b)
    BY <2>4 DEF TotalTiles
  <2>6. ASSUME NEW q \in Nat, s.begin <= q, q < s.end,
               NEW k \in Nat, k \in RowKeys(r, q)
        PROVE  k < SinkTokens \/ s.begin - WindowTokens <= k
    <3>1. SparseRow(r, q)
      BY <1>1, <1>4, <2>6 DEF SparseRow
    <3>2. k < SinkTokens \/ k >= q - WindowTokens
      BY <1>1, <2>6, <3>1, RowKeysFacts
    <3> QED
      BY <1>1, <2>6, <3>2
  <2>7. \A i \in 1 .. Len(v) : v[i] = a \/ v[i] = b
    BY <2>4
  <2>8. /\ a.begin < a.end /\ a.end <= r.seqLen
        /\ b.begin < b.end /\ b.end <= r.seqLen
        /\ a.end <= b.begin
    BY <1>1, <2>1, <2>2, <2>3
  <2> QED
    BY <2>2, <2>3, <2>4, <2>5, <2>6, <2>7, <2>8 DEF v
<1> QED
  BY <1>1, <1>3, <1>4

-----------------------------------------------------------------------------
(* One core at a tile, its counters as parameters.                         *)

TileState(r, t, s, i, n, o) ==
    /\ r \in Request /\ TilingAccepts(r) /\ Unwrapped(r)
    /\ t \in Nat /\ s \in Nat \ {0} /\ i \in {1, 2} /\ n \in Nat /\ o \in Nat
    /\ PositionAt(r, "tile", t, s, i, n, o)

AccumulateAt(r, t, s, i, n, o, a) ==
    [slot \in Slots |->
        IF slot[2] >= SpanTokens(SpanAt(r, t, s)) THEN a[slot]
        ELSE [k \in Keys(r) |->
                 (IF o = 0 THEN 0 ELSE a[slot][k])
                 + (IF k \in TileKeys(SpanAt(r, t, s),
                                      IntervalsAt(r, t, s)[i], n,
                                      SpanAt(r, t, s).begin + slot[2])
                    THEN 1 ELSE 0)]]

(* Any span of a task of a launch lies in the query tile of the task.      *)
LEMMA SpanInTile ==
    ASSUME NEW r \in Request, TilingAccepts(r), Unwrapped(r),
           NEW t \in Nat, t < TaskCount(r),
           NEW s \in Nat \ {0}, s <= Len(QuerySpans(r, t))
    PROVE  /\ LaunchSpan(r, SpanAt(r, t, s))
           /\ SpanAt(r, t, s).begin \in Nat
           /\ SpanAt(r, t, s).end \in Nat
           /\ SpanAt(r, t, s).begin < SpanAt(r, t, s).end
           /\ SpanAt(r, t, s).end <= r.seqLen
           /\ SpanTokens(SpanAt(r, t, s)) \in 1 .. QueryTile
<1> USE ScheduleAssumption
<1> DEFINE sp == SpanAt(r, t, s)
           b == QueryTileBegin(r, t)
           e == QueryTileEnd(r, t)
<1>1. /\ b \in Nat /\ e \in Nat
      /\ e <= r.seqLen /\ e <= b + QueryTile
  BY TaskBounds
<1>2. Len(QuerySpans(r, t)) \in Nat
  <2>1. SparseBegin \in Nat /\ SparseEnd(r) \in Nat
    BY DEF SparseBegin, SparseEnd, MaxU32, Request
  <2>2. QuerySpans(r, t) \in Seq(QuerySpan)
    BY <1>1, <2>1, SplitSpans DEF QuerySpans, SpansOf
  <2> QED
    BY <2>2
<1>3. /\ sp \in QuerySpan
      /\ SpanOf(sp, b, e, SparseBegin, SparseEnd(r))
  BY <1>2, SpanFacts, s \in 1 .. Len(QuerySpans(r, t)) DEF SpanAt
<1>4. r.seqLen \in Nat
  BY DEF Request, TilingAccepts
<1> HIDE DEF sp, b, e
<1>5. /\ sp.begin \in Nat /\ sp.end \in Nat
      /\ b <= sp.begin /\ sp.begin < sp.end /\ sp.end <= e
  BY <1>3 DEF QuerySpan, SpanOf
<1>6. LaunchSpan(r, sp)
  BY <1>1, <1>3, <1>4, <1>5 DEF LaunchSpan, SpanOf
<1>7. SpanTokens(sp) \in 1 .. QueryTile
  BY <1>1, <1>5 DEF SpanTokens
<1> QED
  BY <1>1, <1>4, <1>5, <1>6, <1>7 DEF sp

(* The tile of a core, among the tiles of the span.                        *)
LEMMA TileFacts ==
    ASSUME NEW r, NEW t, NEW s, NEW i, NEW n, NEW o, TileState(r, t, s, i, n, o)
    PROVE  LET v == IntervalsAt(r, t, s)
           IN  /\ i \in 1 .. Len(v)
               /\ KeyBegin(v[i], n) \in Nat
               /\ KeyEnd(v[i], n) \in Nat
               /\ KeyBegin(v[i], n) < KeyEnd(v[i], n)
               /\ KeyEnd(v[i], n) <= v[i].end
               /\ v[i].end \in Nat
               /\ v[i].end <= r.seqLen
               /\ n + 1 < IntervalTileCount(v[i]) =>
                      KeyEnd(v[i], n) = KeyBegin(v[i], n + 1)
               /\ n + 1 >= IntervalTileCount(v[i]) => KeyEnd(v[i], n) = v[i].end
               /\ o + 1 = TotalTiles(v) <=>
                      n + 1 >= IntervalTileCount(v[i]) /\ i >= Len(v)
<1> USE ScheduleAssumption
<1> DEFINE v == IntervalsAt(r, t, s)
<1>1. /\ r \in Request /\ TilingAccepts(r) /\ Unwrapped(r)
      /\ t \in Nat /\ s \in Nat \ {0} /\ i \in {1, 2} /\ n \in Nat /\ o \in Nat
      /\ t < TaskCount(r)
      /\ s <= Len(QuerySpans(r, t))
      /\ i <= Len(v)
      /\ n < IntervalTileCount(v[i])
      /\ o = n + (IF i = 1 THEN 0 ELSE IntervalTileCount(v[1]))
  BY DEF TileState, PositionAt
<1>2. LaunchSpan(r, SpanAt(r, t, s))
  BY <1>1, SpanInTile
<1>3. /\ Len(v) \in {1, 2}
      /\ \A j \in 1 .. Len(v) :
            /\ v[j] \in [begin : Nat, end : Nat]
            /\ v[j].begin < v[j].end
            /\ v[j].end <= r.seqLen
            /\ IntervalTileCount(v[j]) \in Nat \ {0}
      /\ TotalTiles(v) = IntervalTileCount(v[1])
                         + (IF Len(v) = 1 THEN 0 ELSE IntervalTileCount(v[2]))
  BY <1>1, <1>2, SpanIntervalFacts DEF IntervalsAt
<1>4. r.seqLen \in Nat /\ r.seqLen + KvTile <= U32Mod
  BY <1>1 DEF Request, TilingAccepts, Unwrapped
<1> HIDE DEF v
<1>5. i \in 1 .. Len(v)
  BY <1>1, <1>3
<1>6. /\ v[i] \in [begin : Nat, end : Nat]
      /\ v[i].begin < v[i].end
      /\ v[i].end <= r.seqLen
      /\ v[i].end + KvTile <= U32Mod
      /\ v[i].end \in Nat
  BY <1>3, <1>4, <1>5
<1>7. /\ KeyBegin(v[i], n) \in Nat
      /\ KeyEnd(v[i], n) \in Nat
      /\ KeyBegin(v[i], n) < KeyEnd(v[i], n)
      /\ KeyEnd(v[i], n) <= v[i].end
      /\ n + 1 < IntervalTileCount(v[i]) =>
             KeyEnd(v[i], n) = KeyBegin(v[i], n + 1)
      /\ n + 1 >= IntervalTileCount(v[i]) => KeyEnd(v[i], n) = v[i].end
  BY <1>1, <1>6, TileBounds
<1>8. o + 1 = TotalTiles(v) <=> n + 1 >= IntervalTileCount(v[i]) /\ i >= Len(v)
  <2> DEFINE first == IntervalTileCount(v[1])
             second == IntervalTileCount(v[2])
             total == TotalTiles(v)
  <2>1. n \in Nat /\ o \in Nat
    BY <1>1
  <2>2. first \in Nat \ {0}
    BY <1>3
  <2>3. CASE Len(v) = 1
    <3>1. i = 1
      BY <1>5, <2>3
    <3>2. o = n /\ n < first /\ total = first
      BY <1>1, <1>3, <2>1, <2>2, <2>3, <3>1
    <3> HIDE DEF total
    <3>3. o + 1 = total <=> n + 1 >= first
      <4> HIDE DEF first
      <4> QED
        BY <2>1, <2>2, <3>2
    <3> QED
      BY <2>3, <3>1, <3>3 DEF total
  <2>4. CASE Len(v) = 2
    <3>1. second \in Nat \ {0}
      BY <1>3, <2>4
    <3>2. total = first + second
      BY <1>3, <2>4
    <3>3. CASE i = 1
      <4>1. o = n /\ n < first
        BY <1>1, <2>1, <3>3
      <4>2. ~(i >= Len(v))
        BY <2>4, <3>3
      <4>3. o + 1 # total
        <5> HIDE DEF first, second, total
        <5> QED
          BY <2>1, <2>2, <3>1, <3>2, <4>1
      <4> QED
        BY <4>2, <4>3 DEF total
    <3>4. CASE i = 2
      <4>1. o = n + first /\ n < second
        BY <1>1, <3>4
      <4>2. i >= Len(v)
        BY <2>4, <3>4
      <4>3. o + 1 = total <=> n + 1 >= second
        <5> HIDE DEF first, second, total
        <5> QED
          BY <2>1, <2>2, <3>1, <3>2, <4>1
      <4> QED
        BY <3>4, <4>2, <4>3 DEF total
    <3> QED
      BY <1>1, <3>3, <3>4
  <2> QED
    BY <1>3, <2>3, <2>4
<1> QED
  BY <1>5, <1>6, <1>7, <1>8 DEF v

(* Accumulating a tile extends each row from the keys before the tile to   *)
(* the keys before its end, and leaves the accumulator well typed.         *)
LEMMA TileAdds ==
    ASSUME NEW r, NEW t, NEW s, NEW i, NEW n, NEW o, TileState(r, t, s, i, n, o),
           NEW a, a \in [Slots -> [Keys(r) -> Nat]],
           PartialAt(r, "tile", t, s, i, n, o, a)
    PROVE  /\ AccumulateAt(r, t, s, i, n, o, a) \in [Slots -> [Keys(r) -> Nat]]
           /\ \A slot \in Slots :
                 slot[2] < SpanTokens(SpanAt(r, t, s)) =>
                     \A k \in Keys(r) :
                         AccumulateAt(r, t, s, i, n, o, a)[slot][k]
                         = Below(r, SpanAt(r, t, s).begin + slot[2],
                                 KeyEnd(IntervalsAt(r, t, s)[i], n), k)
<1> USE ScheduleAssumption, ReferenceAssumption
<1> DEFINE sp == SpanAt(r, t, s)
           v == IntervalsAt(r, t, s)
           after == AccumulateAt(r, t, s, i, n, o, a)
<1>1. after \in [Slots -> [Keys(r) -> Nat]]
  BY DEF AccumulateAt
<1>2. /\ r \in Request /\ TilingAccepts(r) /\ Unwrapped(r)
      /\ n \in Nat /\ o \in Nat
      /\ LaunchSpan(r, sp)
      /\ sp.begin \in Nat /\ sp.end \in Nat
      /\ SpanTokens(sp) = sp.end - sp.begin
      /\ n < IntervalTileCount(v[i])
  BY SpanInTile DEF TileState, PositionAt, SpanTokens
<1>3. /\ i \in 1 .. Len(v)
      /\ KeyBegin(v[i], n) \in Nat
      /\ KeyEnd(v[i], n) \in Nat
      /\ KeyBegin(v[i], n) < KeyEnd(v[i], n)
  BY TileFacts
<1>4. v = Intervals(r, sp)
  BY DEF IntervalsAt
<1> HIDE DEF sp, v
<1>5. ASSUME NEW slot \in Slots, slot[2] < SpanTokens(sp), NEW k \in Keys(r)
      PROVE  after[slot][k]
             = Below(r, sp.begin + slot[2], KeyEnd(v[i], n), k)
  <2> DEFINE q == sp.begin + slot[2]
             seen == IF o = 0 THEN 0 ELSE a[slot][k]
  <2>1. slot[2] \in Nat
    BY DEF Slots
  <2>2. q \in Nat /\ sp.begin <= q /\ q < sp.end /\ k \in Nat
    BY <1>2, <1>5, <2>1 DEF Keys
  <2>3. seen = Below(r, q, KeyBegin(v[i], n), k)
    BY <1>5 DEF PartialAt, sp, v
  <2>4. after[slot][k] = seen + (IF k \in TileKeys(sp, v[i], n, q) THEN 1 ELSE 0)
    <3>1. ~(slot[2] >= SpanTokens(sp))
      BY <1>2, <1>5, <2>1
    <3> QED
      BY <1>5, <3>1 DEF AccumulateAt, sp, v
  <2> HIDE DEF q, seen, after
  <2>5. k \in TileKeys(sp, v[i], n, q) <=>
            /\ KeyBegin(v[i], n) <= k
            /\ k < KeyEnd(v[i], n)
            /\ k \in RowKeys(r, q)
    BY <1>2, <1>3, <1>4, <2>2, TileExact
  <2>6. after[slot][k] = Below(r, q, KeyEnd(v[i], n), k)
    <3>1. CASE k < KeyBegin(v[i], n)
      BY <1>3, <2>2, <2>3, <2>4, <2>5, <3>1 DEF Below
    <3>2. CASE ~(k < KeyBegin(v[i], n))
      BY <1>3, <2>2, <2>3, <2>4, <2>5, <3>2 DEF Below
    <3> QED
      BY <3>1, <3>2
  <2> QED
    BY <2>6 DEF q
<1> QED
  BY <1>1, <1>5 DEF sp, v

(* After a tile that is not the last of its interval, the invariant holds  *)
(* for the next tile of the interval.                                      *)
LEMMA AdvanceTile ==
    ASSUME NEW r, NEW t, NEW s, NEW i, NEW n, NEW o, TileState(r, t, s, i, n, o),
           NEW a, a \in [Slots -> [Keys(r) -> Nat]],
           PartialAt(r, "tile", t, s, i, n, o, a),
           n + 1 < IntervalTileCount(IntervalsAt(r, t, s)[i])
    PROVE  /\ PositionAt(r, "tile", t, s, i, n + 1, o + 1)
           /\ PartialAt(r, "tile", t, s, i, n + 1, o + 1,
                        AccumulateAt(r, t, s, i, n, o, a))
<1> DEFINE v == IntervalsAt(r, t, s)
<1>1. n \in Nat /\ o \in Nat
  BY DEF TileState
<1>2. PositionAt(r, "tile", t, s, i, n + 1, o + 1)
  <2>1. i # 1 => IntervalTileCount(v[1]) \in Int
    <3>1. o = n + (IF i = 1 THEN 0 ELSE IntervalTileCount(v[1]))
      BY DEF TileState, PositionAt
    <3>2. i \in {1, 2} /\ i <= Len(v) /\ Len(v) \in {1, 2}
          /\ \A j \in 1 .. Len(v) : IntervalTileCount(v[j]) \in Nat \ {0}
      BY SpanInTile, SpanIntervalFacts DEF TileState, PositionAt, IntervalsAt
    <3> QED
      BY <3>2
  <2> HIDE DEF v
  <2>2. o = n + (IF i = 1 THEN 0 ELSE IntervalTileCount(v[1]))
    BY DEF TileState, PositionAt, v
  <2>3. o + 1 = n + 1 + (IF i = 1 THEN 0 ELSE IntervalTileCount(v[1]))
    BY <1>1, <2>1, <2>2
  <2> QED
    BY <2>3 DEF TileState, PositionAt, v
<1>3. KeyEnd(v[i], n) = KeyBegin(v[i], n + 1)
  BY TileFacts
<1>4. o + 1 # 0
  BY <1>1
<1>5. PartialAt(r, "tile", t, s, i, n + 1, o + 1,
                AccumulateAt(r, t, s, i, n, o, a))
  BY <1>3, <1>4, TileAdds DEF PartialAt
<1> QED
  BY <1>2, <1>5

(* After the last tile of the first interval of two, it holds for the      *)
(* first tile of the second.                                               *)
LEMMA AdvanceInterval ==
    ASSUME NEW r, NEW t, NEW s, NEW i, NEW n, NEW o, TileState(r, t, s, i, n, o),
           NEW a, a \in [Slots -> [Keys(r) -> Nat]],
           PartialAt(r, "tile", t, s, i, n, o, a),
           n + 1 >= IntervalTileCount(IntervalsAt(r, t, s)[i]),
           i < Len(IntervalsAt(r, t, s))
    PROVE  /\ i + 1 \in {1, 2}
           /\ PositionAt(r, "tile", t, s, i + 1, 0, o + 1)
           /\ PartialAt(r, "tile", t, s, i + 1, 0, o + 1,
                        AccumulateAt(r, t, s, i, n, o, a))
<1> USE ScheduleAssumption
<1> DEFINE sp == SpanAt(r, t, s)
           v == IntervalsAt(r, t, s)
           after == AccumulateAt(r, t, s, i, n, o, a)
<1>1. /\ r \in Request /\ TilingAccepts(r) /\ Unwrapped(r)
      /\ i \in {1, 2} /\ n \in Nat /\ o \in Nat
      /\ n < IntervalTileCount(v[i])
      /\ o = n + (IF i = 1 THEN 0 ELSE IntervalTileCount(v[1]))
      /\ t < TaskCount(r)
      /\ s <= Len(QuerySpans(r, t))
  BY DEF TileState, PositionAt
<1>2. /\ LaunchSpan(r, sp)
      /\ sp.begin \in Nat /\ sp.end \in Nat
      /\ SpanTokens(sp) = sp.end - sp.begin
  BY SpanInTile DEF TileState, PositionAt, SpanTokens
<1>3. /\ Len(v) \in {1, 2}
      /\ \A j \in 1 .. Len(v) :
            /\ v[j] \in [begin : Nat, end : Nat]
            /\ IntervalTileCount(v[j]) \in Nat \ {0}
      /\ Len(v) = 2 =>
            \A q \in Nat : sp.begin <= q /\ q < sp.end =>
                \A k \in Nat : k \in RowKeys(r, q) =>
                    k < v[1].end \/ v[2].begin <= k
      /\ Len(v) = 2 => v[1].end <= v[2].begin
  BY <1>1, <1>2, SpanIntervalFacts DEF IntervalsAt
<1>4. KeyEnd(v[i], n) = v[i].end
  BY TileFacts
<1>5. \A slot \in Slots :
          slot[2] < SpanTokens(sp) =>
              \A k \in Keys(r) :
                  after[slot][k] = Below(r, sp.begin + slot[2], v[i].end, k)
  BY <1>4, TileAdds
<1>6. i < Len(v)
  OBVIOUS
<1> HIDE DEF v, after
<1>7. Len(v) = 2 /\ i = 1 /\ i + 1 = 2
  <2>1. Len(v) \in {1, 2} /\ i \in {1, 2} /\ i < Len(v)
    BY <1>1, <1>3, <1>6
  <2>2. ASSUME NEW len \in {1, 2}, i < len PROVE len = 2 /\ i = 1 /\ i + 1 = 2
    BY <2>1, <2>2
  <2> QED
    BY <2>1, <2>2
<1>8. n + 1 = IntervalTileCount(v[1]) /\ o = n
  BY <1>1, <1>3, <1>7 DEF v
<1>9. PositionAt(r, "tile", t, s, i + 1, 0, o + 1)
  <2>1. 2 # 1 /\ 0 < IntervalTileCount(v[2]) /\ 2 <= Len(v)
        /\ o + 1 = 0 + IntervalTileCount(v[1])
    BY <1>1, <1>3, <1>7, <1>8
  <2> QED
    BY <1>1, <1>7, <2>1 DEF PositionAt, v
<1>10. KeyBegin(v[2], 0) = v[2].begin
  BY <1>3, <1>7 DEF KeyBegin
<1>11. PartialAt(r, "tile", t, s, i + 1, 0, o + 1, after)
  <2>1. SUFFICES ASSUME NEW slot \in Slots, slot[2] < SpanTokens(sp),
                        NEW k \in Keys(r)
                 PROVE  (IF o + 1 = 0 THEN 0 ELSE after[slot][k])
                        = Below(r, sp.begin + slot[2], KeyBegin(v[2], 0), k)
    BY <1>7 DEF PartialAt, v
  <2>2. after[slot][k] = Below(r, sp.begin + slot[2], v[1].end, k)
    BY <1>5, <1>7, <2>1
  <2> DEFINE q == sp.begin + slot[2]
  <2>3. q \in Nat /\ sp.begin <= q /\ q < sp.end /\ k \in Nat
    BY <1>2, <2>1 DEF Slots, Keys
  <2> HIDE DEF q, sp
  <2>4. k \in RowKeys(r, q) => k < v[1].end \/ v[2].begin <= k
    BY <1>3, <1>7, <2>3
  <2>5. v[1].end \in Nat /\ v[2].begin \in Nat /\ v[1].end <= v[2].begin
    BY <1>3, <1>7
  <2>6. Below(r, q, v[1].end, k) = Below(r, q, v[2].begin, k)
    BY <2>3, <2>4, <2>5 DEF Below
  <2> QED
    BY <1>1, <1>10, <2>2, <2>6 DEF q
<1> QED
  BY <1>7, <1>9, <1>11 DEF after

(* The exact row of the query at q.                                        *)
RowAt(r, q) == [k \in Keys(r) |-> IF k \in RowKeys(r, q) THEN 1 ELSE 0]

(* After the last tile of a span the rows of the span are exact.           *)
LEMMA LastTileExact ==
    ASSUME NEW r, NEW t, NEW s, NEW i, NEW n, NEW o, TileState(r, t, s, i, n, o),
           NEW a, a \in [Slots -> [Keys(r) -> Nat]],
           PartialAt(r, "tile", t, s, i, n, o, a),
           n + 1 >= IntervalTileCount(IntervalsAt(r, t, s)[i]),
           i >= Len(IntervalsAt(r, t, s)),
           NEW slot \in Slots, slot[2] < SpanTokens(SpanAt(r, t, s))
    PROVE  AccumulateAt(r, t, s, i, n, o, a)[slot]
               = RowAt(r, SpanAt(r, t, s).begin + slot[2])
<1> DEFINE sp == SpanAt(r, t, s)
           v == IntervalsAt(r, t, s)
           after == AccumulateAt(r, t, s, i, n, o, a)
           q == sp.begin + slot[2]
<1>1. /\ r \in Request /\ TilingAccepts(r) /\ Unwrapped(r)
      /\ LaunchSpan(r, sp)
      /\ sp.begin \in Nat /\ sp.end \in Nat /\ sp.end <= r.seqLen
      /\ SpanTokens(sp) = sp.end - sp.begin
  BY SpanInTile DEF TileState, PositionAt, SpanTokens
<1>2. q \in Nat /\ q < sp.end /\ q < r.seqLen
  <2>1. slot[2] \in Nat
    BY DEF Slots
  <2>2. r.seqLen \in Nat
    BY <1>1 DEF Request
  <2>3. slot[2] < sp.end - sp.begin
    BY <1>1
  <2>4. sp.begin \in Nat /\ sp.end \in Nat /\ sp.end <= r.seqLen
    BY <1>1
  <2> HIDE DEF sp, v, after
  <2> QED
    BY <2>1, <2>2, <2>3, <2>4
<1>3. KeyEnd(v[i], n) = sp.end
  <2>1. KeyEnd(v[i], n) = v[i].end /\ i \in 1 .. Len(v)
    BY TileFacts
  <2>2. v[Len(v)].end = sp.end /\ Len(v) \in {1, 2}
    BY <1>1, SpanIntervalFacts DEF IntervalsAt
  <2>3. i = Len(v)
    BY <2>1, <2>2
  <2> QED
    BY <2>1, <2>2, <2>3
<1>4. after \in [Slots -> [Keys(r) -> Nat]]
      /\ \A k \in Keys(r) : after[slot][k] = Below(r, q, sp.end, k)
  BY <1>3, TileAdds
<1>5. ASSUME NEW k \in Keys(r)
      PROVE  after[slot][k] = IF k \in RowKeys(r, q) THEN 1 ELSE 0
  <2>1. k \in Nat /\ after[slot][k] = Below(r, q, sp.end, k)
    BY <1>4 DEF Keys
  <2>2. k \in RowKeys(r, q) => k <= q
    BY <1>1, <1>2, <2>1, RowKeysFacts
  <2> HIDE DEF q, after, sp
  <2> QED
    BY <1>1, <1>2, <2>1, <2>2 DEF Below
<1>6. after[slot] \in [Keys(r) -> Nat]
  BY <1>4
<1> HIDE DEF q, after
<1>7. after[slot] = RowAt(r, q)
  BY <1>5, <1>6 DEF RowAt
<1> QED
  BY <1>7 DEF after, q

-----------------------------------------------------------------------------
(* The steps.                                                              *)

(* A core whose counters and accumulator a step leaves alone.              *)
LEMMA Frame ==
    ASSUME NEW d, request' = request, pc'[d] = pc[d], task'[d] = task[d],
           span'[d] = span[d], interval'[d] = interval[d], tile'[d] = tile[d],
           tileOrdinal'[d] = tileOrdinal[d], acc'[d] = acc[d],
           Position(d), Partial(d)
    PROVE  Position(d)' /\ Partial(d)'
  BY DEF Position, Partial

(* A core that a step takes to the task or the span loop.                  *)
LEMMA OutsideTile ==
    ASSUME NEW d, pc'[d] # "tile", Position(d)
    PROVE  Partial(d)'
  BY DEF Partial, PartialAt

LEMMA SameRequest ==
    ASSUME request' = request, output' = output, ExactRows
    PROVE  ExactRows'
  BY DEF ExactRows

LEMMA RequestFacts ==
    ASSUME NEW r \in Requests
    PROVE  /\ r \in Request
           /\ r.seqLen \in Int /\ r.queryStart \in Int /\ r.queryTokens \in Int
           /\ TaskCount(r) \in Nat
           /\ BlockDim(r) \in Nat
<1> USE ScheduleAssumption, ReferenceAssumption
<1>1. /\ r \in Request /\ r.aicCores \in Nat
      /\ r.seqLen \in Int /\ r.queryStart \in Int /\ r.queryTokens \in Int
  BY DEF Request
<1>2. \A n \in Int : n % U32Mod \in Nat /\ n % U32Mod \in Int
  OBVIOUS
<1>3. QueryTileCount(r) \in Int
  <2>1. r.queryTokens + QueryTile - 1 \in Int
    BY <1>1
  <2>2. U32(r.queryTokens + QueryTile - 1) \in Nat
    BY <1>2, <2>1 DEF U32
  <2> QED
    BY <2>2 DEF QueryTileCount
<1>4. TaskCount(r) \in Nat
  <2>1. QueryTileCount(r) * KvHeads \in Int
    BY <1>3
  <2> QED
    BY <1>2, <2>1 DEF TaskCount, U32
<1>5. BlockDim(r) \in Nat
  BY <1>1, <1>4 DEF BlockDim, MinU32
<1> QED
  BY <1>1, <1>4, <1>5

LEMMA InitInv == Init => Inv
<1> USE ReferenceAssumption, KernelAssumption
<1>1. SUFFICES ASSUME Init PROVE Inv
  OBVIOUS
<1>2. TypeOK
  BY <1>1 DEF Init, RefInit, TypeOK, Cores
<1>3. \A c \in Cores : pc[c] = "idle"
  BY <1>1 DEF Init
<1>4. \A c \in Cores : Position(c) /\ Partial(c)
  BY <1>3 DEF Position, PositionAt, Partial, PartialAt
<1>5. ExactRows
  BY <1>1 DEF Init, RefInit, ExactRows
<1> QED
  BY <1>2, <1>3, <1>4, <1>5 DEF Inv

LEMMA RejectStep == Inv /\ Reject => Inv'
<1>1. SUFFICES ASSUME Inv, Reject PROVE Inv'
  OBVIOUS
<1>2. /\ request' = request /\ output' = output
      /\ UNCHANGED << pc, task, span, interval, tile, tileOrdinal, acc >>
      /\ host' = "rejected"
      /\ host = "request"
  BY <1>1 DEF Reject, coreVars
<1>3. TypeOK'
  BY <1>1, <1>2 DEF Inv, TypeOK
<1>4. \A c \in Cores : Position(c)' /\ Partial(c)'
  BY <1>1, <1>2, Frame DEF Inv
<1>5. \A c \in Cores : pc'[c] = "idle"
  BY <1>1, <1>2 DEF Inv
<1> QED
  BY <1>1, <1>2, <1>3, <1>4, <1>5, SameRequest DEF Inv

LEMMA LaunchStep == Inv /\ Launch => Inv'
<1>1. SUFFICES ASSUME Inv, Launch PROVE Inv'
  OBVIOUS
<1>2. /\ request' = request /\ output' = output
      /\ UNCHANGED << span, interval, tile, tileOrdinal, acc >>
      /\ TilingAccepts(request)
      /\ host' = "launched"
      /\ pc' = [c \in Cores |-> IF c < BlockDim(request) THEN "task" ELSE "idle"]
      /\ task' = [c \in Cores |-> c]
  BY <1>1 DEF Launch
<1>3. TypeOK'
  BY <1>1, <1>2, KernelAssumption DEF Inv, TypeOK, Cores
<1>4. ASSUME NEW c \in Cores PROVE Position(c)' /\ Partial(c)'
  <2>1. pc'[c] \in {"task", "idle"}
    BY <1>2
  <2> QED
    BY <1>2, <2>1 DEF Position, PositionAt, Partial, PartialAt
<1> QED
  BY <1>1, <1>2, <1>3, <1>4, SameRequest DEF Inv

LEMMA StartTaskStep ==
    ASSUME NEW c \in Cores, Inv, StartTask(c)
    PROVE  Inv'
<1>1. /\ request' = request /\ output' = output /\ host' = host
      /\ UNCHANGED << task, interval, tile, tileOrdinal, acc >>
      /\ pc[c] = "task" /\ task[c] < TaskCount(request)
      /\ pc' = [pc EXCEPT ![c] = "span"]
      /\ span' = [span EXCEPT ![c] = 1]
  BY DEF StartTask
<1>2. TypeOK'
  BY <1>1 DEF Inv, TypeOK
<1>3. pc'[c] = "span" /\ task'[c] < TaskCount(request)
  BY <1>1 DEF Inv, TypeOK
<1>4. Position(c)' /\ Partial(c)'
  BY <1>1, <1>3 DEF Inv, Position, PositionAt, Partial, PartialAt
<1>5. ASSUME NEW d \in Cores \ {c} PROVE Position(d)' /\ Partial(d)'
  <2>1. pc'[d] = pc[d] /\ span'[d] = span[d]
    BY <1>1 DEF Inv, TypeOK
  <2> QED
    BY <1>1, <2>1, Frame DEF Inv
<1>6. host' = "launched"
  BY <1>1 DEF Inv
<1> QED
  BY <1>1, <1>2, <1>4, <1>5, <1>6, SameRequest DEF Inv

LEMMA FinishStep ==
    ASSUME NEW c \in Cores, Inv, Finish(c)
    PROVE  Inv'
<1>1. /\ request' = request /\ output' = output /\ host' = host
      /\ UNCHANGED << task, span, interval, tile, tileOrdinal, acc >>
      /\ pc[c] = "task"
      /\ pc' = [pc EXCEPT ![c] = "done"]
  BY DEF Finish
<1>2. TypeOK'
  BY <1>1 DEF Inv, TypeOK
<1>3. pc'[c] = "done"
  BY <1>1 DEF Inv, TypeOK
<1>4. Position(c)' /\ Partial(c)'
  BY <1>1, <1>3 DEF Inv, Position, PositionAt, Partial, PartialAt
<1>5. ASSUME NEW d \in Cores \ {c} PROVE Position(d)' /\ Partial(d)'
  <2>1. pc'[d] = pc[d]
    BY <1>1 DEF Inv, TypeOK
  <2> QED
    BY <1>1, <2>1, Frame DEF Inv
<1>6. host' = "launched"
  BY <1>1 DEF Inv
<1> QED
  BY <1>1, <1>2, <1>4, <1>5, <1>6, SameRequest DEF Inv

LEMMA EndTaskStep ==
    ASSUME NEW c \in Cores, Inv, EndTask(c)
    PROVE  Inv'
<1>1. /\ request' = request /\ output' = output /\ host' = host
      /\ UNCHANGED << span, interval, tile, tileOrdinal, acc >>
      /\ pc[c] = "span"
      /\ pc' = [pc EXCEPT ![c] = "task"]
      /\ task' = [task EXCEPT ![c] = NextTask(c)]
  BY DEF EndTask
<1>2. TypeOK'
  <2>1. NextTask(c) \in Nat
    BY RequestFacts DEF Inv, TypeOK, NextTask
  <2> QED
    BY <1>1, <2>1 DEF Inv, TypeOK
<1>3. pc'[c] = "task"
  BY <1>1 DEF Inv, TypeOK
<1>4. Position(c)' /\ Partial(c)'
  BY <1>1, <1>3 DEF Inv, Position, PositionAt, Partial, PartialAt
<1>5. ASSUME NEW d \in Cores \ {c} PROVE Position(d)' /\ Partial(d)'
  <2>1. pc'[d] = pc[d] /\ task'[d] = task[d]
    BY <1>1 DEF Inv, TypeOK
  <2> QED
    BY <1>1, <2>1, Frame DEF Inv
<1>6. host' = "launched"
  BY <1>1 DEF Inv
<1> QED
  BY <1>1, <1>2, <1>4, <1>5, <1>6, SameRequest DEF Inv

(* The first tile of a span: nothing has been accumulated, and no key lies *)
(* before it.                                                              *)
LEMMA FirstTileState ==
    ASSUME NEW r \in Request, TilingAccepts(r), Unwrapped(r),
           NEW t \in Nat, t < TaskCount(r),
           NEW s \in Nat \ {0}, s <= Len(QuerySpans(r, t)), NEW a
    PROVE  /\ TotalTiles(IntervalsAt(r, t, s)) # 0
           /\ PositionAt(r, "tile", t, s, 1, 0, 0)
           /\ PartialAt(r, "tile", t, s, 1, 0, 0, a)
<1> DEFINE v == IntervalsAt(r, t, s)
<1>1. LaunchSpan(r, SpanAt(r, t, s))
  BY SpanInTile
<1>2. /\ Len(v) \in {1, 2}
      /\ \A j \in 1 .. Len(v) : IntervalTileCount(v[j]) \in Nat \ {0}
      /\ v[1].begin = 0
      /\ TotalTiles(v) = IntervalTileCount(v[1])
                         + (IF Len(v) = 1 THEN 0 ELSE IntervalTileCount(v[2]))
  BY <1>1, SpanIntervalFacts DEF IntervalsAt
<1>3. KeyBegin(v[1], 0) = 0
  BY <1>2, ScheduleAssumption DEF KeyBegin
<1> HIDE DEF v
<1>4. TotalTiles(v) # 0 /\ 1 <= Len(v) /\ 0 < IntervalTileCount(v[1])
  <2>1. CASE Len(v) = 1
    BY <1>2, <2>1
  <2>2. CASE Len(v) = 2
    <3>1. /\ IntervalTileCount(v[1]) \in Nat \ {0}
          /\ IntervalTileCount(v[2]) \in Nat \ {0}
      BY <1>2, <2>2
    <3> QED
      BY <1>2, <2>2, <3>1
  <2> QED
    BY <1>2, <2>1, <2>2
<1>5. PositionAt(r, "tile", t, s, 1, 0, 0)
  BY <1>4 DEF PositionAt, v
<1>6. PartialAt(r, "tile", t, s, 1, 0, 0, a)
  <2>1. ASSUME NEW q, NEW k \in Keys(r) PROVE Below(r, q, 0, k) = 0
    BY DEF Below, Keys
  <2> QED
    BY <1>3, <2>1 DEF PartialAt, v
<1> QED
  BY <1>4, <1>5, <1>6 DEF v

LEMMA StartSpanStep ==
    ASSUME NoWrap, NEW c \in Cores, Inv, StartSpan(c)
    PROVE  Inv'
<1>1. /\ request' = request /\ output' = output /\ host' = host
      /\ UNCHANGED << task, acc >>
      /\ pc[c] = "span"
      /\ span[c] <= Len(QuerySpans(request, task[c]))
  BY DEF StartSpan, Spans
<1>2. /\ request \in Request /\ TilingAccepts(request) /\ Unwrapped(request)
      /\ task[c] \in Nat /\ task[c] < TaskCount(request)
      /\ span[c] \in Nat \ {0}
  BY <1>1, RequestFacts DEF Inv, TypeOK, Position, PositionAt, NoWrap
<1>3. /\ TotalTiles(IntervalsAt(request, task[c], span[c])) # 0
      /\ PositionAt(request, "tile", task[c], span[c], 1, 0, 0)
      /\ PartialAt(request, "tile", task[c], span[c], 1, 0, 0, acc[c])
  BY <1>1, <1>2, FirstTileState
<1>4. /\ pc' = [pc EXCEPT ![c] = "tile"]
      /\ interval' = [interval EXCEPT ![c] = 1]
      /\ tile' = [tile EXCEPT ![c] = 0]
      /\ tileOrdinal' = [tileOrdinal EXCEPT ![c] = 0]
      /\ span' = span
  BY <1>3 DEF StartSpan, SpanIntervals, Span, Spans, IntervalsAt, SpanAt
<1>5. TypeOK'
  BY <1>1, <1>4 DEF Inv, TypeOK
<1>6. /\ pc'[c] = "tile" /\ interval'[c] = 1 /\ tile'[c] = 0
      /\ tileOrdinal'[c] = 0
  BY <1>4 DEF Inv, TypeOK
<1>7. Position(c)' /\ Partial(c)'
  BY <1>1, <1>3, <1>4, <1>6 DEF Position, Partial
<1>8. ASSUME NEW d \in Cores \ {c} PROVE Position(d)' /\ Partial(d)'
  <2>1. /\ pc'[d] = pc[d] /\ interval'[d] = interval[d] /\ tile'[d] = tile[d]
        /\ tileOrdinal'[d] = tileOrdinal[d]
    BY <1>4 DEF Inv, TypeOK
  <2> QED
    BY <1>1, <1>4, <2>1, Frame DEF Inv
<1>9. host' = "launched"
  BY <1>1 DEF Inv
<1> QED
  BY <1>1, <1>5, <1>7, <1>8, <1>9, SameRequest DEF Inv

(* A core at a tile, in the terms of the lemmas about its counters.        *)
LEMMA CoreTile ==
    ASSUME NoWrap, NEW c \in Cores, Inv, pc[c] = "tile"
    PROVE  /\ TileState(request, task[c], span[c], interval[c], tile[c],
                        tileOrdinal[c])
           /\ acc[c] \in [Slots -> [Keys(request) -> Nat]]
           /\ PartialAt(request, "tile", task[c], span[c], interval[c],
                        tile[c], tileOrdinal[c], acc[c])
           /\ Span(c) = SpanAt(request, task[c], span[c])
           /\ SpanIntervals(c) = IntervalsAt(request, task[c], span[c])
           /\ Accumulate(c) =
                 AccumulateAt(request, task[c], span[c], interval[c], tile[c],
                              tileOrdinal[c], acc[c])
<1>1. PositionAt(request, "tile", task[c], span[c], interval[c], tile[c],
                 tileOrdinal[c])
  BY DEF Inv, Position
<1>2. /\ request \in Request /\ TilingAccepts(request) /\ Unwrapped(request)
  BY <1>1, RequestFacts DEF Inv, TypeOK, PositionAt, NoWrap
<1>3. /\ task[c] \in Nat /\ span[c] \in Nat \ {0} /\ interval[c] \in {1, 2}
      /\ tile[c] \in Nat /\ tileOrdinal[c] \in Nat
      /\ acc[c] \in [Slots -> [Keys(request) -> Nat]]
  BY DEF Inv, TypeOK
<1>4. PartialAt(request, "tile", task[c], span[c], interval[c],
                tile[c], tileOrdinal[c], acc[c])
  BY DEF Inv, Partial
<1>5. /\ Span(c) = SpanAt(request, task[c], span[c])
      /\ SpanIntervals(c) = IntervalsAt(request, task[c], span[c])
  BY DEF SpanIntervals, Span, Spans, IntervalsAt, SpanAt
<1>6. Accumulate(c) =
          AccumulateAt(request, task[c], span[c], interval[c], tile[c],
                       tileOrdinal[c], acc[c])
  BY <1>5, Zenon DEF Accumulate, AccumulateAt, FirstTile
<1> QED
  BY <1>1, <1>2, <1>3, <1>4, <1>5, <1>6 DEF TileState

(* The accumulator row of an output cell of the span.                      *)
LEMMA SlotFacts ==
    ASSUME NoWrap, NEW c \in Cores, Inv, pc[c] = "tile",
           NEW cell \in Block(c)
    PROVE  /\ SlotOf(c, cell) \in Slots
           /\ SlotOf(c, cell)[2] < SpanTokens(Span(c))
           /\ Span(c).begin + SlotOf(c, cell)[2] = request.queryStart + cell[1]
<1> USE ScheduleAssumption, ReferenceAssumption
<1> DEFINE sp == Span(c)
           head == (task[c] % KvHeads) * GroupSize
           row == SpanQueryRow(c)
<1>1. /\ sp.begin \in Nat /\ sp.end \in Nat
      /\ SpanTokens(sp) \in 1 .. QueryTile
      /\ task[c] \in Nat
      /\ request.queryStart \in Int
      /\ QueryRow(task[c]) \in Nat
  <2>1. TileState(request, task[c], span[c], interval[c], tile[c],
                  tileOrdinal[c])
        /\ sp = SpanAt(request, task[c], span[c])
    BY CoreTile
  <2> QED
    BY <2>1, SpanInTile, TaskBounds DEF TileState, PositionAt, Request
<1>2. row = sp.begin - request.queryStart
  BY <1>1 DEF SpanQueryRow, QueryTileBegin
<1>3. head \in Nat
  <2>1. task[c] % KvHeads \in Nat
    BY <1>1
  <2> QED
    BY <2>1
<1> HIDE DEF sp, head, row
<1>4. /\ cell[1] \in row .. row + SpanTokens(sp) - 1
      /\ cell[2] \in head .. head + GroupSize - 1
      /\ SlotOf(c, cell) = << cell[2] - head, cell[1] - row >>
  BY DEF Block, SlotOf, sp, head, row
<1>5. /\ cell[1] - row \in 0 .. SpanTokens(sp) - 1
      /\ cell[2] - head \in 0 .. GroupSize - 1
      /\ sp.begin + (cell[1] - row) = request.queryStart + cell[1]
  <2>1. \A x, m \in Int : \A y \in x .. x + m - 1 :
            y \in Int /\ y - x \in 0 .. m - 1
    OBVIOUS
  <2>2. row \in Int /\ SpanTokens(sp) \in Int
    BY <1>1, <1>2
  <2>3. cell[1] \in Int /\ cell[1] - row \in 0 .. SpanTokens(sp) - 1
    BY <1>4, <2>1, <2>2
  <2>4. cell[2] - head \in 0 .. GroupSize - 1
    BY <1>3, <1>4, <2>1
  <2>5. \A x, y, z \in Int : x + (y - (x - z)) = z + y
    OBVIOUS
  <2>6. sp.begin + (cell[1] - row) = request.queryStart + cell[1]
    BY <1>1, <1>2, <2>3, <2>5
  <2> QED
    BY <2>3, <2>4, <2>6
<1>6. cell[1] - row \in 0 .. QueryTile - 1
  BY <1>1, <1>5
<1> QED
  BY <1>1, <1>4, <1>5, <1>6 DEF Slots, sp

(* What a tile stores: nothing, or exact rows.                             *)
LEMMA StoredRows ==
    ASSUME NoWrap, NEW c \in Cores, Inv, ProcessTile(c)
    PROVE  /\ output' \in [Cells(request)
                              -> [Keys(request) -> Nat] \cup {NotWritten}]
           /\ \A cell \in Cells(request) :
                 \/ output'[cell] = output[cell]
                 \/ output'[cell] = RowResult(request, cell[1])
<1> DEFINE after == Accumulate(c)
           v == SpanIntervals(c)
           tiles == IntervalTileCount(v[interval[c]])
<1>1. /\ pc[c] = "tile"
      /\ output' = IF LastTile(c)
                   THEN [cell \in Cells(request) |->
                            IF cell \in Block(c) THEN after[SlotOf(c, cell)]
                            ELSE output[cell]]
                   ELSE output
  BY DEF ProcessTile
<1>2. /\ TileState(request, task[c], span[c], interval[c], tile[c],
                   tileOrdinal[c])
      /\ acc[c] \in [Slots -> [Keys(request) -> Nat]]
      /\ PartialAt(request, "tile", task[c], span[c], interval[c],
                   tile[c], tileOrdinal[c], acc[c])
      /\ Span(c) = SpanAt(request, task[c], span[c])
      /\ v = IntervalsAt(request, task[c], span[c])
      /\ after = AccumulateAt(request, task[c], span[c], interval[c], tile[c],
                              tileOrdinal[c], acc[c])
  BY <1>1, CoreTile
<1>3. after \in [Slots -> [Keys(request) -> Nat]]
  BY <1>2, TileAdds
<1>4. LastTile(c) <=> tile[c] + 1 >= tiles /\ interval[c] >= Len(v)
  BY <1>2, TileFacts DEF LastTile
<1> HIDE DEF after, v, tiles
<1>5. CASE ~LastTile(c)
  BY <1>1, <1>5 DEF Inv, TypeOK
<1>6. CASE LastTile(c)
  <2>1. ASSUME NEW cell \in Cells(request), cell \in Block(c)
        PROVE  /\ after[SlotOf(c, cell)] \in [Keys(request) -> Nat]
               /\ after[SlotOf(c, cell)] = RowResult(request, cell[1])
    <3>1. /\ SlotOf(c, cell) \in Slots
          /\ SlotOf(c, cell)[2] < SpanTokens(Span(c))
          /\ Span(c).begin + SlotOf(c, cell)[2] =
                 request.queryStart + cell[1]
      BY <1>1, <2>1, SlotFacts
    <3>2. /\ tile[c] + 1 >=
                 IntervalTileCount(IntervalsAt(request, task[c], span[c])
                                   [interval[c]])
          /\ interval[c] >= Len(IntervalsAt(request, task[c], span[c]))
      BY <1>2, <1>4, <1>6 DEF tiles
    <3>3. after[SlotOf(c, cell)] =
              RowAt(request, Span(c).begin + SlotOf(c, cell)[2])
      BY <1>2, <3>1, <3>2, LastTileExact
    <3> QED
      BY <1>3, <3>1, <3>3 DEF RowResult, RowAt
  <2>2. output' = [cell \in Cells(request) |->
                      IF cell \in Block(c) THEN after[SlotOf(c, cell)]
                      ELSE output[cell]]
    BY <1>1, <1>6
  <2> QED
    BY <2>1, <2>2 DEF Inv, TypeOK
<1> QED
  BY <1>5, <1>6

(* The loops end exactly at the tile that stores the rows.                 *)
LEMMA ProcessTileStep ==
    ASSUME NoWrap, NEW c \in Cores, Inv, ProcessTile(c)
    PROVE  Inv'
<1> DEFINE after == Accumulate(c)
           v == SpanIntervals(c)
           tiles == IntervalTileCount(v[interval[c]])
<1>1. /\ request' = request /\ host' = host /\ task' = task
      /\ pc[c] = "tile"
      /\ acc' = [acc EXCEPT ![c] = after]
      /\ tileOrdinal' = [tileOrdinal EXCEPT ![c] = @ + 1]
      /\ Advance(c)
  BY DEF ProcessTile
<1>2. /\ TileState(request, task[c], span[c], interval[c], tile[c],
                   tileOrdinal[c])
      /\ acc[c] \in [Slots -> [Keys(request) -> Nat]]
      /\ PartialAt(request, "tile", task[c], span[c], interval[c],
                   tile[c], tileOrdinal[c], acc[c])
      /\ Span(c) = SpanAt(request, task[c], span[c])
      /\ v = IntervalsAt(request, task[c], span[c])
      /\ after = AccumulateAt(request, task[c], span[c], interval[c], tile[c],
                              tileOrdinal[c], acc[c])
  BY <1>1, CoreTile
<1>3. after \in [Slots -> [Keys(request) -> Nat]]
  BY <1>2, TileAdds
<1> HIDE DEF after, v, tiles
<1>5. /\ tile[c] \in Nat /\ span[c] \in Nat \ {0} /\ interval[c] \in {1, 2}
      /\ tileOrdinal[c] \in Nat
      /\ acc'[c] = after /\ tileOrdinal'[c] = tileOrdinal[c] + 1
  BY <1>1 DEF Inv, TypeOK
<1>6. \/ /\ tile[c] + 1 < tiles
         /\ tile' = [tile EXCEPT ![c] = @ + 1]
         /\ UNCHANGED << pc, span, interval >>
      \/ /\ tile[c] + 1 >= tiles /\ interval[c] < Len(v)
         /\ tile' = [tile EXCEPT ![c] = 0]
         /\ interval' = [interval EXCEPT ![c] = @ + 1]
         /\ UNCHANGED << pc, span >>
      \/ /\ tile[c] + 1 >= tiles /\ interval[c] >= Len(v)
         /\ pc' = [pc EXCEPT ![c] = "span"]
         /\ span' = [span EXCEPT ![c] = @ + 1]
         /\ UNCHANGED << tile, interval >>
  BY <1>1 DEF Advance, v, tiles
<1>7. /\ pc' \in [Cores -> {"idle", "task", "span", "tile", "done"}]
      /\ span' \in [Cores -> Nat \ {0}]
      /\ interval' \in [Cores -> {1, 2}]
      /\ tile' \in [Cores -> Nat]
      /\ Position(c)' /\ Partial(c)'
      /\ \A d \in Cores \ {c} : /\ pc'[d] = pc[d] /\ span'[d] = span[d]
                                /\ interval'[d] = interval[d]
                                /\ tile'[d] = tile[d]
  <2>1. CASE /\ tile[c] + 1 < tiles
             /\ tile' = [tile EXCEPT ![c] = @ + 1]
             /\ UNCHANGED << pc, span, interval >>
    <3>1. /\ PositionAt(request, "tile", task[c], span[c], interval[c],
                        tile[c] + 1, tileOrdinal[c] + 1)
          /\ PartialAt(request, "tile", task[c], span[c], interval[c],
                       tile[c] + 1, tileOrdinal[c] + 1, after)
      BY <1>2, <2>1, AdvanceTile DEF tiles
    <3>2. tile'[c] = tile[c] + 1 /\ tile' \in [Cores -> Nat]
          /\ \A d \in Cores \ {c} : tile'[d] = tile[d]
      BY <1>5, <2>1 DEF Inv, TypeOK
    <3>3. Position(c)' /\ Partial(c)'
      BY <1>1, <1>5, <2>1, <3>1, <3>2 DEF Position, Partial
    <3> QED
      BY <2>1, <3>2, <3>3 DEF Inv, TypeOK
  <2>2. CASE /\ tile[c] + 1 >= tiles /\ interval[c] < Len(v)
             /\ tile' = [tile EXCEPT ![c] = 0]
             /\ interval' = [interval EXCEPT ![c] = @ + 1]
             /\ UNCHANGED << pc, span >>
    <3>1. /\ interval[c] + 1 \in {1, 2}
          /\ PositionAt(request, "tile", task[c], span[c], interval[c] + 1,
                        0, tileOrdinal[c] + 1)
          /\ PartialAt(request, "tile", task[c], span[c], interval[c] + 1,
                       0, tileOrdinal[c] + 1, after)
      BY <1>2, <2>2, AdvanceInterval DEF tiles
    <3>2. /\ tile'[c] = 0 /\ tile' \in [Cores -> Nat]
          /\ interval'[c] = interval[c] + 1
          /\ interval' \in [Cores -> {1, 2}]
          /\ \A d \in Cores \ {c} :
                tile'[d] = tile[d] /\ interval'[d] = interval[d]
      BY <1>5, <2>2, <3>1 DEF Inv, TypeOK
    <3>3. Position(c)' /\ Partial(c)'
      BY <1>1, <1>5, <2>2, <3>1, <3>2 DEF Position, Partial
    <3> QED
      BY <2>2, <3>2, <3>3 DEF Inv, TypeOK
  <2>3. CASE /\ tile[c] + 1 >= tiles /\ interval[c] >= Len(v)
             /\ pc' = [pc EXCEPT ![c] = "span"]
             /\ span' = [span EXCEPT ![c] = @ + 1]
             /\ UNCHANGED << tile, interval >>
    <3>1. /\ pc'[c] = "span"
          /\ pc' \in [Cores -> {"idle", "task", "span", "tile", "done"}]
          /\ span' \in [Cores -> Nat \ {0}]
          /\ \A d \in Cores \ {c} : pc'[d] = pc[d] /\ span'[d] = span[d]
      BY <1>5, <2>3 DEF Inv, TypeOK
    <3>2. Position(c)' /\ Partial(c)'
      BY <1>1, <1>2, <3>1
      DEF TileState, Position, PositionAt, Partial, PartialAt
    <3> QED
      BY <2>3, <3>1, <3>2 DEF Inv, TypeOK
  <2> QED
    BY <1>6, <2>1, <2>2, <2>3
<1>8. ASSUME NEW d \in Cores \ {c} PROVE Position(d)' /\ Partial(d)'
  <2>1. acc'[d] = acc[d] /\ tileOrdinal'[d] = tileOrdinal[d]
    BY <1>1 DEF Inv, TypeOK
  <2> QED
    BY <1>1, <1>7, <2>1, Frame DEF Inv
<1>9. /\ acc' \in [Cores -> [Slots -> [Keys(request) -> Nat]]]
      /\ tileOrdinal' \in [Cores -> Nat]
  BY <1>1, <1>3, <1>5 DEF Inv, TypeOK
<1>10. /\ output' \in [Cells(request) -> [Keys(request) -> Nat] \cup {NotWritten}]
       /\ \A cell \in Cells(request) :
             \/ output'[cell] = output[cell]
             \/ output'[cell] = RowResult(request, cell[1])
  BY StoredRows
<1>11. ExactRows'
  BY <1>1, <1>10 DEF Inv, ExactRows
<1>12. TypeOK'
  BY <1>1, <1>7, <1>9, <1>10 DEF Inv, TypeOK
<1>13. host' = "launched"
  BY <1>1 DEF Inv
<1> QED
  BY <1>7, <1>8, <1>11, <1>12, <1>13 DEF Inv

-----------------------------------------------------------------------------
(* The theorems.                                                           *)

LEMMA NextInv == ASSUME NoWrap PROVE Inv /\ [Next]_vars => Inv'
<1>1. SUFFICES ASSUME Inv, [Next]_vars PROVE Inv'
  OBVIOUS
<1>2. CASE Reject
  BY <1>1, <1>2, RejectStep
<1>3. CASE Launch
  BY <1>1, <1>3, LaunchStep
<1>4. ASSUME NEW c \in Cores, CoreStep(c) PROVE Inv'
  BY <1>1, <1>4, StartTaskStep, FinishStep, EndTaskStep, StartSpanStep,
     ProcessTileStep DEF CoreStep
<1>5. CASE UNCHANGED vars
  <2>1. /\ request' = request /\ output' = output /\ host' = host
        /\ UNCHANGED << pc, task, span, interval, tile, tileOrdinal, acc >>
    BY <1>5 DEF vars
  <2>2. TypeOK'
    BY <1>1, <2>1 DEF Inv, TypeOK
  <2>3. \A d \in Cores : Position(d)' /\ Partial(d)'
    BY <1>1, <2>1, Frame DEF Inv
  <2> QED
    BY <1>1, <2>1, <2>2, <2>3, SameRequest DEF Inv
<1> QED
  BY <1>1, <1>2, <1>3, <1>4, <1>5 DEF Next

(* The counters and accumulators of every core stay in their domains,      *)
(* whatever the geometry, the launches and the number of cores.            *)
THEOREM TypeCorrect == ASSUME NoWrap PROVE Spec => []TypeOK
<1>1. Inv => TypeOK
  BY DEF Inv
<1> QED
  BY InitInv, NextInv, <1>1, PTL DEF Spec

(* Every row the kernel stores was computed from exactly the keys of the   *)
(* reference schedule, each once.                                          *)
THEOREM RowsExact == ASSUME NoWrap PROVE Spec => []ExactRows
<1>1. Inv => ExactRows
  BY DEF Inv
<1> QED
  BY InitInv, NextInv, <1>1, PTL DEF Spec

LEMMA PageBound ==
    ASSUME NEW m \in Nat \ {0}, NEW n \in Nat, m <= n, NEW d \in Nat \ {0}
    PROVE  (m - 1) \div d < (n + d - 1) \div d
<1> DEFINE a == (m - 1) \div d
           b == (n + d - 1) \div d
<1>1. a \in Nat /\ a * d <= m - 1
  BY DivBounds, m - 1 \in Nat
<1>2. b \in Nat /\ n <= b * d
  BY CeilBounds, n \in Nat \ {0}
<1> HIDE DEF a, b
<1>3. SUFFICES ASSUME b <= a PROVE FALSE
  BY <1>1, <1>2 DEF a, b
<1>4. b * d <= a * d
  BY <1>1, <1>2, <1>3
<1> QED
  BY <1>1, <1>2, <1>4

(* No tile reaches past the sequence or past the block table.              *)
THEOREM ReadsBounded == ASSUME NoWrap PROVE Spec => []ReadsInsideTable
<1> USE ScheduleAssumption
<1>1. ASSUME Inv, NEW c \in Cores, pc[c] = "tile"
      PROVE  LET keyEnd == KeyEnd(SpanIntervals(c)[interval[c]], tile[c])
             IN  /\ KeyBegin(SpanIntervals(c)[interval[c]], tile[c]) < keyEnd
                 /\ keyEnd <= request.seqLen
                 /\ (keyEnd - 1) \div PageSize < request.tablePages
  <2> DEFINE v == SpanIntervals(c)
             b == KeyBegin(v[interval[c]], tile[c])
             e == KeyEnd(v[interval[c]], tile[c])
  <2>1. TileState(request, task[c], span[c], interval[c], tile[c],
                  tileOrdinal[c])
        /\ v = IntervalsAt(request, task[c], span[c])
    BY <1>1, CoreTile
  <2>2. /\ b \in Nat /\ e \in Nat /\ b < e
        /\ e <= v[interval[c]].end
        /\ v[interval[c]].end \in Nat
        /\ v[interval[c]].end <= request.seqLen
    BY <2>1, TileFacts
  <2>3. /\ request.seqLen \in Nat /\ request.tablePages \in Int
        /\ request.tablePages >= (request.seqLen + PageSize - 1) \div PageSize
    BY <2>1 DEF TileState, TilingAccepts, RequiredPages, Request
  <2> HIDE DEF b, e, v
  <2>4. e \in Nat \ {0} /\ e <= request.seqLen
    BY <2>2, <2>3
  <2>5. (e - 1) \div PageSize < (request.seqLen + PageSize - 1) \div PageSize
    BY <2>3, <2>4, PageBound
  <2>6. (e - 1) \div PageSize < request.tablePages
    <3>1. (e - 1) \div PageSize \in Int
          /\ (request.seqLen + PageSize - 1) \div PageSize \in Int
      BY <2>3, <2>4
    <3> QED
      BY <2>3, <2>5, <3>1
  <2> QED
    BY <2>2, <2>4, <2>6 DEF b, e, v
<1>2. Inv => ReadsInsideTable
  BY <1>1 DEF ReadsInsideTable
<1> QED
  BY InitInv, NextInv, <1>2, PTL DEF Spec

(* The tiled, multi-core kernel implements the row at a time reference:    *)
(* each of its steps finishes rows with their reference result or changes  *)
(* no cell.                                                                *)
THEOREM ImplementsReference == ASSUME NoWrap PROVE Spec => RefSpec
<1>1. Init => RefInit
  BY DEF Init
<1>2. ASSUME Inv, [Next]_vars PROVE [FinishRows]_refVars
  <2>1. CASE UNCHANGED << request, output >>
    BY <2>1 DEF refVars
  <2>2. ASSUME NEW c \in Cores, ProcessTile(c) PROVE FinishRows
    <3>1. request' = request /\ pc[c] = "tile"
      BY <2>2 DEF ProcessTile
    <3>2. TilingAccepts(request)
      BY <1>2, <3>1 DEF Inv, Position, PositionAt
    <3>3. /\ output' \in [Cells(request)
                             -> [Keys(request) -> Nat] \cup {NotWritten}]
          /\ \A cell \in Cells(request) :
                \/ output'[cell] = output[cell]
                \/ output'[cell] = RowResult(request, cell[1])
      BY <1>2, <2>2, StoredRows
    <3>4. \A cell \in Cells(request) :
              output[cell] # NotWritten =>
                  output[cell] = RowResult(request, cell[1])
      BY <1>2 DEF Inv, ExactRows
    <3> QED
      BY <3>1, <3>2, <3>3, <3>4 DEF FinishRows
  <2>3. \/ UNCHANGED << request, output >>
        \/ \E c \in Cores : ProcessTile(c)
    BY <1>2 DEF Next, CoreStep, Reject, Launch, StartTask, Finish, EndTask,
                StartSpan, vars
  <2> QED
    BY <2>1, <2>2, <2>3
<1> QED
  BY InitInv, NextInv, <1>1, <1>2, PTL DEF Spec, RefSpec
=============================================================================
