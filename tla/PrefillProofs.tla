----------------------------- MODULE PrefillProofs -----------------------------
(***************************************************************************)
(* From a scheduler step to the rows of a layer.  A direct plan is a launch*)
(* the operator accepts, and the plans of a prompt report the pairs the    *)
(* operator skips, for any kernel configuration, any prompt and any way    *)
(* the scheduler cuts it.  Then the layers such plans reach: their gates,  *)
(* the verdict they keep on the KV caches and the rows they return, for    *)
(* any tensors, any calls and any number of calls.                         *)
(***************************************************************************)
EXTENDS BatchPlanner, DirectLayer, FiniteSetTheorems, FunctionTheorems,
        SequenceTheorems, TLAPS

(* The lists of a step: lengths of sequences, ends of queries, prompts     *)
(* the runner counts in 32 bits.                                           *)
WellFormed(s) ==
    /\ s.ends \in Seq(Nat)
    /\ s.seqLens \in Seq(Nat)
    /\ \A i \in 1 .. Len(s.seqLens) : s.seqLens[i] <= prompt
    /\ s.prompts \in Seq(Int)
    /\ \A i \in 1 .. Len(s.prompts) : s.prompts[i] < U32Mod

(* The plan is the plan of the last step.                                  *)
PlanOfStep ==
    /\ plan.id = 0 => plan = NoPlan
    /\ plan.id # 0 => /\ WellFormed(step)
                      /\ plan = BuildBatchPlan(step, config, plan.id)

PlannerInv == TypeOK /\ PlanOfStep

(* What DirectLayerAssumption asks of the plan that a call finds.          *)
FitsLayer ==
    IF plan.direct
    THEN LET r == plan.requests[1]
         IN  /\ {r.queryLen, r.seqLen, r.promptLen} \subseteq Nat
             /\ 0 < r.queryLen /\ r.queryLen <= r.seqLen
             /\ r.seqLen <= r.promptLen /\ r.promptLen < U32Mod
             /\ MaxU32(r.seqLen - r.queryLen, SparseBegin)
                    < MinU32(r.seqLen, MaxU32(0, r.promptLen - DenseTailTokens))
    ELSE plan.id # 0 => PrimaryReason(plan) # "none"

-----------------------------------------------------------------------------
(* One request.                                                            *)

(* The bounds of a span are integers, and its saved pairs a number.        *)
LEMMA SpanTypes ==
    ASSUME NEW queryLen \in Int, NEW seqLen \in Int, NEW promptLen \in Int,
           NEW c \in TriangleMixConfig
    PROVE  LET span == SparseSpan(queryLen, seqLen, promptLen, c)
           IN  /\ span.q0 \in Int /\ span.q1 \in Int
               /\ span.s0 \in Int /\ span.s1 \in Int
               /\ SparseRows(span) \in Nat /\ SavedQk(span) \in Int
<1> DEFINE span == SparseSpan(queryLen, seqLen, promptLen, c)
<1>1. /\ span.q0 = seqLen - queryLen /\ span.q1 = seqLen
      /\ span.s0 = MaxU32(seqLen - queryLen, StreamingStart(c))
      /\ span.s1 = MinU32(seqLen, MaxU32(0, promptLen - c.last))
  BY DEF SparseSpan
<1>2. c.sink \in Nat /\ c.window \in Nat /\ c.last \in Nat
  BY DEF TriangleMixConfig
<1>3. /\ span.q0 \in Int /\ span.q1 \in Int
      /\ span.s0 \in Int /\ span.s1 \in Int
  BY <1>1, <1>2 DEF StreamingStart, MaxU32, MinU32
<1> HIDE DEF span
<1>4. SparseRows(span) \in Nat
  BY <1>3 DEF SparseRows, MaxU32
<1>5. SavedQk(span) \in Int
  <2> DEFINE a == SparseRows(span)
             b == span.s0 + span.s1 - (2 * (SinkTokens + WindowTokens) + 1)
  <2>1. a \in Int /\ b \in Int
    BY <1>3, <1>4, ScheduleAssumption
  <2> HIDE DEF a, b
  <2>2. a * b \in Int
    BY <2>1
  <2>3. (a * b) \div 2 \in Int
    BY <2>2
  <2> QED
    BY <2>3 DEF SavedQk, a, b
<1> QED
  BY <1>3, <1>4, <1>5 DEF span

(* The gates of _request_reason and of triangle_direct_eligible agree.     *)
LEMMA ReasonNone ==
    ASSUME NEW queryLen \in Int, NEW seqLen \in Int, NEW promptLen \in Int,
           NEW c \in TriangleMixConfig,
           RequestReason(queryLen, seqLen, promptLen, c) = "none"
    PROVE  /\ 0 < queryLen /\ queryLen <= seqLen /\ seqLen <= promptLen
           /\ DirectEligible(queryLen, seqLen, promptLen, c)
<1> DEFINE span == SparseSpan(queryLen, seqLen, promptLen, c)
<1>1. /\ SparseRows(span) \in Nat /\ SavedQk(span) \in Int
      /\ c.minSeqLen \in Nat /\ c.minSparseRows \in Nat /\ c.minSavedQk \in Nat
      /\ c.splitMinSparseRows \in Nat /\ c.splitMinSavedQk \in Nat
  BY SpanTypes DEF TriangleMixConfig
<1>2. ~InvalidLengths(queryLen, seqLen, promptLen)
  BY DEF RequestReason
<1>3. /\ HasSupportedGeometry(c) /\ HasSparseMiddle(span)
      /\ ~(seqLen < c.minSeqLen) /\ ~(SparseRows(span) < c.minSparseRows)
      /\ ~(SavedQk(span) < c.minSavedQk)
      /\ ~(IsSplit(span) /\ SparseRows(span) < c.splitMinSparseRows)
      /\ ~(IsSplit(span) /\ SavedQk(span) < c.splitMinSavedQk)
  BY DEF RequestReason
<1> HIDE DEF span
<1>4. /\ HasSupportedGeometry(c) /\ HasSparseMiddle(span)
      /\ seqLen >= c.minSeqLen
      /\ SparseRows(span) >= c.minSparseRows
      /\ SavedQk(span) >= c.minSavedQk
      /\ IsSplit(span) => /\ SparseRows(span) >= c.splitMinSparseRows
                          /\ SavedQk(span) >= c.splitMinSavedQk
  BY <1>1, <1>3
<1> QED
  BY <1>2, <1>4 DEF DirectEligible, InvalidLengths, span

(* The saved pairs of an eligible request are not negative.                *)
LEMMA SavedNat ==
    ASSUME NEW queryLen \in Int, NEW seqLen \in Int, NEW promptLen \in Int,
           NEW c \in TriangleMixConfig,
           RequestReason(queryLen, seqLen, promptLen, c) = "none"
    PROVE  SavedQk(SparseSpan(queryLen, seqLen, promptLen, c)) \in Nat
<1> DEFINE span == SparseSpan(queryLen, seqLen, promptLen, c)
<1>1. SavedQk(span) \in Int
  BY SpanTypes
<1>2. SavedQk(span) >= c.minSavedQk
  BY ReasonNone DEF DirectEligible
<1>3. c.minSavedQk \in Nat
  BY DEF TriangleMixConfig
<1> HIDE DEF span
<1> QED
  BY <1>1, <1>2, <1>3 DEF span

-----------------------------------------------------------------------------
(* The plan of a step.                                                     *)

(* Without a reason against the whole step it holds one request, and       *)
(* every list has its entry.                                               *)
LEMMA NoGlobalReason ==
    ASSUME NEW s, s.ends \in Seq(Nat), s.seqLens \in Seq(Nat),
           s.prompts \in Seq(Int), GlobalReason(s) = "none"
    PROVE  /\ s.decodes = 0 /\ Len(s.seqLens) = 1
           /\ Len(s.ends) = 1 /\ Len(s.prompts) = 1
<1>1. /\ s.decodes = 0 /\ Len(s.seqLens) = 1
      /\ {Len(s.ends), Len(s.prompts), s.prefills} = {Len(s.seqLens)}
  BY DEF GlobalReason
<1> QED
  BY <1>1

(* A step with sequences has one request plan for each.                    *)
LEMMA PlansOfStep ==
    ASSUME NEW s, NEW c, s.seqLens \in Seq(Nat)
    PROVE  /\ Len(s.seqLens) = 0 =>
                 RequestPlans(s, c) = << NoRequest(s) >>
           /\ Len(s.seqLens) # 0 =>
                 /\ Len(RequestPlans(s, c)) = Len(s.seqLens)
                 /\ DOMAIN RequestPlans(s, c) = 1 .. Len(s.seqLens)
                 /\ \A i \in 1 .. Len(s.seqLens) :
                        RequestPlans(s, c)[i] = RequestPlan(s, i, c)
<1>1. CASE s.seqLens = << >>
  BY <1>1 DEF RequestPlans
<1>2. CASE s.seqLens # << >>
  <2>1. Len(s.seqLens) # 0 /\ Len(s.seqLens) \in Nat
    BY <1>2
  <2> DEFINE plans == [i \in 1 .. Len(s.seqLens) |-> RequestPlan(s, i, c)]
  <2>2. Len(plans) = Len(s.seqLens) /\ DOMAIN plans = 1 .. Len(s.seqLens)
    BY <2>1
  <2> QED
    BY <1>2, <2>1, <2>2 DEF RequestPlans
<1> QED
  BY <1>1, <1>2

(* What a direct plan stands for.                                          *)
LEMMA DirectPlan ==
    ASSUME NEW s, WellFormed(s), NEW c \in TriangleMixConfig, NEW id,
           BuildBatchPlan(s, c, id).direct
    PROVE  LET r == BuildBatchPlan(s, c, id).requests[1]
           IN  /\ s.decodes = 0 /\ Len(s.seqLens) = 1
               /\ Len(s.ends) = 1 /\ Len(s.prompts) = 1
               /\ r.seqLen = s.seqLens[1] /\ r.seqLen \in Nat
               /\ r.queryLen = s.ends[1] /\ r.queryLen \in Int
               /\ r.promptLen = s.prompts[1]
               /\ r.promptLen \in Int /\ r.promptLen < U32Mod
               /\ RequestReason(r.queryLen, r.seqLen, r.promptLen, c) = "none"
<1> DEFINE requests == RequestPlans(s, c)
           r == requests[1]
<1>1. /\ BuildBatchPlan(s, c, id).requests = requests
      /\ Len(requests) = 1 /\ r.reason = "none"
  BY DEF BuildBatchPlan
<1>2. /\ s.ends \in Seq(Nat) /\ s.seqLens \in Seq(Nat) /\ s.prompts \in Seq(Int)
      /\ \A i \in 1 .. Len(s.prompts) : s.prompts[i] < U32Mod
  BY DEF WellFormed
<1>3. Len(s.seqLens) # 0
  <2> SUFFICES ASSUME Len(s.seqLens) = 0 PROVE FALSE
    OBVIOUS
  <2>1. requests = << NoRequest(s) >>
    BY <1>2, PlansOfStep
  <2>2. r = NoRequest(s)
    BY <2>1
  <2>3. NoRequest(s).reason # "none"
    BY DEF NoRequest
  <2> QED
    BY <1>1, <2>2, <2>3
<1>4. Len(s.seqLens) = 1 /\ r = RequestPlan(s, 1, c)
  BY <1>1, <1>2, <1>3, PlansOfStep
<1> HIDE DEF requests
<1>5. /\ GlobalReason(s) = "none"
      /\ r.queryLen = QueryEnd(s, 1) - QueryEnd(s, 1 - 1)
      /\ r.seqLen = s.seqLens[1]
      /\ r.promptLen = IF 1 <= Len(s.prompts) THEN s.prompts[1] ELSE s.seqLens[1]
      /\ RequestReason(r.queryLen, r.seqLen, r.promptLen, c) = "none"
  BY <1>1, <1>4 DEF RequestPlan
<1>6. s.decodes = 0 /\ Len(s.ends) = 1 /\ Len(s.prompts) = 1
  BY <1>2, <1>5, NoGlobalReason
<1>7. /\ QueryEnd(s, 1) \in Nat /\ QueryEnd(s, 1 - 1) = 0
      /\ QueryEnd(s, 1) = s.ends[1]
  <2>1. s.ends[1] \in Nat /\ s.ends # << >>
    BY <1>2, <1>6
  <2> QED
    BY <1>6, <2>1 DEF QueryEnd, MinU32
<1>8. /\ r.seqLen \in Nat /\ r.queryLen \in Int
      /\ r.promptLen \in Int /\ r.promptLen < U32Mod
      /\ r.queryLen = s.ends[1] /\ r.promptLen = s.prompts[1]
  BY <1>2, <1>4, <1>5, <1>6, <1>7
<1> QED
  BY <1>1, <1>4, <1>5, <1>6, <1>8

(* The first reason of a plan is none exactly when the plan is direct.     *)
LEMMA DirectReason ==
    ASSUME NEW s, WellFormed(s), NEW c, NEW id
    PROVE  LET p == BuildBatchPlan(s, c, id)
           IN  p.direct <=> PrimaryReason(p) = "none"
<1> DEFINE p == BuildBatchPlan(s, c, id)
           requests == RequestPlans(s, c)
           failing == {i \in DOMAIN p.requests : p.requests[i].reason # "none"}
           first == CHOOSE i \in failing : \A j \in failing : i <= j
<1>1. /\ p.requests = requests
      /\ p.direct <=> Len(requests) = 1 /\ requests[1].reason = "none"
  BY Zenon DEF BuildBatchPlan
<1>2. /\ s.ends \in Seq(Nat) /\ s.seqLens \in Seq(Nat) /\ s.prompts \in Seq(Int)
      /\ Len(s.seqLens) \in Nat
  BY DEF WellFormed
<1>3. PrimaryReason(p) = IF failing = {} THEN "none"
                         ELSE p.requests[first].reason
  BY DEF PrimaryReason
<1>4. CASE Len(s.seqLens) = 0
  <2>1. requests = << NoRequest(s) >>
    BY <1>2, <1>4, PlansOfStep
  <2>2. NoRequest(s).reason # "none"
    BY DEF NoRequest
  <2>3. failing = {1}
    BY <1>1, <2>1, <2>2
  <2>4. first = 1
    <3> HIDE DEF failing
    <3> QED
      BY <2>3
  <2>5. PrimaryReason(p) # "none"
    BY <1>1, <1>3, <2>1, <2>2, <2>3, <2>4
  <2>6. ~p.direct
    BY <1>1, <2>1, <2>2
  <2> QED
    BY <2>5, <2>6
<1>5. CASE Len(s.seqLens) # 0 /\ GlobalReason(s) # "none"
  <2>1. \A i \in 1 .. Len(s.seqLens) : requests[i].reason # "none"
    <3> TAKE i \in 1 .. Len(s.seqLens)
    <3>1. requests[i] = RequestPlan(s, i, c)
      BY <1>2, <1>5, PlansOfStep
    <3>2. RequestPlan(s, i, c).reason = GlobalReason(s)
      BY <1>5 DEF RequestPlan
    <3> QED
      BY <1>5, <3>1, <3>2
  <2>2. DOMAIN requests = 1 .. Len(s.seqLens)
    BY <1>2, <1>5, PlansOfStep
  <2>3. failing = 1 .. Len(s.seqLens)
    BY <1>1, <2>1, <2>2
  <2>4. first = 1
    <3> HIDE DEF failing
    <3>1. 1 \in failing /\ \A j \in failing : 1 <= j
      BY <1>2, <1>5, <2>3
    <3>2. \A i \in failing : (\A j \in failing : i <= j) => i = 1
      BY <1>2, <2>3, <3>1
    <3> QED
      BY <3>1, <3>2
  <2>5. 1 \in 1 .. Len(s.seqLens)
    BY <1>2, <1>5
  <2>6. PrimaryReason(p) # "none"
    BY <1>1, <1>3, <2>1, <2>3, <2>4, <2>5
  <2>7. ~p.direct
    BY <1>1, <2>1, <2>5
  <2> QED
    BY <2>6, <2>7
<1>6. CASE Len(s.seqLens) # 0 /\ GlobalReason(s) = "none"
  <2>1. Len(s.seqLens) = 1
    BY <1>2, <1>6, NoGlobalReason
  <2>2. DOMAIN requests = 1 .. 1 /\ Len(requests) = 1
    BY <1>2, <2>1, PlansOfStep
  <2>3. p.direct <=> requests[1].reason = "none"
    BY <1>1, <2>2
  <2>4. CASE requests[1].reason = "none"
    <3>1. failing = {}
      BY <1>1, <2>2, <2>4
    <3> QED
      BY <1>3, <2>3, <2>4, <3>1
  <2>5. CASE requests[1].reason # "none"
    <3>1. failing = {1}
      BY <1>1, <2>2, <2>5
    <3>2. first = 1
      <4> HIDE DEF failing
      <4> QED
        BY <3>1
    <3>3. PrimaryReason(p) # "none"
      BY <1>1, <1>3, <2>5, <3>1, <3>2
    <3> QED
      BY <2>3, <2>5, <3>3
  <2> QED
    BY <2>4, <2>5
<1> QED
  BY <1>4, <1>5, <1>6

-----------------------------------------------------------------------------
(* The scheduler.                                                          *)

(* A second entry.                                                         *)
LEMMA AppendPair ==
    ASSUME NEW S, NEW x \in S, NEW y \in S
    PROVE  Append(<< x >>, y) = << x, y >>
<1> DEFINE t == Append(<< x >>, y)
<1>1. << x >> \in Seq(S) /\ Len(<< x >>) = 1 /\ << x >>[1] = x
  OBVIOUS
<1>2. t \in Seq(S) /\ Len(t) = 2 /\ t[1] = x /\ t[2] = y
  BY <1>1, AppendProperties
<1>3. << x, y >> \in Seq(S) /\ Len(<< x, y >>) = 2
  OBVIOUS
<1>4. \A i \in 1 .. 2 : t[i] = << x, y >>[i]
  BY <1>2
<1> HIDE DEF t
<1>5. t = << x, y >>
  BY <1>2, <1>3, <1>4, SeqEqual
<1> QED
  BY <1>5 DEF t

(* The steps the scheduler makes of a chunk.                               *)
LEMMA StepsWellFormed ==
    ASSUME prompt \in 1 .. MaxPrompt, computed \in 0 .. prompt,
           NEW n \in 1 .. prompt - computed, NEW state,
           NEW s \in Variants(Alone(n, state))
    PROVE  /\ WellFormed(s)
           /\ s.ends \in {<< n >>, << n, n + 1 >>, << n, 2 * n >>, << >>, << 0 >>}
           /\ s.seqLens \in {<< computed + n >>, << computed + n, prompt >>,
                             << computed + n, computed + n >>, << >>}
           /\ s.prompts \in {<< prompt >>, << prompt, prompt >>, << >>,
                             << computed + n - 1 >>}
<1> DEFINE a == Alone(n, state)
           len == computed + n
<1>1. /\ prompt \in Nat /\ prompt < U32Mod /\ len \in Nat /\ len <= prompt
      /\ n \in Nat /\ n + 1 \in Nat /\ 2 * n \in Nat
      /\ len - 1 \in Int /\ len - 1 < U32Mod
  BY PlannerAssumption, ScheduleAssumption
<1>2. /\ a.ends = << n >> /\ a.seqLens = << len >> /\ a.prompts = << prompt >>
  BY DEF Alone
<1> HIDE DEF len
<1>3. /\ n = a.ends[1] /\ len = a.seqLens[1]
      /\ Append(a.seqLens, prompt) = << len, prompt >>
      /\ Append(a.seqLens, len) = << len, len >>
      /\ Append(a.prompts, prompt) = << prompt, prompt >>
  <2> HIDE DEF a
  <2>1. n = a.ends[1] /\ len = a.seqLens[1]
    BY <1>2
  <2> QED
    BY <1>1, <1>2, <2>1, AppendPair
<1>4. DOMAIN a = {"state", "ends", "seqLens", "prompts", "decodes", "prefills"}
  BY DEF Alone
<1> HIDE DEF a
<1>5. /\ s.ends \in {<< n >>, << n, n + 1 >>, << n, 2 * n >>, << >>, << 0 >>}
      /\ s.seqLens \in {<< len >>, << len, prompt >>, << len, len >>, << >>}
      /\ s.prompts \in {<< prompt >>, << prompt, prompt >>, << >>, << len - 1 >>}
  <2>1. s \in Variants(a)
    BY DEF a
  <2>2. CASE s \in {a, [a EXCEPT !.state = "DecodeOnly"]}
    BY <1>2, <1>4, <2>2
  <2>3. CASE s = [a EXCEPT !.decodes = 1, !.ends = << n, n + 1 >>,
                           !.seqLens = Append(@, prompt),
                           !.prompts = Append(@, prompt)]
    BY <1>2, <1>3, <1>4, <2>3
  <2>4. CASE s = [a EXCEPT !.prefills = 2, !.ends = << n, 2 * n >>,
                           !.seqLens = Append(@, @[1]),
                           !.prompts = Append(@, prompt)]
    BY <1>2, <1>3, <1>4, <2>4
  <2>5. CASE s = [a EXCEPT !.prefills = 2, !.seqLens = Append(@, @[1])]
    BY <1>2, <1>3, <1>4, <2>5
  <2>6. CASE s \in {[a EXCEPT !.prompts = << >>],
                    [a EXCEPT !.prompts = << len - 1 >>]}
    BY <1>2, <1>4, <2>6
  <2>7. CASE s \in {[a EXCEPT !.ends = << >>], [a EXCEPT !.seqLens = << >>],
                    [a EXCEPT !.ends = << 0 >>]}
    BY <1>2, <1>4, <2>7
  <2> QED
    BY <1>3, <2>1, <2>2, <2>3, <2>4, <2>5, <2>6, <2>7 DEF Variants
<1>6. s.ends \in Seq(Nat)
  <2>1. /\ << n >> \in Seq(Nat) /\ << n, n + 1 >> \in Seq(Nat)
        /\ << n, 2 * n >> \in Seq(Nat) /\ << >> \in Seq(Nat)
        /\ << 0 >> \in Seq(Nat)
    BY <1>1
  <2> QED
    BY <1>5, <2>1
<1>7. s.seqLens \in Seq(Nat) /\ \A i \in 1 .. Len(s.seqLens) : s.seqLens[i] <= prompt
  <2>1. CASE s.seqLens = << len >>
    BY <1>1, <2>1
  <2>2. CASE s.seqLens = << len, prompt >>
    BY <1>1, <2>2
  <2>3. CASE s.seqLens = << len, len >>
    BY <1>1, <2>3
  <2>4. CASE s.seqLens = << >>
    BY <1>1, <2>4
  <2> QED
    BY <1>5, <2>1, <2>2, <2>3, <2>4
<1>8. s.prompts \in Seq(Int) /\ \A i \in 1 .. Len(s.prompts) : s.prompts[i] < U32Mod
  <2>1. CASE s.prompts = << prompt >>
    BY <1>1, <2>1
  <2>2. CASE s.prompts = << prompt, prompt >>
    BY <1>1, <2>2
  <2>3. CASE s.prompts = << >>
    BY <1>1, <2>3
  <2>4. CASE s.prompts = << len - 1 >>
    BY <1>1, <2>4
  <2> QED
    BY <1>5, <2>1, <2>2, <2>3, <2>4
<1> QED
  BY <1>5, <1>6, <1>7, <1>8 DEF WellFormed, len

-----------------------------------------------------------------------------
(* The invariant.                                                          *)
LEMMA InitPlanner == Init => PlannerInv
<1> SUFFICES ASSUME Init PROVE PlannerInv
  OBVIOUS
<1>1. plan.id = 0 /\ plan.requests = << >>
  BY DEF Init, NoPlan
<1>2. prompt \in Nat /\ computed \in 0 .. prompt
  BY PlannerAssumption DEF Init
<1>3. nextPlan = 1 /\ nextPlan \in 1 .. MaxPlans + 1 /\ plan.id = nextPlan - 1
  BY <1>1, PlannerAssumption DEF Init
<1>4. \A i \in DOMAIN plan.requests : plan.requests[i].reason \in Reasons
  BY <1>1
<1>5. TypeOK
  BY <1>2, <1>3, <1>4 DEF Init, TypeOK
<1>6. PlanOfStep
  BY <1>1 DEF Init, PlanOfStep
<1> QED
  BY <1>5, <1>6 DEF PlannerInv

(* Every reason of a plan is one of the reasons.                           *)
LEMMA ReasonsOfPlan ==
    ASSUME NEW s, s.seqLens \in Seq(Nat), NEW c, NEW id
    PROVE  LET requests == BuildBatchPlan(s, c, id).requests
           IN  \A i \in DOMAIN requests : requests[i].reason \in Reasons
<1>1. \A q, t, u : RequestReason(q, t, u, c) \in Reasons
  BY DEF RequestReason, Reasons
<1>2. GlobalReason(s) \in Reasons
  BY DEF GlobalReason, Reasons
<1>3. \A i : RequestPlan(s, i, c).reason \in Reasons
  BY <1>1, <1>2 DEF RequestPlan
<1>4. NoRequest(s).reason \in Reasons
  BY <1>2 DEF NoRequest, Reasons
<1>5. BuildBatchPlan(s, c, id).requests = RequestPlans(s, c)
  BY DEF BuildBatchPlan
<1>6. CASE Len(s.seqLens) = 0
  <2>1. RequestPlans(s, c) = << NoRequest(s) >>
    BY <1>6, PlansOfStep
  <2> QED
    BY <1>4, <1>5, <2>1
<1>7. CASE Len(s.seqLens) # 0
  <2>1. /\ DOMAIN RequestPlans(s, c) = 1 .. Len(s.seqLens)
        /\ \A i \in 1 .. Len(s.seqLens) :
               RequestPlans(s, c)[i] = RequestPlan(s, i, c)
    BY <1>7, PlansOfStep
  <2> QED
    BY <1>3, <1>5, <2>1
<1> QED
  BY <1>6, <1>7

(* One scheduler step.                                                     *)
LEMMA SchedulePlanner ==
    ASSUME PlannerInv, NEW n \in 1 .. prompt - computed,
           NEW state \in PrefillStates, NEW s \in Variants(Alone(n, state)),
           Schedule(n, s)
    PROVE  PlannerInv'
<1> DEFINE p == BuildBatchPlan(s, config, nextPlan)
<1>1. /\ config \in Configs /\ config \in TriangleMixConfig
      /\ prompt \in 1 .. MaxPrompt /\ prompt \in Nat
      /\ computed \in 0 .. prompt /\ nextPlan \in Nat \ {0}
      /\ MaxPlans \in Nat /\ saved \in Nat
      /\ launched \subseteq 0 .. prompt - 1
  BY PlannerAssumption DEF PlannerInv, TypeOK
<1>2. /\ nextPlan <= MaxPlans /\ step' = s /\ plan' = p
      /\ nextPlan' = nextPlan + 1
      /\ launched' = launched \cup PlannedRows(p)
      /\ saved' = IF p.direct
                  THEN saved + PlanSavedQk(p.requests[1], config) ELSE saved
      /\ computed' = computed + n
      /\ config' = config /\ prompt' = prompt
  BY DEF Schedule
<1>3. WellFormed(s)
  BY <1>1, StepsWellFormed
<1>4. p.id = nextPlan
  BY DEF BuildBatchPlan
<1>5. ASSUME p.direct
      PROVE  LET r == p.requests[1]
             IN  /\ r.queryLen \in Nat /\ r.seqLen \in Nat /\ r.promptLen \in Int
                 /\ r.queryLen <= r.seqLen /\ r.seqLen <= prompt
                 /\ RequestReason(r.queryLen, r.seqLen, r.promptLen, config)
                        = "none"
  <2> DEFINE r == p.requests[1]
  <2>1. /\ Len(s.seqLens) = 1 /\ r.seqLen = s.seqLens[1] /\ r.seqLen \in Nat
        /\ r.queryLen \in Int /\ r.promptLen \in Int
        /\ RequestReason(r.queryLen, r.seqLen, r.promptLen, config) = "none"
    BY <1>1, <1>3, <1>5, DirectPlan
  <2>2. r.seqLen <= prompt
    BY <1>3, <2>1 DEF WellFormed
  <2> HIDE DEF r
  <2>3. 0 < r.queryLen /\ r.queryLen <= r.seqLen
    BY <1>1, <2>1, ReasonNone
  <2> QED
    BY <2>1, <2>2, <2>3 DEF r
<1> HIDE DEF p
<1>6. launched' \subseteq 0 .. prompt - 1
  <2>1. CASE p.direct
    <3>1. PlannedRows(p) = p.requests[1].seqLen - p.requests[1].queryLen ..
                               p.requests[1].seqLen - 1
      BY <2>1 DEF PlannedRows
    <3> DEFINE q == p.requests[1].queryLen
               t == p.requests[1].seqLen
    <3>2. q \in Nat /\ t \in Nat /\ q <= t /\ t <= prompt
      BY <1>5, <2>1
    <3> HIDE DEF q, t
    <3>3. t - q .. t - 1 \subseteq 0 .. prompt - 1
      BY <1>1, <3>2
    <3>4. PlannedRows(p) \subseteq 0 .. prompt - 1
      BY <3>1, <3>3 DEF q, t
    <3> QED
      BY <1>1, <1>2, <3>4
  <2>2. CASE ~p.direct
    BY <1>1, <1>2, <2>2 DEF PlannedRows
  <2> QED
    BY <2>1, <2>2
<1>7. saved' \in Nat
  <2>1. ASSUME p.direct PROVE PlanSavedQk(p.requests[1], config) \in Nat
    <3> DEFINE r == p.requests[1]
    <3>1. SavedQk(SparseSpan(r.queryLen, r.seqLen, r.promptLen, config)) \in Nat
      BY <1>1, <1>5, <2>1, SavedNat
    <3> QED
      BY <3>1 DEF PlanSavedQk
  <2> QED
    BY <1>1, <1>2, <2>1
<1>8. \A i \in DOMAIN p.requests : p.requests[i].reason \in Reasons
  BY <1>3, ReasonsOfPlan DEF WellFormed, p
<1>9. TypeOK'
  <2>1. /\ computed' \in 0 .. prompt /\ nextPlan' \in 1 .. MaxPlans + 1
        /\ plan'.id = nextPlan' - 1
    BY <1>1, <1>2, <1>4
  <2> QED
    BY <1>1, <1>2, <1>6, <1>7, <1>8, <2>1 DEF TypeOK
<1>10. PlanOfStep'
  <2>1. WellFormed(s)'
    BY <1>2, <1>3 DEF WellFormed
  <2>2. plan'.id # 0
    BY <1>1, <1>2, <1>4
  <2>3. WellFormed(step)'
    BY <1>2, <2>1 DEF WellFormed
  <2>4. plan' = BuildBatchPlan(step', config', plan'.id)
    BY <1>2, <1>4 DEF p
  <2> QED
    BY <2>2, <2>3, <2>4 DEF PlanOfStep, BuildBatchPlan
<1> QED
  BY <1>9, <1>10 DEF PlannerInv

LEMMA StepPlanner == PlannerInv /\ [Next]_vars => PlannerInv'
<1> SUFFICES ASSUME PlannerInv, [Next]_vars PROVE PlannerInv'
  OBVIOUS
<1>1. CASE Next
  BY <1>1, SchedulePlanner DEF Next
<1>2. CASE UNCHANGED vars
  BY <1>2 DEF vars, PlannerInv, TypeOK, PlanOfStep, WellFormed, BuildBatchPlan
<1> QED
  BY <1>1, <1>2

(* What the invariant says of the properties.                              *)
LEMMA PlannerImplies ==
    PlannerInv => /\ TypeOK /\ DirectIffNoReason /\ FitsLayer
                  /\ DirectAloneAndEligible /\ DirectAccepted
<1> SUFFICES ASSUME PlannerInv
             PROVE  /\ TypeOK /\ DirectIffNoReason /\ FitsLayer
                    /\ DirectAloneAndEligible /\ DirectAccepted
  OBVIOUS
<1>1. TypeOK /\ PlanOfStep
  BY DEF PlannerInv
<1>2. DirectIffNoReason
  BY <1>1, DirectReason DEF DirectIffNoReason, PlanOfStep
<1>3. ASSUME plan.direct
      PROVE  LET r == plan.requests[1]
             IN  /\ step.decodes = 0 /\ Len(step.seqLens) = 1
                 /\ r.seqLen \in Nat /\ r.queryLen \in Int /\ r.promptLen \in Int
                 /\ r.promptLen < U32Mod
                 /\ 0 < r.queryLen /\ r.queryLen <= r.seqLen
                 /\ r.seqLen <= r.promptLen
                 /\ DirectEligible(r.queryLen, r.seqLen, r.promptLen, config)
  <2> DEFINE r == plan.requests[1]
  <2>1. plan.id # 0
    BY <1>1, <1>3 DEF PlanOfStep, NoPlan
  <2>2. WellFormed(step) /\ plan = BuildBatchPlan(step, config, plan.id)
    BY <1>1, <2>1 DEF PlanOfStep
  <2>3. config \in TriangleMixConfig
    BY <1>1, PlannerAssumption DEF TypeOK
  <2>4. /\ step.decodes = 0 /\ Len(step.seqLens) = 1
        /\ r.seqLen \in Nat /\ r.queryLen \in Int /\ r.promptLen \in Int
        /\ r.promptLen < U32Mod
        /\ RequestReason(r.queryLen, r.seqLen, r.promptLen, config) = "none"
    BY <1>3, <2>2, <2>3, DirectPlan
  <2> HIDE DEF r
  <2>5. /\ 0 < r.queryLen /\ r.queryLen <= r.seqLen /\ r.seqLen <= r.promptLen
        /\ DirectEligible(r.queryLen, r.seqLen, r.promptLen, config)
    BY <2>3, <2>4, ReasonNone
  <2> QED
    BY <2>4, <2>5 DEF r
<1>4. DirectAloneAndEligible
  BY <1>3 DEF DirectAloneAndEligible
<1>5. DirectAccepted
  <2> SUFFICES ASSUME plan.direct
               PROVE  TilingAccepts(LaunchOf(plan.requests[1]))
    BY DEF DirectAccepted
  <2> DEFINE r == plan.requests[1]
  <2>1. (r.seqLen + PageSize - 1) \div PageSize \in Int /\ U32Mod \in Nat
    BY <1>3, ScheduleAssumption
  <2>2. /\ r.seqLen \in Nat /\ r.queryLen \in Int /\ r.promptLen \in Int
        /\ r.promptLen < U32Mod /\ 0 < r.queryLen /\ r.queryLen <= r.seqLen
        /\ r.seqLen <= r.promptLen
    BY <1>3
  <2> HIDE DEF r
  <2>3. TilingAccepts(LaunchOf(r))
    BY <2>1, <2>2 DEF TilingAccepts, LaunchOf, RequiredPages
  <2> QED
    BY <2>3 DEF r
<1>6. FitsLayer
  <2>1. CASE plan.direct
    <3> DEFINE r == plan.requests[1]
    <3>1. /\ r.seqLen \in Nat /\ r.queryLen \in Int /\ r.promptLen \in Int
          /\ r.promptLen < U32Mod /\ 0 < r.queryLen /\ r.queryLen <= r.seqLen
          /\ r.seqLen <= r.promptLen
          /\ DirectEligible(r.queryLen, r.seqLen, r.promptLen, config)
      BY <1>3, <2>1
    <3> HIDE DEF r
    <3>3. MaxU32(r.seqLen - r.queryLen, SparseBegin)
              < MinU32(r.seqLen, MaxU32(0, r.promptLen - DenseTailTokens))
      BY <3>1 DEF DirectEligible, HasSupportedGeometry, HasSparseMiddle,
                  SparseSpan, StreamingStart, SparseBegin
    <3>2. {r.queryLen, r.seqLen, r.promptLen} \subseteq Nat
      BY <3>1
    <3> QED
      BY <2>1, <3>1, <3>2, <3>3 DEF FitsLayer, r
  <2>2. CASE ~plan.direct
    BY <1>2, <2>2 DEF FitsLayer, DirectIffNoReason
  <2> QED
    BY <2>1, <2>2
<1> QED
  BY <1>1, <1>2, <1>4, <1>5, <1>6

LEMMA PlannerInvariant == Spec => []PlannerInv
  BY InitPlanner, StepPlanner, PTL DEF Spec

-----------------------------------------------------------------------------
(* The pairs the operator skips.                                           *)

(* The rows a .. b - 1, and for each row q the keys from lo on that are    *)
(* more than w before it.                                                  *)
Stair(a, b, lo, w) ==
    {t \in (a .. b - 1) \X (lo .. b) : t[2] < t[1] - w}

(* Two copies of a stair, one turned around, fill a rectangle.             *)
LEMMA StairPairs ==
    ASSUME NEW a \in Nat, NEW b \in Nat, NEW lo \in Nat, NEW w \in Nat,
           a < b, lo + w <= a
    PROVE  /\ IsFiniteSet(Stair(a, b, lo, w))
           /\ Cardinality(Stair(a, b, lo, w)) \in Nat
           /\ 2 * Cardinality(Stair(a, b, lo, w))
                 = (b - a) * (a + b - 1 - 2 * (lo + w))
<1> DEFINE H == a + b - 1 - 2 * (lo + w)
           top == lo + H - 1
           band == a .. b - 1
           keys == lo .. top
           rect == band \X keys
           stair == Stair(a, b, lo, w)
           rest == rect \ stair
           turn == [t \in rest |-> << a + b - 1 - t[1], lo + top - t[2] >>]
<1>1. H \in Nat /\ top \in Int /\ top = a + b - 2 - 2 * w - lo
  OBVIOUS
<1>2. IsFiniteSet(band) /\ Cardinality(band) = b - a
  BY FS_Interval
<1>3. IsFiniteSet(keys) /\ Cardinality(keys) = H
  <2> HIDE DEF H
  <2>1. top \in Int /\ top - lo + 1 = H
    BY <1>1
  <2>2. IsFiniteSet(keys) /\ Cardinality(keys) = IF lo > top THEN 0
                                                 ELSE top - lo + 1
    BY <2>1, FS_Interval
  <2> QED
    BY <1>1, <2>1, <2>2
<1>4. stair = {t \in rect : t[2] < t[1] - w}
  <2>1. ASSUME NEW q \in band, NEW k \in Int, lo <= k, k < q - w
        PROVE  k <= top /\ k <= b
    <3>1. q \in Int /\ q <= b - 1
      OBVIOUS
    <3> HIDE DEF band, top
    <3>2. k <= b - 2 - w /\ b - 2 - w <= top /\ b - 2 - w <= b
      BY <1>1, <2>1, <3>1
    <3> QED
      BY <1>1, <3>2
  <2>2. ASSUME NEW t \in stair
        PROVE  t \in rect /\ t[2] < t[1] - w
    <3>1. /\ t[1] \in band /\ t[2] \in lo .. b /\ t[2] < t[1] - w
          /\ t = << t[1], t[2] >>
      BY DEF Stair
    <3>2. t[2] \in keys
      BY <2>1, <3>1
    <3> HIDE DEF band, keys
    <3> QED
      BY <3>1, <3>2
  <2>3. ASSUME NEW t \in rect, t[2] < t[1] - w
        PROVE  t \in stair
    <3>1. /\ t[1] \in band /\ t[2] \in keys /\ t = << t[1], t[2] >>
      OBVIOUS
    <3>2. t[2] \in lo .. b
      BY <2>1, <2>3, <3>1
    <3> QED
      BY <2>3, <3>1, <3>2 DEF Stair
  <2> HIDE DEF rect, stair
  <2> QED
    BY <2>2, <2>3
<1>5. /\ IsFiniteSet(rect)
      /\ Cardinality(rect) = (b - a) * H
  <2> HIDE DEF band, keys, H
  <2> QED
    BY <1>2, <1>3, FS_Product
<1>6. /\ \A q \in band : \A k \in keys :
            << q, k >> \in rest <=> k >= q - w
      /\ \A q \in band : \A k \in keys :
            << q, k >> \in stair <=> k < q - w
      /\ \A t \in rect : /\ t[1] \in band /\ t[2] \in keys
                         /\ t = << t[1], t[2] >>
  <2>1. \A q \in band : \A k \in keys : q \in Int /\ k \in Int
    OBVIOUS
  <2> HIDE DEF band, keys, stair
  <2> QED
    BY <1>4, <2>1
<1>7. \A q \in band : \A k \in keys :
         /\ a + b - 1 - q \in band /\ lo + top - k \in keys
         /\ k >= q - w <=> lo + top - k < (a + b - 1 - q) - w
         /\ a + b - 1 - (a + b - 1 - q) = q /\ lo + top - (lo + top - k) = k
  BY <1>1
<1>8. turn \in Bijection(rest, stair)
  <2> HIDE DEF band, keys, stair, top
  <2>1. ASSUME NEW t \in rest
        PROVE  /\ t[1] \in band /\ t[2] \in keys /\ t = << t[1], t[2] >>
               /\ t[2] >= t[1] - w
               /\ turn[t] = << a + b - 1 - t[1], lo + top - t[2] >>
               /\ turn[t] \in stair
    <3>1. /\ t[1] \in band /\ t[2] \in keys /\ t = << t[1], t[2] >>
      BY <1>6
    <3>2. << t[1], t[2] >> \in rest
      BY <3>1
    <3>3. t[2] >= t[1] - w
      BY <1>6, <3>1, <3>2
    <3>4. turn[t] = << a + b - 1 - t[1], lo + top - t[2] >>
      OBVIOUS
    <3>5. << a + b - 1 - t[1], lo + top - t[2] >> \in stair
      BY <1>6, <1>7, <3>1, <3>3
    <3> QED
      BY <3>1, <3>3, <3>4, <3>5
  <2>2. turn \in [rest -> stair]
    BY <2>1
  <2>3. ASSUME NEW t \in rest, NEW u \in rest, turn[t] = turn[u]
        PROVE  t = u
    <3>1. /\ a + b - 1 - t[1] = a + b - 1 - u[1]
          /\ lo + top - t[2] = lo + top - u[2]
      BY <2>1, <2>3
    <3>2. t[1] = u[1] /\ t[2] = u[2]
      BY <1>7, <2>1, <3>1
    <3> QED
      BY <2>1, <3>2
  <2>4. ASSUME NEW t \in stair
        PROVE  \E u \in rest : turn[u] = t
    <3> DEFINE q == a + b - 1 - t[1]
               k == lo + top - t[2]
    <3>1. t \in rect /\ t[2] < t[1] - w
      BY <1>4
    <3>2. t[1] \in band /\ t[2] \in keys /\ t = << t[1], t[2] >>
      BY <1>6, <3>1
    <3>3. /\ q \in band /\ k \in keys
          /\ a + b - 1 - q = t[1] /\ lo + top - k = t[2]
      BY <1>7, <3>2
    <3>4. k >= q - w
      BY <1>7, <3>1, <3>3
    <3> HIDE DEF q, k
    <3>5. << q, k >> \in rest
      BY <1>6, <3>3, <3>4
    <3>6. turn[<< q, k >>] = t
      BY <2>1, <3>2, <3>3, <3>5
    <3> QED
      BY <3>5, <3>6
  <2> HIDE DEF turn
  <2> QED
    BY <2>2, <2>3, <2>4, Fun_IsBij
<1> HIDE DEF turn
<1>9. rect = stair \cup rest /\ stair \cap rest = {}
  <2> HIDE DEF rect, stair
  <2> QED
    BY <1>4
<1> HIDE DEF rect, rest, H
<1>10. IsFiniteSet(stair) /\ IsFiniteSet(rest)
  <2>1. stair \subseteq rect /\ rest \subseteq rect
    BY <1>9
  <2> HIDE DEF stair
  <2> QED
    BY <1>5, <2>1, FS_Subset
<1>11. Cardinality(stair) = Cardinality(rest)
  BY <1>8, <1>10, FS_Bijection DEF ExistsBijection
<1>12. Cardinality(stair) \in Nat
  BY <1>10, FS_CardinalityType
<1>13. Cardinality(rect) = Cardinality(stair) + Cardinality(rest)
                              - Cardinality(stair \cap rest)
  BY <1>9, <1>10, FS_Union
<1>14. Cardinality(stair \cap rest) = 0
  BY <1>9, FS_EmptySet
<1> HIDE DEF stair
<1>15. 2 * Cardinality(stair) = (b - a) * H
  BY <1>5, <1>11, <1>12, <1>13, <1>14
<1> QED
  BY <1>10, <1>12, <1>15 DEF stair, H

(* The launch of a whole prompt of n tokens, and the causal pairs the      *)
(* operator skips in some of its rows.                                     *)
Whole(n) == LaunchOf([queryLen |-> n, seqLen |-> n, promptLen |-> n])

SkippedIn(band, n) ==
    {p \in band \X (0 .. n - 1) :
        p[2] <= p[1] /\ p[2] \notin RowKeys(Whole(n), p[1])}

(* Whether some interval of a schedule holds a key.                        *)
Visits(intervals, k) ==
    \E i \in DOMAIN intervals : intervals[i].begin <= k /\ k < intervals[i].end

(* The keys of intervals that are appended to nothing.                     *)
LEMMA KeysOfIntervals ==
    ASSUME NEW x \in Nat, NEW y \in Nat, x < y,
           NEW v \in Nat, NEW w \in Nat, v < w, NEW k
    PROVE  /\ Visits(AppendInterval(<< >>, x, y), k) <=> x <= k /\ k < y
           /\ Visits(AppendInterval(AppendInterval(<< >>, x, y), v, w), k)
                 <=> (x <= k /\ k < y) \/ (v <= k /\ k < w)
<1> DEFINE S == [begin : Nat, end : Nat]
           i1 == Interval(x, y)
           i2 == Interval(v, w)
<1>1. /\ i1 \in S /\ i1.begin = x /\ i1.end = y
      /\ i2 \in S /\ i2.begin = v /\ i2.end = w
  BY DEF Interval
<1>2. AppendInterval(<< >>, x, y) = << i1 >>
  BY DEF AppendInterval
<1>3. AppendInterval(<< i1 >>, v, w) = Append(<< i1 >>, i2)
  BY DEF AppendInterval
<1> HIDE DEF i1, i2
<1>4. Append(<< i1 >>, i2) = << i1, i2 >>
  BY <1>1, AppendPair
<1>5. Visits(<< i1 >>, k) <=> x <= k /\ k < y
  BY <1>1 DEF Visits
<1>6. Visits(<< i1, i2 >>, k) <=> (x <= k /\ k < y) \/ (v <= k /\ k < w)
  BY <1>1 DEF Visits
<1> QED
  BY <1>2, <1>3, <1>4, <1>5, <1>6

(* A row skips a causal key when the row is sparse and the key is past the *)
(* sink and before the window.                                             *)
LEMMA RowSkips ==
    ASSUME NEW n \in Nat, NEW q \in 0 .. n - 1, NEW k \in 0 .. n - 1
    PROVE  k <= q /\ k \notin RowKeys(Whole(n), q)
               <=> /\ SparseBegin <= q /\ q < SparseEnd(Whole(n))
                   /\ SinkTokens <= k /\ k < q - WindowTokens
<1> DEFINE se == SparseEnd(Whole(n))
           causalEnd == MinU32(q + 1, Whole(n).seqLen)
           sparse == q >= SparseBegin /\ q < se
           sinkEnd == MinU32(SinkTokens, causalEnd)
           localBegin == IF q > WindowTokens THEN q - WindowTokens ELSE 0
           intervals == BuildRowSchedule(Whole(n), q)
<1>1. Whole(n).seqLen = n /\ Whole(n).promptLen = n
  BY DEF Whole, LaunchOf
<1>2. /\ SparseBegin = SinkTokens + WindowTokens + 1 /\ SparseBegin \in Nat
      /\ SinkTokens \in Nat \ {0} /\ WindowTokens \in Nat
      /\ se \in Int /\ causalEnd = q + 1
  BY <1>1, ScheduleAssumption DEF SparseBegin, SparseEnd, MaxU32, MinU32
<1>3. intervals =
          IF ~sparse \/ localBegin <= sinkEnd
          THEN AppendInterval(<< >>, 0, causalEnd)
          ELSE AppendInterval(AppendInterval(<< >>, 0, sinkEnd),
                              localBegin, causalEnd)
  BY Zenon DEF BuildRowSchedule
<1>4. k \in RowKeys(Whole(n), q) <=> Visits(intervals, k)
  BY <1>1 DEF RowKeys, Visits
<1> HIDE DEF intervals
<1>5. CASE ~sparse
  <2>1. intervals = AppendInterval(<< >>, 0, q + 1)
    BY <1>2, <1>3, <1>5
  <2>2. Visits(intervals, k) <=> k < q + 1
    <3>1. q + 1 \in Nat /\ 0 \in Nat /\ 0 < q + 1 /\ 0 <= k
      OBVIOUS
    <3>2. Visits(AppendInterval(<< >>, 0, q + 1), k) <=> 0 <= k /\ k < q + 1
      BY <3>1, KeysOfIntervals
    <3> QED
      BY <2>1, <3>1, <3>2
  <2> QED
    BY <1>2, <1>4, <1>5, <2>2
<1>6. CASE sparse
  <2>1. /\ sinkEnd = SinkTokens /\ localBegin = q - WindowTokens
        /\ SinkTokens < localBegin /\ localBegin \in Nat
        /\ localBegin < q + 1
    BY <1>2, <1>6 DEF MinU32
  <2>2. intervals = AppendInterval(AppendInterval(<< >>, 0, SinkTokens),
                                   q - WindowTokens, q + 1)
    <3> HIDE DEF sinkEnd, localBegin, sparse, causalEnd
    <3> QED
      BY <1>2, <1>3, <1>6, <2>1
  <2>3. Visits(intervals, k)
            <=> k < SinkTokens \/ (q - WindowTokens <= k /\ k < q + 1)
    <3>1. /\ SinkTokens \in Nat /\ 0 < SinkTokens /\ q + 1 \in Nat
          /\ q - WindowTokens \in Nat /\ q - WindowTokens < q + 1
      BY <1>2, <2>1
    <3>2. Visits(AppendInterval(AppendInterval(<< >>, 0, SinkTokens),
                                q - WindowTokens, q + 1), k)
              <=> \/ 0 <= k /\ k < SinkTokens
                  \/ q - WindowTokens <= k /\ k < q + 1
      BY <3>1, KeysOfIntervals
    <3> QED
      BY <2>2, <3>2
  <2> HIDE DEF sinkEnd, localBegin, causalEnd
  <2> QED
    BY <1>2, <1>4, <1>6, <2>3
<1> QED
  BY <1>5, <1>6

(* The rows of a chunk skip the pairs of a stair.                          *)
LEMMA ChunkSkips ==
    ASSUME NEW n \in Nat, NEW a \in Nat, NEW b \in Nat, b <= n,
           NEW s0, s0 = MaxU32(a, SparseBegin),
           NEW s1, s1 = MinU32(b, SparseEnd(Whole(n)))
    PROVE  SkippedIn(a .. b - 1, n) = Stair(s0, s1, SinkTokens, WindowTokens)
<1> DEFINE se == SparseEnd(Whole(n))
<1>1. /\ SparseBegin \in Nat /\ SinkTokens \in Nat /\ WindowTokens \in Nat
      /\ se \in Int
  BY ScheduleAssumption DEF SparseBegin, SparseEnd, MaxU32, Whole, LaunchOf
<1> HIDE DEF se
<1>2. /\ s0 \in Int /\ s1 \in Int
      /\ \A q \in Int : s0 <= q /\ q <= s1 - 1
                          <=> a <= q /\ q <= b - 1 /\ SparseBegin <= q /\ q < se
  BY <1>1 DEF MaxU32, MinU32, se
<1>3. ASSUME NEW q \in Int, NEW k \in Int
      PROVE  << q, k >> \in SkippedIn(a .. b - 1, n)
                 <=> /\ s0 <= q /\ q <= s1 - 1
                     /\ SinkTokens <= k /\ k < q - WindowTokens
  <2>1. << q, k >> \in SkippedIn(a .. b - 1, n)
            <=> /\ a <= q /\ q <= b - 1 /\ 0 <= k /\ k <= n - 1
                /\ k <= q /\ k \notin RowKeys(Whole(n), q)
    BY DEF SkippedIn
  <2>2. ASSUME a <= q, q <= b - 1, 0 <= k, k <= n - 1
        PROVE  k <= q /\ k \notin RowKeys(Whole(n), q)
                   <=> /\ SparseBegin <= q /\ q < se
                       /\ SinkTokens <= k /\ k < q - WindowTokens
    BY <2>2, RowSkips DEF se
  <2>3. a <= q /\ q <= b - 1 /\ SinkTokens <= k /\ k < q - WindowTokens
            => 0 <= k /\ k <= n - 1
    BY <1>1
  <2> QED
    BY <1>2, <2>1, <2>2, <2>3
<1>4. ASSUME NEW q \in Int, NEW k \in Int
      PROVE  << q, k >> \in Stair(s0, s1, SinkTokens, WindowTokens)
                 <=> /\ s0 <= q /\ q <= s1 - 1
                     /\ SinkTokens <= k /\ k < q - WindowTokens
  <2>1. << q, k >> \in Stair(s0, s1, SinkTokens, WindowTokens)
            <=> /\ s0 <= q /\ q <= s1 - 1
                /\ SinkTokens <= k /\ k <= s1 /\ k < q - WindowTokens
    BY <1>1, <1>2 DEF Stair
  <2>2. q <= s1 - 1 /\ k < q - WindowTokens => k <= s1
    BY <1>1, <1>2
  <2> QED
    BY <2>1, <2>2
<1>5. /\ SkippedIn(a .. b - 1, n) \subseteq Int \X Int
      /\ Stair(s0, s1, SinkTokens, WindowTokens) \subseteq Int \X Int
  BY <1>1, <1>2 DEF SkippedIn, Stair
<1> DEFINE skipped == SkippedIn(a .. b - 1, n)
           stair == Stair(s0, s1, SinkTokens, WindowTokens)
<1>6. \A q \in Int : \A k \in Int : << q, k >> \in skipped <=> << q, k >> \in stair
  BY <1>3, <1>4
<1> HIDE DEF skipped, stair
<1>7. skipped = stair
  <2>1. skipped \subseteq Int \X Int /\ stair \subseteq Int \X Int
    BY <1>5 DEF skipped, stair
  <2> QED
    BY <1>6, <2>1
<1> QED
  BY <1>7 DEF skipped, stair

(* The saved_qk of an eligible chunk counts the pairs its rows skip.       *)
LEMMA ChunkSaved ==
    ASSUME NEW n \in Nat, NEW a \in Nat, NEW b \in Nat, a < b, b <= n,
           NEW c \in TriangleMixConfig, HasSupportedGeometry(c),
           HasSparseMiddle(SparseSpan(b - a, b, n, c))
    PROVE  /\ IsFiniteSet(SkippedIn(a .. b - 1, n))
           /\ SavedQk(SparseSpan(b - a, b, n, c))
                 = Cardinality(SkippedIn(a .. b - 1, n))
<1> DEFINE span == SparseSpan(b - a, b, n, c)
           s0 == span.s0
           s1 == span.s1
           skipped == SkippedIn(a .. b - 1, n)
           count == Cardinality(skipped)
           twice == (s1 - s0) * (s0 + s1 - (2 * (SinkTokens + WindowTokens) + 1))
<1>1. /\ c.sink = SinkTokens /\ c.window = WindowTokens
      /\ c.last = DenseTailTokens
  BY DEF HasSupportedGeometry
<1>2. /\ SinkTokens \in Nat /\ WindowTokens \in Nat /\ DenseTailTokens \in Nat
      /\ SparseBegin = SinkTokens + WindowTokens + 1
  BY ScheduleAssumption DEF SparseBegin
<1>3. /\ span.s0 = MaxU32(b - (b - a), c.sink + c.window + 1)
      /\ span.s1 = MinU32(b, MaxU32(0, n - c.last))
  BY DEF SparseSpan, StreamingStart
<1>4. /\ s0 = MaxU32(a, SparseBegin)
      /\ s1 = MinU32(b, SparseEnd(Whole(n)))
  <2>1. b - (b - a) = a
    OBVIOUS
  <2>2. SparseEnd(Whole(n)) = MaxU32(0, n - DenseTailTokens)
    BY DEF SparseEnd, Whole, LaunchOf
  <2> HIDE DEF span
  <2> QED
    BY <1>1, <1>2, <1>3, <2>1, <2>2
<1>5. /\ s0 < s1 /\ s0 \in Nat /\ s1 \in Nat
      /\ SinkTokens + WindowTokens <= s0
  <2>1. s0 < s1
    BY DEF HasSparseMiddle
  <2> HIDE DEF span
  <2> QED
    BY <1>2, <1>4, <2>1 DEF MaxU32, MinU32, SparseEnd, Whole, LaunchOf
<1>6. SavedQk(span) = twice \div 2
  <2>1. SavedQk(span) =
            (MaxU32(0, s1 - s0) *
                (s0 + s1 - (2 * (SinkTokens + WindowTokens) + 1))) \div 2
    BY DEF SavedQk, SparseRows
  <2> HIDE DEF span
  <2>2. MaxU32(0, s1 - s0) = s1 - s0
    BY <1>5 DEF MaxU32
  <2> QED
    BY <2>1, <2>2
<1> HIDE DEF span
<1>7. skipped = Stair(s0, s1, SinkTokens, WindowTokens)
  BY <1>4, ChunkSkips
<1> HIDE DEF s0, s1
<1>8. /\ IsFiniteSet(skipped) /\ count \in Nat
      /\ 2 * count = (s1 - s0) * (s0 + s1 - 1 - 2 * (SinkTokens + WindowTokens))
  <2> HIDE DEF skipped
  <2> QED
    BY <1>2, <1>5, <1>7, StairPairs
<1>9. s0 + s1 - 1 - 2 * (SinkTokens + WindowTokens)
          = s0 + s1 - (2 * (SinkTokens + WindowTokens) + 1)
  BY <1>2, <1>5
<1>10. 2 * count = twice
  BY <1>8, <1>9
<1> HIDE DEF count, twice, skipped
<1>11. twice \div 2 = count
  <2>1. (2 * count) \div 2 = count
    BY <1>8
  <2> QED
    BY <1>10, <2>1
<1> QED
  BY <1>6, <1>8, <1>11 DEF span, skipped, count

-----------------------------------------------------------------------------
(* The pairs of the prompt.                                                *)

(* The rows launched so far are computed, and saved counts their skips.    *)
SavedInv ==
    /\ launched \subseteq 0 .. computed - 1
    /\ IsFiniteSet(SkippedIn(launched, prompt))
    /\ saved = Cardinality(SkippedIn(launched, prompt))

(* A direct plan covers the chunk of its step, and saves what its rows     *)
(* skip.                                                                   *)
LEMMA DirectChunk ==
    ASSUME prompt \in 1 .. MaxPrompt, computed \in 0 .. prompt,
           config \in TriangleMixConfig,
           NEW n \in 1 .. prompt - computed, NEW state,
           NEW s \in Variants(Alone(n, state)), NEW id,
           NEW p, p = BuildBatchPlan(s, config, id), p.direct
    PROVE  LET band == computed .. computed + n - 1
           IN  /\ PlannedRows(p) = band
               /\ IsFiniteSet(SkippedIn(band, prompt))
               /\ PlanSavedQk(p.requests[1], config)
                     = Cardinality(SkippedIn(band, prompt))
<1> DEFINE r == p.requests[1]
           b == computed + n
<1>1. /\ prompt \in Nat /\ computed \in Nat /\ n \in Nat /\ b \in Nat
      /\ computed < b /\ b <= prompt /\ b - computed = n /\ b - n = computed
  BY PlannerAssumption
<1>2. /\ WellFormed(s)
      /\ s.ends \in {<< n >>, << n, n + 1 >>, << n, 2 * n >>, << >>, << 0 >>}
      /\ s.seqLens \in {<< b >>, << b, prompt >>, << b, b >>, << >>}
      /\ s.prompts \in {<< prompt >>, << prompt, prompt >>, << >>, << b - 1 >>}
  BY StepsWellFormed
<1> HIDE DEF b
<1>3. /\ Len(s.seqLens) = 1 /\ Len(s.ends) = 1 /\ Len(s.prompts) = 1
      /\ r.seqLen = s.seqLens[1] /\ r.queryLen = s.ends[1]
      /\ r.promptLen = s.prompts[1]
      /\ r.seqLen \in Nat /\ r.queryLen \in Int /\ r.promptLen \in Int
      /\ RequestReason(r.queryLen, r.seqLen, r.promptLen, config) = "none"
  BY <1>2, DirectPlan
<1>4. /\ r.seqLen = b /\ r.queryLen \in {n, 0}
      /\ r.promptLen \in {prompt, b - 1}
  <2>1. /\ \A x, y : Len(<< x, y >>) = 2
        /\ \A x : Len(<< x >>) = 1 /\ << x >>[1] = x
        /\ Len(<< >>) = 0
    OBVIOUS
  <2> HIDE DEF r
  <2>2. s.seqLens = << b >> /\ s.ends \in {<< n >>, << 0 >>}
        /\ s.prompts \in {<< prompt >>, << b - 1 >>}
    BY <1>2, <1>3, <2>1
  <2> QED
    BY <1>3, <2>1, <2>2
<1> HIDE DEF r
<1>5. /\ 0 < r.queryLen /\ r.queryLen <= r.seqLen /\ r.seqLen <= r.promptLen
      /\ DirectEligible(r.queryLen, r.seqLen, r.promptLen, config)
  BY <1>3, ReasonNone
<1>6. r.seqLen = b /\ r.queryLen = b - computed /\ r.promptLen = prompt
  BY <1>1, <1>4, <1>5
<1>7. /\ HasSupportedGeometry(config)
      /\ HasSparseMiddle(SparseSpan(b - computed, b, prompt, config))
  BY <1>5, <1>6 DEF DirectEligible
<1>8. /\ IsFiniteSet(SkippedIn(computed .. b - 1, prompt))
      /\ SavedQk(SparseSpan(b - computed, b, prompt, config))
            = Cardinality(SkippedIn(computed .. b - 1, prompt))
  BY <1>1, <1>7, ChunkSaved
<1>9. PlannedRows(p) = computed .. b - 1
  <2>1. PlannedRows(p) = r.seqLen - r.queryLen .. r.seqLen - 1
    BY DEF PlannedRows, r
  <2>2. r.seqLen - r.queryLen = computed
    BY <1>1, <1>6
  <2> QED
    BY <1>6, <2>1, <2>2
<1>10. PlanSavedQk(r, config)
          = SavedQk(SparseSpan(b - computed, b, prompt, config))
  <2>1. ~InvalidLengths(r.queryLen, r.seqLen, r.promptLen)
    BY <1>3, <1>5 DEF InvalidLengths
  <2> QED
    BY <1>6, <2>1 DEF PlanSavedQk
<1> QED
  BY <1>8, <1>9, <1>10 DEF r, b

(* The pairs of disjoint rows are disjoint.                                *)
LEMMA SkippedApart ==
    ASSUME NEW n \in Nat, NEW band \in SUBSET Nat, NEW more \in SUBSET Nat,
           band \cap more = {},
           IsFiniteSet(SkippedIn(band, n)), IsFiniteSet(SkippedIn(more, n))
    PROVE  /\ IsFiniteSet(SkippedIn(band \cup more, n))
           /\ Cardinality(SkippedIn(band \cup more, n))
                 = Cardinality(SkippedIn(band, n))
                       + Cardinality(SkippedIn(more, n))
<1> DEFINE x == SkippedIn(band, n)
           y == SkippedIn(more, n)
<1>1. SkippedIn(band \cup more, n) = x \cup y /\ x \cap y = {}
  BY DEF SkippedIn
<1> HIDE DEF x, y
<1>2. IsFiniteSet(x) /\ IsFiniteSet(y)
  BY DEF x, y
<1>3. /\ Cardinality(x) \in Nat /\ Cardinality(y) \in Nat
      /\ Cardinality(x \cap y) = 0
  BY <1>1, <1>2, FS_CardinalityType, FS_EmptySet
<1>4. /\ IsFiniteSet(x \cup y)
      /\ Cardinality(x \cup y)
            = Cardinality(x) + Cardinality(y) - Cardinality(x \cap y)
  BY <1>2, FS_Union
<1>5. Cardinality(x \cup y) = Cardinality(x) + Cardinality(y)
  BY <1>3, <1>4
<1> QED
  BY <1>1, <1>4, <1>5 DEF x, y

(* Before the first step nothing was launched and nothing saved.           *)
LEMMA InitSaved == Init => SavedInv
<1> SUFFICES ASSUME Init PROVE SavedInv
  OBVIOUS
<1>1. launched = {} /\ saved = 0
  BY DEF Init
<1>2. SkippedIn(launched, prompt) = {}
  BY <1>1 DEF SkippedIn
<1> QED
  BY <1>1, <1>2, FS_EmptySet DEF SavedInv

(* A step adds to the saved pairs what its plan skips, in rows no earlier  *)
(* plan reached.                                                           *)
LEMMA StepSaved == PlannerInv /\ SavedInv /\ [Next]_vars => SavedInv'
<1> SUFFICES ASSUME PlannerInv, SavedInv, [Next]_vars PROVE SavedInv'
  OBVIOUS
<1>1. ASSUME NEW n \in 1 .. prompt - computed, NEW state \in PrefillStates,
             NEW s \in Variants(Alone(n, state)), Schedule(n, s)
      PROVE  SavedInv'
  <2> DEFINE p == BuildBatchPlan(s, config, nextPlan)
             band == computed .. computed + n - 1
  <2>1. /\ config \in TriangleMixConfig /\ prompt \in 1 .. MaxPrompt
        /\ computed \in 0 .. prompt /\ prompt \in Nat /\ computed \in Nat
    BY PlannerAssumption DEF PlannerInv, TypeOK
  <2>2. /\ launched' = launched \cup PlannedRows(p)
        /\ saved' = IF p.direct
                    THEN saved + PlanSavedQk(p.requests[1], config) ELSE saved
        /\ computed' = computed + n /\ prompt' = prompt
    BY <1>1 DEF Schedule
  <2>3. /\ launched \subseteq 0 .. computed - 1
        /\ IsFiniteSet(SkippedIn(launched, prompt))
        /\ saved = Cardinality(SkippedIn(launched, prompt))
    BY DEF SavedInv
  <2>4. p.direct => /\ PlannedRows(p) = band
                    /\ IsFiniteSet(SkippedIn(band, prompt))
                    /\ PlanSavedQk(p.requests[1], config)
                          = Cardinality(SkippedIn(band, prompt))
    BY <2>1, DirectChunk
  <2>5. ~p.direct => PlannedRows(p) = {}
    BY DEF PlannedRows
  <2> HIDE DEF p
  <2>6. CASE p.direct
    <3>1. launched' = launched \cup band
      BY <2>2, <2>4, <2>6
    <3>2. launched' \subseteq 0 .. computed' - 1
      BY <2>1, <2>2, <2>3, <3>1
    <3>3. /\ launched \in SUBSET Nat /\ band \in SUBSET Nat
          /\ launched \cap band = {}
      BY <2>1, <2>3
    <3> HIDE DEF band
    <3>4. /\ IsFiniteSet(SkippedIn(launched \cup band, prompt))
          /\ Cardinality(SkippedIn(launched \cup band, prompt))
                = Cardinality(SkippedIn(launched, prompt))
                      + Cardinality(SkippedIn(band, prompt))
      BY <2>1, <2>3, <2>4, <2>6, <3>3, SkippedApart
    <3>5. saved' = Cardinality(SkippedIn(launched \cup band, prompt))
      BY <2>2, <2>3, <2>4, <2>6, <3>4
    <3>6. SkippedIn(launched, prompt)' = SkippedIn(launched \cup band, prompt)
      BY <2>2, <3>1 DEF SkippedIn, Whole, LaunchOf
    <3> QED
      BY <3>2, <3>4, <3>5, <3>6 DEF SavedInv
  <2>7. CASE ~p.direct
    <3>1. launched' = launched /\ saved' = saved
      BY <2>2, <2>5, <2>7
    <3>2. launched' \subseteq 0 .. computed' - 1
      BY <2>1, <2>2, <2>3, <3>1
    <3>3. SkippedIn(launched, prompt)' = SkippedIn(launched, prompt)
      BY <2>2, <3>1 DEF SkippedIn, Whole, LaunchOf
    <3> QED
      BY <2>3, <3>1, <3>2, <3>3 DEF SavedInv
  <2> QED
    BY <2>6, <2>7
<1>2. CASE Next
  BY <1>1, <1>2 DEF Next
<1>3. CASE UNCHANGED vars
  BY <1>3 DEF vars, SavedInv, SkippedIn, Whole, LaunchOf
<1> QED
  BY <1>2, <1>3

LEMMA SavedInvariant == Spec => []SavedInv
  BY PlannerInvariant, InitSaved, StepSaved, PTL DEF Spec

(* Every pair skipped is counted once, in the row of its query.            *)
LEMMA SavedImplies == SavedInv => SavedIsSkipped
  BY DEF SavedInv, SavedIsSkipped, SkippedIn, Whole


-----------------------------------------------------------------------------
(* Every variable stays in its domain.                                     *)
THEOREM PlannerTypeCorrect == Spec => []TypeOK
  BY PlannerInvariant, PlannerImplies, PTL

(* build_batch_plan makes a plan direct exactly when primary_reason has    *)
(* nothing against it.                                                     *)
THEOREM DirectHasNoReason == Spec => []DirectIffNoReason
  BY PlannerInvariant, PlannerImplies, PTL

(* The planner's gates are those triangle_direct_eligible states again.    *)
THEOREM DirectIsEligible == Spec => []DirectAloneAndEligible
  BY PlannerInvariant, PlannerImplies, PTL

(* TilingFunc accepts the lengths of every direct plan.                    *)
THEOREM DirectIsAccepted == Spec => []DirectAccepted
  BY PlannerInvariant, PlannerImplies, PTL

(* The plans of the planner are what the layers assume of the plans they   *)
(* find: DirectLayerAssumption holds of calls that carry them.             *)
THEOREM PlansFitLayers == Spec => []FitsLayer
  BY PlannerInvariant, PlannerImplies, PTL

(* The saved_qk reported over the chunks of a prompt, whatever the chunks  *)
(* and whichever of them are eligible, is the number of causal pairs the   *)
(* schedule of the operator leaves out in the rows launched.               *)
THEOREM SavedCountsSkips == Spec => []SavedIsSkipped
  BY SavedInvariant, SavedImplies, PTL

-----------------------------------------------------------------------------
(* The layers.                                                             *)

(* The kept signature determines the kept verdict, whatever the tensors    *)
(* are that it was taken of.                                               *)
VerdictOfSignature ==
    capability.signature # NoSignature =>
        \A k, v \in Tensors :
            capability.signature = Signature(k, v) =>
                capability.reason = ValidateStaticKv(k, v)

(* A layer in the middle of a call, and what passed the gates.             *)
InCall == pc # "idle" => call \in Calls

GatesPassed ==
    pc \in {"view", "launch"} =>
        /\ call.direct /\ ~Capturing(call) /\ call.geometry
        /\ ValidateQuery(call) = "none"
        /\ ValidateStaticKv(key, value) = "none"
        /\ key.device = call.query.device
        /\ ValidateBlockTable(call) = "none"

(* What is recorded, and by whom the rows are written, at each place.      *)
FallbackLogs ==
    {<< "fallback" >>, << "planner", "fallback" >>,
     << "error", "planner", "fallback" >>}

WrittenBy(route) == \A r \in Rows : rows[r] = route

Recorded ==
    /\ pc \in {"gates", "view", "launch", "fallback"} => log = << >>
    /\ pc = "official" /\ call.selected => log \in FallbackLogs
    /\ pc = "returned" =>
          \/ WrittenBy("official") /\ (call.selected => log \in FallbackLogs)
          \/ WrittenBy("direct") /\ log = << "planner", "dispatch" >>

(* A capture on its way to the official attention.                         *)
CaptureOfficial ==
    call \in Calls /\ Capturing(call) =>
        /\ pc = "fallback" => reason = "graph_capture"
        /\ pc \in {"official", "returned"} /\ call.selected =>
               log = << "fallback" >>
        /\ pc = "returned" => WrittenBy("official")

LayerInv ==
    /\ LayerTypeOK /\ VerdictOfSignature /\ InCall /\ GatesPassed
    /\ Recorded /\ CaptureOfficial

-----------------------------------------------------------------------------
(* The first reason that is not none.                                      *)

(* No reason means that no gate has one.                                   *)
LEMMA FirstOfNone ==
    ASSUME NEW reasons, DOMAIN reasons \subseteq 1 .. 5,
           FirstOf(reasons) = "none", NEW i \in DOMAIN reasons
    PROVE  reasons[i] = "none"
<1> DEFINE failing == {j \in DOMAIN reasons : reasons[j] # "none"}
<1> SUFFICES ASSUME failing # {} PROVE FALSE
  OBVIOUS
<1>1. \E j \in failing : \A k \in failing : j <= k
  <2>1. failing \subseteq 1 .. 5 /\ failing # {}
    OBVIOUS
  <2> HIDE DEF failing
  <2>2. CASE 1 \in failing
    BY <2>1, <2>2
  <2>3. CASE 1 \notin failing /\ 2 \in failing
    BY <2>1, <2>3
  <2>4. CASE 1 \notin failing /\ 2 \notin failing /\ 3 \in failing
    BY <2>1, <2>4
  <2>5. CASE /\ 1 \notin failing /\ 2 \notin failing /\ 3 \notin failing
             /\ 4 \in failing
    BY <2>1, <2>5
  <2>6. CASE /\ 1 \notin failing /\ 2 \notin failing /\ 3 \notin failing
             /\ 4 \notin failing
    <3>1. PICK j \in failing : TRUE
      BY <2>1
    <3>2. \A k \in failing : j <= k
      BY <2>1, <2>6
    <3> QED
      BY <3>1, <3>2
  <2> QED
    BY <2>2, <2>3, <2>4, <2>5, <2>6, Zenon
<1> DEFINE first == CHOOSE j \in failing : \A k \in failing : j <= k
<1>2. first \in failing
  BY <1>1
<1>3. FirstOf(reasons) = reasons[first]
  BY DEF FirstOf
<1> QED
  BY <1>2, <1>3

(* A first gate with a reason has the last word.                           *)
LEMMA FirstOfHead ==
    ASSUME NEW reasons, DOMAIN reasons \subseteq 1 .. 5,
           1 \in DOMAIN reasons, reasons[1] # "none"
    PROVE  FirstOf(reasons) = reasons[1]
<1> DEFINE failing == {j \in DOMAIN reasons : reasons[j] # "none"}
<1>1. 1 \in failing /\ failing \subseteq 1 .. 5
  OBVIOUS
<1>2. (CHOOSE j \in failing : \A k \in failing : j <= k) = 1
  <2> HIDE DEF failing
  <2>1. 1 \in failing /\ \A k \in failing : 1 <= k
    BY <1>1
  <2>2. \A j \in failing : (\A k \in failing : j <= k) => j = 1
    BY <1>1
  <2> QED
    BY <2>1, <2>2
<1> QED
  BY <1>1, <1>2 DEF FirstOf

-----------------------------------------------------------------------------
(* The signature carries all that the verdict reads.                       *)

(* Two tensors' fields one after the other.                                *)
LEMMA SixAndSix ==
    ASSUME NEW S, NEW s \in Seq(S), NEW t \in Seq(S), Len(s) = 6, Len(t) = 6
    PROVE  /\ Len(s \o t) = 12
           /\ \A i \in 1 .. 6 : (s \o t)[i] = s[i] /\ (s \o t)[i + 6] = t[i]
<1>1. /\ Len(s \o t) = Len(s) + Len(t)
      /\ \A i \in 1 .. Len(s) + Len(t) :
             (s \o t)[i] = IF i <= Len(s) THEN s[i] ELSE t[i - Len(s)]
  BY ConcatProperties
<1>2. Len(s) + Len(t) = 12
  OBVIOUS
<1>3. ASSUME NEW i \in 1 .. 6
      PROVE  (s \o t)[i] = s[i]
  <2>1. i \in 1 .. Len(s) + Len(t) /\ i <= Len(s)
    OBVIOUS
  <2> QED
    BY <1>1, <2>1
<1>4. ASSUME NEW i \in 1 .. 6
      PROVE  (s \o t)[i + 6] = t[i]
  <2>1. /\ i + 6 \in 1 .. Len(s) + Len(t) /\ ~(i + 6 <= Len(s))
        /\ (i + 6) - Len(s) = i
    OBVIOUS
  <2>2. (s \o t)[i + 6] = t[(i + 6) - Len(s)]
    BY <1>1, <2>1
  <2> QED
    BY <2>1, <2>2
<1> QED
  BY <1>1, <1>2, <1>3, <1>4

LEMMA SignatureDetermines ==
    ASSUME NEW k, NEW v, NEW k2, NEW v2, Signature(k, v) = Signature(k2, v2)
    PROVE  ValidateStaticKv(k, v) = ValidateStaticKv(k2, v2)
<1> DEFINE Fields(t) == {t.id, t.shape, t.size, t.dtype, t.device, t.stride}
           S == UNION {Fields(k), Fields(v), Fields(k2), Fields(v2)}
<1>1. \A t \in {k, v, k2, v2} :
          /\ TensorSignature(t) \in Seq(S)
          /\ Len(TensorSignature(t)) = 6
  <2> SUFFICES ASSUME NEW t \in {k, v, k2, v2}
               PROVE  /\ TensorSignature(t) \in Seq(S)
                      /\ Len(TensorSignature(t)) = 6
    OBVIOUS
  <2>1. Fields(t) \subseteq S
    OBVIOUS
  <2> HIDE DEF S
  <2> QED
    BY <2>1 DEF TensorSignature
<1> HIDE DEF S
<1>2. \A i \in 1 .. 6 : /\ Signature(k, v)[i] = TensorSignature(k)[i]
                         /\ Signature(k, v)[i + 6] = TensorSignature(v)[i]
  <2>1. /\ TensorSignature(k) \in Seq(S) /\ Len(TensorSignature(k)) = 6
        /\ TensorSignature(v) \in Seq(S) /\ Len(TensorSignature(v)) = 6
    BY <1>1
  <2>2. Signature(k, v) = TensorSignature(k) \o TensorSignature(v)
    BY DEF Signature
  <2> QED
    BY <2>1, <2>2, SixAndSix
<1>3. \A i \in 1 .. 6 : /\ Signature(k2, v2)[i] = TensorSignature(k2)[i]
                         /\ Signature(k2, v2)[i + 6] = TensorSignature(v2)[i]
  <2>1. /\ TensorSignature(k2) \in Seq(S) /\ Len(TensorSignature(k2)) = 6
        /\ TensorSignature(v2) \in Seq(S) /\ Len(TensorSignature(v2)) = 6
    BY <1>1
  <2>2. Signature(k2, v2) = TensorSignature(k2) \o TensorSignature(v2)
    BY DEF Signature
  <2> QED
    BY <2>1, <2>2, SixAndSix
<1>4. \A i \in 1 .. 6 : TensorSignature(k)[i] = TensorSignature(k2)[i]
  BY <1>2, <1>3
<1>5. \A i \in 1 .. 6 : TensorSignature(v)[i] = TensorSignature(v2)[i]
  BY <1>2, <1>3
<1>6. /\ k.shape = k2.shape /\ k.size = k2.size /\ k.dtype = k2.dtype
      /\ k.device = k2.device /\ k.stride = k2.stride
  BY <1>4 DEF TensorSignature
<1>7. /\ v.shape = v2.shape /\ v.size = v2.size /\ v.dtype = v2.dtype
      /\ v.device = v2.device /\ v.stride = v2.stride
  BY <1>5 DEF TensorSignature
<1> QED
  BY <1>6, <1>7 DEF ValidateStaticKv, Contiguous

LEMMA SignatureNotEmpty ==
    ASSUME NEW k, NEW v
    PROVE  Signature(k, v) # NoSignature
<1> DEFINE S == {k.id, k.shape, k.size, k.dtype, k.device, k.stride,
                 v.id, v.shape, v.size, v.dtype, v.device, v.stride}
<1>1. /\ TensorSignature(k) \in Seq(S) /\ Len(TensorSignature(k)) = 6
      /\ TensorSignature(v) \in Seq(S) /\ Len(TensorSignature(v)) = 6
  <2>1. {k.id, k.shape, k.size, k.dtype, k.device, k.stride,
         v.id, v.shape, v.size, v.dtype, v.device, v.stride} \subseteq S
    OBVIOUS
  <2> HIDE DEF S
  <2> QED
    BY <2>1 DEF TensorSignature
<1> HIDE DEF S
<1>2. Len(Signature(k, v)) = 12
  BY <1>1, SixAndSix DEF Signature
<1> QED
  BY <1>2 DEF NoSignature

-----------------------------------------------------------------------------
(* The gates.                                                              *)

(* A call with none of the reasons looked at before the caches is a call   *)
(* of a direct plan outside a capture, with a query the kernel takes.      *)
LEMMA BeforeKvPassed ==
    ASSUME NEW c \in Calls, ReasonBeforeKv(c) = "none"
    PROVE  /\ c.direct /\ ~Capturing(c) /\ c.geometry
           /\ ValidateQuery(c) = "none"
<1> DEFINE reasons == << If(Capturing(c), "graph_capture"),
                         If(~c.direct, c.planReason),
                         If(~ready, "adapter_unavailable"),
                         ModelReason(c), ValidateQuery(c) >>
<1>1. DOMAIN reasons = 1 .. 5
  OBVIOUS
<1>2. FirstOf(reasons) = "none"
  BY DEF ReasonBeforeKv
<1>3. \A i \in 1 .. 5 : reasons[i] = "none"
  <2> HIDE DEF reasons
  <2> QED
    BY <1>1, <1>2, FirstOfNone
<1>4. /\ If(Capturing(c), "graph_capture") = "none"
      /\ If(~c.direct, c.planReason) = "none"
      /\ ModelReason(c) = "none" /\ ValidateQuery(c) = "none"
  BY <1>3
<1>5. ~Capturing(c)
  BY <1>4 DEF If
<1>6. c.direct
  BY <1>4, DirectLayerAssumption DEF If
<1>7. c.geometry
  BY <1>4 DEF ModelReason
<1> QED
  BY <1>4, <1>5, <1>6, <1>7

(* A capture is the first thing looked for.                                *)
LEMMA CaptureFirst ==
    ASSUME NEW c, Capturing(c)
    PROVE  ReasonBeforeKv(c) = "graph_capture"
<1> DEFINE reasons == << If(Capturing(c), "graph_capture"),
                         If(~c.direct, c.planReason),
                         If(~ready, "adapter_unavailable"),
                         ModelReason(c), ValidateQuery(c) >>
<1>1. DOMAIN reasons = 1 .. 5 /\ reasons[1] = "graph_capture"
  BY DEF If
<1>2. FirstOf(reasons) = reasons[1]
  <2> HIDE DEF reasons
  <2> QED
    BY <1>1, FirstOfHead
<1> QED
  BY <1>1, <1>2 DEF ReasonBeforeKv

LEMMA AfterKvPassed ==
    ASSUME NEW c, NEW kv, FirstOf(<< kv, ReasonAfterKv(c) >>) = "none"
    PROVE  /\ kv = "none"
           /\ key.device = c.query.device
           /\ ValidateBlockTable(c) = "none"
<1> DEFINE outer == << kv, ReasonAfterKv(c) >>
           inner == << If(key.device # c.query.device, "kv_cache_unsupported"),
                       ValidateBlockTable(c) >>
<1>1. DOMAIN outer = 1 .. 2 /\ DOMAIN inner = 1 .. 2
  OBVIOUS
<1>2. outer[1] = "none" /\ outer[2] = "none"
  <2>1. FirstOf(outer) = "none" /\ 1 \in 1 .. 2 /\ 2 \in 1 .. 2
        /\ 1 .. 2 \subseteq 1 .. 5
    OBVIOUS
  <2> HIDE DEF outer
  <2> QED
    BY <1>1, <2>1, FirstOfNone
<1>3. inner[1] = "none" /\ inner[2] = "none"
  <2>1. FirstOf(inner) = "none" /\ 1 \in 1 .. 2 /\ 2 \in 1 .. 2
        /\ 1 .. 2 \subseteq 1 .. 5
    BY <1>2 DEF ReasonAfterKv
  <2> HIDE DEF inner
  <2> QED
    BY <1>1, <2>1, FirstOfNone
<1> QED
  BY <1>2, <1>3 DEF If

(* What the gates passed, the checks behind them accept.                   *)
LEMMA PassedAccepted ==
    ASSUME call \in Calls, key \in Tensors, value \in Tensors,
           call.direct, call.geometry, ValidateQuery(call) = "none",
           ValidateStaticKv(key, value) = "none",
           key.device = call.query.device, ValidateBlockTable(call) = "none",
           call.output.shape \in {"heads", "flat"}, call.query.device # "cpu",
           call.scale, key.size # 0, ~call.overlap
    PROVE  Viewable(call) /\ LaunchAccepted(call)
<1>1. /\ call.query.shape = "heads" /\ call.query.size = call.queryLen
      /\ call.query.dtype = "bf16" /\ Contiguous(call.query)
      /\ call.output.dtype = "bf16" /\ call.output.device = call.query.device
      /\ call.output.size >= call.query.size /\ Contiguous(call.output)
  BY DEF ValidateQuery
<1>2. /\ key.shape = "cache" /\ value.shape = "cache" /\ value.size = key.size
      /\ key.dtype = "bf16" /\ value.dtype = "bf16"
      /\ value.device = key.device
      /\ Contiguous(key) /\ Contiguous(value)
  BY DEF ValidateStaticKv
<1>3. /\ call.table.shape = "batch-one"
      /\ call.table.size >= (call.seqLen + PageSize - 1) \div PageSize
      /\ call.table.dtype = "int32" /\ call.table.device = call.query.device
      /\ Contiguous(call.table)
  BY DEF ValidateBlockTable
<1>4. /\ call.queryLen \in Nat /\ call.seqLen \in Nat /\ call.promptLen \in Nat
      /\ MaxU32(call.seqLen - call.queryLen, SparseBegin)
             < MinU32(call.seqLen, MaxU32(0, call.promptLen - DenseTailTokens))
  BY DirectLayerAssumption
<1>5. QueryView(call).size = call.queryLen
  BY <1>1 DEF MinU32, QueryView
<1>6. OutputView(call) = QueryView(call)
  BY <1>1 DEF MinU32, OutputView, QueryView
<1>7. Viewable(call)
  BY <1>1 DEF Viewable
<1>8. SparseMiddle(call)
  BY <1>4, <1>5 DEF SparseMiddle, HostRequest, SparseEnd
<1>9. ValidateDirectTensors(call)
  BY <1>1, <1>2, <1>3, <1>6 DEF ValidateDirectTensors
<1>10. AdapterAccepts(call)
  BY <1>1, <1>2, <1>3, <1>6 DEF AdapterAccepts
<1>11. TilingAccepts(HostRequest(call))
  <2>1. /\ call.queryLen \in Nat /\ call.seqLen \in Nat /\ call.promptLen \in Nat
        /\ 0 < call.queryLen /\ call.queryLen <= call.seqLen
        /\ call.seqLen <= call.promptLen /\ call.promptLen < U32Mod
        /\ U32Mod \in Nat /\ key.size \in Nat
    BY DirectLayerAssumption, ScheduleAssumption
  <2>2. HostRequest(call).wellFormed <=> call.scale /\ key.size > 0
    BY Zenon DEF HostRequest
  <2>3. key.size > 0
    BY <2>1
  <2>4. HostRequest(call).wellFormed
    BY <2>2, <2>3
  <2>5. /\ HostRequest(call).queryStart = call.seqLen - call.queryLen
        /\ HostRequest(call).queryTokens = call.queryLen
        /\ HostRequest(call).seqLen = call.seqLen
        /\ HostRequest(call).promptLen = call.promptLen
        /\ HostRequest(call).tablePages = call.table.size
        /\ HostRequest(call).aicCores = 1
    BY <1>5 DEF HostRequest
  <2>6. HostRequest(call).tablePages >= RequiredPages(HostRequest(call))
    BY <2>5, <1>3 DEF RequiredPages
  <2> QED
    BY <2>1, <2>4, <2>5, <2>6 DEF TilingAccepts
<1> QED
  BY <1>7, <1>8, <1>9, <1>10, <1>11 DEF LaunchAccepted

-----------------------------------------------------------------------------
(* The invariant.                                                          *)
LEMMA InitLayer == LayerInit => LayerInv
<1> SUFFICES ASSUME LayerInit PROVE LayerInv
  OBVIOUS
<1>1. LayerTypeOK
  BY DirectLayerAssumption DEF LayerInit, LayerTypeOK, Untouched
<1>2. VerdictOfSignature
  BY DEF LayerInit, VerdictOfSignature
<1> QED
  BY <1>1, <1>2
     DEF LayerInit, LayerInv, InCall, GatesPassed, Recorded, CaptureOfficial

(* The caches and the verdict on them change in two actions only.          *)
LEMMA VerdictKept ==
    LayerInv /\ [LayerNext]_layerVars => VerdictOfSignature'
<1> SUFFICES ASSUME LayerInv, [LayerNext]_layerVars PROVE VerdictOfSignature'
  OBVIOUS
<1>1. CASE UNCHANGED capability
  BY <1>1 DEF LayerInv, VerdictOfSignature, Signature, TensorSignature,
              ValidateStaticKv, Contiguous
<1>2. CASE Dispatch /\ ~UNCHANGED capability
  <2>1. capability' = CheckKv(key, value)
    BY <1>2 DEF Dispatch
  <2>2. capability' = [signature |-> Signature(key, value),
                       reason |-> ValidateStaticKv(key, value)]
    BY <1>2, <2>1 DEF CheckKv
  <2>3. /\ capability'.signature = Signature(key, value)
        /\ capability'.reason = ValidateStaticKv(key, value)
    BY <2>2
  <2>4. ASSUME NEW k \in Tensors, NEW v \in Tensors,
               capability'.signature = Signature(k, v)
        PROVE  capability'.reason = ValidateStaticKv(k, v)
    <3>1. Signature(key, value) = Signature(k, v)
      BY <2>3, <2>4
    <3>2. ValidateStaticKv(key, value) = ValidateStaticKv(k, v)
      BY <3>1, SignatureDetermines
    <3> QED
      BY <2>3, <3>2
  <2> QED
    BY <2>4 DEF VerdictOfSignature
<1> QED
  BY <1>1, <1>2 DEF LayerNext, layerVars, Rebind, Enter, RecordFallback, Official,
                    ViewOutput, Launch, LaunchRaises, Return

(* The verdict that CheckKv hands out is the verdict on the caches there.  *)
LEMMA CheckedNow ==
    ASSUME LayerInv
    PROVE  /\ CheckKv(key, value).reason = ValidateStaticKv(key, value)
           /\ CheckKv(key, value).reason \in {"none", "kv_cache_unsupported"}
<1>1. key \in Tensors /\ value \in Tensors
  BY DEF LayerInv, LayerTypeOK
<1>2. CASE Signature(key, value) = capability.signature
  <2>1. capability.signature # NoSignature
    BY <1>2, SignatureNotEmpty
  <2>2. capability.reason = ValidateStaticKv(key, value)
    BY <1>1, <1>2, <2>1 DEF LayerInv, VerdictOfSignature
  <2> QED
    BY <1>2, <2>2 DEF CheckKv, ValidateStaticKv
<1>3. CASE Signature(key, value) # capability.signature
  BY <1>3 DEF CheckKv, ValidateStaticKv
<1> QED
  BY <1>2, <1>3

(* What the gates leave behind them.                                       *)
LEMMA DispatchKeeps ==
    ASSUME LayerInv, Dispatch
    PROVE  (LayerTypeOK /\ InCall /\ GatesPassed /\ Recorded /\ CaptureOfficial)'
<1>1. call \in Calls /\ log = << >>
  BY DEF LayerInv, Dispatch, InCall, Recorded
<1>2. /\ pc' \in {"view", "fallback"}
      /\ pc' = "view" <=> reason' = "none"
      /\ UNCHANGED << key, value, ready, strict, call, rows, log, calls >>
  BY DEF Dispatch
<1>3. Capturing(call) => reason' = "graph_capture"
  BY CaptureFirst DEF Dispatch
<1>4. capability'.reason \in {"none", "kv_cache_unsupported"}
  BY CheckedNow DEF Dispatch, LayerInv, LayerTypeOK
<1>5. ASSUME reason' = "none"
      PROVE  /\ ReasonBeforeKv(call) = "none"
             /\ FirstOf(<< CheckKv(key, value).reason, ReasonAfterKv(call) >>)
                    = "none"
  BY <1>5 DEF Dispatch
<1>6. ASSUME pc' = "view"
      PROVE  /\ call.direct /\ ~Capturing(call) /\ call.geometry
             /\ ValidateQuery(call) = "none"
             /\ ValidateStaticKv(key, value) = "none"
             /\ key.device = call.query.device
             /\ ValidateBlockTable(call) = "none"
  <2>1. /\ call.direct /\ ~Capturing(call) /\ call.geometry
        /\ ValidateQuery(call) = "none"
    BY <1>1, <1>2, <1>5, <1>6, BeforeKvPassed
  <2>2. /\ CheckKv(key, value).reason = "none"
        /\ key.device = call.query.device
        /\ ValidateBlockTable(call) = "none"
    BY <1>2, <1>5, <1>6, AfterKvPassed
  <2> QED
    BY <2>1, <2>2, CheckedNow
<1>7. LayerTypeOK'
  BY <1>2, <1>4 DEF LayerInv, LayerTypeOK
<1>8. InCall'
  BY <1>1, <1>2 DEF InCall
<1>9. GatesPassed'
  BY <1>2, <1>6 DEF GatesPassed, Capturing, ValidateQuery, ValidateStaticKv,
                    ValidateBlockTable, Contiguous
<1>10. Recorded'
  BY <1>1, <1>2 DEF Recorded
<1>11. CaptureOfficial'
  BY <1>2, <1>3 DEF CaptureOfficial, Capturing
<1> QED
  BY <1>7, <1>8, <1>9, <1>10, <1>11

(* What a launch that returns or raises leaves behind it.                  *)
LEMMA LaunchKeeps ==
    ASSUME LayerInv, Launch
    PROVE  (LayerTypeOK /\ InCall /\ GatesPassed /\ Recorded /\ CaptureOfficial)'
<1>1. call \in Calls /\ log = << >> /\ ~Capturing(call)
  BY DEF LayerInv, Launch, InCall, Recorded, GatesPassed
<1>2. log' = << "planner", "dispatch" >>
  BY <1>1, ConcatEmptySeq DEF Launch
<1>3. rows' = [r \in Rows |-> "direct"] /\ pc' = "returned"
  BY DEF Launch
<1>4. LayerTypeOK'
  BY <1>3 DEF LayerInv, LayerTypeOK, Launch
<1>5. InCall'
  BY <1>1 DEF InCall, Launch
<1>6. GatesPassed'
  BY <1>3 DEF GatesPassed
<1>7. Recorded'
  BY <1>2, <1>3 DEF Recorded, WrittenBy
<1>8. CaptureOfficial'
  BY <1>1 DEF CaptureOfficial, Capturing, Launch
<1> QED
  BY <1>4, <1>5, <1>6, <1>7, <1>8

LEMMA LaunchRaisesKeeps ==
    ASSUME LayerInv, NEW written \in SUBSET Rows, LaunchRaises(written)
    PROVE  (LayerTypeOK /\ InCall /\ GatesPassed /\ Recorded /\ CaptureOfficial)'
<1>1. call \in Calls /\ log = << >> /\ ~Capturing(call)
  BY DEF LayerInv, LaunchRaises, InCall, Recorded, GatesPassed
<1>2. /\ pc' \in {"raised", "official"}
      /\ UNCHANGED << key, value, capability, ready, strict, call, calls >>
  BY DEF LaunchRaises
<1>3. pc' = "official" => log' = << "error", "planner", "fallback" >>
  BY <1>1, ConcatEmptySeq DEF LaunchRaises
<1>4. LayerTypeOK'
  BY <1>2 DEF LayerInv, LayerTypeOK, LaunchRaises
<1>5. InCall'
  BY <1>1, <1>2 DEF InCall
<1>6. GatesPassed'
  BY <1>2 DEF GatesPassed
<1>7. Recorded'
  BY <1>2, <1>3 DEF Recorded, FallbackLogs
<1>8. CaptureOfficial'
  BY <1>1, <1>2 DEF CaptureOfficial, Capturing
<1> QED
  BY <1>4, <1>5, <1>6, <1>7, <1>8

(* Every step keeps the invariant.                                         *)
LEMMA StepLayer == LayerInv /\ [LayerNext]_layerVars => LayerInv'
<1> SUFFICES ASSUME LayerInv, [LayerNext]_layerVars PROVE LayerInv'
  OBVIOUS
<1> USE DEF LayerInv
<1>0. VerdictOfSignature'
  BY VerdictKept
<1>1. ASSUME NEW k \in Tensors, NEW v \in Tensors, Rebind(k, v)
      PROVE  (LayerTypeOK /\ InCall /\ GatesPassed /\ Recorded /\ CaptureOfficial)'
  BY <1>1 DEF Rebind, LayerTypeOK, InCall, GatesPassed, Recorded, CaptureOfficial
<1>2. ASSUME NEW c \in Calls, Enter(c)
      PROVE  (LayerTypeOK /\ InCall /\ GatesPassed /\ Recorded /\ CaptureOfficial)'
  <2>1. /\ pc' = IF c.selected THEN "gates" ELSE "official"
        /\ call' = c /\ log' = << >> /\ rows' = Untouched
        /\ calls' \in 0 .. MaxCalls
    BY <1>2, DirectLayerAssumption DEF Enter, LayerTypeOK
  <2>2. LayerTypeOK'
    BY <1>2, <2>1 DEF Enter, LayerTypeOK, Untouched
  <2>3. InCall' /\ GatesPassed'
    BY <2>1 DEF InCall, GatesPassed
  <2>4. Recorded' /\ CaptureOfficial'
    BY <2>1 DEF Recorded, CaptureOfficial, Capturing
  <2> QED
    BY <2>2, <2>3, <2>4
<1>3. CASE Dispatch
  BY <1>0, <1>3, DispatchKeeps
<1>4. CASE RecordFallback
  <2>1. log = << >> /\ call \in Calls
    BY <1>4 DEF RecordFallback, Recorded, InCall
  <2>2. /\ log' = IF reason = "graph_capture" THEN << "fallback" >>
                  ELSE << "planner", "fallback" >>
        /\ pc' = "official"
        /\ UNCHANGED << key, value, capability, ready, strict, call, reason,
                        rows, calls >>
    BY <1>4, <2>1, ConcatEmptySeq DEF RecordFallback
  <2>3. LayerTypeOK' /\ InCall' /\ GatesPassed'
    BY <2>1, <2>2 DEF LayerTypeOK, InCall, GatesPassed
  <2>4. Recorded'
    BY <2>2 DEF Recorded, FallbackLogs
  <2>5. CaptureOfficial'
    BY <1>4, <2>2 DEF CaptureOfficial, Capturing, RecordFallback
  <2> QED
    BY <1>0, <2>3, <2>4, <2>5
<1>5. CASE Official
  <2>1. /\ pc = "official" /\ pc' = "returned"
        /\ rows' = [r \in Rows |-> "official"]
        /\ UNCHANGED << key, value, capability, ready, strict, call, reason,
                        log, calls >>
    BY <1>5 DEF Official
  <2>2. WrittenBy("official")'
    BY <2>1 DEF WrittenBy
  <2>3. LayerTypeOK' /\ InCall' /\ GatesPassed'
    BY <2>1 DEF LayerTypeOK, InCall, GatesPassed
  <2>4. Recorded' /\ CaptureOfficial'
    BY <2>1, <2>2 DEF Recorded, CaptureOfficial, Capturing
  <2> QED
    BY <1>0, <2>3, <2>4
<1>6. CASE Launch
  BY <1>0, <1>6, LaunchKeeps
<1>7. CASE Return
  BY <1>0, <1>7
     DEF Return, LayerTypeOK, InCall, GatesPassed, Recorded, CaptureOfficial
<1>8. ASSUME NEW written \in SUBSET Rows, LaunchRaises(written)
      PROVE  (LayerTypeOK /\ InCall /\ GatesPassed /\ Recorded /\ CaptureOfficial)'
  BY <1>8, LaunchRaisesKeeps
<1>9. CASE ViewOutput
  <2>1. /\ pc = "view" /\ pc' \in {"launch", "raised"}
        /\ UNCHANGED << key, value, capability, ready, strict, call, reason,
                        rows, log, calls >>
    BY <1>9 DEF ViewOutput
  <2>2. LayerTypeOK' /\ InCall' /\ GatesPassed'
    BY <2>1 DEF LayerTypeOK, InCall, GatesPassed, Capturing, ValidateQuery,
                ValidateStaticKv, ValidateBlockTable, Contiguous
  <2>3. Recorded' /\ CaptureOfficial'
    BY <2>1 DEF Recorded, CaptureOfficial, Capturing
  <2> QED
    BY <1>0, <2>2, <2>3
<1>10. CASE UNCHANGED layerVars
  BY <1>0, <1>10 DEF layerVars, LayerTypeOK, InCall, GatesPassed, Recorded, WrittenBy,
                    CaptureOfficial, Capturing, ValidateQuery,
                    ValidateStaticKv, ValidateBlockTable, Contiguous
<1> QED
  BY <1>0, <1>1, <1>2, <1>3, <1>4, <1>5, <1>6, <1>7, <1>8, <1>9, <1>10
  DEF LayerNext

-----------------------------------------------------------------------------
(* What the invariant says of the properties.                              *)
LEMMA LayerImplies ==
    LayerInv => /\ LayerTypeOK /\ VerdictCurrent /\ GatesCoverRejections
                /\ OneRouteOutput /\ CaptureUncounted
<1> SUFFICES ASSUME LayerInv
             PROVE  /\ LayerTypeOK /\ VerdictCurrent /\ GatesCoverRejections
                    /\ OneRouteOutput /\ CaptureUncounted
  OBVIOUS
<1> USE DEF LayerInv
<1>1. VerdictCurrent
  <2>1. key \in Tensors /\ value \in Tensors
    BY DEF LayerTypeOK
  <2> QED
    BY <2>1, SignatureNotEmpty DEF VerdictCurrent, VerdictOfSignature
<1>2. GatesCoverRejections
  BY PassedAccepted DEF GatesCoverRejections, InCall, GatesPassed, LayerTypeOK
<1>3. OneRouteOutput
  <2> SUFFICES ASSUME pc = "returned"
               PROVE  \E route \in {"official", "direct"} :
                        /\ \A r \in Rows : rows[r] = route
                        /\ call.selected =>
                             \A i \in DOMAIN log :
                               log[i] \in {"dispatch", "fallback"} =>
                                 /\ log[i] = IF route = "direct" THEN "dispatch"
                                             ELSE "fallback"
                                 /\ i = Len(log)
    BY DEF OneRouteOutput
  <2>1. CASE WrittenBy("official") /\ (call.selected => log \in FallbackLogs)
    <3>1. ASSUME log \in FallbackLogs, NEW i \in DOMAIN log,
                 log[i] \in {"dispatch", "fallback"}
          PROVE  log[i] = "fallback" /\ i = Len(log)
      <4>1. CASE log = << "fallback" >>
        BY <3>1, <4>1
      <4>2. CASE log = << "planner", "fallback" >>
        BY <3>1, <4>2
      <4>3. CASE log = << "error", "planner", "fallback" >>
        BY <3>1, <4>3
      <4> QED
        BY <3>1, <4>1, <4>2, <4>3 DEF FallbackLogs
    <3> QED
      BY <2>1, <3>1 DEF WrittenBy
  <2>2. CASE WrittenBy("direct") /\ log = << "planner", "dispatch" >>
    <3>1. ASSUME NEW i \in DOMAIN log, log[i] \in {"dispatch", "fallback"}
          PROVE  log[i] = "dispatch" /\ i = Len(log)
      BY <2>2, <3>1
    <3> QED
      BY <2>2, <3>1 DEF WrittenBy
  <2> QED
    BY <2>1, <2>2 DEF Recorded
<1>4. CaptureUncounted
  <2> SUFFICES ASSUME pc = "returned", call.selected, Capturing(call)
               PROVE  /\ \A r \in Rows : rows[r] = "official"
                      /\ \A i \in DOMAIN log : log[i] # "planner"
    BY DEF CaptureUncounted
  <2>1. WrittenBy("official") /\ log = << "fallback" >>
    BY DEF InCall, CaptureOfficial
  <2> QED
    BY <2>1 DEF WrittenBy
<1> QED
  BY <1>1, <1>2, <1>3, <1>4

LEMMA LayerInvariant == LayerSpec => []LayerInv
  BY InitLayer, StepLayer, PTL DEF LayerSpec

(* Every variable stays in its domain.                                     *)
THEOREM LayerTypeCorrect == LayerSpec => []LayerTypeOK
  BY LayerInvariant, LayerImplies, PTL

(* _KvCapabilityCache never hands out the verdict of tensors that are      *)
(* gone, however the allocator reuses their addresses.                     *)
THEOREM VerdictNeverStale == LayerSpec => []VerdictCurrent
  BY LayerInvariant, LayerImplies, PTL

(* A launch that passed _dispatch_reason can be made, on the view of its   *)
(* output, and is rejected by none of the three checkers behind it, but    *)
(* for the shape of the output, the CPU, the scale, an empty cache and an  *)
(* overlap.                                                                *)
THEOREM GatesSuffice == LayerSpec => []GatesCoverRejections
  BY LayerInvariant, LayerImplies, PTL

(* The rows forward_fused_infer_attention returns are all of one route,    *)
(* the one the statistics were told of.                                    *)
THEOREM RowsOfOneRoute == LayerSpec => []OneRouteOutput
  BY LayerInvariant, LayerImplies, PTL

(* A captured forward launches nothing and is no request.                  *)
THEOREM CapturesUncounted == LayerSpec => []CaptureUncounted
  BY LayerInvariant, LayerImplies, PTL
=============================================================================
