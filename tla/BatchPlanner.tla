----------------------------- MODULE BatchPlanner ------------------------------
(***************************************************************************)
(* How the plugin decides whether one scheduler step is a launch: the      *)
(* sparse span of a request, the query-key pairs it saves, the gates on    *)
(* both, and the plan of the batch.  The scheduler cuts a prompt into      *)
(* chunks, computes them alone or beside other requests, and the metadata  *)
(* of a step may lack some of the lists the planner reads.                 *)
(***************************************************************************)
EXTENDS TriangleSchedule, FiniteSets

CONSTANTS
    Configs,       \* the kernel configurations considered
    MaxPrompt,     \* bound on the prompt length
    MaxPlans       \* bound on the scheduler steps

(* TriangleMixConfig, as __post_init__ accepts it.                         *)
TriangleMixConfig ==
    [sink : Nat \ {0}, window : Nat, last : Nat \ {0}, minSeqLen : Nat,
     minSparseRows : Nat, minSavedQk : Nat, splitMinSparseRows : Nat,
     splitMinSavedQk : Nat]

ASSUME PlannerAssumption ==
    /\ Configs \subseteq TriangleMixConfig
    /\ MaxPrompt \in Nat /\ MaxPrompt < U32Mod
    /\ MaxPlans \in Nat

VARIABLES
    config,        \* PluginConfig.kernel
    prompt,        \* final prompt length of the request followed
    computed,      \* its tokens in the KV cache
    step,          \* the metadata of the last scheduler step
    plan,          \* the plan built for it
    nextPlan,      \* _PLAN_IDS
    launched,      \* query rows the direct plans cover
    saved          \* the saved_qk the direct plans report

vars == << config, prompt, computed, step, plan, nextPlan, launched, saved >>

-----------------------------------------------------------------------------
(* One request.                                                            *)

HasSupportedGeometry(c) ==
    c.sink = SinkTokens /\ c.window = WindowTokens /\ c.last = DenseTailTokens

StreamingStart(c) == c.sink + c.window + 1

SparseSpan(queryLen, seqLen, promptLen, c) ==
    [q0 |-> seqLen - queryLen,
     q1 |-> seqLen,
     s0 |-> MaxU32(seqLen - queryLen, StreamingStart(c)),
     s1 |-> MinU32(seqLen, MaxU32(0, promptLen - c.last))]

SparseRows(span) == MaxU32(0, span.s1 - span.s0)

HasSparseMiddle(span) == span.s0 < span.s1

IsSplit(span) ==
    HasSparseMiddle(span) /\ (span.q0 < span.s0 \/ span.s1 < span.q1)

(* A slip of the closed form: the query itself counts as skipped.          *)
SavedQkInclusive(span) ==
    (SparseRows(span) *
        (span.s0 + span.s1 - 2 * (SinkTokens + WindowTokens))) \div 2

(* triangle_saved_qk; 1041 in the source is for 8 sink and 512 window.     *)
SavedQk(span) ==
    (SparseRows(span) *
        (span.s0 + span.s1 - (2 * (SinkTokens + WindowTokens) + 1))) \div 2

(* triangle_direct_eligible, for lengths a chunk can have.                 *)
DirectEligible(queryLen, seqLen, promptLen, c) ==
    LET span == SparseSpan(queryLen, seqLen, promptLen, c)
    IN  /\ HasSupportedGeometry(c)
        /\ HasSparseMiddle(span)
        /\ seqLen >= c.minSeqLen
        /\ SparseRows(span) >= c.minSparseRows
        /\ SavedQk(span) >= c.minSavedQk
        /\ IsSplit(span) => /\ SparseRows(span) >= c.splitMinSparseRows
                            /\ SavedQk(span) >= c.splitMinSavedQk

(* A slip: the prompt may be shorter than the sequence.                    *)
InvalidLengthsAnyPrompt(queryLen, seqLen, promptLen) ==
    queryLen <= 0 \/ seqLen < queryLen

InvalidLengths(queryLen, seqLen, promptLen) ==
    queryLen <= 0 \/ seqLen < queryLen \/ promptLen < seqLen

(* A slip: the gates of a split span are not applied.                      *)
RequestReasonUnsplit(queryLen, seqLen, promptLen, c) ==
    LET span == SparseSpan(queryLen, seqLen, promptLen, c)
    IN  IF InvalidLengths(queryLen, seqLen, promptLen) THEN "invalid_lengths"
        ELSE IF ~HasSupportedGeometry(c) THEN "geometry_unsupported"
        ELSE IF ~HasSparseMiddle(span) THEN "no_sparse_middle"
        ELSE IF seqLen < c.minSeqLen THEN "below_min_seq_len"
        ELSE IF SparseRows(span) < c.minSparseRows THEN "below_min_sparse_rows"
        ELSE IF SavedQk(span) < c.minSavedQk THEN "below_min_saved_qk"
        ELSE "none"

(* _request_reason: the first gate that fails, in this order.              *)
RequestReason(queryLen, seqLen, promptLen, c) ==
    LET span == SparseSpan(queryLen, seqLen, promptLen, c)
    IN  IF InvalidLengths(queryLen, seqLen, promptLen) THEN "invalid_lengths"
        ELSE IF ~HasSupportedGeometry(c) THEN "geometry_unsupported"
        ELSE IF ~HasSparseMiddle(span) THEN "no_sparse_middle"
        ELSE IF seqLen < c.minSeqLen THEN "below_min_seq_len"
        ELSE IF SparseRows(span) < c.minSparseRows THEN "below_min_sparse_rows"
        ELSE IF SavedQk(span) < c.minSavedQk THEN "below_min_saved_qk"
        ELSE IF IsSplit(span) /\ SparseRows(span) < c.splitMinSparseRows
        THEN "below_split_min_sparse_rows"
        ELSE IF IsSplit(span) /\ SavedQk(span) < c.splitMinSavedQk
        THEN "below_split_min_saved_qk"
        ELSE "none"

-----------------------------------------------------------------------------
(* The plan of a step.  Lists that are None are empty.                     *)

PrefillStates == {"PrefillNoCache", "PrefillCacheHit", "ChunkedPrefill"}

GlobalReason(s) ==
    LET size == Len(s.seqLens)
    IN  IF s.state \notin PrefillStates THEN "state_unsupported"
        ELSE IF s.decodes # 0 THEN "mixed_decode"
        ELSE IF \/ 0 \in {Len(s.ends), size, Len(s.prompts)}
                \/ {Len(s.ends), Len(s.prompts), s.prefills} # {size}
        THEN "missing_metadata"
        ELSE IF size # 1 THEN "batch_unsupported"
        ELSE "none"

(* The cumulative end of request i; a list that is too short repeats its   *)
(* last entry.                                                             *)
QueryEnd(s, i) ==
    IF i = 0 \/ s.ends = << >> THEN 0 ELSE s.ends[MinU32(i, Len(s.ends))]

RequestPlan(s, i, c) ==
    LET queryLen == QueryEnd(s, i) - QueryEnd(s, i - 1)
        seqLen == s.seqLens[i]
        promptLen == IF i <= Len(s.prompts) THEN s.prompts[i] ELSE seqLen
        reason == IF GlobalReason(s) # "none" THEN GlobalReason(s)
                  ELSE RequestReason(queryLen, seqLen, promptLen, c)
    IN  [queryLen |-> queryLen, seqLen |-> seqLen, promptLen |-> promptLen,
         reason |-> reason]

(* A step without sequences has one request that is not eligible.          *)
NoRequest(s) ==
    [queryLen |-> 0, seqLen |-> 0, promptLen |-> 0,
     reason |-> IF GlobalReason(s) # "none" THEN GlobalReason(s)
                ELSE "missing_metadata"]

RequestPlans(s, c) ==
    IF s.seqLens = << >> THEN << NoRequest(s) >>
    ELSE [i \in 1 .. Len(s.seqLens) |-> RequestPlan(s, i, c)]

BuildBatchPlan(s, c, id) ==
    LET requests == RequestPlans(s, c)
    IN  [id |-> id, requests |-> requests,
         direct |-> Len(requests) = 1 /\ requests[1].reason = "none"]

PrimaryReason(p) ==
    LET failing == {i \in DOMAIN p.requests : p.requests[i].reason # "none"}
    IN  IF failing = {} THEN "none"
        ELSE p.requests[CHOOSE i \in failing : \A j \in failing : i <= j].reason

(* The saved_qk of a request plan: none when its lengths are invalid.      *)
PlanSavedQk(r, c) ==
    IF InvalidLengths(r.queryLen, r.seqLen, r.promptLen) THEN 0
    ELSE SavedQk(SparseSpan(r.queryLen, r.seqLen, r.promptLen, c))

-----------------------------------------------------------------------------
(* The scheduler: chunks of one prompt, and what its steps hold besides.   *)

NoPlan == [id |-> 0, requests |-> << >>, direct |-> FALSE]
NoStep == [state |-> "none"]

Init ==
    /\ config \in Configs
    /\ prompt \in 1 .. MaxPrompt
    /\ computed = 0
    /\ step = NoStep /\ plan = NoPlan
    /\ nextPlan = 1
    /\ launched = {} /\ saved = 0

(* The chunk of n tokens alone in its step.                                *)
Alone(n, state) ==
    [state |-> state, ends |-> << n >>, seqLens |-> << computed + n >>,
     prompts |-> << prompt >>, decodes |-> 0, prefills |-> 1]

(* The same step with another request in it, or with lists that are        *)
(* missing or do not fit each other.                                       *)
Variants(s) ==
    LET n == s.ends[1]
    IN  {s,
         [s EXCEPT !.state = "DecodeOnly"],
         [s EXCEPT !.decodes = 1, !.ends = << n, n + 1 >>,
                   !.seqLens = Append(@, prompt), !.prompts = Append(@, prompt)],
         [s EXCEPT !.prefills = 2, !.ends = << n, 2 * n >>,
                   !.seqLens = Append(@, @[1]), !.prompts = Append(@, prompt)],
         [s EXCEPT !.prefills = 2, !.seqLens = Append(@, @[1])],
         [s EXCEPT !.prompts = << >>],
         [s EXCEPT !.prompts = << s.seqLens[1] - 1 >>],
         [s EXCEPT !.ends = << >>],
         [s EXCEPT !.seqLens = << >>],
         [s EXCEPT !.ends = << 0 >>]}

(* The rows of the request followed that a direct plan launches.           *)
PlannedRows(p) ==
    IF p.direct THEN p.requests[1].seqLen - p.requests[1].queryLen ..
                         p.requests[1].seqLen - 1
    ELSE {}

Schedule(n, s) ==
    /\ nextPlan <= MaxPlans
    /\ step' = s
    /\ plan' = BuildBatchPlan(s, config, nextPlan)
    /\ nextPlan' = nextPlan + 1
    /\ launched' = launched \cup PlannedRows(plan')
    /\ saved' = IF plan'.direct
                THEN saved + PlanSavedQk(plan'.requests[1], config) ELSE saved
    /\ computed' = computed + n
    /\ UNCHANGED << config, prompt >>

Next ==
    \E n \in 1 .. prompt - computed, state \in PrefillStates :
        \E s \in Variants(Alone(n, state)) : Schedule(n, s)

Spec == Init /\ [][Next]_vars

-----------------------------------------------------------------------------
Reasons ==
    {"none", "state_unsupported", "mixed_decode", "batch_unsupported",
     "missing_metadata", "invalid_lengths", "no_sparse_middle",
     "below_min_seq_len", "below_min_sparse_rows", "below_min_saved_qk",
     "below_split_min_sparse_rows", "below_split_min_saved_qk",
     "geometry_unsupported"}

(* The launch a direct plan stands for, with the block table the gate of   *)
(* the layer asks for.                                                     *)
LaunchOf(r) ==
    [queryStart |-> r.seqLen - r.queryLen, queryTokens |-> r.queryLen,
     seqLen |-> r.seqLen, promptLen |-> r.promptLen,
     tablePages |-> (r.seqLen + PageSize - 1) \div PageSize,
     aicCores |-> 1, wellFormed |-> TRUE]

(* Every variable stays in its domain.                                     *)
TypeOK ==
    /\ config \in Configs
    /\ prompt \in 1 .. MaxPrompt /\ computed \in 0 .. prompt
    /\ nextPlan \in 1 .. MaxPlans + 1
    /\ plan.id = nextPlan - 1
    /\ \A i \in DOMAIN plan.requests : plan.requests[i].reason \in Reasons
    /\ launched \subseteq 0 .. prompt - 1 /\ saved \in Nat

(* A plan is direct exactly when it has no reason against it: a layer that *)
(* reads a plan that is not direct always gets a reason to fall back.      *)
DirectIffNoReason == plan.id # 0 => (plan.direct <=> PrimaryReason(plan) = "none")

(* A direct plan is one prefill chunk alone in its step, and passes the    *)
(* gates of triangle_direct_eligible, the kernel module's own statement of *)
(* them.                                                                   *)
DirectAloneAndEligible ==
    plan.direct =>
        /\ step.decodes = 0 /\ Len(step.seqLens) = 1
        /\ DirectEligible(plan.requests[1].queryLen, plan.requests[1].seqLen,
                          plan.requests[1].promptLen, config)

(* The host accepts the launch of every direct plan: nothing about the     *)
(* lengths is rejected after the layer has decided to launch.              *)
DirectAccepted == plan.direct => TilingAccepts(LaunchOf(plan.requests[1]))

(* The saved_qk the layers report over the chunks of a prompt is the       *)
(* number of causal query-key pairs the operator skips in those rows.      *)
SavedIsSkipped ==
    LET whole == LaunchOf([queryLen |-> prompt, seqLen |-> prompt,
                           promptLen |-> prompt])
    IN  saved = Cardinality({p \in launched \X (0 .. prompt - 1) :
                                p[2] <= p[1] /\ p[2] \notin RowKeys(whole, p[1])})
=============================================================================
