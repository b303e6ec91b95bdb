------------------------------ MODULE DirectLayer ------------------------------
(***************************************************************************)
(* One selected attention layer of a worker, call after call: the gates    *)
(* forward_fused_infer_attention passes before it launches the operator,   *)
(* the checks the launch meets afterwards in the kernel module, the Torch  *)
(* adapter and the host tiling, and the official attention it falls back   *)
(* to.  The verdict on the KV caches is kept between calls while the       *)
(* caches are reallocated; a launch may raise after writing some rows.     *)
(***************************************************************************)
EXTENDS TriangleSchedule

CONSTANTS
    Tensors,       \* the tensors a KV cache may be
    Calls,         \* the calls the layer may get
    MaxCalls       \* bound on calls

ASSUME DirectLayerAssumption ==
    /\ MaxCalls \in Nat
    /\ \A t \in Tensors : t.stride \in {"dense", "rows"} /\ t.size \in Nat
    \* What PrefillProofs shows of plans: PlansFitLayers.
    /\ \A c \in Calls :
          IF c.direct
          THEN /\ {c.queryLen, c.seqLen, c.promptLen} \subseteq Nat
               /\ 0 < c.queryLen /\ c.queryLen <= c.seqLen
               /\ c.seqLen <= c.promptLen /\ c.promptLen < U32Mod
               /\ MaxU32(c.seqLen - c.queryLen, SparseBegin)
                      < MinU32(c.seqLen, MaxU32(0, c.promptLen - DenseTailTokens))
          ELSE c.planReason # "none"

VARIABLES
    key, value,    \* backend.key_cache and value_cache
    capability,    \* _KvCapabilityCache: its signature and reason
    ready,         \* _NATIVE_READY_ATTR
    strict,        \* config.strict
    call,          \* the call in progress
    pc,            \* where the call is, or "idle"
    reason,        \* the dispatch reason
    rows,          \* who wrote each output row of the call last
    log,           \* what the call recorded, in order
    calls          \* calls started

layerVars == << key, value, capability, ready, strict, call, pc, reason, rows,
                log, calls >>

NoSignature == << >>
NoCall == [direct |-> FALSE]
Rows == {"first", "last"}
Untouched == [r \in Rows |-> "before"]

(* A tensor: its address, its shape without the leading size, the leading  *)
(* size, its type, device and strides.  A cache that is not bound yet is   *)
(* one of another shape; a "flat" output has as many elements per token as *)
(* one of "heads".                                                         *)
Contiguous(t) == t.stride = "dense"

-----------------------------------------------------------------------------
(* The gates.                                                              *)

(* A slip of the signature: it leaves the strides out.                     *)
TensorSignatureShort(t) == << t.id, t.shape, t.size, t.dtype, t.device >>

TensorSignature(t) == << t.id, t.shape, t.size, t.dtype, t.device, t.stride >>

Signature(k, v) == TensorSignature(k) \o TensorSignature(v)

ValidateStaticKv(k, v) ==
    IF /\ k.shape = "cache" /\ v.shape = k.shape /\ v.size = k.size
       /\ k.dtype = "bf16" /\ v.dtype = "bf16"
       /\ k.device = v.device
       /\ Contiguous(k) /\ Contiguous(v)
    THEN "none" ELSE "kv_cache_unsupported"

(* _KvCapabilityCache.check *)
CheckKv(k, v) ==
    IF Signature(k, v) = capability.signature THEN capability
    ELSE [signature |-> Signature(k, v), reason |-> ValidateStaticKv(k, v)]

ValidateQuery(c) ==
    IF /\ c.query.shape = "heads" /\ c.query.size = c.queryLen
       /\ c.query.dtype = "bf16" /\ Contiguous(c.query)
       /\ c.heads
       /\ c.output.size >= c.query.size
       /\ c.output.dtype = "bf16" /\ c.output.device = c.query.device
       /\ Contiguous(c.output)
    THEN "none" ELSE "query_unsupported"

(* A slip: the table is measured in whole pages.                           *)
ValidateBlockTableFloor(c) ==
    IF /\ c.table.shape = "batch-one"
       /\ c.table.size >= c.seqLen \div PageSize
       /\ c.table.dtype = "int32" /\ c.table.device = c.query.device
       /\ Contiguous(c.table)
    THEN "none" ELSE "block_table_unsupported"

ValidateBlockTable(c) ==
    IF /\ c.table.shape = "batch-one"
       /\ c.table.size >= (c.seqLen + PageSize - 1) \div PageSize
       /\ c.table.dtype = "int32" /\ c.table.device = c.query.device
       /\ Contiguous(c.table)
    THEN "none" ELSE "block_table_unsupported"

(* A context without its capturing flag counts as capturing.               *)
Capturing(c) == c.graph \/ c.capturing # "no"

(* The world size is 0 and context parallelism "unknown" when asking for   *)
(* them raises.                                                            *)
ModelReason(c) ==
    CASE c.worldSize # 1 -> "tensor_parallel"
      [] c.worldSize = 1 /\ c.contextParallel # "off" -> "context_parallel"
      [] c.worldSize = 1 /\ c.contextParallel = "off" /\ ~c.causal -> "non_causal"
      [] OTHER -> IF ~c.geometry THEN "geometry_unsupported"
                  ELSE IF c.feature # "plain" THEN "model_unsupported"
                  ELSE "none"

(* The first of the reasons that is not none.                              *)
FirstOf(reasons) ==
    LET failing == {i \in DOMAIN reasons : reasons[i] # "none"}
    IN  IF failing = {} THEN "none"
        ELSE reasons[CHOOSE i \in failing : \A j \in failing : i <= j]

If(condition, text) == IF condition THEN text ELSE "none"

(* What is decided before the KV caches are looked at.                     *)
ReasonBeforeKv(c) ==
    FirstOf(<< If(Capturing(c), "graph_capture"),
               If(~c.direct, c.planReason),
               If(~ready, "adapter_unavailable"),
               ModelReason(c), ValidateQuery(c) >>)

ReasonAfterKv(c) ==
    FirstOf(<< If(key.device # c.query.device, "kv_cache_unsupported"),
               ValidateBlockTable(c) >>)

-----------------------------------------------------------------------------
(* What the launch meets after the gates.                                  *)

(* The shapes of the views that are launched: the tokens of the call, and  *)
(* the output as rows of heads.                                            *)
QueryView(c) ==
    [shape |-> c.query.shape, size |-> MinU32(c.query.size, c.queryLen)]

OutputView(c) == [shape |-> "heads", size |-> c.queryLen]

Viewable(c) ==
    c.output.shape \in {"heads", "flat"} /\ c.output.size >= c.queryLen

(* The call as TilingFunc sees it.                                         *)
HostRequest(c) ==
    [queryStart |-> c.seqLen - QueryView(c).size, queryTokens |-> QueryView(c).size,
     seqLen |-> c.seqLen, promptLen |-> c.promptLen,
     tablePages |-> c.table.size, aicCores |-> 1,
     wellFormed |-> c.scale /\ key.size > 0]

(* has_sparse_middle of a supported geometry.                              *)
SparseMiddle(c) ==
    MaxU32(HostRequest(c).queryStart, SparseBegin)
        < MinU32(c.seqLen, SparseEnd(HostRequest(c)))

(* _validate_direct_tensors, on the views the layer passes.                *)
ValidateDirectTensors(c) ==
    /\ c.query.shape = "heads" /\ c.query.dtype = "bf16"
    /\ OutputView(c) = QueryView(c) /\ c.output.dtype = c.query.dtype
    /\ key.shape = "cache" /\ value.shape = key.shape /\ value.size = key.size
    /\ key.dtype = c.query.dtype /\ value.dtype = c.query.dtype
    /\ c.table.shape = "batch-one" /\ c.table.dtype = "int32"
    /\ \A t \in {c.query, key, value, c.table, c.output} :
          Contiguous(t) /\ t.device = c.query.device
    /\ c.table.size >= (c.seqLen + PageSize - 1) \div PageSize

(* check_inputs and check_output of the adapter: all on one NPU, and the   *)
(* output overlaps none of the inputs.                                     *)
AdapterAccepts(c) ==
    /\ \A t \in {c.query, key, value, c.output} : t.dtype = "bf16"
    /\ c.query.shape = "heads" /\ OutputView(c) = QueryView(c)
    /\ key.shape = "cache" /\ value.shape = "cache" /\ value.size = key.size
    /\ c.table.dtype = "int32" /\ c.table.shape = "batch-one"
    /\ c.query.device # "cpu"
    /\ \A t \in {key, value, c.table, c.output} : t.device = c.query.device
    /\ \A t \in {c.query, key, value, c.table, c.output} : Contiguous(t)
    /\ ~c.overlap

LaunchAccepted(c) ==
    /\ c.geometry /\ SparseMiddle(c)
    /\ ValidateDirectTensors(c)
    /\ AdapterAccepts(c)
    /\ TilingAccepts(HostRequest(c))

-----------------------------------------------------------------------------
LayerInit ==
    /\ key \in Tensors /\ value \in Tensors
    /\ capability = [signature |-> NoSignature, reason |-> "kv_cache_unsupported"]
    /\ ready \in BOOLEAN /\ strict \in BOOLEAN
    /\ call = NoCall /\ pc = "idle" /\ reason = "none"
    /\ rows = Untouched /\ log = << >> /\ calls = 0

(* The caches are bound again between calls; addresses may be reused.      *)
Rebind(k, v) ==
    /\ pc = "idle"
    /\ << k, v >> # << key, value >>
    /\ key' = k /\ value' = v
    /\ UNCHANGED << capability, ready, strict, call, pc, reason, rows, log, calls >>

(* A call of a layer that is not selected, or without metadata, is the     *)
(* original's.                                                             *)
Enter(c) ==
    /\ pc = "idle" /\ calls < MaxCalls
    /\ call' = c
    /\ pc' = IF c.selected THEN "gates" ELSE "official"
    /\ rows' = Untouched /\ log' = << >> /\ reason' = "none"
    /\ calls' = calls + 1
    /\ UNCHANGED << key, value, capability, ready, strict >>

(* _dispatch_reason, which looks at the KV caches last but two.            *)
Dispatch ==
    /\ pc = "gates"
    /\ LET before == ReasonBeforeKv(call)
           kv == CheckKv(key, value)
       IN  IF before # "none"
           THEN reason' = before /\ UNCHANGED capability
           ELSE /\ capability' = kv
                /\ reason' = FirstOf(<< kv.reason, ReasonAfterKv(call) >>)
    /\ pc' = IF reason' = "none" THEN "view" ELSE "fallback"
    /\ UNCHANGED << key, value, ready, strict, call, rows, log, calls >>

(* The statistics of a layer that falls back; a capture is no request.     *)
RecordFallback ==
    /\ pc = "fallback"
    /\ log' = log \o (IF reason = "graph_capture" THEN << "fallback" >>
                      ELSE << "planner", "fallback" >>)
    /\ pc' = "official"
    /\ UNCHANGED << key, value, capability, ready, strict, call, reason, rows, calls >>

(* Official attention writes every row of the call.                        *)
Official ==
    /\ pc = "official"
    /\ rows' = [r \in Rows |-> "official"]
    /\ pc' = "returned"
    /\ UNCHANGED << key, value, capability, ready, strict, call, reason, log, calls >>

(* _output_view, before the try: an output that cannot be viewed as rows   *)
(* of heads raises out of the call, strict or not.                         *)
ViewOutput ==
    /\ pc = "view"
    /\ pc' = IF Viewable(call) THEN "launch" ELSE "raised"
    /\ UNCHANGED << key, value, capability, ready, strict, call, reason, rows,
                    log, calls >>

(* The launch is accepted and its rows are written, in stream order, and   *)
(* recorded with the plan.                                                 *)
Launch ==
    /\ pc = "launch" /\ LaunchAccepted(call)
    /\ rows' = [r \in Rows |-> "direct"]
    /\ log' = log \o << "planner", "dispatch" >>
    /\ pc' = "returned"
    /\ UNCHANGED << key, value, capability, ready, strict, call, reason, calls >>

(* A slip of the handler: the output as it is counts as the result.        *)
LaunchRaisesReturning(written) ==
    /\ pc = "launch"
    /\ ~LaunchAccepted(call) => written = {}
    /\ rows' = [r \in Rows |-> IF r \in written THEN "direct" ELSE rows[r]]
    /\ log' = log \o << "error", "planner", "fallback" >>
    /\ reason' = "direct_launch_error"
    /\ pc' = IF strict THEN "raised" ELSE "returned"
    /\ UNCHANGED << key, value, capability, ready, strict, call, calls >>

(* The launch raises, with some rows written; one that is rejected wrote   *)
(* none.  Strict mode passes the error on.                                 *)
LaunchRaises(written) ==
    /\ pc = "launch"
    /\ ~LaunchAccepted(call) => written = {}
    /\ rows' = [r \in Rows |-> IF r \in written THEN "direct" ELSE rows[r]]
    /\ reason' = "direct_launch_error"
    /\ log' = IF strict THEN Append(log, "error")
              ELSE log \o << "error", "planner", "fallback" >>
    /\ pc' = IF strict THEN "raised" ELSE "official"
    /\ UNCHANGED << key, value, capability, ready, strict, call, calls >>

Return ==
    /\ pc = "returned"
    /\ pc' = "idle" /\ call' = NoCall
    /\ UNCHANGED << key, value, capability, ready, strict, reason, rows, log, calls >>

LayerNext ==
    \/ \E k, v \in Tensors : Rebind(k, v)
    \/ \E c \in Calls : Enter(c)
    \/ Dispatch \/ RecordFallback \/ Official \/ ViewOutput \/ Launch \/ Return
    \/ \E written \in SUBSET Rows : LaunchRaises(written)

LayerSpec == LayerInit /\ [][LayerNext]_layerVars

-----------------------------------------------------------------------------
(* Every variable stays in its domain.                                     *)
LayerTypeOK ==
    /\ key \in Tensors /\ value \in Tensors
    /\ capability.reason \in {"none", "kv_cache_unsupported"}
    /\ pc \in {"idle", "gates", "view", "launch", "fallback", "official",
               "returned", "raised"}
    /\ pc \in {"view", "launch"} => reason = "none"
    /\ call \in Calls \cup {NoCall} /\ calls \in 0 .. MaxCalls
    /\ rows \in [Rows -> {"before", "official", "direct"}]

(* The kept verdict on the KV caches is the verdict on the caches there    *)
(* now, although a new tensor may live at the address of an old one.       *)
VerdictCurrent ==
    capability.signature = Signature(key, value) =>
        capability.reason = ValidateStaticKv(key, value)

(* What passes the gates is accepted by everything behind them, but for    *)
(* the five things no gate looks at: an output of other elements per       *)
(* token, which cannot be viewed, tensors that are all on the CPU, a scale *)
(* that is not positive and finite, an empty KV cache, and an output that  *)
(* overlaps an input.                                                      *)
GatesCoverRejections ==
    pc \in {"view", "launch"} =>
        \/ Viewable(call) /\ LaunchAccepted(call)
        \/ call.output.shape \notin {"heads", "flat"} \/ call.query.device = "cpu"
        \/ ~call.scale \/ key.size = 0 \/ call.overlap

(* A layer returns rows that one route wrote, all of them, and what it     *)
(* recorded names that route once: rows of a launch that raised are        *)
(* written again.                                                          *)
OneRouteOutput ==
    pc = "returned" =>
        \E route \in {"official", "direct"} :
            /\ \A r \in Rows : rows[r] = route
            /\ call.selected =>
                   \A i \in DOMAIN log :
                       log[i] \in {"dispatch", "fallback"} =>
                           /\ log[i] = IF route = "direct" THEN "dispatch"
                                       ELSE "fallback"
                           /\ i = Len(log)

(* Graph capture launches nothing and counts as no request.                *)
CaptureUncounted ==
    pc = "returned" /\ call.selected /\ Capturing(call) =>
        /\ \A r \in Rows : rows[r] = "official"
        /\ \A i \in DOMAIN log : log[i] # "planner"
=============================================================================
