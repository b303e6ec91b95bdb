---------------------------- MODULE MCDirectLayer ------------------------------
(* One good call and the calls that differ from it in one thing a gate or  *)
(* a later check reads; KV caches that share two addresses.                *)
EXTENDS DirectLayer

MCCache == [id |-> 1, shape |-> "cache", size |-> 4, dtype |-> "bf16",
            device |-> "npu0", stride |-> "dense"]

MCTensors ==
    {MCCache, [MCCache EXCEPT !.stride = "rows"], [MCCache EXCEPT !.size = 0],
     [MCCache EXCEPT !.device = "npu1"], [MCCache EXCEPT !.device = "cpu"],
     [MCCache EXCEPT !.dtype = "fp16"],
     [MCCache EXCEPT !.shape = "other"], [MCCache EXCEPT !.id = 2]}

MCQuery == [id |-> 3, shape |-> "heads", size |-> 3, dtype |-> "bf16",
            device |-> "npu0", stride |-> "dense"]

MCCall ==
    [selected |-> TRUE, graph |-> FALSE, capturing |-> "no", direct |-> TRUE,
     planReason |-> "none", queryLen |-> 3, seqLen |-> 7, promptLen |-> 9,
     worldSize |-> 1, contextParallel |-> "off", causal |-> TRUE,
     geometry |-> TRUE, feature |-> "plain", heads |-> TRUE,
     query |-> MCQuery,
     output |-> [MCQuery EXCEPT !.id = 4, !.size = 5],
     table |-> [MCQuery EXCEPT !.id = 5, !.shape = "batch-one", !.size = 4,
                               !.dtype = "int32"],
     scale |-> TRUE, overlap |-> FALSE]

MCCalls ==
    {MCCall,
     [MCCall EXCEPT !.selected = FALSE],
     [MCCall EXCEPT !.graph = TRUE],
     [MCCall EXCEPT !.capturing = "unknown"],
     [MCCall EXCEPT !.direct = FALSE, !.planReason = "batch_unsupported"],
     [MCCall EXCEPT !.promptLen = 7],
     [MCCall EXCEPT !.worldSize = 0], [MCCall EXCEPT !.worldSize = 2],
     [MCCall EXCEPT !.contextParallel = "unknown"],
     [MCCall EXCEPT !.causal = FALSE], [MCCall EXCEPT !.geometry = FALSE],
     [MCCall EXCEPT !.feature = "sinks"], [MCCall EXCEPT !.heads = FALSE],
     [MCCall EXCEPT !.query.size = 4], [MCCall EXCEPT !.query.stride = "rows"],
     [MCCall EXCEPT !.query.dtype = "fp16"],
     [MCCall EXCEPT !.query.device = "npu1", !.output.device = "npu1",
                    !.table.device = "npu1"],
     [MCCall EXCEPT !.query.device = "cpu", !.output.device = "cpu",
                    !.table.device = "cpu"],
     [MCCall EXCEPT !.output.shape = "flat"],
     [MCCall EXCEPT !.output.shape = "other"],
     [MCCall EXCEPT !.output.size = 2], [MCCall EXCEPT !.output.device = "npu1"],
     [MCCall EXCEPT !.output.stride = "rows"],
     [MCCall EXCEPT !.table.size = 3], [MCCall EXCEPT !.table.shape = "other"],
     [MCCall EXCEPT !.table.device = "npu1"],
     [MCCall EXCEPT !.scale = FALSE], [MCCall EXCEPT !.overlap = TRUE]}
=============================================================================
