----------------------------- MODULE MCReleaseTools -----------------------------
(* Two pipelines with directories of their own; a worker of two levels; four
   cycles, the fewest that may pass, a gain twice the target and one below it, on a
   steady, a slowing and a warming machine. *)
EXTENDS ReleaseTools

CONSTANTS p1, p2

MCPipeline == {p1, p2}
MCOutputs == [p \in MCPipeline |-> p]
MCReports == [p \in MCPipeline |-> p]

MCLevels == <<1, 3>>

MCLatencies == {[dense |-> 100, sparse |-> 80], [dense |-> 100, sparse |-> 95]}
MCDrifts == {0, 1, -1}
=============================================================================
