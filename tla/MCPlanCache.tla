------------------------------ MODULE MCPlanCache ------------------------------
(***************************************************************************)
(* Two addresses, two cores and two prompt lengths, so that a prompt, an   *)
(* object or an address of one step can be mistaken for that of another;   *)
(* side stores of one item, so that two objects evict each other.          *)
(***************************************************************************)
EXTENDS PlanCache, TLC

CONSTANTS a1, a2, c1, c2, p1, p2

(* The second core is a step that is never direct, a decode for instance.  *)
MCEligible == {c1} \X Prompt

Symmetry == Permutations(Addr) \cup Permutations(Prompt)
=============================================================================
