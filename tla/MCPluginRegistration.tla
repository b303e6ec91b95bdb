------------------------- MODULE MCPluginRegistration -------------------------
(***************************************************************************)
(* Two threads.  vLLM-Ascend comes as the upstream release, with methods   *)
(* the backend inherits, or as a development snapshot that has the older   *)
(* hook: on the base of the class and with a loader, or on the class and   *)
(* without one.                                                            *)
(***************************************************************************)
EXTENDS PluginRegistration

CONSTANTS t1, t2

Has(names) == [n \in Names |-> IF n \in names THEN 0 ELSE Missing]

Upstream == [base |-> Has({"forward", "fia"}),
             own |-> Has(Wrapped \ {"forward", "fia"})]
InheritedHook == [base |-> Has({"canUse"}), own |-> Has(Wrapped \cup {"loader"})]
HookAlone == [base |-> Has({}), own |-> Has(Wrapped \cup {"canUse"})]

MCSnapshots == {Upstream, InheritedHook, HookAlone}
=============================================================================
