--------------------------- MODULE OperatorPresence ----------------------------
(***************************************************************************)
(* What ensure_native_loaded promises the backends of a worker: each       *)
(* caller is told, in some order, whether the operator is there.  It       *)
(* becomes so at most once, together with the answer that says so first.   *)
(***************************************************************************)
EXTENDS Sequences

VARIABLES
    present,       \* the operator can be launched
    given          \* the answers, in order

PresenceInit == present = FALSE /\ given = << >>

TellPresent ==
    /\ present' = TRUE
    /\ given' = Append(given, "native")

TellAbsent ==
    /\ ~present
    /\ \E answer \in {"official", "raised"} : given' = Append(given, answer)
    /\ UNCHANGED present

PresenceNext == TellPresent \/ TellAbsent

PresenceSpec == PresenceInit /\ [][PresenceNext]_<< present, given >>
=============================================================================
