--------------------------- MODULE MCNativeBootstrap ---------------------------
(* Two backends and one other loader; the supported process, and every     *)
(* process that differs from it in one fact or in both versions of a       *)
(* module.                                                                 *)
EXTENDS NativeBootstrap

MCOther == "elsewhere"

Supported ==
    [identity |-> {}, missing |-> {}, compiler |-> "9.0.1",
     dist |-> [d \in Distribution |-> "release"],
     module |-> [m \in Module |-> "local"],
     loadLibrary |-> TRUE, device |-> "910b", environment |-> "none"]

MCInspected ==
    {Supported}
    \cup {[Supported EXCEPT !.identity = {i}] : i \in {"system", "python"}}
    \cup {[Supported EXCEPT !.missing = {a}] : a \in Artifact}
    \cup {[Supported EXCEPT !.compiler = c] : c \in {"other", "none", "undecodable"}}
    \cup {[Supported EXCEPT !.dist[d] = v] :
             d \in {"vllm", "torch"}, v \in Version}
    \cup {[Supported EXCEPT !.dist["torch"] = v, !.module["torch"] = v] :
             v \in {"other", "invalid"}}
    \cup {[Supported EXCEPT !.module[m] = v] : m \in {"torch_npu"}, v \in Version}
    \cup {[Supported EXCEPT !.loadLibrary = FALSE]}
    \cup {[Supported EXCEPT !.device = d, !.environment = e] :
             d \in Soc, e \in Soc}

MCSettings ==
    {Unset, [set |-> TRUE, items |-> << "user", "alias", "" >>]}

(* _prepend_env_path on every list of up to five items: the bundle first   *)
(* and nowhere else, however it was spelled, the rest kept in order.       *)
ASSUME PrependedBundle ==
    \A items \in SeqOf({"user", "system", "", Alias, Bundled}, 5) :
        LET after == Prepended([set |-> TRUE, items |-> items], Bundled)
        IN  /\ after.set /\ Head(after.items) = Bundled
            /\ Tail(after.items) =
                   Remove(Remove(Remove(items, ""), Alias), Bundled)
=============================================================================
