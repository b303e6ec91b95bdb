-------------------------- MODULE NativeCompatibility ---------------------------
(***************************************************************************)
(* What inspect_native_compatibility concludes about the process it runs   *)
(* in, before anything is loaded.  The facts it reads are a record; a      *)
(* version is one of the few values its rules tell apart.                  *)
(***************************************************************************)
EXTENDS FiniteSets

(* Versions as found: "release" is the public version of the supported     *)
(* fingerprint, "local" the same with a +local label, "other" another      *)
(* valid version, "invalid" is not PEP 440, "unknown" is empty or unknown, *)
(* and "none" is no metadata, or a module that cannot be imported.         *)
Version == {"release", "local", "other", "invalid", "unknown", "none"}

Distribution == {"vllm", "vllm_ascend", "torch", "torch_npu"}
Module == {"torch", "torch_npu"}
Artifact == {"adapter", "cust_opapi", "version.info", "opp", "vendor"}
Soc == {"910b", "other", "none"}

(* identity: the parts of the runtime identity that are not the expected   *)
(* ones; device: what get_device_name answers, "none" when it raises or    *)
(* answers nothing; environment: the SoC the environment variables name;   *)
(* compiler: what version.info names, "none" when it cannot be opened or   *)
(* names no compiler, "undecodable" when it is not text.                   *)
Facts ==
    [identity    : SUBSET {"system", "machine", "implementation", "python"},
     missing     : SUBSET Artifact,
     compiler    : {"9.0.1", "other", "none", "undecodable"},
     dist        : [Distribution -> Version],
     module      : [Module -> Version],
     loadLibrary : BOOLEAN,
     device      : Soc,
     environment : Soc]

(* _public_version *)
Public(v) == CASE v \in {"release", "local"} -> "release"
               [] v = "other" -> "other"
               [] OTHER -> "none"

(* A distribution that reports an unknown version counts as absent.        *)
DistributionVersion(f, d) == IF f.dist[d] = "unknown" THEN "none" ELSE f.dist[d]

DistributionErrors(f) ==
    {<< "distribution", d >> : d \in {e \in Distribution :
                                          DistributionVersion(f, e) = "none"}}

DependencyErrors(f) ==
    {<< "import", m >> : m \in {n \in Module : f.module[n] = "none"}}
        \cup {<< "load_library", "torch" >> :
                  x \in {y \in {1} : f.module["torch"] # "none" /\ ~f.loadLibrary}}

(* The candidate fingerprint: vLLM and vLLM-Ascend as distributed, PyTorch *)
(* and torch_npu as imported.                                              *)
RuntimeVersion(f, d) ==
    IF d \in Module THEN f.module[d] ELSE DistributionVersion(f, d)

FingerprintErrors(f) ==
    LET Mismatched(m) ==
            LET module == Public(f.module[m])
                dist == Public(DistributionVersion(f, m))
            IN  module # "none" /\ dist # "none" /\ module # dist
    IN  {<< "mismatch", m >> : m \in {n \in Module : Mismatched(n)}}
            \cup {<< "fingerprint", d >> :
                      d \in {e \in Distribution :
                                 Public(RuntimeVersion(f, e)) # "release"}}

(* A compiler version is compared when there is one: a version.info that   *)
(* is there and names none is not an error.                                *)
ArtifactErrors(f) ==
    {<< "missing", a >> : a \in f.missing}
        \cup {<< "compiler", c >> : c \in {d \in {f.compiler} :
                                    d = "other" /\ "version.info" \notin f.missing}}

(* The device name when torch_npu gives one, else the environment.         *)
SocVersion(f) ==
    IF f.module["torch_npu"] # "none" /\ f.device # "none" THEN f.device
    ELSE f.environment

(* An unknown SoC is a warning only.                                       *)
SocErrors(f) == {<< "soc", s >> : s \in {SocVersion(f)} \ {"910b", "none"}}

(* version.info is not text: reading it raises out of the inspection.      *)
InspectionRaises(f) ==
    f.compiler = "undecodable" /\ "version.info" \notin f.missing

Errors(f) ==
    {<< "identity", i >> : i \in f.identity} \cup ArtifactErrors(f)
        \cup DistributionErrors(f) \cup DependencyErrors(f)
        \cup FingerprintErrors(f) \cup SocErrors(f)

Compatible(f) == ~InspectionRaises(f) /\ Errors(f) = {}
=============================================================================
