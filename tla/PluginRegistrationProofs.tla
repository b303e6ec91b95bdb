----------------------- MODULE PluginRegistrationProofs ------------------------
(***************************************************************************)
(* A patch is all there or not at all, and no function is wrapped twice,   *)
(* for any number of threads, calls and copies of the plugin and for every *)
(* vLLM-Ascend the allowlist accepts.  The invariant says what the holder  *)
(* of a lock knows of the attributes of its patch: how far it has come     *)
(* from what it captured, which was itself all or nothing.  What it knows  *)
(* depends on these attributes alone, so that the other patch may run at   *)
(* the same time.                                                          *)
(***************************************************************************)
EXTENDS PluginRegistration, SequenceTheorems, TLAPS

(* The places inside a patch, where a thread holds its lock.               *)
Inside == {"entered", "patching", "restoring"}
Places == {"idle", "waiting", "stopped"} \cup Inside
Values == {Missing, 0, 1}

(* What a patch has found or left in attributes a: nothing of it, or all.  *)
UntouchedIn(a, p) == \A n \in Owned[p] : a[n] = own[n]

CompleteValue(n) ==
    CASE n = "canUse" -> IF Hook THEN 1 ELSE Missing
      [] n = "legacyCanUse" -> IF Hook THEN 0 ELSE Missing
      [] n = "loader" -> IF HookLoader THEN 1 ELSE own[n]
      [] n = "legacyLoader" -> IF HookLoader THEN 0 ELSE Missing
      [] OTHER -> 1

CompleteIn(a, p) == \A n \in Owned[p] : a[n] = CompleteValue(n)

Settled(a, p) == UntouchedIn(a, p) \/ CompleteIn(a, p)

(* The names of the first k assignments of a patch that found c.           *)
FirstNames(p, c, k) == {Assigns(p, c)[i] : i \in 1 .. k}

(* After k assignments, and with the captured attributes after the k-th    *)
(* put back.                                                               *)
Patched(a, p, k, c) ==
    /\ Settled(c, p)
    /\ p = "runner" => c["runnerMarker"] # 1
    /\ k \in 0 .. Len(Assigns(p, c))
    /\ \A n \in Owned[p] :
           a[n] = IF n \in FirstNames(p, c, k) THEN Assigned(c, n) ELSE c[n]

Restored(a, p, k, c) ==
    /\ Settled(c, p)
    /\ k \in 0 .. Len(Captured[p])
    /\ \A i \in k + 1 .. Len(Captured[p]) :
           a[Captured[p][i]] = c[Captured[p][i]]

(* What a thread knows of the attributes of its patch.                     *)
Knows(a, p, place, k, c) ==
    /\ place = "entered" => Settled(a, p)
    /\ place = "patching" => Patched(a, p, k, c)
    /\ place = "restoring" => Restored(a, p, k, c)

Types ==
    /\ [base |-> base, own |-> own] \in Snapshot
    /\ attr \in [Names -> Values]
    /\ registered \in BOOLEAN
    /\ lock \in [Patches -> Thread \cup {NoThread}]
    /\ pc \in [Thread -> Places] /\ job \in [Thread -> Patches]
    /\ at \in [Thread -> Nat]
    /\ captured \in [Thread -> [Names -> Values]]

(* A thread is inside a patch exactly when it holds its lock.              *)
Locks ==
    /\ \A t \in Thread : pc[t] \in Inside => lock[job[t]] = t
    /\ \A p \in Patches : lock[p] # NoThread =>
           pc[lock[p]] \in Inside /\ job[lock[p]] = p

FreeIsSettled == \A p \in Patches : lock[p] = NoThread => Settled(attr, p)

Knowledge ==
    \A t \in Thread : Knows(attr, job[t], pc[t], at[t], captured[t])

(* A registered plugin is in place, and nobody is at it.                   *)
Registration ==
    registered =>
        /\ CompleteIn(attr, "attention")
        /\ \A t \in Thread :
               pc[t] \in {"patching", "restoring"} => job[t] # "attention"

RegistrationInv ==
    Types /\ Locks /\ FreeIsSettled /\ Knowledge /\ Registration

-----------------------------------------------------------------------------
(* Names.                                                                  *)

(* The attributes of each patch, one by one.                               *)
LEMMA OwnedNames ==
    /\ Owned["attention"] =
           {"build", "graphBuild", "builderMarker", "init", "forward", "fia",
            "canUse", "legacyCanUse", "backendMarker", "loader",
            "legacyLoader"}
    /\ Owned["runner"] = {"runnerBuild", "runnerMarker"}
    /\ Owned["attention"] \cap Owned["runner"] = {}
    /\ \A p \in Patches : Owned[p] \subseteq Names
<1>1. Owned["attention"] =
           {"build", "graphBuild", "builderMarker", "init", "forward", "fia",
            "canUse", "legacyCanUse", "backendMarker", "loader",
            "legacyLoader"}
  BY DEF Owned, Captured, Patches, ToSet
<1>2. Owned["runner"] = {"runnerBuild", "runnerMarker"}
  BY DEF Owned, Captured, Patches, ToSet
<1>3. Owned["attention"] \cap Owned["runner"] = {}
  BY <1>1, <1>2
<1>4. \A p \in Patches : Owned[p] \subseteq Names
  BY DEF Patches, Names
<1> QED
  BY <1>1, <1>2, <1>3, <1>4

(* The attributes captured are those of the patch.                         *)
LEMMA CapturedNames ==
    ASSUME NEW p \in Patches
    PROVE  /\ Len(Captured[p]) \in Nat
           /\ \A i \in 1 .. Len(Captured[p]) : Captured[p][i] \in Owned[p]
           /\ \A n \in Owned[p] :
                  \E i \in 1 .. Len(Captured[p]) : Captured[p][i] = n
<1>1. \E S : Captured[p] \in Seq(S)
  <2>1. Captured["attention"] \in Seq(Owned["attention"])
    BY OwnedNames DEF Captured
  <2>2. Captured["runner"] \in Seq(Owned["runner"])
    BY OwnedNames DEF Captured
  <2> QED
    BY <2>1, <2>2 DEF Patches
<1>2. Owned[p] = {Captured[p][i] : i \in DOMAIN Captured[p]}
  BY DEF Owned, ToSet
<1>3. DOMAIN Captured[p] = 1 .. Len(Captured[p]) /\ Len(Captured[p]) \in Nat
  BY <1>1
<1> QED
  BY <1>2, <1>3

(* A name occurs in a joined list when it occurs in one of the parts.      *)
Occurs(n, s) == \E i \in 1 .. Len(s) : s[i] = n

LEMMA OccursJoined ==
    ASSUME NEW S, NEW s \in Seq(S), NEW t \in Seq(S), NEW n
    PROVE  /\ s \o t \in Seq(S)
           /\ Occurs(n, s \o t) <=> Occurs(n, s) \/ Occurs(n, t)
<1>1. /\ s \o t \in Seq(S) /\ Len(s \o t) = Len(s) + Len(t)
      /\ Len(s) \in Nat /\ Len(t) \in Nat
      /\ \A i \in 1 .. Len(s) + Len(t) :
             (s \o t)[i] = IF i <= Len(s) THEN s[i] ELSE t[i - Len(s)]
  BY ConcatProperties
<1>2. ASSUME Occurs(n, s) PROVE Occurs(n, s \o t)
  <2>1. PICK i \in 1 .. Len(s) : s[i] = n
    BY <1>2 DEF Occurs
  <2>2. i \in 1 .. Len(s) + Len(t) /\ i <= Len(s)
    BY <1>1
  <2> QED
    BY <1>1, <2>1, <2>2 DEF Occurs
<1>3. ASSUME Occurs(n, t) PROVE Occurs(n, s \o t)
  <2>1. PICK i \in 1 .. Len(t) : t[i] = n
    BY <1>3 DEF Occurs
  <2>2. /\ i + Len(s) \in 1 .. Len(s) + Len(t) /\ ~(i + Len(s) <= Len(s))
        /\ i + Len(s) - Len(s) = i
    BY <1>1
  <2>3. (s \o t)[i + Len(s)] = n
    BY <1>1, <2>1, <2>2
  <2> QED
    BY <1>1, <2>2, <2>3 DEF Occurs
<1>4. ASSUME Occurs(n, s \o t) PROVE Occurs(n, s) \/ Occurs(n, t)
  <2>1. PICK i \in 1 .. Len(s) + Len(t) : (s \o t)[i] = n
    BY <1>1, <1>4 DEF Occurs
  <2>2. CASE i <= Len(s)
    BY <1>1, <2>1, <2>2 DEF Occurs
  <2>3. CASE ~(i <= Len(s))
    <3>1. i - Len(s) \in 1 .. Len(t) /\ t[i - Len(s)] = n
      BY <1>1, <2>1, <2>3
    <3> QED
      BY <3>1 DEF Occurs
  <2> QED
    BY <2>2, <2>3
<1> QED
  BY <1>1, <1>2, <1>3, <1>4

-----------------------------------------------------------------------------
(* What a patch assigns.                                                   *)

(* A patch assigns attributes of its own: of the runner, always; of the    *)
(* builder and of the backend, when they are not marked; of the older hook *)
(* what there is.                                                          *)
LEMMA AssignedNames ==
    ASSUME NEW c, NEW p \in Patches
    PROVE  /\ Assigns(p, c) \in Seq(Owned[p])
           /\ p = "runner" => \A n : Occurs(n, Assigns(p, c)) <=>
                                         n \in {"runnerBuild", "runnerMarker"}
           /\ p = "attention" => \A n :
                  Occurs(n, Assigns(p, c)) <=>
                      \/ /\ Visible(c, "builderMarker") # 1
                         /\ n \in {"build", "graphBuild", "builderMarker"}
                      \/ /\ Visible(c, "backendMarker") # 1
                         /\ \/ n \in {"init", "forward", "fia", "backendMarker"}
                            \/ /\ Visible(c, "canUse") # Missing
                               /\ n \in {"canUse", "legacyCanUse"}
                            \/ /\ Visible(c, "canUse") # Missing
                               /\ Visible(c, "loader") # Missing
                               /\ n \in {"loader", "legacyLoader"}
<1>1. CASE p = "runner"
  <2> DEFINE s == <<"runnerBuild", "runnerMarker">>
  <2>1. Assigns(p, c) = s
    BY <1>1 DEF Assigns
  <2>2. s \in Seq({"runnerBuild", "runnerMarker"}) /\ Len(s) = 2
    OBVIOUS
  <2>3. \A n : Occurs(n, s) <=> n \in {"runnerBuild", "runnerMarker"}
    BY DEF Occurs
  <2> HIDE DEF s
  <2> QED
    BY <1>1, <2>1, <2>2, <2>3, OwnedNames
<1>2. CASE p = "attention"
  <2> DEFINE S == Owned["attention"]
             hook == Visible(c, "canUse") # Missing
             loader == Visible(c, "loader") # Missing
             built == Visible(c, "builderMarker") = 1
             backed == Visible(c, "backendMarker") = 1
             s1 == <<"build", "graphBuild", "builderMarker">>
             s2 == <<"init", "forward", "fia">>
             s3 == <<"legacyCanUse", "canUse">>
             s4 == <<"legacyLoader", "loader">>
             s5 == <<"backendMarker">>
             none == << >>
             loaders == IF loader THEN s4 ELSE none
             legacy == IF hook THEN s3 \o loaders ELSE none
             builder == IF built THEN none ELSE s1
             backend == IF backed THEN none ELSE s2 \o legacy \o s5
  <2>1. /\ \A n : Occurs(n, s1) <=> n \in {"build", "graphBuild", "builderMarker"}
        /\ s1 \in Seq(S)
    BY OwnedNames DEF Occurs
  <2>2. (\A n : Occurs(n, s2) <=> n \in {"init", "forward", "fia"}) /\ s2 \in Seq(S)
    BY OwnedNames DEF Occurs
  <2>3. (\A n : Occurs(n, s3) <=> n \in {"canUse", "legacyCanUse"}) /\ s3 \in Seq(S)
    BY OwnedNames DEF Occurs
  <2>4. (\A n : Occurs(n, s4) <=> n \in {"loader", "legacyLoader"}) /\ s4 \in Seq(S)
    BY OwnedNames DEF Occurs
  <2>5. (\A n : Occurs(n, s5) <=> n = "backendMarker") /\ s5 \in Seq(S)
    BY OwnedNames DEF Occurs
  <2>6. (\A n : ~Occurs(n, none)) /\ none \in Seq(S)
    BY DEF Occurs
  <2>7. /\ legacy = LegacyAssigns(c)
        /\ builder = BuilderAssigns(c)
        /\ backend = BackendAssigns(c)
    BY DEF LegacyAssigns, BuilderAssigns, BackendAssigns
  <2>8. Assigns(p, c) = builder \o backend
    BY <1>2, <2>7 DEF Assigns
  <2> HIDE DEF S, hook, loader, built, backed, s1, s2, s3, s4, s5, none
  <2>9. /\ loaders \in Seq(S)
        /\ \A n : Occurs(n, loaders) <=> loader /\ n \in {"loader", "legacyLoader"}
    BY <2>4, <2>6
  <2> HIDE DEF loaders
  <2>10. s3 \o loaders \in Seq(S)
    BY <2>3, <2>9, OccursJoined
  <2>11. \A n : Occurs(n, s3 \o loaders) <=> Occurs(n, s3) \/ Occurs(n, loaders)
    BY <2>3, <2>9, OccursJoined
  <2>12. /\ legacy \in Seq(S)
         /\ \A n : Occurs(n, legacy) <=>
                       /\ hook
                       /\ \/ n \in {"canUse", "legacyCanUse"}
                          \/ loader /\ n \in {"loader", "legacyLoader"}
    BY <2>3, <2>6, <2>9, <2>10, <2>11
  <2>13. /\ builder \in Seq(S)
         /\ \A n : Occurs(n, builder) <=>
                       ~built /\ n \in {"build", "graphBuild", "builderMarker"}
    BY <2>1, <2>6
  <2> HIDE DEF legacy, builder
  <2>14. s2 \o legacy \in Seq(S)
    BY <2>2, <2>12, OccursJoined
  <2>15. \A n : Occurs(n, s2 \o legacy) <=> Occurs(n, s2) \/ Occurs(n, legacy)
    BY <2>2, <2>12, OccursJoined
  <2>16. s2 \o legacy \o s5 \in Seq(S)
    BY <2>5, <2>14, OccursJoined
  <2>17. \A n : Occurs(n, s2 \o legacy \o s5) <=>
                    Occurs(n, s2 \o legacy) \/ Occurs(n, s5)
    BY <2>5, <2>14, OccursJoined
  <2>18. /\ backend \in Seq(S)
         /\ \A n : Occurs(n, backend) <=>
                       /\ ~backed
                       /\ \/ n \in {"init", "forward", "fia"}
                          \/ Occurs(n, legacy)
                          \/ n = "backendMarker"
    BY <2>2, <2>5, <2>6, <2>15, <2>16, <2>17
  <2> HIDE DEF backend
  <2>19. builder \o backend \in Seq(S)
    BY <2>13, <2>18, OccursJoined
  <2>20. \A n : Occurs(n, builder \o backend) <=>
                    Occurs(n, builder) \/ Occurs(n, backend)
    BY <2>13, <2>18, OccursJoined
  <2>21. \A n : Occurs(n, Assigns(p, c)) <=>
                    \/ ~built /\ n \in {"build", "graphBuild", "builderMarker"}
                    \/ /\ ~backed
                       /\ \/ n \in {"init", "forward", "fia", "backendMarker"}
                          \/ hook /\ n \in {"canUse", "legacyCanUse"}
                          \/ hook /\ loader /\ n \in {"loader", "legacyLoader"}
    BY <2>8, <2>12, <2>13, <2>18, <2>20
  <2> QED
    BY <1>2, <2>8, <2>19, <2>21 DEF S, hook, loader, built, backed
<1> QED
  BY <1>1, <1>2 DEF Patches

(* The attributes of an allowlisted vLLM-Ascend.                           *)
Allowlisted ==
    /\ base \in [Names -> {Missing, 0}] /\ own \in [Names -> {Missing, 0}]
    /\ \A n \in Wrapped : base[n] = 0 \/ own[n] = 0
    /\ \A n \in Added : base[n] = Missing /\ own[n] = Missing

(* What the allowlist says of the attributes before any patch.             *)
LEMMA SnapshotFacts ==
    ASSUME [base |-> base, own |-> own] \in Snapshot PROVE Allowlisted
  BY DEF Snapshot, Allowlisted

(* What a patch that found nothing of itself sees of its attributes.       *)
LEMMA UntouchedValues ==
    ASSUME Allowlisted, NEW p \in Patches, NEW c, UntouchedIn(c, p),
           NEW n \in Owned[p]
    PROVE  /\ c[n] = own[n] /\ Visible(c, n) = Visible(own, n)
           /\ Visible(c, n) \in {Missing, 0}
           /\ n \in Wrapped => Visible(c, n) = 0
           /\ n \in Added => Visible(c, n) = Missing /\ c[n] = Missing
<1>1. n \in Names /\ c[n] = own[n]
  BY OwnedNames DEF UntouchedIn
<1>2. own[n] \in {Missing, 0} /\ base[n] \in {Missing, 0} /\ Missing # 0
  BY <1>1, RegistrationAssumption DEF Allowlisted
<1> QED
  BY <1>1, <1>2 DEF Visible, Allowlisted

(* A patch that assigns anything found nothing of itself, and each value   *)
(* it assigns is the one of the complete patch.                            *)
LEMMA AssignedValues ==
    ASSUME Allowlisted, NEW p \in Patches, NEW c, Settled(c, p),
           p = "runner" => c["runnerMarker"] # 1,
           NEW n, Occurs(n, Assigns(p, c))
    PROVE  /\ UntouchedIn(c, p)
           /\ n \in Owned[p]
           /\ Assigned(c, n) \in {0, 1}
           /\ Assigned(c, n) = CompleteValue(n)
<1>1. n \in Owned[p]
  <2>1. Assigns(p, c) \in Seq(Owned[p])
    BY AssignedNames
  <2> QED
    BY <2>1 DEF Occurs
<1>2. Missing # 1 /\ Missing # 0
  BY RegistrationAssumption
<1>3. UntouchedIn(c, p)
  <2> SUFFICES ASSUME CompleteIn(c, p) PROVE FALSE
    BY DEF Settled
  <2>1. CASE p = "attention"
    <3>1. c["builderMarker"] = 1 /\ c["backendMarker"] = 1
      BY <2>1, OwnedNames DEF CompleteIn, CompleteValue
    <3>2. Visible(c, "builderMarker") = 1 /\ Visible(c, "backendMarker") = 1
      BY <1>2, <3>1 DEF Visible
    <3> QED
      BY <2>1, <3>2, AssignedNames
  <2>2. CASE p = "runner"
    BY <2>2, OwnedNames DEF CompleteIn, CompleteValue
  <2> QED
    BY <2>1, <2>2 DEF Patches
<1>4. CASE n \in Wrapped
  <2>1. Visible(c, n) = 0
    BY <1>1, <1>3, <1>4, UntouchedValues
  <2>2. Assigned(c, n) = 1 /\ CompleteValue(n) = 1
    BY <1>4, <2>1 DEF Assigned, Wrapped, CompleteValue
  <2> QED
    BY <1>1, <1>3, <2>2
<1>5. CASE n \in {"builderMarker", "backendMarker", "runnerMarker"}
  <2>1. Assigned(c, n) = 1 /\ CompleteValue(n) = 1
    BY <1>5 DEF Assigned, Wrapped, CompleteValue
  <2> QED
    BY <1>1, <1>3, <2>1
<1>6. CASE n \in {"canUse", "legacyCanUse", "loader", "legacyLoader"}
  <2>1. p = "attention"
    BY <1>1, <1>6, OwnedNames DEF Patches
  <2>2. /\ "canUse" \in Owned[p] /\ "loader" \in Owned[p]
    BY <2>1, OwnedNames
  <2>3. /\ Visible(c, "canUse") = Visible(own, "canUse")
        /\ Visible(c, "canUse") \in {Missing, 0}
        /\ Visible(c, "loader") = Visible(own, "loader")
        /\ Visible(c, "loader") \in {Missing, 0}
    BY <1>3, <2>2, UntouchedValues
  <2>4. /\ Visible(c, "canUse") # Missing
        /\ n \in {"loader", "legacyLoader"} => Visible(c, "loader") # Missing
    BY <1>6, <2>1, AssignedNames
  <2>5. Hook /\ (n \in {"loader", "legacyLoader"} => HookLoader)
    BY <2>3, <2>4 DEF Hook, HookLoader
  <2>6. n = "canUse" \/ n = "loader" =>
            Assigned(c, n) = 1 /\ CompleteValue(n) = 1
    BY <2>5 DEF Assigned, Wrapped, CompleteValue
  <2>7. n = "legacyCanUse" => Assigned(c, n) = 0 /\ CompleteValue(n) = 0
    BY <2>3, <2>4, <2>5 DEF Assigned, Wrapped, CompleteValue
  <2>8. n = "legacyLoader" => Assigned(c, n) = 0 /\ CompleteValue(n) = 0
    BY <2>3, <2>4, <2>5 DEF Assigned, Wrapped, CompleteValue
  <2> QED
    BY <1>1, <1>3, <1>6, <2>6, <2>7, <2>8
<1>7. n \in Wrapped \cup {"builderMarker", "backendMarker", "runnerMarker",
                          "canUse", "legacyCanUse", "loader", "legacyLoader"}
  BY <1>1, OwnedNames DEF Patches, Wrapped
<1> QED
  BY <1>4, <1>5, <1>6, <1>7

(* What a patch that found nothing leaves out is as it should be.          *)
LEMMA LeftOutValues ==
    ASSUME Allowlisted, NEW p \in Patches, NEW c, UntouchedIn(c, p),
           NEW n \in Owned[p], ~Occurs(n, Assigns(p, c))
    PROVE  c[n] = CompleteValue(n)
<1>1. p = "attention"
  <2>1. p = "runner" => FALSE
    BY OwnedNames, AssignedNames
  <2> QED
    BY <2>1 DEF Patches
<1>2. Missing # 1 /\ Missing # 0
  BY RegistrationAssumption
<1>3. /\ "canUse" \in Owned[p] /\ "loader" \in Owned[p]
      /\ "builderMarker" \in Owned[p] /\ "backendMarker" \in Owned[p]
      /\ "builderMarker" \in Added /\ "backendMarker" \in Added
  BY <1>1, OwnedNames DEF Added
<1>4. /\ Visible(c, "canUse") = Visible(own, "canUse")
      /\ Visible(c, "loader") = Visible(own, "loader")
      /\ Visible(c, "builderMarker") # 1 /\ Visible(c, "backendMarker") # 1
  BY <1>2, <1>3, UntouchedValues
<1>5. n \in {"canUse", "legacyCanUse", "loader", "legacyLoader"}
  BY <1>1, <1>4, AssignedNames, OwnedNames
<1>6. /\ n \in {"canUse", "legacyCanUse"} => ~Hook
      /\ n \in {"loader", "legacyLoader"} => ~HookLoader
  BY <1>1, <1>4, AssignedNames DEF Hook, HookLoader
<1>7. c[n] = own[n] /\ (n \in Added => c[n] = Missing)
  BY UntouchedValues
<1>8. CASE n = "canUse"
  <2>1. Visible(own, n) = Missing
    BY <1>6, <1>8 DEF Hook
  <2>2. own[n] = Missing
    BY <2>1 DEF Visible
  <2> QED
    BY <1>6, <1>7, <1>8, <2>2 DEF CompleteValue
<1>9. CASE n = "legacyCanUse" \/ n = "legacyLoader"
  BY <1>6, <1>7, <1>9 DEF CompleteValue, Added
<1>10. CASE n = "loader"
  BY <1>6, <1>7, <1>10 DEF CompleteValue
<1> QED
  BY <1>5, <1>8, <1>9, <1>10

(* The last assignment completes a patch.                                  *)
LEMMA LastCompletes ==
    ASSUME Allowlisted, NEW p \in Patches, NEW a, NEW c,
           Patched(a, p, Len(Assigns(p, c)), c)
    PROVE  CompleteIn(a, p)
<1> DEFINE k == Len(Assigns(p, c))
<1>1. /\ Settled(c, p) /\ (p = "runner" => c["runnerMarker"] # 1)
      /\ \A n \in Owned[p] :
             a[n] = IF n \in FirstNames(p, c, k) THEN Assigned(c, n) ELSE c[n]
  BY DEF Patched
<1>2. \A n : n \in FirstNames(p, c, k) <=> Occurs(n, Assigns(p, c))
  BY DEF FirstNames, Occurs
<1> HIDE DEF k
<1>3. CASE UntouchedIn(c, p)
  <2>1. ASSUME NEW n \in Owned[p] PROVE a[n] = CompleteValue(n)
    <3>1. CASE Occurs(n, Assigns(p, c))
      BY <1>1, <1>2, <3>1, AssignedValues
    <3>2. CASE ~Occurs(n, Assigns(p, c))
      BY <1>1, <1>2, <1>3, <3>2, LeftOutValues
    <3> QED
      BY <3>1, <3>2
  <2> QED
    BY <2>1 DEF CompleteIn
<1>4. CASE ~UntouchedIn(c, p)
  <2>1. \A n : ~Occurs(n, Assigns(p, c))
    BY <1>1, <1>4, AssignedValues
  <2>2. CompleteIn(c, p)
    BY <1>1, <1>4 DEF Settled
  <2> QED
    BY <1>1, <1>2, <2>1, <2>2 DEF CompleteIn
<1> QED
  BY <1>3, <1>4

-----------------------------------------------------------------------------
(* The two patches apart.                                                  *)

(* What a thread knows depends on the attributes of its patch alone.       *)
LEMMA KnowsOwned ==
    ASSUME NEW p \in Patches, NEW a, NEW b, \A n \in Owned[p] : b[n] = a[n],
           NEW place, NEW k, NEW c, Knows(a, p, place, k, c)
    PROVE  Knows(b, p, place, k, c)
<1>1. Settled(a, p) => Settled(b, p)
  BY DEF Settled, UntouchedIn, CompleteIn
<1>2. Patched(a, p, k, c) => Patched(b, p, k, c)
  BY DEF Patched
<1>3. Restored(a, p, k, c) => Restored(b, p, k, c)
  BY CapturedNames DEF Restored
<1> QED
  BY <1>1, <1>2, <1>3 DEF Knows

(* What is official never changes: the parts of the invariant after a      *)
(* step speak of the new attributes and the old snapshot.                  *)
LEMMA Primed ==
    ASSUME Types', UNCHANGED official, Locks',
           \A q \in Patches : lock'[q] = NoThread => Settled(attr', q),
           \A u \in Thread : Knows(attr', job'[u], pc'[u], at'[u], captured'[u]),
           registered' =>
               /\ CompleteIn(attr', "attention")
               /\ \A u \in Thread : pc'[u] \in {"patching", "restoring"}
                                        => job'[u] # "attention"
    PROVE  RegistrationInv'
<1>1. base' = base /\ own' = own
  BY DEF official
<1>2. FreeIsSettled'
  BY <1>1 DEF FreeIsSettled, Settled, UntouchedIn, CompleteIn, CompleteValue,
              Hook, HookLoader, Visible
<1>3. Knowledge'
  <2> SUFFICES ASSUME NEW u \in Thread
               PROVE  Knows(attr, job[u], pc[u], at[u], captured[u])'
    BY DEF Knowledge
  <2>1. \A n : CompleteValue(n)' = CompleteValue(n)
    BY <1>1 DEF CompleteValue, Hook, HookLoader, Visible
  <2>2. /\ Settled(attr, job[u])' <=> Settled(attr', job'[u])
        /\ Settled(captured[u], job[u])' <=> Settled(captured'[u], job'[u])
    BY <1>1, <2>1 DEF Settled, UntouchedIn, CompleteIn
  <2>3. Assigns(job[u], captured[u])' = Assigns(job'[u], captured'[u])
    BY <1>1 DEF Assigns, BuilderAssigns, BackendAssigns, LegacyAssigns, Visible
  <2>4. \A n : Assigned(captured[u], n)' = Assigned(captured'[u], n)
    BY <1>1 DEF Assigned, Visible
  <2>5. Patched(attr, job[u], at[u], captured[u])'
            <=> Patched(attr', job'[u], at'[u], captured'[u])
    BY <2>2, <2>3, <2>4 DEF Patched, FirstNames
  <2>6. Restored(attr, job[u], at[u], captured[u])'
            <=> Restored(attr', job'[u], at'[u], captured'[u])
    BY <2>2 DEF Restored
  <2> QED
    BY <2>2, <2>5, <2>6 DEF Knows
<1>4. Registration'
  BY <1>1 DEF Registration, CompleteIn, CompleteValue, Hook, HookLoader, Visible
<1> QED
  BY <1>2, <1>3, <1>4 DEF RegistrationInv

(* A step of thread t inside patch p, as the others see it.                *)
OthersSame(t) ==
    \A u \in Thread : u # t => /\ pc'[u] = pc[u] /\ job'[u] = job[u]
                               /\ at'[u] = at[u] /\ captured'[u] = captured[u]

StepOf(t, p) ==
    /\ OthersSame(t)
    /\ UNCHANGED official
    /\ \A q \in Patches : q # p => lock'[q] = lock[q]
    /\ \A q \in Patches : q # p => \A n \in Owned[q] : attr'[n] = attr[n]

(* What it must leave to the thread itself and to its patch.               *)
Leaves(t, p) ==
    /\ lock'[p] \in {t, NoThread}
    /\ lock'[p] = t <=> pc'[t] \in Inside
    /\ pc'[t] \in Inside => job'[t] = p
    /\ lock'[p] = NoThread => Settled(attr', p)
    /\ Knows(attr', job'[t], pc'[t], at'[t], captured'[t])
    /\ registered' => \/ p = "runner" /\ registered
                      \/ /\ p = "attention" /\ CompleteIn(attr', "attention")
                         /\ pc'[t] \notin {"patching", "restoring"}

(* Such a step keeps the invariant.                                        *)
LEMMA StepKeeps ==
    ASSUME RegistrationInv, Types', NEW t \in Thread, NEW p \in Patches,
           pc[t] \in Inside => job[t] = p,
           lock[p] \in {t, NoThread},
           StepOf(t, p), Leaves(t, p)
    PROVE  RegistrationInv'
<1>1. /\ Types /\ Locks /\ FreeIsSettled /\ Knowledge /\ Registration
  BY DEF RegistrationInv
<1>2. /\ NoThread \notin Thread
      /\ \A q \in Patches : lock[q] \in Thread \cup {NoThread}
      /\ \A q \in Patches : lock'[q] \in Thread \cup {NoThread}
      /\ \A u \in Thread : job[u] \in Patches /\ job'[u] \in Patches
  BY <1>1, RegistrationAssumption DEF Types
<1>3. \A u \in Thread : u # t => /\ pc'[u] = pc[u] /\ job'[u] = job[u]
                                 /\ at'[u] = at[u] /\ captured'[u] = captured[u]
  BY DEF StepOf, OthersSame
<1>4. /\ \A q \in Patches : q # p => lock'[q] = lock[q]
      /\ \A q \in Patches : q # p => \A n \in Owned[q] : attr'[n] = attr[n]
  BY DEF StepOf
<1>5. \A u \in Thread : u # t /\ pc[u] \in Inside => job[u] # p
  BY <1>1, <1>2 DEF Locks
<1>6. Locks'
  <2>1. ASSUME NEW u \in Thread, pc'[u] \in Inside
        PROVE  lock'[job'[u]] = u
    <3>1. CASE u = t
      BY <2>1, <3>1 DEF Leaves
    <3>2. CASE u # t
      <4>1. pc[u] \in Inside /\ job'[u] = job[u] /\ job[u] # p
        BY <1>3, <1>5, <2>1, <3>2
      <4> QED
        BY <1>1, <1>2, <1>4, <4>1 DEF Locks
    <3> QED
      BY <3>1, <3>2
  <2>2. ASSUME NEW q \in Patches, lock'[q] # NoThread
        PROVE  pc'[lock'[q]] \in Inside /\ job'[lock'[q]] = q
    <3>1. CASE q = p
      BY <2>2, <3>1 DEF Leaves
    <3>2. CASE q # p
      <4>1. lock'[q] = lock[q] /\ lock[q] \in Thread
        BY <1>2, <1>4, <2>2, <3>2
      <4>2. pc[lock[q]] \in Inside /\ job[lock[q]] = q
        BY <1>1, <2>2, <4>1 DEF Locks
      <4>3. lock[q] # t
        BY <3>2, <4>2
      <4> QED
        BY <1>3, <4>1, <4>2, <4>3
    <3> QED
      BY <3>1, <3>2
  <2> QED
    BY <2>1, <2>2 DEF Locks
<1>7. \A q \in Patches : lock'[q] = NoThread => Settled(attr', q)
  <2> SUFFICES ASSUME NEW q \in Patches, lock'[q] = NoThread
               PROVE  Settled(attr', q)
    OBVIOUS
  <2>1. CASE q = p
    BY <2>1 DEF Leaves
  <2>2. CASE q # p
    <3>1. Settled(attr, q)
      BY <1>1, <1>4, <2>2 DEF FreeIsSettled
    <3> QED
      BY <1>4, <2>2, <3>1 DEF Settled, UntouchedIn, CompleteIn
  <2> QED
    BY <2>1, <2>2
<1>8. \A u \in Thread : Knows(attr', job'[u], pc'[u], at'[u], captured'[u])
  <2> SUFFICES ASSUME NEW u \in Thread
               PROVE  Knows(attr', job'[u], pc'[u], at'[u], captured'[u])
    OBVIOUS
  <2>1. CASE u = t
    BY <2>1 DEF Leaves
  <2>2. CASE u # t
    <3>1. /\ pc'[u] = pc[u] /\ job'[u] = job[u]
          /\ at'[u] = at[u] /\ captured'[u] = captured[u]
      BY <1>3, <2>2
    <3>2. CASE pc[u] \in Inside
      <4>1. job[u] \in Patches /\ job[u] # p
        BY <1>2, <1>5, <2>2, <3>2
      <4>2. Knows(attr, job[u], pc[u], at[u], captured[u])
        BY <1>1 DEF Knowledge
      <4>3. Knows(attr', job[u], pc[u], at[u], captured[u])
        BY <1>4, <4>1, <4>2, KnowsOwned
      <4> QED
        BY <3>1, <4>3
    <3>3. CASE pc[u] \notin Inside
      BY <3>1, <3>3 DEF Knows, Inside
    <3> QED
      BY <3>2, <3>3
  <2> QED
    BY <2>1, <2>2
<1>9. registered' =>
          /\ CompleteIn(attr', "attention")
          /\ \A u \in Thread : pc'[u] \in {"patching", "restoring"}
                                   => job'[u] # "attention"
  <2> SUFFICES ASSUME registered'
               PROVE  /\ CompleteIn(attr', "attention")
                      /\ \A u \in Thread : pc'[u] \in {"patching", "restoring"}
                                               => job'[u] # "attention"
    OBVIOUS
  <2>1. "attention" \in Patches /\ "attention" # "runner"
    BY DEF Patches
  <2>2. CASE p = "runner" /\ registered
    <3>1. CompleteIn(attr', "attention")
      BY <1>1, <1>4, <2>1, <2>2 DEF Registration, CompleteIn
    <3>2. ASSUME NEW u \in Thread, pc'[u] \in {"patching", "restoring"}
          PROVE  job'[u] # "attention"
      <4>1. CASE u = t
        BY <2>1, <2>2, <3>2, <4>1 DEF Leaves, Inside
      <4>2. CASE u # t
        BY <1>1, <1>3, <2>2, <3>2, <4>2 DEF Registration
      <4> QED
        BY <4>1, <4>2
    <3> QED
      BY <3>1, <3>2
  <2>3. CASE p = "attention" /\ CompleteIn(attr', "attention")
             /\ pc'[t] \notin {"patching", "restoring"}
    <3>1. ASSUME NEW u \in Thread, pc'[u] \in {"patching", "restoring"}
          PROVE  job'[u] # "attention"
      <4>1. u # t
        BY <2>3, <3>1
      <4>2. pc[u] \in Inside /\ job'[u] = job[u]
        BY <1>3, <3>1, <4>1 DEF Inside
      <4> QED
        BY <1>5, <2>3, <4>1, <4>2
    <3> QED
      BY <2>3, <3>1
  <2> QED
    BY <2>2, <2>3 DEF Leaves
<1>10. UNCHANGED official
  BY DEF StepOf
<1> QED
  BY <1>6, <1>7, <1>8, <1>9, <1>10, Primed

-----------------------------------------------------------------------------
(* The invariant.                                                          *)

(* Nothing is patched at first.                                            *)
LEMMA InitRegistration == Init => RegistrationInv
<1> SUFFICES ASSUME Init PROVE RegistrationInv
  OBVIOUS
<1>1. PICK s \in Snapshots : base = s.base /\ own = s.own /\ attr = s.own
  BY DEF Init
<1>2. s \in Snapshot
  BY RegistrationAssumption
<1>3. /\ s \in [base : [Names -> {Missing, 0}], own : [Names -> {Missing, 0}]]
      /\ s = [base |-> base, own |-> own]
  BY <1>1, <1>2 DEF Snapshot
<1>4. /\ attr = own /\ registered = FALSE
      /\ lock = [p \in Patches |-> NoThread]
      /\ pc = [t \in Thread |-> "idle"]
      /\ job = [t \in Thread |-> "attention"]
      /\ at = [t \in Thread |-> 0]
      /\ captured = [t \in Thread |-> Nowhere]
  BY <1>1 DEF Init
<1>5. own \in [Names -> {Missing, 0}]
  BY <1>1, <1>3
<1>6. Types
  <2>1. attr \in [Names -> Values] /\ Nowhere \in [Names -> Values]
    BY <1>4, <1>5 DEF Values, Nowhere
  <2>2. "attention" \in Patches /\ "idle" \in Places
    BY DEF Patches, Places
  <2> QED
    BY <1>2, <1>3, <1>4, <2>1, <2>2 DEF Types
<1>7. \A p \in Patches : Settled(attr, p)
  BY <1>4 DEF Settled, UntouchedIn
<1>8. \A t \in Thread : pc[t] = "idle"
  BY <1>4
<1>9. Locks
  BY <1>4, <1>8 DEF Locks, Inside
<1>10. FreeIsSettled
  BY <1>7 DEF FreeIsSettled
<1>11. Knowledge
  BY <1>8 DEF Knowledge, Knows
<1>12. Registration
  BY <1>4 DEF Registration
<1> QED
  BY <1>6, <1>9, <1>10, <1>11, <1>12 DEF RegistrationInv

(* What the invariant says of one thread and of its patch.                 *)
LEMMA ThreadFacts ==
    ASSUME RegistrationInv, NEW t \in Thread
    PROVE  /\ Allowlisted
           /\ job[t] \in Patches /\ at[t] \in Nat
           /\ captured[t] \in [Names -> Values]
           /\ lock \in [Patches -> Thread \cup {NoThread}]
           /\ pc \in [Thread -> Places] /\ job \in [Thread -> Patches]
           /\ at \in [Thread -> Nat]
           /\ captured \in [Thread -> [Names -> Values]]
           /\ attr \in [Names -> Values] /\ registered \in BOOLEAN
           /\ [base |-> base, own |-> own] \in Snapshot
           /\ t # NoThread
           /\ Knows(attr, job[t], pc[t], at[t], captured[t])
  BY SnapshotFacts, RegistrationAssumption DEF RegistrationInv, Types, Knowledge

(* A call begins outside the locks.                                        *)
LEMMA CallKeeps ==
    ASSUME RegistrationInv, NEW t \in Thread, NEW p \in Patches, Call(t, p)
    PROVE  RegistrationInv'
<1>1. /\ pc[t] = "idle" /\ pc' = [pc EXCEPT ![t] = "waiting"]
      /\ job' = [job EXCEPT ![t] = p]
      /\ UNCHANGED <<official, attr, registered, lock, at, captured>>
  BY DEF Call, Go
<1>2. Types /\ Locks /\ FreeIsSettled /\ Knowledge /\ Registration
  BY DEF RegistrationInv
<1>3. Types'
  BY <1>1, <1>2 DEF Types, Places, official
<1>4. /\ pc'[t] = "waiting" /\ job'[t] = p
      /\ \A u \in Thread : u # t => pc'[u] = pc[u] /\ job'[u] = job[u]
  BY <1>1, <1>2 DEF Types
<1>5. Locks'
  BY <1>1, <1>2, <1>4 DEF Locks, Inside, Types
<1>6. \A u \in Thread : Knows(attr', job'[u], pc'[u], at'[u], captured'[u])
  <2> SUFFICES ASSUME NEW u \in Thread
               PROVE  Knows(attr', job'[u], pc'[u], at'[u], captured'[u])
    OBVIOUS
  <2>1. CASE u = t
    BY <1>4, <2>1 DEF Knows
  <2>2. CASE u # t
    <3>1. Knows(attr, job[u], pc[u], at[u], captured[u])
      BY <1>2 DEF Knowledge
    <3> QED
      BY <1>1, <1>4, <2>2, <3>1
  <2> QED
    BY <2>1, <2>2
<1>7. \A q \in Patches : lock'[q] = NoThread => Settled(attr', q)
  BY <1>1, <1>2 DEF FreeIsSettled
<1>8. registered' =>
          /\ CompleteIn(attr', "attention")
          /\ \A u \in Thread : pc'[u] \in {"patching", "restoring"}
                                   => job'[u] # "attention"
  BY <1>1, <1>2, <1>4 DEF Registration
<1> QED
  BY <1>1, <1>3, <1>5, <1>6, <1>7, <1>8, Primed

(* The lock is free: its patch is settled.                                 *)
LEMMA EnterKeeps ==
    ASSUME RegistrationInv, NEW t \in Thread, Enter(t)
    PROVE  RegistrationInv'
<1> DEFINE p == job[t]
<1>1. /\ pc[t] = "waiting" /\ lock[p] = NoThread
      /\ lock' = [lock EXCEPT ![p] = t]
      /\ pc' = [pc EXCEPT ![t] = "entered"]
      /\ UNCHANGED <<official, attr, registered, job, at, captured>>
  BY DEF Enter, Go
<1>2. /\ p \in Patches /\ t # NoThread
      /\ lock \in [Patches -> Thread \cup {NoThread}]
      /\ pc \in [Thread -> Places]
  BY ThreadFacts
<1>3. Settled(attr, p)
  BY <1>1, <1>2 DEF RegistrationInv, FreeIsSettled
<1> HIDE DEF p
<1>4. Types'
  BY <1>1, <1>2 DEF RegistrationInv, Types, Places, Inside, official
<1>5. StepOf(t, p)
  BY <1>1, <1>2 DEF StepOf, OthersSame
<1>6. /\ lock'[p] = t /\ pc'[t] = "entered" /\ job'[t] = p
  BY <1>1, <1>2 DEF p
<1>7. registered => p = "runner" \/ CompleteIn(attr, "attention")
  BY DEF RegistrationInv, Registration
<1>8. Leaves(t, p)
  <2>1. Knows(attr', job'[t], pc'[t], at'[t], captured'[t])
    BY <1>1, <1>3, <1>6 DEF Knows
  <2>2. p = "runner" \/ p = "attention"
    BY <1>2 DEF Patches
  <2> QED
    BY <1>1, <1>2, <1>6, <1>7, <2>1, <2>2 DEF Leaves, Inside
<1> QED
  BY <1>1, <1>2, <1>4, <1>5, <1>8, StepKeeps DEF Inside

(* Leaving with the attributes settled, whether the thread raises or not.  *)
LEMMA LeaveKeeps ==
    ASSUME RegistrationInv, NEW t \in Thread, pc[t] \in Inside,
           lock[job[t]] = t, NEW raises \in BOOLEAN, Leave(t, raises),
           attr' = attr, Settled(attr, job[t]), registered' \in BOOLEAN,
           registered' => \/ registered
                          \/ /\ job[t] = "attention"
                             /\ CompleteIn(attr, "attention")
    PROVE  RegistrationInv'
<1> DEFINE p == job[t]
           place == IF raises THEN "stopped" ELSE "idle"
<1>1. /\ lock' = [lock EXCEPT ![p] = NoThread]
      /\ pc' = [pc EXCEPT ![t] = place]
      /\ job' = [job EXCEPT ![t] = "attention"]
      /\ at' = [at EXCEPT ![t] = 0]
      /\ captured' = [captured EXCEPT ![t] = Nowhere]
      /\ UNCHANGED official
  BY DEF Leave, Release, Go
<1>2. /\ p \in Patches /\ t # NoThread
      /\ lock \in [Patches -> Thread \cup {NoThread}]
      /\ pc \in [Thread -> Places] /\ job \in [Thread -> Patches]
      /\ at \in [Thread -> Nat]
      /\ captured \in [Thread -> [Names -> Values]]
      /\ attr \in [Names -> Values]
      /\ [base |-> base, own |-> own] \in Snapshot
  BY ThreadFacts
<1>3. place \in {"stopped", "idle"}
  OBVIOUS
<1> HIDE DEF place, p
<1>4. Types'
  <2>1. "attention" \in Patches /\ Nowhere \in [Names -> Values]
    BY DEF Patches, Nowhere, Values
  <2>2. place \in Places
    BY <1>3 DEF Places
  <2>3. /\ lock' \in [Patches -> Thread \cup {NoThread}]
        /\ pc' \in [Thread -> Places] /\ job' \in [Thread -> Patches]
        /\ at' \in [Thread -> Nat]
        /\ captured' \in [Thread -> [Names -> Values]]
    BY <1>1, <1>2, <2>1, <2>2
  <2>4. ([base |-> base, own |-> own] \in Snapshot)'
    BY <1>1, <1>2 DEF official, Snapshot
  <2> QED
    BY <1>2, <2>3, <2>4 DEF Types, Values
<1>5. StepOf(t, p)
  BY <1>1, <1>2 DEF StepOf, OthersSame
<1>6. lock'[p] = NoThread /\ pc'[t] \in {"stopped", "idle"}
  BY <1>1, <1>2, <1>3
<1>7. Leaves(t, p)
  <2>1. Knows(attr', job'[t], pc'[t], at'[t], captured'[t])
    BY <1>6 DEF Knows
  <2>2. p = "runner" \/ p = "attention"
    BY <1>2 DEF Patches
  <2>3. registered => CompleteIn(attr, "attention")
    BY DEF RegistrationInv, Registration
  <2>4. registered' => \/ p = "runner" /\ registered
                       \/ /\ p = "attention" /\ CompleteIn(attr', "attention")
                          /\ pc'[t] \notin {"patching", "restoring"}
    BY <1>6, <2>2, <2>3 DEF p
  <2> QED
    BY <1>2, <1>6, <2>1, <2>4 DEF Leaves, Inside, p
<1> QED
  BY <1>2, <1>4, <1>5, <1>7, StepKeeps DEF p

(* The attributes are captured: nothing has been assigned.                 *)
LEMMA StartPatchKeeps ==
    ASSUME RegistrationInv, NEW t \in Thread, StartPatch(t)
    PROVE  RegistrationInv'
<1> DEFINE p == job[t]
<1>1. /\ pc[t] = "entered" /\ lock[p] = t /\ ~Done(p) /\ supported[p]
      /\ pc' = [pc EXCEPT ![t] = "patching"]
      /\ at' = [at EXCEPT ![t] = 0]
      /\ captured' = [captured EXCEPT ![t] = attr]
      /\ UNCHANGED <<official, attr, registered, lock, job>>
  BY DEF StartPatch, Go, Holds
<1>2. /\ p \in Patches /\ t # NoThread
      /\ pc \in [Thread -> Places] /\ at \in [Thread -> Nat]
      /\ captured \in [Thread -> [Names -> Values]]
      /\ attr \in [Names -> Values]
      /\ Knows(attr, p, pc[t], at[t], captured[t])
  BY ThreadFacts
<1>3. Settled(attr, p)
  BY <1>1, <1>2 DEF Knows
<1>4. /\ p = "attention" => ~registered
      /\ p = "runner" => attr["runnerMarker"] # 1
  <2>1. Missing # 1
    BY RegistrationAssumption
  <2> QED
    BY <1>1, <2>1 DEF Done, Visible
<1>5. p = "runner" \/ p = "attention"
  BY <1>2 DEF Patches
<1> HIDE DEF p
<1>6. Types'
  <2>1. /\ pc' \in [Thread -> Places] /\ at' \in [Thread -> Nat]
        /\ captured' \in [Thread -> [Names -> Values]]
    BY <1>1, <1>2 DEF Places, Inside
  <2> QED
    BY <1>1, <2>1 DEF RegistrationInv, Types, official
<1>7. StepOf(t, p)
  BY <1>1, <1>2 DEF StepOf, OthersSame
<1>8. /\ pc'[t] = "patching" /\ at'[t] = 0 /\ captured'[t] = attr
      /\ job'[t] = p /\ lock'[p] = t
  BY <1>1, <1>2 DEF p
<1>9. Patched(attr, p, 0, attr)
  <2>1. FirstNames(p, attr, 0) = {}
    BY DEF FirstNames
  <2>2. Len(Assigns(p, attr)) \in Nat
    BY <1>2, AssignedNames
  <2> QED
    BY <1>3, <1>4, <2>1, <2>2 DEF Patched
<1>10. Knows(attr', job'[t], pc'[t], at'[t], captured'[t])
  BY <1>1, <1>8, <1>9 DEF Knows
<1>11. Leaves(t, p)
  BY <1>1, <1>2, <1>4, <1>5, <1>8, <1>10 DEF Leaves, Inside
<1> QED
  BY <1>1, <1>2, <1>6, <1>7, <1>11, StepKeeps DEF p

(* One more attribute is assigned.                                         *)
LEMMA AssignKeeps ==
    ASSUME RegistrationInv, NEW t \in Thread, Assign(t)
    PROVE  RegistrationInv'
<1> DEFINE p == job[t]
           c == captured[t]
           k == at[t]
           script == Assigns(p, c)
           name == script[k + 1]
<1>1. /\ pc[t] = "patching" /\ lock[p] = t /\ k < Len(script)
      /\ attr' = [attr EXCEPT ![name] = Assigned(c, name)]
      /\ at' = [at EXCEPT ![t] = k + 1]
      /\ UNCHANGED <<official, registered, lock, pc, job, captured>>
  BY DEF Assign, Holds, Script
<1>2. /\ p \in Patches /\ t # NoThread /\ k \in Nat /\ Allowlisted
      /\ at \in [Thread -> Nat] /\ attr \in [Names -> Values]
      /\ Knows(attr, p, pc[t], at[t], c)
  BY ThreadFacts
<1>3. Patched(attr, p, k, c)
  BY <1>1, <1>2 DEF Knows
<1>4. /\ Settled(c, p) /\ (p = "runner" => c["runnerMarker"] # 1)
      /\ k \in 0 .. Len(script)
      /\ \A n \in Owned[p] :
             attr[n] = IF n \in FirstNames(p, c, k) THEN Assigned(c, n) ELSE c[n]
  BY <1>3 DEF Patched
<1>5. /\ script \in Seq(Owned[p]) /\ Len(script) \in Nat
      /\ k + 1 \in 1 .. Len(script)
  BY <1>1, <1>2, AssignedNames
<1>6. Occurs(name, script)
  BY <1>5 DEF Occurs
<1>7. name \in Owned[p] /\ Assigned(c, name) \in {0, 1}
  BY <1>2, <1>4, <1>6, AssignedValues
<1>8. name \in Names /\ attr' \in [Names -> Values]
  BY <1>1, <1>2, <1>7, OwnedNames DEF Values
<1>9. \A n : n \in FirstNames(p, c, k + 1) <=> n \in FirstNames(p, c, k) \/ n = name
  <2> HIDE DEF k, script
  <2>1. 1 .. k + 1 = (1 .. k) \cup {k + 1}
    BY <1>2
  <2>2. \A j : FirstNames(p, c, j) = {script[i] : i \in 1 .. j}
    BY DEF FirstNames, script
  <2>3. {script[i] : i \in (1 .. k) \cup {k + 1}}
            = {script[i] : i \in 1 .. k} \cup {name}
    OBVIOUS
  <2>4. FirstNames(p, c, k + 1) = FirstNames(p, c, k) \cup {name}
    BY <2>1, <2>2, <2>3
  <2> QED
    BY <2>4
<1>10. \A n \in Names : attr'[n] = IF n = name THEN Assigned(c, name) ELSE attr[n]
  BY <1>1, <1>2
<1> HIDE DEF name, script, k, c
<1>11. Patched(attr', p, k + 1, c)
  <2>1. k + 1 \in 0 .. Len(Assigns(p, c))
    BY <1>2, <1>5 DEF script
  <2>2. ASSUME NEW n \in Owned[p]
        PROVE  attr'[n] = IF n \in FirstNames(p, c, k + 1) THEN Assigned(c, n)
                          ELSE c[n]
    <3>1. n \in Names
      BY <1>2, OwnedNames
    <3> QED
      BY <1>4, <1>9, <1>10, <3>1
  <2> QED
    BY <1>4, <2>1, <2>2 DEF Patched
<1>12. StepOf(t, p)
  <2>1. \A q \in Patches : q # p => Owned[q] \cap Owned[p] = {}
    BY <1>2, OwnedNames DEF Patches
  <2>2. \A q \in Patches : q # p => \A n \in Owned[q] : attr'[n] = attr[n]
    BY <1>7, <1>10, <2>1, OwnedNames
  <2> QED
    BY <1>1, <1>2, <2>2 DEF StepOf, OthersSame
<1>13. Types'
  <2>1. at' \in [Thread -> Nat]
    BY <1>1, <1>2
  <2> QED
    BY <1>1, <1>8, <2>1 DEF RegistrationInv, Types, official
<1>14. Leaves(t, p)
  <2>1. /\ at'[t] = k + 1 /\ captured'[t] = c /\ job'[t] = p
        /\ pc'[t] = "patching"
    BY <1>1, <1>2 DEF c
  <2>2. Knows(attr', job'[t], pc'[t], at'[t], captured'[t])
    BY <1>11, <2>1 DEF Knows
  <2>3. p = "runner" \/ (p = "attention" /\ ~registered)
    BY <1>1, <1>2 DEF RegistrationInv, Registration, Patches
  <2> QED
    BY <1>1, <1>2, <2>1, <2>2, <2>3 DEF Leaves, Inside
<1> QED
  BY <1>1, <1>2, <1>12, <1>13, <1>14, StepKeeps DEF Inside

(* After the last one the patch is complete.                               *)
LEMMA FinishKeeps ==
    ASSUME RegistrationInv, NEW t \in Thread, Finish(t)
    PROVE  RegistrationInv'
<1> DEFINE p == job[t]
           c == captured[t]
<1>1. /\ pc[t] = "patching" /\ lock[p] = t /\ at[t] = Len(Assigns(p, c))
      /\ registered' = (registered \/ p = "attention")
      /\ Leave(t, FALSE) /\ attr' = attr
  BY DEF Finish, Holds, Script
<1>2. /\ p \in Patches /\ Allowlisted /\ registered \in BOOLEAN
      /\ Knows(attr, p, pc[t], at[t], c)
  BY ThreadFacts
<1>3. Patched(attr, p, Len(Assigns(p, c)), c)
  BY <1>1, <1>2 DEF Knows
<1>4. CompleteIn(attr, p)
  BY <1>2, <1>3, LastCompletes
<1> QED
  BY <1>1, <1>2, <1>4, LeaveKeeps DEF Inside, Settled

(* An assignment raises: nothing is put back yet.                          *)
LEMMA AssignRaisesKeeps ==
    ASSUME RegistrationInv, NEW t \in Thread, AssignRaises(t)
    PROVE  RegistrationInv'
<1> DEFINE p == job[t]
           c == captured[t]
           k == Len(Captured[p])
<1>1. /\ pc[t] = "patching" /\ lock[p] = t
      /\ pc' = [pc EXCEPT ![t] = "restoring"]
      /\ at' = [at EXCEPT ![t] = k]
      /\ UNCHANGED <<official, attr, registered, lock, job, captured>>
  BY DEF AssignRaises, Holds, Go
<1>2. /\ p \in Patches /\ t # NoThread
      /\ pc \in [Thread -> Places] /\ at \in [Thread -> Nat]
      /\ Knows(attr, p, pc[t], at[t], c)
  BY ThreadFacts
<1>3. Settled(c, p)
  BY <1>1, <1>2 DEF Knows, Patched
<1>4. k \in Nat
  BY <1>2, CapturedNames
<1>5. Restored(attr, p, k, c)
  BY <1>3, <1>4 DEF Restored
<1> HIDE DEF k, c
<1>6. Types'
  <2>1. at' \in [Thread -> Nat] /\ pc' \in [Thread -> Places]
    BY <1>1, <1>2, <1>4 DEF Places, Inside
  <2> QED
    BY <1>1, <2>1 DEF RegistrationInv, Types, official
<1>7. StepOf(t, p)
  BY <1>1, <1>2 DEF StepOf, OthersSame
<1>8. Leaves(t, p)
  <2>1. /\ at'[t] = k /\ captured'[t] = c /\ job'[t] = p
        /\ pc'[t] = "restoring"
    BY <1>1, <1>2 DEF c
  <2>2. Knows(attr', job'[t], pc'[t], at'[t], captured'[t])
    BY <1>1, <1>5, <2>1 DEF Knows
  <2>3. p = "runner" \/ (p = "attention" /\ ~registered)
    BY <1>1, <1>2 DEF RegistrationInv, Registration, Patches
  <2> QED
    BY <1>1, <1>2, <2>1, <2>2, <2>3 DEF Leaves, Inside
<1> QED
  BY <1>1, <1>2, <1>6, <1>7, <1>8, StepKeeps DEF Inside

(* One attribute is put back.                                              *)
LEMMA RestoreKeeps ==
    ASSUME RegistrationInv, NEW t \in Thread, Restore(t)
    PROVE  RegistrationInv'
<1> DEFINE p == job[t]
           c == captured[t]
           k == at[t]
           name == Captured[p][k]
<1>1. /\ pc[t] = "restoring" /\ lock[p] = t /\ k > 0
      /\ attr' = [attr EXCEPT ![name] = c[name]]
      /\ at' = [at EXCEPT ![t] = k - 1]
      /\ UNCHANGED <<official, registered, lock, pc, job, captured>>
  BY DEF Restore, Holds
<1>2. /\ p \in Patches /\ t # NoThread /\ k \in Nat
      /\ c \in [Names -> Values]
      /\ at \in [Thread -> Nat] /\ attr \in [Names -> Values]
      /\ Knows(attr, p, pc[t], at[t], c)
  BY ThreadFacts
<1>3. Restored(attr, p, k, c)
  BY <1>1, <1>2 DEF Knows
<1>4. /\ Settled(c, p) /\ k \in 0 .. Len(Captured[p])
      /\ \A i \in k + 1 .. Len(Captured[p]) :
             attr[Captured[p][i]] = c[Captured[p][i]]
  BY <1>3 DEF Restored
<1>5. /\ Len(Captured[p]) \in Nat
      /\ \A i \in 1 .. Len(Captured[p]) :
             Captured[p][i] \in Owned[p] /\ Captured[p][i] \in Names
  BY <1>2, CapturedNames, OwnedNames
<1>6. name \in Owned[p] /\ name \in Names
  BY <1>1, <1>2, <1>4, <1>5
<1>7. attr' \in [Names -> Values]
  BY <1>1, <1>2, <1>6
<1>8. \A n \in Names : attr'[n] = IF n = name THEN c[name] ELSE attr[n]
  BY <1>1, <1>2
<1>9. Restored(attr', p, k - 1, c)
  <2>1. k - 1 \in 0 .. Len(Captured[p])
    BY <1>1, <1>2, <1>4, <1>5
  <2>2. ASSUME NEW i \in (k - 1) + 1 .. Len(Captured[p])
        PROVE  attr'[Captured[p][i]] = c[Captured[p][i]]
    <3>1. i = k \/ i \in k + 1 .. Len(Captured[p])
      BY <1>2, <1>5
    <3>2. Captured[p][i] \in Names
      BY <1>1, <1>2, <1>5
    <3> QED
      BY <1>4, <1>8, <3>1, <3>2
  <2> QED
    BY <1>4, <2>1, <2>2 DEF Restored
<1> HIDE DEF name, k, c
<1>10. StepOf(t, p)
  <2>1. \A q \in Patches : q # p => Owned[q] \cap Owned[p] = {}
    BY <1>2, OwnedNames DEF Patches
  <2>2. \A q \in Patches : q # p => \A n \in Owned[q] : attr'[n] = attr[n]
    BY <1>6, <1>8, <2>1, OwnedNames
  <2> QED
    BY <1>1, <1>2, <2>2 DEF StepOf, OthersSame
<1>11. Types'
  <2>1. at' \in [Thread -> Nat]
    BY <1>1, <1>2
  <2> QED
    BY <1>1, <1>7, <2>1 DEF RegistrationInv, Types, official
<1>12. Leaves(t, p)
  <2>1. /\ at'[t] = k - 1 /\ captured'[t] = c /\ job'[t] = p
        /\ pc'[t] = "restoring"
    BY <1>1, <1>2 DEF c
  <2>2. Knows(attr', job'[t], pc'[t], at'[t], captured'[t])
    BY <1>9, <2>1 DEF Knows
  <2>3. p = "runner" \/ (p = "attention" /\ ~registered)
    BY <1>1, <1>2 DEF RegistrationInv, Registration, Patches
  <2> QED
    BY <1>1, <1>2, <2>1, <2>2, <2>3 DEF Leaves, Inside
<1> QED
  BY <1>1, <1>2, <1>10, <1>11, <1>12, StepKeeps DEF Inside

(* Everything is put back: the patch is as it was found.                   *)
LEMMA FailPatchKeeps ==
    ASSUME RegistrationInv, NEW t \in Thread, FailPatch(t)
    PROVE  RegistrationInv'
<1> DEFINE p == job[t]
           c == captured[t]
<1>1. /\ pc[t] = "restoring" /\ lock[p] = t /\ at[t] = 0
      /\ Leave(t, p = "runner" \/ strict["attention"])
      /\ attr' = attr /\ registered' = registered
  BY DEF FailPatch, Holds
<1>2. /\ p \in Patches /\ registered \in BOOLEAN
      /\ Knows(attr, p, pc[t], at[t], c)
  BY ThreadFacts
<1>3. Settled(c, p) /\ \A n \in Owned[p] : attr[n] = c[n]
  <2>1. Restored(attr, p, 0, c)
    BY <1>1, <1>2 DEF Knows
  <2>2. /\ Settled(c, p)
        /\ \A i \in 1 .. Len(Captured[p]) : attr[Captured[p][i]] = c[Captured[p][i]]
    BY <2>1 DEF Restored
  <2> QED
    BY <1>2, <2>2, CapturedNames
<1>4. Settled(attr, p)
  BY <1>3 DEF Settled, UntouchedIn, CompleteIn
<1>5. ASSUME NEW raises, Leave(t, raises)
      PROVE  Leave(t, raises = TRUE)
  BY <1>5 DEF Leave
<1>6. \E raises \in BOOLEAN : Leave(t, raises)
  BY <1>1, <1>5
<1> QED
  BY <1>1, <1>2, <1>4, <1>6, LeaveKeeps DEF Inside

(* Returning at once, or rejected: nothing was assigned.                   *)
LEMMA EarlyLeaveKeeps ==
    ASSUME RegistrationInv, NEW t \in Thread,
           AlreadyDone(t) \/ RejectAttention(t) \/ RejectRunner(t)
    PROVE  RegistrationInv'
<1> DEFINE p == job[t]
<1>1. /\ pc[t] = "entered" /\ lock[p] = t
      /\ \E raises : Leave(t, raises)
      /\ attr' = attr /\ registered' = registered
  BY DEF AlreadyDone, RejectAttention, RejectRunner, Holds
<1>2. /\ p \in Patches /\ registered \in BOOLEAN
      /\ Knows(attr, p, pc[t], at[t], captured[t])
  BY ThreadFacts
<1>3. Settled(attr, p)
  BY <1>1, <1>2 DEF Knows
<1>4. \E raises \in BOOLEAN : Leave(t, raises)
  <2>1. ASSUME NEW raises, Leave(t, raises)
        PROVE  Leave(t, TRUE) \/ Leave(t, FALSE)
    BY <2>1 DEF Leave
  <2> QED
    BY <1>1, <2>1
<1> QED
  BY <1>1, <1>2, <1>3, <1>4, LeaveKeeps DEF Inside

(* A second copy of the plugin starts with nobody inside a patch.          *)
LEMMA ReloadKeeps ==
    ASSUME RegistrationInv, Reload
    PROVE  RegistrationInv'
<1>1. /\ registered' = FALSE
      /\ UNCHANGED <<official, attr, lock, pc, job, at, captured>>
  BY DEF Reload
<1>2. Types /\ Locks /\ FreeIsSettled /\ Knowledge
  BY DEF RegistrationInv
<1>3. Types' /\ Locks'
  BY <1>1, <1>2 DEF Types, Locks, official
<1>4. /\ \A q \in Patches : lock'[q] = NoThread => Settled(attr', q)
      /\ \A u \in Thread : Knows(attr', job'[u], pc'[u], at'[u], captured'[u])
  BY <1>1, <1>2 DEF FreeIsSettled, Knowledge
<1> QED
  BY <1>1, <1>3, <1>4, Primed

LEMMA NextRegistration == RegistrationInv /\ [Next]_vars => RegistrationInv'
<1> SUFFICES ASSUME RegistrationInv, [Next]_vars PROVE RegistrationInv'
  OBVIOUS
<1>1. ASSUME NEW t \in Thread, Register(t) \/ ConstructBackend(t)
      PROVE  RegistrationInv'
  BY <1>1, CallKeeps DEF Register, ConstructBackend, Patches
<1>2. ASSUME NEW t \in Thread, Step(t)
      PROVE  RegistrationInv'
  BY <1>2, EnterKeeps, EarlyLeaveKeeps, StartPatchKeeps, AssignKeeps,
     FinishKeeps, AssignRaisesKeeps, RestoreKeeps, FailPatchKeeps DEF Step
<1>3. CASE Reload
  BY <1>3, ReloadKeeps
<1>4. CASE UNCHANGED vars
  <2>1. UNCHANGED <<official, attr, registered, lock, pc, job, at, captured>>
    BY <1>4 DEF vars, official
  <2>2. /\ Types /\ Locks /\ FreeIsSettled /\ Knowledge /\ Registration
    BY DEF RegistrationInv
  <2>3. Types' /\ Locks'
    BY <2>1, <2>2 DEF Types, Locks, official
  <2>4. /\ \A q \in Patches : lock'[q] = NoThread => Settled(attr', q)
        /\ \A u \in Thread : Knows(attr', job'[u], pc'[u], at'[u], captured'[u])
        /\ registered' =>
               /\ CompleteIn(attr', "attention")
               /\ \A u \in Thread : pc'[u] \in {"patching", "restoring"}
                                        => job'[u] # "attention"
    BY <2>1, <2>2 DEF FreeIsSettled, Knowledge, Registration
  <2> QED
    BY <2>1, <2>3, <2>4, Primed
<1> QED
  BY <1>1, <1>2, <1>3, <1>4 DEF Next

LEMMA RegistrationInvariant == Spec => []RegistrationInv
  BY InitRegistration, NextRegistration, PTL DEF Spec

(* What the invariant says of the properties.                              *)
LEMMA RegistrationImplies == RegistrationInv => AllOrNothing /\ WrappedOnce
<1> SUFFICES ASSUME RegistrationInv PROVE AllOrNothing /\ WrappedOnce
  OBVIOUS
<1>1. \A p \in Patches : /\ Untouched(p) <=> UntouchedIn(attr, p)
                         /\ Complete(p) <=> CompleteIn(attr, p)
  BY DEF Untouched, UntouchedIn, Complete, CompleteIn, CompleteValue
<1>2. AllOrNothing
  BY <1>1 DEF AllOrNothing, RegistrationInv, FreeIsSettled, Registration,
              Settled, Patches
<1>3. WrappedOnce
  BY DEF WrappedOnce, RegistrationInv, Types, Values
<1> QED
  BY <1>2, <1>3

-----------------------------------------------------------------------------
(* Whatever raises, is tried again by any thread or comes from a second    *)
(* copy of the module: outside the locks the patches of                    *)
(* _patch_attention_module and _patch_model_runner_module are complete or  *)
(* leave no trace.                                                         *)
THEOREM PatchesAllOrNothing == Spec => []AllOrNothing
  BY RegistrationInvariant, RegistrationImplies, PTL

(* The markers and the locks keep every function from being wrapped twice. *)
THEOREM NeverWrappedTwice == Spec => []WrappedOnce
  BY RegistrationInvariant, RegistrationImplies, PTL
=============================================================================
