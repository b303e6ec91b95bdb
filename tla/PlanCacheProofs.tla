----------------------------- MODULE PlanCacheProofs ----------------------------
(***************************************************************************)
(* The plan a layer launches with, for any number of metadata objects,     *)
(* addresses and scheduler steps and side stores of any capacity.          *)
(***************************************************************************)
EXTENDS PlanCache, FunctionTheorems, FiniteSetTheorems, SequenceTheorems, TLAPS

Cores == Core \cup {"none"}
Prompts == Prompt \cup {NoPrompt}

Entry ==
    [plan : Nat \ {0}, core : Cores,
     source : {"metadata", "runner", "common", "missing"},
     fingerprint : [gen : Nat, step : Nat, core : Cores, values : Prompts]]

Object ==
    [ident : Nat, core : Cores, official : Prompts, gen : Nat,
     entry : Entry \cup {NoEntry}, runner : Prompts, runnerStep : Nat,
     graph : BOOLEAN, born : Nat, built : Cores \X Prompts, forGraph : BOOLEAN]

Step ==
    [number : Nat, core : Cores, prompt : Prompts, common : Prompts,
     candidate : Prompts, graph : BOOLEAN, leaves : SUBSET Addr,
     failed : BOOLEAN]

Item == [addr : Addr, ident : Nat, entry : Entry]
GraphItem == [addr : Addr, ident : Nat]

TypeOK ==
    /\ kind \in Kinds /\ patched \in BOOLEAN
    /\ heap \in [Addr -> Object]
    /\ items \in Seq(Item) /\ graphItems \in Seq(GraphItem)
    /\ pc \in {"idle", "build", "attach", "layers", "raised"}
    /\ step \in Step
    /\ todo \in SUBSET step.leaves
    /\ next \in [ident : Nat \ {0}, gen : Nat \ {0}, step : Nat \ {0},
                 plan : Nat \ {0}]
    /\ layers \in Nat
    /\ used # NoUse =>
           used \in [leaf : Addr, entry : Entry, capturing : BOOLEAN,
                     launched : BOOLEAN]
    /\ recorded \in [Addr -> SUBSET Nat]

(* A side store has one item per address, and never too many.              *)
Store(store) ==
    /\ Len(store) <= Capacity
    /\ \A i, j \in 1 .. Len(store) :
           store[i].addr = store[j].addr => i = j

(* What an entry says of itself.                                           *)
Sound(entry) ==
    /\ entry.fingerprint.core = entry.core
    /\ entry.source = "missing" => PlanPrompt(entry) = NoPrompt
    /\ entry.source = "common" => entry.fingerprint.gen # 0

(* The scheduler step and its phases.                                      *)
Phases ==
    /\ pc = "idle" => step = NoStep(step.number)
    /\ pc # "build" /\ pc # "raised" => todo = {}
    /\ pc # "idle" =>
           /\ step.core \in Core /\ step.prompt \in Prompt
           /\ {step.common, step.candidate} \subseteq {NoPrompt, step.prompt}
           /\ step.candidate # NoPrompt => patched
    /\ pc \notin {"layers", "raised"} =>
           used = NoUse /\ recorded = [a \in Addr |-> {}]
    /\ \A a \in Addr : recorded[a] # {} => a \in step.leaves

(* An object has only the attributes its class accepts; only the patched   *)
(* runner attaches prompts; a plan made from common metadata is that of    *)
(* the object's last build.                                                *)
Objects ==
    \A a \in Addr :
        /\ heap[a].ident < next.ident
        /\ heap[a].born <= step.number
        /\ a \in todo => heap[a].born < step.number
        /\ kind # "open" => heap[a].gen = 0 /\ heap[a].entry = NoEntry
        /\ kind # "open" \/ ~patched => heap[a].runner = NoPrompt
        /\ heap[a].entry # NoEntry =>
              /\ Sound(heap[a].entry)
              /\ heap[a].entry.source = "common" =>
                     /\ heap[a].entry.core = heap[a].built[1]
                     /\ PlanPrompt(heap[a].entry) = heap[a].built[2]
        /\ heap[a].graph => heap[a].forGraph

(* Plans in the side store know no common metadata; graph marks are of     *)
(* objects built for capture.                                              *)
Items ==
    /\ Store(items) /\ Store(graphItems)
    /\ \A i \in 1 .. Len(items) :
           Sound(items[i].entry) /\ items[i].entry.source # "common"
    /\ \A i \in 1 .. Len(graphItems) :
           LET item == graphItems[i]
           IN  /\ item.ident < next.ident
               /\ item.ident = heap[item.addr].ident =>
                      heap[item.addr].forGraph

(* The objects of the step that are built hold its lengths, and after the  *)
(* wrapper no prompt but its own.                                          *)
Leaves ==
    pc # "idle" => \A a \in step.leaves \ todo :
        /\ heap[a].core = step.core
        /\ heap[a].official \in {NoPrompt, step.prompt}
        /\ heap[a].built[1] = step.core => heap[a].built[2] = step.prompt
        /\ pc = "layers" =>
              /\ heap[a].runner \in {NoPrompt, step.prompt}
              /\ kind = "open" /\ step.candidate # NoPrompt =>
                     /\ heap[a].runner = step.prompt
                     /\ heap[a].runnerStep > 0

(* An object new in this step, of which only the common metadata tells the *)
(* prompt, keeps the plan its build made from it.                          *)
CommonKept ==
    pc \in {"build", "attach", "layers"} /\ kind = "open" /\ ~step.failed
        /\ step.common # NoPrompt /\ step.candidate = NoPrompt =>
        \A a \in step.leaves \ todo :
            heap[a].born = step.number /\ heap[a].official = NoPrompt =>
                /\ heap[a].runner = NoPrompt
                /\ heap[a].gen # 0
                /\ heap[a].entry # NoEntry
                /\ heap[a].entry.source = "common"
                /\ heap[a].entry.fingerprint =
                       Fingerprint(heap[a], step.prompt, heap[a].gen, 0)

(* From position k on, the addresses of a store are in L.                  *)
TailIn(store, k, L) == \A j \in k .. Len(store) : store[j].addr \in L

(* What a layer has recorded for an object is the plan the next layer will *)
(* reuse; in a side store no object of another step has come after it.     *)
Recent(a) ==
    \E k \in 1 .. Len(items) :
        items[k].addr = a /\ TailIn(items, k, step.leaves)

OneEntry ==
    pc = "layers" /\ ~step.failed
        /\ (kind = "open" \/ Cardinality(step.leaves) <= Capacity) =>
        \A a \in Addr : recorded[a] # {} =>
            /\ recorded[a] = {Cached(a).plan}
            /\ Cached(a) # NoEntry /\ Reusable(a, Cached(a))
            /\ IF kind = "open" THEN heap[a].entry # NoEntry
               ELSE Matches(items, a) /\ Recent(a)

CacheInv ==
    /\ TypeOK /\ Phases /\ Objects /\ Items /\ Leaves /\ CommonKept
    /\ OneEntry
    /\ LaunchFresh /\ KnownPromptUsed /\ CaptureIsReal /\ OnePlanPerStep

-----------------------------------------------------------------------------
(* The side stores.                                                        *)

Unique(store) ==
    \A i, j \in 1 .. Len(store) : store[i].addr = store[j].addr => i = j

(* A held entry has a place in the order of the cache.                     *)
LEMMA PlaceOfHeld ==
    ASSUME NEW store, NEW a, Held(store, a)
    PROVE  Place(store, a) \in 1 .. Len(store) /\ store[Place(store, a)].addr = a
  BY DEF Held, Place

(* Taking an item out keeps the others in their order.                     *)
LEMMA WithoutItems ==
    ASSUME NEW S, NEW store \in Seq(S), NEW a
    PROVE  LET w == Without(store, a)
               p == Place(store, a)
           IN  /\ w \in Seq(S)
               /\ Held(store, a) =>
                     /\ Len(w) = Len(store) - 1
                     /\ \A i \in 1 .. Len(w) :
                            w[i] = IF i < p THEN store[i] ELSE store[i + 1]
               /\ ~Held(store, a) => w = store
<1> DEFINE w == Without(store, a)
           p == Place(store, a)
           left == SubSeq(store, 1, p - 1)
           right == SubSeq(store, p + 1, Len(store))
<1>1. CASE ~Held(store, a)
  BY <1>1 DEF Without
<1>2. CASE Held(store, a)
  <2>1. p \in 1 .. Len(store) /\ Len(store) \in Nat
    BY <1>2, PlaceOfHeld
  <2>2. \A i \in 1 .. Len(store) : store[i] \in S
    BY ElementOfSeq
  <2>3. /\ left \in Seq(S) /\ Len(left) = p - 1
        /\ \A i \in 1 .. p - 1 : left[i] = store[i]
    <3>1. \A i \in 1 .. p - 1 : store[i] \in S
      BY <2>1, <2>2
    <3> QED
      BY <2>1, <3>1, SubSeqProperties, 1 \in Int, p - 1 \in Int
  <2>4. /\ right \in Seq(S) /\ Len(right) = Len(store) - p
        /\ \A i \in 1 .. Len(store) - p : right[i] = store[p + i]
    <3>1. \A i \in p + 1 .. Len(store) : store[i] \in S
      BY <2>1, <2>2
    <3>2. /\ right \in Seq(S)
          /\ Len(right) = IF p + 1 <= Len(store) THEN Len(store) - (p + 1) + 1 ELSE 0
          /\ \A i \in 1 .. Len(store) - (p + 1) + 1 :
                right[i] = store[(p + 1) + i - 1]
      BY <2>1, <3>1, SubSeqProperties, p + 1 \in Int, Len(store) \in Int
    <3> QED
      BY <2>1, <3>2
  <2>5. w = left \o right
    BY <1>2 DEF Without
  <2> HIDE DEF w, left, right, p
  <2>6. /\ w \in Seq(S) /\ Len(w) = Len(left) + Len(right)
        /\ \A i \in 1 .. Len(left) + Len(right) :
              w[i] = IF i <= Len(left) THEN left[i] ELSE right[i - Len(left)]
    BY <2>3, <2>4, <2>5, ConcatProperties
  <2>7. Len(w) = Len(store) - 1
    BY <2>1, <2>3, <2>4, <2>6
  <2>8. ASSUME NEW i \in 1 .. Len(w)
        PROVE  w[i] = IF i < p THEN store[i] ELSE store[i + 1]
    <3>1. CASE i < p
      <4>1. i \in 1 .. p - 1 /\ i \in 1 .. Len(left) + Len(right) /\ i <= Len(left)
        BY <3>1, <2>1, <2>3, <2>4, <2>7
      <4> QED
        BY <4>1, <3>1, <2>3, <2>6
    <3>2. CASE p <= i
      <4>1. w[i] = right[i - (p - 1)] /\ i - (p - 1) \in 1 .. Len(store) - p
        BY <3>2, <2>1, <2>3, <2>4, <2>6, <2>7
      <4> QED
        BY <4>1, <3>2, <2>1, <2>4
    <3> QED
      BY <3>1, <3>2, <2>1
  <2> QED
    BY <1>2, <2>6, <2>7, <2>8 DEF w, p
<1> QED
  BY <1>1, <1>2

(* The item put at the end in place of the one at its address.             *)
Renewed(store, item) == Append(Without(store, item.addr), item)

(* What taking the item at an address out and putting one at the end does. *)
AsRenewed(S, store, item, r) ==
    /\ r \in Seq(S)
    /\ Len(r) \in 1 .. Len(store) + 1
    /\ Held(store, item.addr) => Len(r) = Len(store)
    /\ Unique(r)
    /\ r[Len(r)] = item
    /\ \A i \in 1 .. Len(r) - 1 :
           /\ r[i].addr # item.addr
           /\ \E j \in 1 .. Len(store) : r[i] = store[j]
    /\ \A k \in 1 .. Len(store) : \A L :
           item.addr \in L /\ store[k].addr # item.addr
               /\ TailIn(store, k, L) =>
           \E l \in 1 .. Len(r) : r[l] = store[k] /\ TailIn(r, l, L)

(* Renewing an entry: the others keep their order before it.               *)
LEMMA RenewedItems ==
    ASSUME NEW S, NEW store \in Seq(S), NEW item \in S, Unique(store)
    PROVE  AsRenewed(S, store, item, Renewed(store, item))
<1> DEFINE a == item.addr
           r == Renewed(store, item)
           w == Without(store, a)
           p == Place(store, a)
<1>1. /\ w \in Seq(S)
      /\ Held(store, a) =>
            /\ Len(w) = Len(store) - 1
            /\ \A i \in 1 .. Len(w) :
                   w[i] = IF i < p THEN store[i] ELSE store[i + 1]
      /\ ~Held(store, a) => w = store
  BY WithoutItems
<1>2. Held(store, a) => p \in 1 .. Len(store) /\ store[p].addr = a
  BY PlaceOfHeld
<1>3. Len(store) \in Nat /\ Len(w) \in Nat
  BY <1>1, LenProperties
<1>4. r = Append(w, item)
  BY DEF Renewed
<1> HIDE DEF w, p, a, r
<1>5. /\ r \in Seq(S) /\ Len(r) = Len(w) + 1
      /\ \A i \in 1 .. Len(w) : r[i] = w[i]
      /\ r[Len(w) + 1] = item
  BY <1>1, <1>4, AppendProperties
<1>6. ASSUME NEW i \in 1 .. Len(w)
      PROVE  \E j \in 1 .. Len(store) :
                 /\ w[i] = store[j] /\ w[i].addr # a
                 /\ j = IF Held(store, a) /\ i >= p THEN i + 1 ELSE i
  <2>1. CASE Held(store, a)
    <3> DEFINE j == IF i < p THEN i ELSE i + 1
    <3>1. j \in 1 .. Len(store) /\ j # p /\ w[i] = store[j]
      BY <2>1, <1>1, <1>2, <1>3
    <3>2. store[j].addr # a
      BY <2>1, <3>1, <1>2 DEF Unique
    <3> QED
      BY <2>1, <3>1, <3>2, <1>2, <1>3
  <2>2. CASE ~Held(store, a)
    BY <2>2, <1>1 DEF Held
  <2> QED
    BY <2>1, <2>2
<1>7. Len(r) \in 1 .. Len(store) + 1 /\ (Held(store, a) => Len(r) = Len(store))
  BY <1>1, <1>2, <1>3, <1>5
<1>8. \A i \in 1 .. Len(r) - 1 :
          r[i].addr # a /\ \E j \in 1 .. Len(store) : r[i] = store[j]
  BY <1>3, <1>5, <1>6
<1>9. Unique(r)
  <2> SUFFICES ASSUME NEW i \in 1 .. Len(r), NEW j \in 1 .. Len(r),
                      r[i].addr = r[j].addr, i < j
               PROVE  FALSE
    BY <1>3, <1>5 DEF Unique
  <2>1. CASE j = Len(r)
    BY <2>1, <1>3, <1>5, <1>8 DEF a
  <2>2. CASE j < Len(r)
    <3>1. i \in 1 .. Len(w) /\ j \in 1 .. Len(w)
      BY <2>2, <1>3, <1>5
    <3>2. PICK ki \in 1 .. Len(store) :
              /\ w[i] = store[ki]
              /\ ki = IF Held(store, a) /\ i >= p THEN i + 1 ELSE i
      BY <3>1, <1>6
    <3>3. PICK kj \in 1 .. Len(store) :
              /\ w[j] = store[kj]
              /\ kj = IF Held(store, a) /\ j >= p THEN j + 1 ELSE j
      BY <3>1, <1>6
    <3>4. store[ki].addr = store[kj].addr
      BY <3>1, <3>2, <3>3, <1>5
    <3>5. ki < kj
      BY <3>2, <3>3, <1>2
    <3> QED
      BY <3>4, <3>5 DEF Unique
  <2> QED
    BY <2>1, <2>2, <1>3, <1>5
<1>10. ASSUME NEW k \in 1 .. Len(store), NEW L, a \in L, store[k].addr # a,
              TailIn(store, k, L)
       PROVE  \E l \in 1 .. Len(r) : r[l] = store[k] /\ TailIn(r, l, L)
  <2> DEFINE l == IF Held(store, a) /\ k > p THEN k - 1 ELSE k
  <2>1. /\ l \in 1 .. Len(w) /\ w[l] = store[k]
    <3>1. CASE Held(store, a)
      <4>1. k # p
        BY <3>1, <1>2, <1>10
      <4> QED
        BY <3>1, <4>1, <1>1, <1>2, <1>3
    <3>2. CASE ~Held(store, a)
      BY <3>2, <1>1
    <3> QED
      BY <3>1, <3>2
  <2>2. ASSUME NEW i \in l .. Len(r)
        PROVE  r[i].addr \in L
    <3>1. CASE i = Len(r)
      BY <3>1, <1>3, <1>5, <1>10 DEF a
    <3>2. CASE i < Len(r)
      <4>1. i \in 1 .. Len(w)
        BY <3>2, <2>1, <1>3, <1>5
      <4>2. PICK j \in 1 .. Len(store) :
                /\ w[i] = store[j]
                /\ j = IF Held(store, a) /\ i >= p THEN i + 1 ELSE i
        BY <4>1, <1>6
      <4>3. j \in k .. Len(store)
        BY <4>2, <2>1, <1>2
      <4> QED
        BY <4>1, <4>2, <4>3, <1>5, <1>10 DEF TailIn
    <3> QED
      BY <3>1, <3>2, <2>1, <1>3, <1>5
  <2> QED
    BY <2>1, <2>2, <1>3, <1>5 DEF TailIn
<1> QED
  BY <1>5, <1>7, <1>8, <1>9, <1>10, <1>3 DEF a, r, AsRenewed

(* Distinct addresses of a set are no more than the set has.               *)
LEMMA StoreWithin ==
    ASSUME NEW S, NEW store \in Seq(S), Unique(store),
           NEW L, IsFiniteSet(L), TailIn(store, 1, L)
    PROVE  Len(store) <= Cardinality(L)
<1> DEFINE f == [i \in 1 .. Len(store) |-> store[i].addr]
<1>1. Len(store) \in Nat
  BY LenProperties
<1>2. f \in Injection(1 .. Len(store), L)
  <2>1. f \in [1 .. Len(store) -> L]
    BY DEF TailIn
  <2>2. \A i, j \in 1 .. Len(store) : f[i] = f[j] => i = j
    BY DEF Unique
  <2> QED
    BY <2>1, <2>2 DEF Injection, IsInjective
<1>3. Cardinality(1 .. Len(store)) <= Cardinality(L)
  BY <1>2, FS_Injection
<1>4. Cardinality(1 .. Len(store)) = Len(store)
  <2> DEFINE n == Len(store)
  <2>1. n \in Nat
    BY <1>1
  <2> HIDE DEF n
  <2>2. n \in Int /\ 1 \in Int
    BY <2>1
  <2>3. Cardinality(1 .. n) = IF 1 > n THEN 0 ELSE n - 1 + 1
    BY <2>2, FS_Interval
  <2>4. Cardinality(1 .. n) = n
    BY <2>1, <2>3
  <2> QED
    BY <2>4 DEF n
<1> QED
  BY <1>3, <1>4

(* What put and mark_graph do to a store.                                 *)
AsPut(S, store, item, s) ==
    /\ s \in Seq(S) /\ Store(s)
    /\ Len(s) \in Nat \ {0} /\ s[Len(s)] = item
    /\ \A i \in 1 .. Len(s) - 1 :
           /\ s[i].addr # item.addr
           /\ \E j \in 1 .. Len(store) : s[i] = store[j]
    /\ \A k \in 1 .. Len(store) : \A L :
           IsFiniteSet(L) /\ Cardinality(L) <= Capacity
               /\ item.addr \in L /\ store[k].addr # item.addr
               /\ TailIn(store, k, L) =>
           \E l \in 1 .. Len(s) : s[l] = store[k] /\ TailIn(s, l, L)

(* put and mark_graph.                                                     *)
LEMMA PutItems ==
    ASSUME NEW S, NEW store \in Seq(S), NEW item \in S, Store(store)
    PROVE  AsPut(S, store, item, StorePut(store, item))
<1> DEFINE r == Renewed(store, item)
           s == StorePut(store, item)
<1>1. Unique(store) /\ Len(store) <= Capacity
  BY DEF Store, Unique
<1>2. Len(store) \in Nat /\ Capacity \in Nat \ {0}
  BY LenProperties, PlanCacheAssumption DEF PlanCacheAssumption
<1>3. AsRenewed(S, store, item, r)
  BY <1>1, RenewedItems
<1>5. s = IF Len(r) > Capacity THEN SubSeq(r, Len(r) - Capacity + 1, Len(r)) ELSE r
  <2>1. Len(r) \in Nat
    BY <1>2, <1>3 DEF AsRenewed
  <2> QED
    BY <2>1, <1>2 DEF StorePut, Renewed
<1> HIDE DEF r, s
<1>4. /\ r \in Seq(S) /\ Len(r) \in 1 .. Len(store) + 1
      /\ Unique(r) /\ r[Len(r)] = item
      /\ \A i \in 1 .. Len(r) - 1 :
             /\ r[i].addr # item.addr
             /\ \E j \in 1 .. Len(store) : r[i] = store[j]
  BY <1>3 DEF AsRenewed
<1>6. CASE Len(r) <= Capacity
  <2>1. s = r
    BY <1>2, <1>4, <1>5, <1>6
  <2> QED
    BY <2>1, <1>2, <1>3, <1>4, <1>6 DEF Store, Unique, AsRenewed, AsPut, s
<1>7. CASE Len(r) > Capacity
  <2>1. Len(r) = Capacity + 1 /\ s = SubSeq(r, 2, Len(r))
    BY <1>1, <1>2, <1>4, <1>5, <1>7
  <2>2. \A i \in 1 .. Len(r) : r[i] \in S
    BY <1>4, ElementOfSeq
  <2>3. /\ s \in Seq(S) /\ Len(s) = Capacity
        /\ \A i \in 1 .. Capacity : s[i] = r[i + 1]
    <3>1. \A i \in 2 .. Len(r) : r[i] \in S
      BY <2>2
    <3>2. /\ s \in Seq(S)
          /\ Len(s) = IF 2 <= Len(r) THEN Len(r) - 2 + 1 ELSE 0
          /\ \A i \in 1 .. Len(r) - 2 + 1 : s[i] = r[2 + i - 1]
      BY <2>1, <3>1, <1>2, SubSeqProperties, 2 \in Int, Len(r) \in Int
    <3> QED
      BY <3>2, <2>1, <1>2
  <2>4. Store(s)
    BY <2>1, <2>3, <1>2, <1>4 DEF Store, Unique
  <2>5. s[Len(s)] = item
    BY <2>1, <2>3, <1>2, <1>4
  <2>6. \A i \in 1 .. Len(s) - 1 :
            s[i].addr # item.addr /\ \E j \in 1 .. Len(store) : s[i] = store[j]
    BY <2>1, <2>3, <1>2, <1>4
  <2>7. ASSUME NEW k \in 1 .. Len(store), NEW L, IsFiniteSet(L),
               Cardinality(L) <= Capacity, item.addr \in L,
               store[k].addr # item.addr, TailIn(store, k, L)
        PROVE  \E l \in 1 .. Len(s) : s[l] = store[k] /\ TailIn(s, l, L)
    <3>1. PICK l \in 1 .. Len(r) : r[l] = store[k] /\ TailIn(r, l, L)
      BY <2>7, <1>3 DEF AsRenewed
    <3>2. Cardinality(L) \in Nat
      BY <2>7, FS_CardinalityType
    <3>3. l # 1
      BY <3>1, <3>2, <2>1, <2>7, <1>2, <1>4, StoreWithin
    <3>4. l - 1 \in 1 .. Len(s) /\ s[l - 1] = store[k]
      BY <3>1, <3>3, <2>1, <2>3, <1>2
    <3>5. TailIn(s, l - 1, L)
      BY <3>1, <3>3, <2>1, <2>3, <1>2 DEF TailIn
    <3> QED
      BY <3>4, <3>5
  <2> QED
    BY <2>3, <2>4, <2>5, <2>6, <2>7, <1>2 DEF AsPut, s
<1> QED
  BY <1>6, <1>7, <1>2, <1>4

(* What get and is_graph do to a store.                                    *)
AsTouched(S, store, a, s) ==
    /\ s \in Seq(S) /\ Store(s)
    /\ \A i \in 1 .. Len(s) : \E j \in 1 .. Len(store) : s[i] = store[j]
    /\ Matches(store, a) =>
           Len(s) \in Nat \ {0} /\ s[Len(s)] = ItemAt(store, a)
    /\ \A k \in 1 .. Len(store) : \A L :
           a \in L /\ store[k].addr # a /\ TailIn(store, k, L) =>
           \E l \in 1 .. Len(s) : s[l] = store[k] /\ TailIn(s, l, L)

(* get and is_graph.                                                       *)
LEMMA TouchItems ==
    ASSUME NEW S, NEW store \in Seq(S), NEW a, Store(store)
    PROVE  AsTouched(S, store, a, StoreTouch(store, a))
<1> DEFINE w == Without(store, a)
           p == Place(store, a)
           s == StoreTouch(store, a)
<1>1. Unique(store) /\ Len(store) <= Capacity
  BY DEF Store, Unique
<1>2. Len(store) \in Nat /\ Capacity \in Nat \ {0}
  BY LenProperties, PlanCacheAssumption DEF PlanCacheAssumption
<1> HIDE DEF s
<1>3. CASE Matches(store, a)
  <2>1. Held(store, a)
    BY <1>3 DEF Matches
  <2>2. ItemAt(store, a) \in S /\ ItemAt(store, a).addr = a
    BY <2>1, PlaceOfHeld, ElementOfSeq DEF ItemAt
  <2>3. \E j \in 1 .. Len(store) : ItemAt(store, a) = store[j]
    BY <2>1, PlaceOfHeld DEF ItemAt
  <2> DEFINE item == ItemAt(store, a)
             r == Renewed(store, item)
  <2>4. s = r
    BY <1>3, <2>2 DEF StoreTouch, Renewed, s
  <2> HIDE DEF item
  <2>5. item \in S /\ item.addr = a
    BY <2>2 DEF item
  <2>6. AsRenewed(S, store, item, r)
    BY <2>5, <1>1, RenewedItems
  <2> HIDE DEF r
  <2>7. Len(r) = Len(store) /\ Store(r)
    BY <2>1, <2>5, <2>6, <1>1 DEF Store, Unique, AsRenewed
  <2>8. \A i \in 1 .. Len(r) : \E j \in 1 .. Len(store) : r[i] = store[j]
    BY <2>3, <2>6, <1>2 DEF item, AsRenewed
  <2> QED
    BY <2>4, <2>5, <2>6, <2>7, <2>8, <1>2 DEF item, AsRenewed, AsTouched, s
<1>4. CASE ~Matches(store, a)
  <2>1. s = w
    BY <1>4 DEF StoreTouch, s
  <2>2. /\ w \in Seq(S)
        /\ Held(store, a) =>
              /\ Len(w) = Len(store) - 1
              /\ \A i \in 1 .. Len(w) :
                     w[i] = IF i < p THEN store[i] ELSE store[i + 1]
        /\ ~Held(store, a) => w = store
    BY WithoutItems
  <2>3. Held(store, a) => p \in 1 .. Len(store) /\ store[p].addr = a
    BY PlaceOfHeld
  <2> HIDE DEF w, p
  <2>4. CASE Held(store, a)
    <3> DEFINE at(i) == IF i < p THEN i ELSE i + 1
    <3>4. \A i \in 1 .. Len(w) : at(i) \in 1 .. Len(store) /\ w[i] = store[at(i)]
      BY <2>2, <2>4, <1>2
    <3>5. \A i, j \in 1 .. Len(w) : at(i) = at(j) => i = j
      BY <2>2, <2>4, <1>2, <2>3
    <3>1. Store(w)
      BY <2>2, <2>4, <3>4, <3>5, <1>1, <1>2 DEF Store, Unique
    <3>2. \A i \in 1 .. Len(w) : \E j \in 1 .. Len(store) : w[i] = store[j]
      BY <2>2, <2>4, <1>2
    <3>3. ASSUME NEW k \in 1 .. Len(store), NEW L, store[k].addr # a,
                 TailIn(store, k, L)
          PROVE  \E l \in 1 .. Len(w) : w[l] = store[k] /\ TailIn(w, l, L)
      <4>1. k # p
        BY <3>3, <2>3, <2>4
      <4> DEFINE l == IF k > p THEN k - 1 ELSE k
      <4>2. l \in 1 .. Len(w) /\ w[l] = store[k]
        <5>1. p \in 1 .. Len(store) /\ Len(w) = Len(store) - 1
          BY <2>2, <2>3, <2>4
        <5>2. l \in 1 .. Len(w)
          BY <4>1, <5>1, <1>2
        <5>3. w[l] = IF l < p THEN store[l] ELSE store[l + 1]
          BY <5>2, <2>2, <2>4
        <5> QED
          BY <5>1, <5>2, <5>3, <4>1, <1>2
      <4>3. ASSUME NEW i \in l .. Len(w)
            PROVE  w[i].addr \in L
        <5>1. w[i] = IF i < p THEN store[i] ELSE store[i + 1]
          BY <4>2, <2>2, <2>4
        <5>2. (i < p => i \in k .. Len(store)) /\ (i >= p => i + 1 \in k .. Len(store))
          BY <4>1, <2>2, <2>3, <2>4, <1>2
        <5> QED
          BY <5>1, <5>2, <3>3, <2>3, <2>4 DEF TailIn
      <4> QED
        BY <4>2, <4>3 DEF TailIn
    <3> QED
      BY <1>4, <2>1, <2>2, <3>1, <3>2, <3>3 DEF AsTouched, s
  <2>5. CASE ~Held(store, a)
    BY <1>4, <2>1, <2>2, <2>5, <1>1 DEF Store, AsTouched, s
  <2> QED
    BY <2>4, <2>5
<1> QED
  BY <1>3, <1>4

(* The only item at its address is the one a lookup finds.                 *)
LEMMA ItemFound ==
    ASSUME NEW store, Unique(store), NEW k \in 1 .. Len(store)
    PROVE  /\ Held(store, store[k].addr)
           /\ ItemAt(store, store[k].addr) = store[k]
<1>1. Held(store, store[k].addr)
  BY DEF Held
<1>2. Place(store, store[k].addr) = k
  BY <1>1, PlaceOfHeld DEF Unique
<1> QED
  BY <1>1, <1>2 DEF ItemAt

-----------------------------------------------------------------------------
(* The entries.                                                            *)

(* What the final prompt lengths of an object are and where they are from. *)
LEMMA PromptResolved ==
    ASSUME NEW object \in Object, NEW common \in Prompts
    PROVE  LET p == PromptLens(object, common)
           IN  /\ p.values \in Prompts /\ p.step \in Nat
               /\ p.source \in {"metadata", "runner", "common", "missing"}
               /\ p.source = "metadata" =>
                      p.values = object.official /\ p.values # NoPrompt
               /\ p.source = "runner" =>
                      p.values = object.runner /\ p.values # NoPrompt
               /\ p.source = "common" =>
                      p.values = common /\ p.values # NoPrompt
               /\ p.source = "missing" => p.values = NoPrompt
  BY DEF PromptLens, Object, Prompts

(* A planned entry is one of its object, sound, and made from the common   *)
(* metadata only when the object took its generation.                      *)
LEMMA BuiltEntry ==
    ASSUME NEW object \in Object, NEW common \in Prompts, NEW gen \in Nat,
           NEW planId \in Nat \ {0}
    PROVE  LET e == BuildPlanEntry(object, common, gen, planId)
           IN  /\ e \in Entry /\ Sound(e)
               /\ e.core = object.core /\ e.plan = planId
               /\ e.source = "common" =>
                      gen # 0 /\ common # NoPrompt /\ PlanPrompt(e) = common
               /\ PlanPrompt(e) \in {NoPrompt, object.official, object.runner, common}
<1> DEFINE p == PromptLens(object, common)
           q == IF p.source = "common" /\ gen = 0 THEN Missing ELSE p
<1>1. /\ p.values \in Prompts /\ p.step \in Nat
      /\ p.source \in {"metadata", "runner", "common", "missing"}
      /\ p.source = "metadata" => p.values = object.official
      /\ p.source = "runner" => p.values = object.runner
      /\ p.source = "common" => p.values = common /\ p.values # NoPrompt
      /\ p.source = "missing" => p.values = NoPrompt
  BY PromptResolved
<1> HIDE DEF p
<1>2. /\ q.values \in Prompts /\ q.step \in Nat
      /\ q.source \in {"metadata", "runner", "common", "missing"}
      /\ q.source = "common" => gen # 0 /\ q.values = common /\ common # NoPrompt
      /\ q.source = "missing" => q.values = NoPrompt
      /\ q.values \in {NoPrompt, object.official, object.runner, common}
  BY <1>1 DEF Missing, Prompts
<1>3. BuildPlanEntry(object, common, gen, planId) = EntryOf(object, q, gen, planId)
  BY DEF BuildPlanEntry, p
<1> HIDE DEF q
<1>4. object.core \in Cores
  BY DEF Object
<1> QED
  BY <1>2, <1>3, <1>4 DEF EntryOf, Fingerprint, Entry, Sound, PlanPrompt

(* The entry of a planning that raised knows no prompt.                    *)
LEMMA MissingEntry ==
    ASSUME NEW object \in Object, NEW gen \in Nat, NEW planId \in Nat \ {0}
    PROVE  LET e == MissingPlanEntry(object, gen, planId)
           IN  /\ e \in Entry /\ Sound(e)
               /\ e.core = object.core /\ e.plan = planId
               /\ e.source = "missing" /\ PlanPrompt(e) = NoPrompt
<1>1. object.core \in Cores
  BY DEF Object
<1> QED
  BY <1>1 DEF MissingPlanEntry, EntryOf, Missing, Fingerprint, Entry, Sound,
              PlanPrompt, Prompts

(* An entry is not the absence of one.                                     *)
LEMMA EntryIsSome ==
    ASSUME NEW e \in Entry
    PROVE  e # NoEntry
  BY DEF Entry, NoEntry

(* The entry a lookup finds.                                               *)
LEMMA CachedEntry ==
    ASSUME TypeOK, Objects, Items, NEW a \in Addr, Cached(a) # NoEntry
    PROVE  /\ Cached(a) \in Entry /\ Sound(Cached(a))
           /\ Cached(a).source = "common" =>
                  /\ Cached(a).core = heap[a].built[1]
                  /\ PlanPrompt(Cached(a)) = heap[a].built[2]
<1>1. heap[a] \in Object /\ items \in Seq(Item)
  BY DEF TypeOK
<1>2. CASE heap[a].entry # NoEntry
  <2>1. Cached(a) = heap[a].entry
    BY <1>2 DEF Cached
  <2>2. heap[a].entry \in Entry
    BY <1>1, <1>2 DEF Object
  <2> QED
    BY <1>2, <2>1, <2>2 DEF Objects
<1>3. CASE heap[a].entry = NoEntry
  <2>1. Matches(items, a) /\ Cached(a) = ItemAt(items, a).entry
    BY <1>3 DEF Cached
  <2>2. PICK i \in 1 .. Len(items) : ItemAt(items, a) = items[i]
    BY <2>1, PlaceOfHeld DEF Matches, ItemAt
  <2>3. items[i] \in Item
    BY <1>1, ElementOfSeq
  <2>4. Sound(items[i].entry) /\ items[i].entry.source # "common"
    BY DEF Items
  <2> QED
    BY <2>1, <2>2, <2>3, <2>4 DEF Item
<1> QED
  BY <1>2, <1>3

(* What an object of the step says of the prompt is the prompt of the step.*)
LEMMA LeafPrompt ==
    ASSUME CacheInv, pc = "layers", NEW a \in step.leaves
    PROVE  LET p == PromptLens(heap[a], NoPrompt)
           IN  /\ a \in Addr /\ a \notin todo
               /\ heap[a] \in Object /\ step.prompt \in Prompt
               /\ heap[a].core = step.core
               /\ p.values \in {NoPrompt, step.prompt}
               /\ p.values # NoPrompt => p.source # "common"
               /\ p.values = NoPrompt => p.source = "missing"
<1>1. a \in Addr /\ a \notin todo /\ heap[a] \in Object
  BY DEF CacheInv, TypeOK, Step, Phases
<1>2. step.prompt \in Prompt
  BY DEF CacheInv, Phases
<1>3. /\ heap[a].core = step.core
      /\ heap[a].official \in {NoPrompt, step.prompt}
      /\ heap[a].runner \in {NoPrompt, step.prompt}
  BY <1>1 DEF CacheInv, Leaves
<1> QED
  BY <1>1, <1>2, <1>3 DEF PromptLens

(* A layer that keeps its plan outside capture plans as it would plan now. *)
LEMMA ReusedPlan ==
    ASSUME CacheInv, pc = "layers", NEW a \in step.leaves,
           Cached(a) # NoEntry, Reusable(a, Cached(a))
    PROVE  /\ Cached(a).core = step.core
           /\ PlanPrompt(Cached(a)) \in {NoPrompt, step.prompt}
           /\ PromptLens(heap[a], NoPrompt).values # NoPrompt =>
                  PlanPrompt(Cached(a)) = step.prompt
<1> DEFINE e == Cached(a)
           p == PromptLens(heap[a], NoPrompt)
<1>1. /\ a \in Addr /\ a \notin todo /\ heap[a] \in Object
      /\ heap[a].core = step.core
      /\ p.values \in {NoPrompt, step.prompt}
  BY LeafPrompt
<1>2. /\ e \in Entry /\ Sound(e)
      /\ e.source = "common" =>
             e.core = heap[a].built[1] /\ PlanPrompt(e) = heap[a].built[2]
  BY <1>1, CachedEntry DEF CacheInv
<1>3. IF p.values # NoPrompt
      THEN e.fingerprint = Fingerprint(heap[a], p.values, heap[a].gen, p.step)
      ELSE /\ e.fingerprint = Fingerprint(heap[a], PlanPrompt(e), heap[a].gen,
                                          e.fingerprint.step)
           /\ e.source \in {"common", "missing"}
  BY DEF Reusable
<1> HIDE DEF e, p
<1>4. e.core = step.core
  BY <1>1, <1>2, <1>3 DEF Fingerprint, Sound
<1>5. CASE p.values # NoPrompt
  <2>1. PlanPrompt(e) = p.values
    BY <1>3, <1>5 DEF Fingerprint, PlanPrompt
  <2> QED
    BY <1>1, <1>4, <1>5, <2>1 DEF e, p
<1>6. CASE p.values = NoPrompt /\ e.source = "missing"
  BY <1>2, <1>4, <1>6 DEF Sound, e, p
<1>7. CASE p.values = NoPrompt /\ e.source = "common"
  <2>1. heap[a].built[1] = step.core => heap[a].built[2] = step.prompt
    BY <1>1 DEF CacheInv, Leaves
  <2> QED
    BY <1>2, <1>4, <1>7, <2>1 DEF e, p
<1> QED
  BY <1>3, <1>5, <1>6, <1>7

(* The plan a layer takes.                                                 *)
LEMMA LayerPlan ==
    ASSUME CacheInv, pc = "layers", NEW a \in step.leaves,
           NEW raises \in BOOLEAN, raises => ~Reuses(a)
    PROVE  LET e == LayerEntry(a, raises)
           IN  /\ e \in Entry /\ Sound(e)
               /\ e.source = "common" =>
                      /\ Reuses(a)
                      /\ e.core = heap[a].built[1]
                      /\ PlanPrompt(e) = heap[a].built[2]
               /\ ~IsGraph(a) =>
                      /\ e.core = step.core
                      /\ PlanPrompt(e) \in {NoPrompt, step.prompt}
                      /\ ~raises /\ PromptLens(heap[a], NoPrompt).values # NoPrompt
                             => PlanPrompt(e) = step.prompt
                      /\ ~raises => Reusable(a, e)
<1> DEFINE e == LayerEntry(a, raises)
           p == PromptLens(heap[a], NoPrompt)
<1>1. /\ a \in Addr /\ a \notin todo /\ heap[a] \in Object
      /\ heap[a].core = step.core
      /\ p.values \in {NoPrompt, step.prompt} /\ step.prompt \in Prompt
      /\ p.values # NoPrompt => p.source # "common"
      /\ p.values = NoPrompt => p.source = "missing"
  BY LeafPrompt
<1>2. /\ heap[a].gen \in Nat /\ next.plan \in Nat \ {0}
      /\ heap[a].core = step.core
  BY <1>1 DEF Object, CacheInv, TypeOK
<1>3. CASE Reuses(a)
  <2>1. Cached(a) # NoEntry /\ e = Cached(a)
    BY <1>3 DEF Reuses, LayerEntry
  <2>2. ~raises
    BY <1>3
  <2>3. ~IsGraph(a) => Reusable(a, Cached(a))
    BY <1>3 DEF Reuses
  <2>4. /\ e \in Entry /\ Sound(e)
        /\ e.source = "common" =>
               e.core = heap[a].built[1] /\ PlanPrompt(e) = heap[a].built[2]
    BY <1>1, <2>1, CachedEntry DEF CacheInv
  <2>5. ~IsGraph(a) =>
            /\ e.core = step.core
            /\ PlanPrompt(e) \in {NoPrompt, step.prompt}
            /\ p.values # NoPrompt => PlanPrompt(e) = step.prompt
    BY <2>1, <2>3, ReusedPlan
  <2>6. ~IsGraph(a) => Reusable(a, e)
    BY <2>1, <2>3
  <2> HIDE DEF e, p
  <2> QED
    BY <1>3, <2>2, <2>4, <2>5, <2>6 DEF e, p
<1>4. CASE ~Reuses(a) /\ raises
  <2>1. e = MissingPlanEntry(heap[a], heap[a].gen, next.plan)
    BY <1>4 DEF LayerEntry
  <2>2. /\ e \in Entry /\ Sound(e) /\ e.core = heap[a].core
        /\ e.source = "missing" /\ PlanPrompt(e) = NoPrompt
    BY <1>1, <1>2, <2>1, MissingEntry
  <2> HIDE DEF e, p
  <2> QED
    BY <1>2, <1>4, <2>2 DEF e, p
<1>5. CASE ~Reuses(a) /\ ~raises
  <2>1. e = BuildPlanEntry(heap[a], NoPrompt, heap[a].gen, next.plan)
    BY <1>5 DEF LayerEntry
  <2>2. NoPrompt \in Prompts
    BY DEF Prompts
  <2>3. /\ e \in Entry /\ Sound(e) /\ e.core = heap[a].core
        /\ e.source # "common"
    BY <1>1, <1>2, <2>1, <2>2, BuiltEntry
  <2>4. e = EntryOf(heap[a], p, heap[a].gen, next.plan)
    BY <1>1, <2>1 DEF BuildPlanEntry
  <2>5. /\ e.source = p.source /\ PlanPrompt(e) = p.values
        /\ e.fingerprint = Fingerprint(heap[a], p.values, heap[a].gen, p.step)
        /\ e.fingerprint.step = p.step
    BY <2>4 DEF EntryOf, Fingerprint, PlanPrompt
  <2>6. Reusable(a, e)
    <3> HIDE DEF e
    <3>1. CASE p.values # NoPrompt
      BY <3>1, <2>5 DEF Reusable
    <3>2. CASE p.values = NoPrompt
      BY <3>2, <1>1, <2>5 DEF Reusable
    <3> QED
      BY <3>1, <3>2
  <2> HIDE DEF e, p
  <2> QED
    BY <1>1, <1>2, <1>5, <2>3, <2>5, <2>6 DEF e, p
<1> QED
  BY <1>3, <1>4, <1>5

-----------------------------------------------------------------------------
(* The invariant.                                                          *)

(* What the two stores hold.                                               *)
LEMMA StoredItems ==
    ASSUME TypeOK
    PROVE  /\ \A i \in 1 .. Len(items) : items[i] \in Item
           /\ \A i \in 1 .. Len(graphItems) : graphItems[i] \in GraphItem
<1>1. items \in Seq(Item) /\ graphItems \in Seq(GraphItem)
  BY DEF TypeOK
<1> QED
  BY <1>1, ElementOfSeq

(* Before the first layer nothing is launched or recorded.                 *)
LEMMA QuietKeeps ==
    ASSUME used' = NoUse, recorded' = [a \in Addr |-> {}]
    PROVE  LaunchFresh' /\ KnownPromptUsed' /\ CaptureIsReal' /\ OnePlanPerStep'
<1>1. Cardinality({}) = 0
  BY FS_EmptySet
<1>2. OnePlanPerStep'
  BY <1>1 DEF OnePlanPerStep
<1> QED
  BY <1>2 DEF LaunchFresh, KnownPromptUsed, CaptureIsReal

(* The same, with no layer of a step before.                               *)
LEMMA QuietEntry ==
    ASSUME recorded' = [a \in Addr |-> {}]
    PROVE  OneEntry'
  BY DEF OneEntry

(* A worker starts with an empty cache and no step.                        *)
LEMMA InitKeeps ==
    ASSUME Init
    PROVE  CacheInv
<1>1. Cardinality({}) = 0
  BY FS_EmptySet
<1>2. Capacity \in Nat \ {0}
  BY PlanCacheAssumption DEF PlanCacheAssumption
<1>3. Nothing \in Object
  BY DEF Nothing, Object, Cores, Prompts
<1>4. NoStep(0) \in Step
  BY DEF NoStep, Step, Cores, Prompts
<1>5. TypeOK
  BY <1>3, <1>4 DEF Init, TypeOK, Kinds
<1>6. Phases
  BY DEF Init, Phases, NoStep
<1>7. Objects
  BY DEF Init, Objects, Nothing, NoStep, NoEntry
<1>8. Items
  BY <1>2 DEF Init, Items, Store
<1>9. Leaves /\ CommonKept /\ OneEntry
  BY DEF Init, Leaves, CommonKept, OneEntry
<1>10. LaunchFresh /\ KnownPromptUsed /\ CaptureIsReal /\ OnePlanPerStep
  BY <1>1 DEF Init, LaunchFresh, KnownPromptUsed, CaptureIsReal, OnePlanPerStep
<1> QED
  BY <1>5, <1>6, <1>7, <1>8, <1>9, <1>10 DEF CacheInv

(* Patching the runner touches no plan.                                    *)
LEMMA PatchKeeps ==
    ASSUME CacheInv, PatchRunner
    PROVE  CacheInv'
<1>1. TypeOK'
  BY DEF CacheInv, TypeOK, PatchRunner
<1>2. Phases'
  BY DEF CacheInv, Phases, PatchRunner
<1>3. Objects'
  BY DEF CacheInv, Objects, PatchRunner
<1>4. Items'
  BY DEF CacheInv, Items, PatchRunner
<1>5. Leaves' /\ CommonKept'
  BY DEF Leaves, CommonKept, PatchRunner
<1>6. used' = NoUse /\ recorded' = [a \in Addr |-> {}]
  BY DEF CacheInv, Phases, PatchRunner
<1> QED
  BY <1>1, <1>2, <1>3, <1>4, <1>5, <1>6, QuietKeeps, QuietEntry DEF CacheInv

(* A new step starts without plans of its own.                             *)
LEMMA StartKeeps ==
    ASSUME CacheInv, NEW core \in Core, NEW prompt \in Prompt,
           NEW graph \in BOOLEAN, NEW leaves \in SUBSET Addr,
           NEW common \in {NoPrompt, prompt}, NEW candidate \in {NoPrompt, prompt},
           StartStep(core, prompt, common, candidate, graph, leaves)
    PROVE  CacheInv'
<1>1. step' \in Step
  BY DEF CacheInv, TypeOK, StartStep, Step, Cores, Prompts
<1>2. /\ step'.number = step.number + 1 /\ step'.leaves = leaves
      /\ todo' = leaves /\ pc' = "build" /\ step.number \in Nat
  BY DEF CacheInv, TypeOK, StartStep, Step
<1>3. TypeOK'
  BY <1>1, <1>2 DEF CacheInv, TypeOK, StartStep
<1>4. used' = NoUse /\ recorded' = [a \in Addr |-> {}]
  BY DEF CacheInv, Phases, StartStep
<1>5. Phases'
  BY <1>2, <1>4 DEF CacheInv, Phases, StartStep
<1>6. Objects'
  <2>1. \A a \in Addr : heap[a].born \in Nat
    BY DEF CacheInv, TypeOK, Object
  <2> QED
    BY <1>2, <2>1 DEF CacheInv, Objects, StartStep
<1>7. Items'
  BY DEF CacheInv, Items, StartStep
<1>8. Leaves' /\ CommonKept'
  BY <1>2 DEF Leaves, CommonKept
<1> QED
  BY <1>3, <1>4, <1>5, <1>6, <1>7, <1>8, QuietKeeps, QuietEntry DEF CacheInv

(* An object given new content in place stands for the step of its core.   *)
LEMMA RefillKeeps ==
    ASSUME CacheInv, NEW a \in Addr, NEW core \in Core, NEW prompt \in Prompt,
           NEW official \in {NoPrompt, prompt}, NEW candidate \in {NoPrompt, prompt},
           Refill(a, core, prompt, official, candidate)
    PROVE  CacheInv'
<1>1. /\ heap \in [Addr -> Object] /\ heap[a] \in Object
      /\ core \in Cores /\ official \in Prompts /\ todo = {}
  BY DEF CacheInv, TypeOK, Phases, Refill, Cores, Prompts
<1>2. /\ heap'[a] = [heap[a] EXCEPT !.core = core, !.official = official]
      /\ \A b \in Addr \ {a} : heap'[b] = heap[b]
      /\ heap' \in [Addr -> Object]
  <2>1. [heap[a] EXCEPT !.core = core, !.official = official] \in Object
    BY <1>1 DEF Object
  <2>2. heap' = [heap EXCEPT ![a] = [heap[a] EXCEPT !.core = core, !.official = official]]
    BY <1>1 DEF Refill
  <2> QED
    BY <1>1, <2>1, <2>2
<1>3. /\ heap'[a].core = core /\ heap'[a].official = official
      /\ \A b \in Addr :
             /\ heap'[b].ident = heap[b].ident /\ heap'[b].born = heap[b].born
             /\ heap'[b].gen = heap[b].gen /\ heap'[b].entry = heap[b].entry
             /\ heap'[b].runner = heap[b].runner
             /\ heap'[b].graph = heap[b].graph
             /\ heap'[b].built = heap[b].built
             /\ heap'[b].forGraph = heap[b].forGraph
  <2>1. /\ heap'[a].core = core /\ heap'[a].official = official
        /\ heap'[a].ident = heap[a].ident /\ heap'[a].born = heap[a].born
        /\ heap'[a].gen = heap[a].gen /\ heap'[a].entry = heap[a].entry
        /\ heap'[a].runner = heap[a].runner
        /\ heap'[a].graph = heap[a].graph
        /\ heap'[a].built = heap[a].built
        /\ heap'[a].forGraph = heap[a].forGraph
    BY <1>1, <1>2 DEF Object
  <2> QED
    BY <1>2, <2>1
<1>4. step' \in Step
  BY DEF CacheInv, TypeOK, Refill, Step, Cores, Prompts
<1>5. /\ step'.number = step.number + 1 /\ step'.leaves = {a}
      /\ step'.core = core /\ step'.prompt = prompt /\ step'.common = NoPrompt
      /\ step'.candidate = candidate /\ ~step'.failed
      /\ todo' = {} /\ pc' \in {"attach", "layers"} /\ step.number \in Nat
  BY <1>1 DEF CacheInv, TypeOK, Refill, Step
<1>6. TypeOK'
  BY <1>2, <1>4, <1>5 DEF CacheInv, TypeOK, Refill
<1>7. used' = NoUse /\ recorded' = [b \in Addr |-> {}]
  BY DEF CacheInv, Phases, Refill
<1>8. Phases'
  BY <1>5, <1>7 DEF Phases, Refill
<1>9. Objects'
  <2>1. \A b \in Addr : heap[b].born \in Nat
    BY <1>1 DEF Object
  <2> QED
    BY <1>1, <1>3, <1>5, <2>1 DEF CacheInv, Objects, Refill
<1>10. Items'
  <2>1. items' = items /\ graphItems' = graphItems /\ next' = next
    BY DEF Refill
  <2>2. \A i \in 1 .. Len(graphItems) : graphItems[i] \in GraphItem
    BY StoredItems DEF CacheInv
  <2>3. \A i \in 1 .. Len(graphItems) : graphItems[i].addr \in Addr
    BY <2>2 DEF GraphItem
  <2> QED
    BY <1>3, <2>1, <2>3 DEF CacheInv, Items, Store
<1>11. Leaves'
  <2>1. pc' = "layers" => heap[a].runner = NoPrompt /\ candidate = NoPrompt
    BY DEF CacheInv, Objects, Refill
  <2>2. core = heap[a].built[1] => prompt = heap[a].built[2]
    BY DEF Refill
  <2> QED
    BY <1>3, <1>5, <2>1, <2>2 DEF Leaves
<1>12. CommonKept'
  BY <1>5 DEF CommonKept
<1> QED
  BY <1>6, <1>7, <1>8, <1>9, <1>10, <1>11, <1>12, QuietKeeps, QuietEntry
     DEF CacheInv

(* What the runner attaches describes the step it prepares.                *)
LEMMA AttachKeeps ==
    ASSUME CacheInv, AttachRunnerPrompt
    PROVE  CacheInv'
<1>1. /\ heap \in [Addr -> Object] /\ todo = {} /\ pc = "attach"
      /\ step.candidate \in Prompts /\ next.step \in Nat \ {0}
      /\ step.leaves \subseteq Addr
  BY DEF CacheInv, TypeOK, Phases, AttachRunnerPrompt, Step
<1>2. /\ next' = [next EXCEPT !.step = @ + 1] /\ pc' = "layers"
      /\ UNCHANGED << kind, patched, items, graphItems, step, todo, layers,
                      used, recorded >>
  BY DEF AttachRunnerPrompt
<1>3. ASSUME NEW a \in Addr
      PROVE  IF a \notin step.leaves \/ kind # "open" THEN heap'[a] = heap[a]
             ELSE heap'[a] = [heap[a] EXCEPT
                                 !.runner = step.candidate,
                                 !.runnerStep = IF step.candidate = NoPrompt
                                                THEN 0 ELSE next.step]
  BY <1>1 DEF AttachRunnerPrompt
<1>4. ASSUME NEW a \in Addr
      PROVE  /\ heap'[a] \in Object
             /\ heap'[a].core = heap[a].core
             /\ heap'[a].official = heap[a].official
             /\ heap'[a].ident = heap[a].ident /\ heap'[a].born = heap[a].born
             /\ heap'[a].gen = heap[a].gen /\ heap'[a].entry = heap[a].entry
             /\ heap'[a].graph = heap[a].graph
             /\ heap'[a].built = heap[a].built
             /\ heap'[a].forGraph = heap[a].forGraph
             /\ heap'[a].runner = IF a \in step.leaves /\ kind = "open"
                                  THEN step.candidate ELSE heap[a].runner
             /\ a \in step.leaves /\ kind = "open" /\ step.candidate # NoPrompt =>
                    heap'[a].runnerStep > 0
  <2>1. heap[a] \in Object
    BY <1>1
  <2>2. CASE a \notin step.leaves \/ kind # "open"
    BY <1>3, <2>1, <2>2
  <2>3. CASE a \in step.leaves /\ kind = "open"
    <3> DEFINE r == IF step.candidate = NoPrompt THEN 0 ELSE next.step
    <3>1. heap'[a] = [heap[a] EXCEPT !.runner = step.candidate, !.runnerStep = r]
      BY <1>3, <2>3
    <3>2. r \in Nat /\ (step.candidate # NoPrompt => r > 0)
      BY <1>1
    <3> HIDE DEF r
    <3> QED
      BY <1>1, <2>1, <2>3, <3>1, <3>2 DEF Object
  <2> QED
    BY <2>2, <2>3
<1>5. TypeOK'
  <2>1. heap' \in [Addr -> Object]
    <3>1. heap' = [a \in Addr |-> heap'[a]]
      BY DEF AttachRunnerPrompt
    <3> QED
      BY <1>4, <3>1
  <2>2. next' \in [ident : Nat \ {0}, gen : Nat \ {0}, step : Nat \ {0},
                   plan : Nat \ {0}]
    <3>1. next \in [ident : Nat \ {0}, gen : Nat \ {0}, step : Nat \ {0},
                    plan : Nat \ {0}]
      BY DEF CacheInv, TypeOK
    <3> QED
      BY <1>2, <3>1
  <2> QED
    BY <1>2, <2>1, <2>2 DEF CacheInv, TypeOK
<1>6. used' = NoUse /\ recorded' = [a \in Addr |-> {}]
  BY <1>1, <1>2 DEF CacheInv, Phases
<1>7. Phases'
  BY <1>1, <1>2, <1>6 DEF CacheInv, Phases
<1>8. next'.ident = next.ident
  BY <1>2 DEF CacheInv, TypeOK
<1>9. Objects'
  <2>1. step.candidate # NoPrompt => patched
    BY <1>1 DEF CacheInv, Phases
  <2> QED
    BY <1>1, <1>2, <1>4, <1>8, <2>1 DEF CacheInv, Objects
<1>10. Items'
  <2>1. \A i \in 1 .. Len(graphItems) : graphItems[i] \in GraphItem
    BY StoredItems DEF CacheInv
  <2>2. \A i \in 1 .. Len(graphItems) : graphItems[i].addr \in Addr
    BY <2>1 DEF GraphItem
  <2> QED
    BY <1>2, <1>4, <1>8, <2>2 DEF CacheInv, Items, Store
<1>11. Leaves'
  <2>1. kind # "open" => \A a \in Addr : heap[a].runner = NoPrompt
    BY DEF CacheInv, Objects
  <2>2. step.candidate \in {NoPrompt, step.prompt}
    BY <1>1 DEF CacheInv, Phases
  <2> QED
    BY <1>1, <1>2, <1>4, <2>1, <2>2 DEF CacheInv, Leaves
<1>12. CommonKept'
  <2>1. ASSUME NEW a \in Addr
        PROVE  Fingerprint(heap[a], step.prompt, heap[a].gen, 0) =
                   Fingerprint(heap'[a], step.prompt, heap'[a].gen, 0)
    BY <1>4 DEF Fingerprint
  <2> QED
    BY <1>1, <1>2, <1>4, <2>1 DEF CacheInv, CommonKept
<1> QED
  BY <1>5, <1>6, <1>7, <1>9, <1>10, <1>11, <1>12, QuietKeeps, QuietEntry
     DEF CacheInv

(* A step that ends leaves what is stored.                                 *)
LEMMA EndKeeps ==
    ASSUME CacheInv, EndStep
    PROVE  CacheInv'
<1>1. /\ step' = NoStep(step.number) /\ step.number \in Nat /\ todo = {}
      /\ pc' = "idle" /\ used' = NoUse /\ recorded' = [a \in Addr |-> {}]
      /\ layers' = 0
      /\ UNCHANGED << kind, patched, heap, items, graphItems, todo, next >>
  BY DEF CacheInv, TypeOK, Phases, EndStep, Step
<1>2. step' \in Step /\ step'.number = step.number
  BY <1>1 DEF NoStep, Step, Cores, Prompts
<1>3. TypeOK'
  BY <1>1, <1>2 DEF CacheInv, TypeOK
<1>4. Phases'
  BY <1>1, <1>2 DEF CacheInv, Phases
<1>5. Objects'
  BY <1>1, <1>2 DEF CacheInv, Objects
<1>6. Items'
  BY <1>1 DEF CacheInv, Items
<1>7. Leaves' /\ CommonKept'
  BY <1>1 DEF Leaves, CommonKept
<1> QED
  BY <1>1, <1>3, <1>4, <1>5, <1>6, <1>7, QuietKeeps, QuietEntry DEF CacheInv

(* A step that raises is over; the cache is what it was.                   *)
LEMMA RaiseKeeps ==
    ASSUME CacheInv, Raise
    PROVE  CacheInv'
<1>1. /\ pc' = "raised" /\ pc \in {"build", "layers"}
      /\ UNCHANGED << kind, patched, heap, items, graphItems, step, todo, next,
                      layers, used, recorded >>
  BY DEF Raise
<1>2. TypeOK'
  BY <1>1 DEF CacheInv, TypeOK
<1>3. Phases'
  BY <1>1 DEF CacheInv, Phases
<1>4. Objects' /\ Items'
  BY <1>1 DEF CacheInv, Objects, Items
<1>5. Leaves'
  BY <1>1 DEF CacheInv, Leaves
<1>6. CommonKept' /\ OneEntry'
  BY <1>1 DEF CommonKept, OneEntry
<1>7. LaunchFresh' /\ KnownPromptUsed' /\ CaptureIsReal' /\ OnePlanPerStep'
  BY <1>1 DEF CacheInv, LaunchFresh, KnownPromptUsed, PromptKnown,
              CaptureIsReal, OnePlanPerStep
<1> QED
  BY <1>2, <1>3, <1>4, <1>5, <1>6, <1>7 DEF CacheInv

(* The invariant reads the variables only.                                 *)
LEMMA StutterKeeps ==
    ASSUME CacheInv, UNCHANGED vars
    PROVE  CacheInv'
<1>1. UNCHANGED << kind, patched, heap, items, graphItems, pc, step, todo, next,
                   layers, used, recorded >>
  BY DEF vars
<1>2. TypeOK' /\ Phases' /\ Objects' /\ Items'
  BY <1>1 DEF CacheInv, TypeOK, Phases, Objects, Items
<1>3. Leaves' /\ CommonKept'
  BY <1>1 DEF CacheInv, Leaves, CommonKept
<1>4. OneEntry'
  BY <1>1 DEF CacheInv, OneEntry, Cached, Reusable, Matches, Recent
<1>5. LaunchFresh' /\ KnownPromptUsed' /\ CaptureIsReal' /\ OnePlanPerStep'
  BY <1>1 DEF CacheInv, LaunchFresh, KnownPromptUsed, PromptKnown,
              CaptureIsReal, OnePlanPerStep
<1> QED
  BY <1>2, <1>3, <1>4, <1>5 DEF CacheInv

(* What original_build returns at an address.                              *)
Returned(a, object) ==
    /\ object \in Object
    /\ object.core = step.core /\ object.official \in {NoPrompt, step.prompt}
    /\ \/ /\ object.ident = next.ident /\ object.born = step.number
          /\ object.runner = NoPrompt /\ ~object.graph
       \/ /\ object.ident = heap[a].ident /\ object.born = heap[a].born
          /\ object.runner = heap[a].runner /\ object.graph = heap[a].graph
          /\ object.forGraph = heap[a].forGraph

(* Both a new object and the same one with new content are such objects.   *)
LEMMA NewReturned ==
    ASSUME CacheInv, pc = "build", NEW a \in Addr,
           NEW official \in {NoPrompt, step.prompt}
    PROVE  Returned(a, NewObject(official))
<1>1. /\ step.core \in Cores /\ step.number \in Nat /\ official \in Prompts
      /\ next.ident \in Nat
  BY DEF CacheInv, TypeOK, Phases, Step, Cores, Prompts
<1>2. Nothing \in Object
  BY DEF Nothing, Object, Cores, Prompts
<1>3. Nothing.runner = NoPrompt /\ ~Nothing.graph
  BY DEF Nothing
<1>4. NewObject(official) =
          [Nothing EXCEPT !.ident = next.ident, !.core = step.core,
                          !.official = official, !.born = step.number]
  BY DEF NewObject
<1> QED
  BY <1>1, <1>2, <1>3, <1>4 DEF Returned, Object

(* The object the builder returns again is one it may return.              *)
LEMMA SameReturned ==
    ASSUME CacheInv, pc = "build", NEW a \in Addr,
           NEW official \in {NoPrompt, step.prompt}
    PROVE  Returned(a, SameObject(a, official))
<1>1. /\ step.core \in Cores /\ official \in Prompts /\ heap[a] \in Object
  BY DEF CacheInv, TypeOK, Phases, Step, Cores, Prompts
<1> QED
  BY <1>1 DEF SameObject, Returned, Object

(* The fields of the object a build leaves, and of its entry.              *)
Rebuilt(object, built, gen, entry, raises) ==
    /\ built \in Object
    /\ built.ident = object.ident /\ built.born = object.born
    /\ built.core = step.core /\ built.official = object.official
    /\ built.runner = object.runner
    /\ built.gen = gen /\ (kind = "open" => gen # 0) /\ (kind # "open" => gen = 0)
    /\ built.entry = (IF kind = "open" THEN entry ELSE NoEntry)
    /\ built.built[1] = step.core /\ built.built[2] = step.prompt
    /\ built.graph => built.forGraph
    /\ object.forGraph \/ step.graph => built.forGraph
    /\ entry \in Entry /\ Sound(entry)
    /\ entry.source = "common" =>
           /\ entry.core = step.core /\ PlanPrompt(entry) = step.prompt
           /\ gen # 0
    /\ ~raises /\ kind = "open" /\ object.official = NoPrompt
           /\ object.runner = NoPrompt /\ step.common # NoPrompt =>
           /\ entry.source = "common"
           /\ entry.fingerprint = Fingerprint(built, step.prompt, gen, 0)

(* How a build changes the object and the items.                           *)
LEMMA BuildPlans ==
    ASSUME CacheInv, NEW a \in Addr, NEW object, Returned(a, object),
           NEW raises \in BOOLEAN, Build(a, object, raises)
    PROVE  \E built, gen, entry :
               /\ Rebuilt(object, built, gen, entry, raises)
               /\ heap' = [heap EXCEPT ![a] = built]
               /\ items' = IF kind = "open" THEN items
                           ELSE StorePut(items, [addr |-> a,
                                                 ident |-> object.ident,
                                                 entry |-> entry])
<1> DEFINE gen == IF kind = "open" THEN next.gen ELSE 0
           entry == IF raises THEN MissingPlanEntry(object, gen, next.plan)
                    ELSE BuildPlanEntry(object, step.common, gen, next.plan)
           built == [object EXCEPT
                        !.gen = gen,
                        !.built = << step.core, step.prompt >>,
                        !.entry = IF kind = "open" THEN entry ELSE NoEntry,
                        !.graph = @ \/ (step.graph /\ kind = "open"),
                        !.forGraph = @ \/ step.graph]
<1>1. /\ object \in Object /\ step.core \in Core /\ step.prompt \in Prompt
      /\ object.core = step.core /\ step.graph \in BOOLEAN
      /\ step.common \in {NoPrompt, step.prompt}
  BY DEF Build, CacheInv, TypeOK, Phases, Step, Returned
<1>2. /\ gen \in Nat /\ next.plan \in Nat \ {0}
      /\ (kind = "open" => gen # 0) /\ (kind # "open" => gen = 0)
  BY DEF CacheInv, TypeOK
<1>3. object.graph => object.forGraph
  BY DEF CacheInv, Objects, Returned
<1>4. step.core \in Cores /\ step.prompt \in Prompts /\ step.common \in Prompts
  BY <1>1 DEF Cores, Prompts
<1>5. /\ heap' = [heap EXCEPT ![a] = built]
      /\ items' = IF kind = "open" THEN items
                  ELSE StorePut(items, [addr |-> a, ident |-> object.ident,
                                        entry |-> entry])
  BY DEF Build
<1> HIDE DEF gen
<1>6. /\ entry \in Entry /\ Sound(entry)
      /\ entry.source = "common" =>
             /\ entry.core = step.core /\ PlanPrompt(entry) = step.prompt
             /\ gen # 0
  <2>1. CASE raises
    BY <2>1, <1>1, <1>2, MissingEntry
  <2>2. CASE ~raises
    <3>1. entry = BuildPlanEntry(object, step.common, gen, next.plan)
      BY <2>2
    <3>2. /\ entry \in Entry /\ Sound(entry) /\ entry.core = object.core
          /\ entry.source = "common" =>
                 /\ gen # 0 /\ step.common # NoPrompt
                 /\ PlanPrompt(entry) = step.common
      BY <3>1, <1>1, <1>2, <1>4, BuiltEntry
    <3> HIDE DEF entry
    <3> QED
      BY <3>2, <1>1
  <2> QED
    BY <2>1, <2>2
<1>7. ASSUME ~raises, kind = "open", object.official = NoPrompt,
             object.runner = NoPrompt, step.common # NoPrompt
      PROVE  /\ entry.source = "common"
             /\ entry.fingerprint = Fingerprint(object, step.prompt, gen, 0)
  <2>1. PromptLens(object, step.common) =
            [values |-> step.common, source |-> "common", step |-> 0]
    BY <1>7 DEF PromptLens
  <2>2. entry = EntryOf(object, [values |-> step.common, source |-> "common",
                                 step |-> 0], gen, next.plan)
    BY <1>2, <1>7, <2>1 DEF BuildPlanEntry
  <2>3. step.common = step.prompt
    BY <1>1, <1>7
  <2> HIDE DEF entry
  <2> QED
    BY <2>2, <2>3 DEF EntryOf
<1> HIDE DEF entry
<1>8. /\ built \in Object
      /\ built.ident = object.ident /\ built.born = object.born
      /\ built.core = object.core /\ built.official = object.official
      /\ built.runner = object.runner /\ built.gen = gen
      /\ built.entry = (IF kind = "open" THEN entry ELSE NoEntry)
      /\ built.built = << step.core, step.prompt >>
      /\ built.graph = (object.graph \/ (step.graph /\ kind = "open"))
      /\ built.forGraph = (object.forGraph \/ step.graph)
  BY <1>1, <1>2, <1>4, <1>6 DEF Object
<1> HIDE DEF built
<1>9. Fingerprint(built, step.prompt, gen, 0) =
          Fingerprint(object, step.prompt, gen, 0)
  BY <1>8 DEF Fingerprint
<1>10. /\ built.graph => built.forGraph
       /\ object.forGraph \/ step.graph => built.forGraph
  BY <1>3, <1>8
<1>11. /\ built.built[1] = step.core /\ built.built[2] = step.prompt
       /\ built.core = step.core
  BY <1>1, <1>8
<1>12. Rebuilt(object, built, gen, entry, raises)
  BY <1>2, <1>6, <1>7, <1>8, <1>9, <1>10, <1>11 DEF Rebuilt
<1> QED
  BY <1>5, <1>12

(* build and build_for_graph_capture keep the invariant.                   *)
LEMMA BuildKeeps ==
    ASSUME CacheInv, NEW a \in Addr, NEW object, Returned(a, object),
           NEW raises \in BOOLEAN, Build(a, object, raises)
    PROVE  CacheInv'
<1>1. PICK built, gen, entry :
          /\ Rebuilt(object, built, gen, entry, raises)
          /\ heap' = [heap EXCEPT ![a] = built]
          /\ items' = IF kind = "open" THEN items
                      ELSE StorePut(items, [addr |-> a, ident |-> object.ident,
                                            entry |-> entry])
  BY BuildPlans
<1>2. /\ pc = "build" /\ a \in todo
      /\ graphItems' = IF step.graph
                       THEN StorePut(graphItems, [addr |-> a, ident |-> object.ident])
                       ELSE graphItems
      /\ next' = [next EXCEPT !.ident = @ + 1, !.gen = @ + 1, !.plan = @ + 1]
      /\ step' = [step EXCEPT !.failed = @ \/ raises]
      /\ todo' = todo \ {a}
      /\ pc' = IF todo' # {} THEN "build"
               ELSE IF patched THEN "attach" ELSE "layers"
      /\ UNCHANGED << kind, patched, layers, used, recorded >>
  BY DEF Build
<1>3. /\ step' \in Step
      /\ step'.number = step.number /\ step'.core = step.core
      /\ step'.prompt = step.prompt /\ step'.common = step.common
      /\ step'.candidate = step.candidate /\ step'.leaves = step.leaves
      /\ step'.graph = step.graph
      /\ ~step'.failed => ~step.failed /\ ~raises
  <2>1. step \in Step
    BY DEF CacheInv, TypeOK
  <2> QED
    BY <1>2, <2>1 DEF Step
<1>4. /\ next' \in [ident : Nat \ {0}, gen : Nat \ {0}, step : Nat \ {0},
                    plan : Nat \ {0}]
      /\ next'.ident = next.ident + 1 /\ next.ident \in Nat
  <2>1. next \in [ident : Nat \ {0}, gen : Nat \ {0}, step : Nat \ {0},
                  plan : Nat \ {0}]
    BY DEF CacheInv, TypeOK
  <2>2. next' = [next EXCEPT !.ident = next.ident + 1, !.gen = next.gen + 1,
                             !.plan = next.plan + 1]
    BY <1>2
  <2>3. /\ next.ident + 1 \in Nat \ {0} /\ next.gen + 1 \in Nat \ {0}
        /\ next.plan + 1 \in Nat \ {0} /\ next.ident \in Nat
    BY <2>1
  <2> QED
    BY <2>1, <2>2, <2>3
<1>5. /\ heap \in [Addr -> Object] /\ built \in Object /\ heap[a] \in Object
      /\ heap'[a] = built /\ \A b \in Addr \ {a} : heap'[b] = heap[b]
      /\ heap' \in [Addr -> Object]
  BY <1>1 DEF CacheInv, TypeOK, Rebuilt
<1>6. /\ Store(items) /\ Store(graphItems)
      /\ items \in Seq(Item) /\ graphItems \in Seq(GraphItem)
      /\ object.ident \in Nat /\ entry \in Entry
  BY <1>1 DEF CacheInv, TypeOK, Items, Returned, Object, Rebuilt
<1>7. used' = NoUse /\ recorded' = [b \in Addr |-> {}]
  BY <1>2 DEF CacheInv, Phases
<1> DEFINE item == [addr |-> a, ident |-> object.ident, entry |-> entry]
           mark == [addr |-> a, ident |-> object.ident]
<1>8. AsPut(Item, items, item, StorePut(items, item))
  <2>1. item \in Item
    BY <1>6 DEF Item
  <2> HIDE DEF item
  <2> QED
    BY <1>6, <2>1, PutItems
<1>9. AsPut(GraphItem, graphItems, mark, StorePut(graphItems, mark))
  <2>1. mark \in GraphItem
    BY <1>6 DEF GraphItem
  <2> HIDE DEF mark
  <2> QED
    BY <1>6, <2>1, PutItems
<1>10. TypeOK'
  <2>1. items' \in Seq(Item) /\ graphItems' \in Seq(GraphItem)
    BY <1>1, <1>2, <1>6, <1>8, <1>9 DEF AsPut
  <2>2. todo' \in SUBSET step'.leaves
    BY <1>2, <1>3 DEF CacheInv, TypeOK
  <2> QED
    BY <1>2, <1>3, <1>4, <1>5, <1>7, <2>1, <2>2 DEF CacheInv, TypeOK
<1>11. Phases'
  BY <1>2, <1>3, <1>7 DEF CacheInv, Phases
<1>12. Objects'
  <2>1. /\ built.ident < next'.ident /\ built.born <= step'.number
        /\ kind # "open" \/ ~patched => built.runner = NoPrompt
    <3>1. /\ heap[a].ident < next.ident /\ heap[a].ident \in Nat
          /\ heap[a].born <= step.number /\ heap[a].born \in Nat
          /\ step.number \in Nat
          /\ kind # "open" \/ ~patched => heap[a].runner = NoPrompt
      BY <1>5 DEF CacheInv, Objects, Object, TypeOK, Step
    <3> QED
      BY <1>1, <1>3, <1>4, <3>1 DEF Rebuilt, Returned
  <2>2. /\ kind # "open" => built.gen = 0 /\ built.entry = NoEntry
        /\ built.entry # NoEntry =>
              /\ Sound(built.entry)
              /\ built.entry.source = "common" =>
                     /\ built.entry.core = built.built[1]
                     /\ PlanPrompt(built.entry) = built.built[2]
        /\ built.graph => built.forGraph
    BY <1>1 DEF Rebuilt
  <2>3. ASSUME NEW b \in Addr \ {a}
        PROVE  heap[b].ident < next'.ident
    <3>1. heap[b].ident < next.ident /\ heap[b].ident \in Nat
      BY <1>5 DEF CacheInv, Objects, Object
    <3> QED
      BY <1>4, <3>1
  <2> QED
    BY <1>2, <1>3, <1>5, <2>1, <2>2, <2>3 DEF CacheInv, Objects
<1>13. Items'
  <2>1. Store(items') /\ Store(graphItems')
    BY <1>1, <1>2, <1>6, <1>8, <1>9 DEF AsPut
  <2>2. ASSUME NEW i \in 1 .. Len(items')
        PROVE  Sound(items'[i].entry) /\ items'[i].entry.source # "common"
    <3>1. CASE kind = "open"
      BY <3>1, <1>1 DEF CacheInv, Items
    <3>2. CASE kind # "open"
      <4>1. Sound(entry) /\ entry.source # "common"
        BY <1>1, <3>2 DEF Rebuilt
      <4>2. items'[i] = item \/ \E j \in 1 .. Len(items) : items'[i] = items[j]
        BY <1>1, <1>8, <3>2 DEF AsPut
      <4> QED
        BY <4>1, <4>2 DEF CacheInv, Items
    <3> QED
      BY <3>1, <3>2
  <2>3. ASSUME NEW i \in 1 .. Len(graphItems')
        PROVE  /\ graphItems'[i].ident < next'.ident
               /\ graphItems'[i].ident = heap'[graphItems'[i].addr].ident =>
                      heap'[graphItems'[i].addr].forGraph
    <3>1. ASSUME NEW j \in 1 .. Len(graphItems), graphItems'[i] = graphItems[j]
          PROVE  /\ graphItems'[i].ident < next'.ident
                 /\ graphItems'[i].ident = heap'[graphItems'[i].addr].ident =>
                        heap'[graphItems'[i].addr].forGraph
      <4>1. graphItems[j] \in GraphItem
        BY StoredItems DEF CacheInv
      <4>2. /\ graphItems[j].addr \in Addr /\ graphItems[j].ident \in Nat
            /\ graphItems[j].ident < next.ident
            /\ graphItems[j].ident = heap[graphItems[j].addr].ident =>
                   heap[graphItems[j].addr].forGraph
        BY <4>1 DEF CacheInv, Items, GraphItem
      <4>3. CASE graphItems[j].addr = a
        BY <1>1, <1>4, <1>5, <3>1, <4>2, <4>3 DEF Rebuilt, Returned
      <4>4. CASE graphItems[j].addr # a
        BY <1>4, <1>5, <3>1, <4>2, <4>4
      <4> QED
        BY <4>3, <4>4
    <3>2. CASE ~step.graph
      BY <3>1, <3>2, <1>2
    <3>3. CASE step.graph
      <4>1. graphItems'[i] = mark
                \/ \E j \in 1 .. Len(graphItems) : graphItems'[i] = graphItems[j]
        BY <1>2, <1>9, <3>3 DEF AsPut
      <4>2. object.ident < next'.ident
        <5>1. heap[a].ident < next.ident /\ heap[a].ident \in Nat
          BY <1>5 DEF CacheInv, Objects, Object
        <5> QED
          BY <1>4, <5>1 DEF Returned
      <4>3. built.forGraph
        BY <1>1, <3>3 DEF Rebuilt
      <4> QED
        BY <1>5, <3>1, <4>1, <4>2, <4>3
    <3> QED
      BY <3>2, <3>3
  <2> QED
    BY <2>1, <2>2, <2>3 DEF Items
<1>14. Leaves'
  <2>1. ASSUME NEW b \in step.leaves \ todo, b # a
        PROVE  /\ heap'[b].core = step.core
               /\ heap'[b].official \in {NoPrompt, step.prompt}
               /\ heap'[b].built[1] = step.core => heap'[b].built[2] = step.prompt
               /\ ~patched => heap'[b].runner = NoPrompt
    BY <1>2, <1>3, <1>5, <2>1 DEF CacheInv, Leaves, Objects, TypeOK, Step
  <2>2. /\ built.core = step.core
        /\ built.official \in {NoPrompt, step.prompt}
        /\ built.built[1] = step.core => built.built[2] = step.prompt
        /\ ~patched => built.runner = NoPrompt
    BY <1>1 DEF Rebuilt, Returned, CacheInv, Objects
  <2>3. ~patched => step.candidate = NoPrompt
    BY <1>2 DEF CacheInv, Phases
  <2>4. pc' = "layers" => ~patched
    BY <1>2
  <2> QED
    BY <1>2, <1>3, <1>5, <2>1, <2>2, <2>3, <2>4 DEF Leaves
<1>15. CommonKept'
  <2>1. CASE step'.failed \/ kind # "open" \/ step.common = NoPrompt
             \/ step.candidate # NoPrompt
    BY <2>1, <1>2, <1>3 DEF CommonKept
  <2>2. CASE ~step'.failed /\ kind = "open" /\ step.common # NoPrompt
             /\ step.candidate = NoPrompt
    <3>1. ASSUME NEW b \in step.leaves \ todo, b # a,
                 heap'[b].born = step.number, heap'[b].official = NoPrompt
          PROVE  /\ heap'[b].runner = NoPrompt
                 /\ heap'[b].gen # 0
                 /\ heap'[b].entry # NoEntry
                 /\ heap'[b].entry.source = "common"
                 /\ heap'[b].entry.fingerprint =
                        Fingerprint(heap'[b], step.prompt, heap'[b].gen, 0)
      <4>1. heap'[b] = heap[b]
        BY <1>5, <3>1 DEF CacheInv, TypeOK, Step
      <4> QED
        BY <1>2, <1>3, <2>2, <3>1, <4>1 DEF CacheInv, CommonKept
    <3>2. ASSUME built.born = step.number, built.official = NoPrompt
          PROVE  /\ built.runner = NoPrompt
                 /\ built.gen # 0
                 /\ built.entry # NoEntry
                 /\ built.entry.source = "common"
                 /\ built.entry.fingerprint =
                        Fingerprint(built, step.prompt, built.gen, 0)
      <4>1. heap[a].born # step.number
        <5>1. heap[a].born < step.number /\ heap[a].born \in Nat /\ step.number \in Nat
          BY <1>2, <1>5 DEF CacheInv, Objects, Object, TypeOK, Step
        <5> QED
          BY <5>1
      <4>2. object.runner = NoPrompt /\ object.official = NoPrompt
        BY <1>1, <3>2, <4>1 DEF Rebuilt, Returned
      <4>3. ~raises
        BY <1>3, <2>2
      <4>4. entry # NoEntry
        BY <1>6, EntryIsSome
      <4> QED
        BY <1>1, <2>2, <4>2, <4>3, <4>4 DEF Rebuilt
    <3> QED
      BY <1>2, <1>3, <1>5, <3>1, <3>2 DEF CommonKept
  <2> QED
    BY <2>1, <2>2
<1> QED
  BY <1>7, <1>10, <1>11, <1>12, <1>13, <1>14, <1>15, QuietKeeps, QuietEntry
     DEF CacheInv

(* What a layer leaves of the step and of the objects.                     *)
LEMMA LayerObjects ==
    ASSUME CacheInv, NEW a \in Addr, NEW raises \in BOOLEAN, Layer(a, raises)
    PROVE  /\ pc = "layers" /\ a \in step.leaves /\ (raises => ~Reuses(a))
           /\ heap' \in [Addr -> Object]
           /\ kind = "open" => heap'[a].entry = LayerEntry(a, raises)
           /\ \A b \in Addr :
                  /\ b # a \/ kind # "open" => heap'[b].entry = heap[b].entry
                  /\ heap'[b].core = heap[b].core
                  /\ heap'[b].official = heap[b].official
                  /\ heap'[b].ident = heap[b].ident
                  /\ heap'[b].born = heap[b].born
                  /\ heap'[b].gen = heap[b].gen
                  /\ heap'[b].runner = heap[b].runner
                  /\ heap'[b].runnerStep = heap[b].runnerStep
                  /\ heap'[b].graph = heap[b].graph
                  /\ heap'[b].built = heap[b].built
                  /\ heap'[b].forGraph = heap[b].forGraph
           /\ step' \in Step
           /\ step'.number = step.number /\ step'.core = step.core
           /\ step'.prompt = step.prompt /\ step'.common = step.common
           /\ step'.candidate = step.candidate /\ step'.leaves = step.leaves
           /\ step'.graph = step.graph
           /\ ~step'.failed => ~step.failed /\ ~raises
           /\ next' \in [ident : Nat \ {0}, gen : Nat \ {0}, step : Nat \ {0},
                         plan : Nat \ {0}]
           /\ next'.ident = next.ident
<1> DEFINE entry == LayerEntry(a, raises)
<1>1. /\ pc = "layers" /\ a \in step.leaves /\ (raises => ~Reuses(a))
      /\ heap' = IF kind = "open" THEN [heap EXCEPT ![a].entry = entry] ELSE heap
      /\ next' = IF Reuses(a) THEN next ELSE [next EXCEPT !.plan = @ + 1]
      /\ step' = [step EXCEPT !.failed = @ \/ raises]
  BY DEF Layer
<1>2. entry \in Entry
  BY <1>1, LayerPlan
<1> HIDE DEF entry
<1>3. /\ heap \in [Addr -> Object] /\ step \in Step
      /\ next \in [ident : Nat \ {0}, gen : Nat \ {0}, step : Nat \ {0},
                   plan : Nat \ {0}]
  BY DEF CacheInv, TypeOK
<1>4. /\ next' \in [ident : Nat \ {0}, gen : Nat \ {0}, step : Nat \ {0},
                    plan : Nat \ {0}]
      /\ next'.ident = next.ident
  <2>1. next' = next \/ next' = [next EXCEPT !.plan = next.plan + 1]
    BY <1>1
  <2>2. next.plan + 1 \in Nat \ {0}
    BY <1>3
  <2> QED
    BY <1>3, <2>1, <2>2
<1>5. /\ step' \in Step
      /\ step'.number = step.number /\ step'.core = step.core
      /\ step'.prompt = step.prompt /\ step'.common = step.common
      /\ step'.candidate = step.candidate /\ step'.leaves = step.leaves
      /\ step'.graph = step.graph
      /\ ~step'.failed => ~step.failed /\ ~raises
  BY <1>1, <1>3 DEF Step
<1>6. CASE kind = "open"
  <2> DEFINE object == [heap[a] EXCEPT !.entry = entry]
  <2>1. /\ object \in Object /\ object.entry = entry
        /\ object.core = heap[a].core /\ object.official = heap[a].official
        /\ object.ident = heap[a].ident /\ object.born = heap[a].born
        /\ object.gen = heap[a].gen /\ object.runner = heap[a].runner
        /\ object.runnerStep = heap[a].runnerStep
        /\ object.graph = heap[a].graph /\ object.built = heap[a].built
        /\ object.forGraph = heap[a].forGraph
    BY <1>2, <1>3 DEF Object
  <2>2. heap' = [heap EXCEPT ![a] = object]
    BY <1>1, <1>6
  <2> HIDE DEF object
  <2>3. /\ heap'[a] = object /\ \A b \in Addr \ {a} : heap'[b] = heap[b]
        /\ heap' \in [Addr -> Object]
    BY <1>3, <2>1, <2>2
  <2> QED
    BY <1>1, <1>4, <1>5, <1>6, <2>1, <2>3 DEF entry
<1>7. CASE kind # "open"
  BY <1>1, <1>3, <1>4, <1>5, <1>7
<1> QED
  BY <1>6, <1>7

(* What it leaves of the side store: the objects of the step keep their    *)
(* plans, and the object of the layer has the plan of the layer last.      *)
LEMMA LayerItems ==
    ASSUME CacheInv, NEW a \in Addr, NEW raises \in BOOLEAN, Layer(a, raises)
    PROVE  /\ items' \in Seq(Item) /\ Store(items')
           /\ \A i \in 1 .. Len(items') :
                  Sound(items'[i].entry) /\ items'[i].entry.source # "common"
           /\ kind # "open" /\ Cardinality(step.leaves) <= Capacity =>
                /\ \E l \in 1 .. Len(items') :
                      /\ items'[l].addr = a /\ items'[l].ident = heap[a].ident
                      /\ items'[l].entry = LayerEntry(a, raises)
                      /\ TailIn(items', l, step.leaves)
                /\ \A k \in 1 .. Len(items) :
                      items[k].addr # a /\ TailIn(items, k, step.leaves) =>
                      \E l \in 1 .. Len(items') :
                          items'[l] = items[k] /\ TailIn(items', l, step.leaves)
<1> DEFINE entry == LayerEntry(a, raises)
           get == StoreTouch(items, a)
           after == ItemsAfterGet(a)
           item == [addr |-> a, ident |-> heap[a].ident, entry |-> entry]
           put == StorePut(get, item)
           L == step.leaves
<1>1. /\ pc = "layers" /\ a \in L
      /\ items' = IF Reuses(a) \/ kind = "open" THEN after
                  ELSE StorePut(after, item)
      /\ raises => ~Reuses(a)
  BY DEF Layer
<1>2. entry \in Entry /\ Sound(entry) /\ (~Reuses(a) => entry.source # "common")
  BY <1>1, LayerPlan
<1>3. /\ items \in Seq(Item) /\ Store(items) /\ L \subseteq Addr
      /\ heap[a] \in Object
  BY DEF CacheInv, TypeOK, Items, Step
<1>4. \A i \in 1 .. Len(items) :
          Sound(items[i].entry) /\ items[i].entry.source # "common"
  BY DEF CacheInv, Items
<1>5. IsFiniteSet(L)
  BY <1>3, PlanCacheAssumption, FS_Subset DEF PlanCacheAssumption
<1>6. AsTouched(Item, items, a, get)
  BY <1>3, TouchItems
<1>7. after = items \/ after = get
  BY DEF ItemsAfterGet
<1>8. kind # "open" => after = get /\ heap[a].entry = NoEntry
  BY DEF ItemsAfterGet, CacheInv, Objects
<1>9. item \in Item
  BY <1>2, <1>3 DEF Item, Object
<1> HIDE DEF entry, get, after, item
<1>10. AsPut(Item, get, item, put)
  BY <1>6, <1>9, PutItems DEF AsTouched
<1> HIDE DEF put
<1>11. /\ get \in Seq(Item) /\ Store(get)
       /\ \A i \in 1 .. Len(get) :
              Sound(get[i].entry) /\ get[i].entry.source # "common"
  BY <1>4, <1>6 DEF AsTouched
<1>12. CASE Reuses(a) \/ kind = "open"
  <2>1. items' = after
    BY <1>1, <1>12
  <2>2. /\ items' \in Seq(Item) /\ Store(items')
        /\ \A i \in 1 .. Len(items') :
               Sound(items'[i].entry) /\ items'[i].entry.source # "common"
    BY <1>3, <1>4, <1>7, <1>11, <2>1
  <2>3. ASSUME kind # "open", Cardinality(L) <= Capacity
        PROVE  /\ \E l \in 1 .. Len(items') :
                     /\ items'[l].addr = a /\ items'[l].ident = heap[a].ident
                     /\ items'[l].entry = entry /\ TailIn(items', l, L)
               /\ \A k \in 1 .. Len(items) :
                     items[k].addr # a /\ TailIn(items, k, L) =>
                     \E l \in 1 .. Len(items') :
                         items'[l] = items[k] /\ TailIn(items', l, L)
    <3>1. /\ items' = get /\ heap[a].entry = NoEntry /\ Reuses(a)
      BY <1>8, <1>12, <2>1, <2>3
    <3>2. /\ Cached(a) # NoEntry /\ entry = Cached(a)
      BY <3>1 DEF Reuses, LayerEntry, entry
    <3>3. Matches(items, a) /\ entry = ItemAt(items, a).entry
      BY <3>1, <3>2 DEF Cached
    <3>4. ItemAt(items, a).addr = a /\ ItemAt(items, a).ident = heap[a].ident
      BY <3>3, PlaceOfHeld DEF Matches, ItemAt
    <3>5. Len(get) \in Nat \ {0} /\ get[Len(get)] = ItemAt(items, a)
      BY <1>6, <3>3 DEF AsTouched
    <3>6. TailIn(get, Len(get), L)
      BY <1>1, <3>4, <3>5 DEF TailIn
    <3>7. Len(get) \in 1 .. Len(get)
      BY <3>5
    <3>8. \A k \in 1 .. Len(items) :
              items[k].addr # a /\ TailIn(items, k, L) =>
              \E l \in 1 .. Len(get) : get[l] = items[k] /\ TailIn(get, l, L)
      BY <1>1, <1>6 DEF AsTouched
    <3> HIDE DEF L
    <3> QED
      BY <3>1, <3>3, <3>4, <3>5, <3>6, <3>7, <3>8
  <2> QED
    BY <2>2, <2>3 DEF entry
<1>13. CASE ~Reuses(a) /\ kind # "open"
  <2>1. items' = put
    BY <1>1, <1>8, <1>13 DEF put
  <2>2. items' \in Seq(Item) /\ Store(items')
    BY <1>10, <2>1 DEF AsPut
  <2>3. ASSUME NEW i \in 1 .. Len(items')
        PROVE  Sound(items'[i].entry) /\ items'[i].entry.source # "common"
    <3>1. items'[i] = item \/ \E j \in 1 .. Len(get) : items'[i] = get[j]
      BY <1>10, <2>1 DEF AsPut
    <3>2. item.entry = entry
      BY DEF item
    <3> QED
      BY <1>2, <1>11, <1>13, <3>1, <3>2
  <2>4. ASSUME Cardinality(L) <= Capacity
        PROVE  /\ \E l \in 1 .. Len(items') :
                     /\ items'[l].addr = a /\ items'[l].ident = heap[a].ident
                     /\ items'[l].entry = entry /\ TailIn(items', l, L)
               /\ \A k \in 1 .. Len(items) :
                     items[k].addr # a /\ TailIn(items, k, L) =>
                     \E l \in 1 .. Len(items') :
                         items'[l] = items[k] /\ TailIn(items', l, L)
    <3>1. item.addr = a /\ item.ident = heap[a].ident /\ item.entry = entry
      BY DEF item
    <3>2. Len(put) \in Nat \ {0} /\ put[Len(put)] = item
      BY <1>10 DEF AsPut
    <3>3. TailIn(put, Len(put), L)
      BY <1>1, <3>1, <3>2 DEF TailIn
    <3>4. Len(put) \in 1 .. Len(put)
      BY <3>2
    <3>5. ASSUME NEW k \in 1 .. Len(items), items[k].addr # a, TailIn(items, k, L)
          PROVE  \E l \in 1 .. Len(put) : put[l] = items[k] /\ TailIn(put, l, L)
      <4>1. PICK j \in 1 .. Len(get) : get[j] = items[k] /\ TailIn(get, j, L)
        BY <1>1, <1>6, <3>5 DEF AsTouched
      <4> QED
        BY <1>1, <1>5, <1>10, <2>4, <3>1, <3>5, <4>1 DEF AsPut
    <3> HIDE DEF L
    <3> QED
      BY <2>1, <3>1, <3>2, <3>3, <3>4, <3>5
  <2> QED
    BY <2>2, <2>3, <2>4 DEF entry
<1> QED
  BY <1>12, <1>13

(* A lookup in the new side store.                                         *)
LEMMA NextCached ==
    ASSUME Store(items'), NEW b \in Addr, heap'[b].entry = NoEntry,
           NEW l \in 1 .. Len(items'), items'[l].addr = b,
           items'[l].ident = heap'[b].ident
    PROVE  Matches(items, b)' /\ Cached(b)' = items'[l].entry
<1>1. Unique(items')
  BY DEF Store, Unique
<1>2. Held(items', b) /\ ItemAt(items', b) = items'[l]
  BY <1>1, ItemFound
<1> QED
  BY <1>2 DEF Matches, Cached

(* A layer changes nothing of an object that its entry is compared with.   *)
LEMMA StillReusable ==
    ASSUME NEW b \in Addr, NEW e, Reusable(b, e), Cached(b)' = e,
           heap'[b].core = heap[b].core, heap'[b].official = heap[b].official,
           heap'[b].gen = heap[b].gen, heap'[b].runner = heap[b].runner,
           heap'[b].runnerStep = heap[b].runnerStep
    PROVE  Reusable(b, Cached(b))'
<1>1. PromptLens(heap'[b], NoPrompt) = PromptLens(heap[b], NoPrompt)
  BY DEF PromptLens
<1>2. \A values, gen, n : Fingerprint(heap'[b], values, gen, n) =
                          Fingerprint(heap[b], values, gen, n)
  BY DEF Fingerprint
<1> QED
  BY <1>1, <1>2 DEF Reusable

(* The layers of a step find one entry.                                    *)
LEMMA LayerOneEntry ==
    ASSUME CacheInv, NEW a \in Addr, NEW raises \in BOOLEAN, Layer(a, raises)
    PROVE  OneEntry'
<1> DEFINE entry == LayerEntry(a, raises)
<1> SUFFICES ASSUME ~step'.failed,
                    kind' = "open" \/ Cardinality(step'.leaves) <= Capacity,
                    NEW b \in Addr, recorded'[b] # {}
             PROVE  /\ recorded'[b] = {Cached(b)'.plan}
                    /\ Cached(b)' # NoEntry /\ Reusable(b, Cached(b))'
                    /\ IF kind' = "open" THEN heap'[b].entry # NoEntry
                       ELSE Matches(items, b)' /\ Recent(b)'
  BY DEF OneEntry
<1>1. /\ pc = "layers" /\ a \in step.leaves /\ (raises => ~Reuses(a))
      /\ kind = "open" => heap'[a].entry = entry
      /\ b # a \/ kind # "open" => heap'[b].entry = heap[b].entry
      /\ heap'[b].core = heap[b].core /\ heap'[b].official = heap[b].official
      /\ heap'[b].ident = heap[b].ident /\ heap'[b].gen = heap[b].gen
      /\ heap'[b].runner = heap[b].runner
      /\ heap'[b].runnerStep = heap[b].runnerStep
      /\ step'.leaves = step.leaves /\ ~step.failed /\ ~raises
  BY LayerObjects
<1>2. /\ kind' = kind
      /\ recorded' = IF Capturing(a) THEN recorded
                     ELSE [recorded EXCEPT ![a] = @ \cup {entry.plan}]
  BY DEF Layer
<1>3. /\ entry \in Entry /\ entry # NoEntry
      /\ ~IsGraph(a) => Reusable(a, entry)
  BY <1>1, LayerPlan, EntryIsSome
<1>4. kind # "open" => heap[b].entry = NoEntry /\ heap'[b].entry = NoEntry
  BY <1>1 DEF CacheInv, Objects
<1>5. ASSUME NEW c \in Addr, recorded[c] # {}
      PROVE  /\ recorded[c] = {Cached(c).plan} /\ c \in step.leaves
             /\ Cached(c) # NoEntry /\ Reusable(c, Cached(c))
             /\ IF kind = "open" THEN heap[c].entry # NoEntry
                ELSE Matches(items, c) /\ Recent(c)
  BY <1>1, <1>2, <1>5 DEF CacheInv, OneEntry, Phases
<1>6. recorded \in [Addr -> SUBSET Nat]
  BY DEF CacheInv, TypeOK
<1>7. CASE b # a
  <2>1. recorded'[b] = recorded[b]
    BY <1>2, <1>6, <1>7
  <2>2. /\ recorded[b] = {Cached(b).plan} /\ Cached(b) # NoEntry
        /\ Reusable(b, Cached(b))
        /\ IF kind = "open" THEN heap[b].entry # NoEntry
           ELSE Matches(items, b) /\ Recent(b)
    BY <1>5, <2>1
  <2>3. Cached(b)' = Cached(b) /\ (IF kind = "open" THEN heap'[b].entry # NoEntry
                                   ELSE Matches(items, b)' /\ Recent(b)')
    <3>1. CASE kind = "open"
      BY <3>1, <1>1, <1>7, <2>2 DEF Cached
    <3>2. CASE kind # "open"
      <4>1. PICK k \in 1 .. Len(items) :
                items[k].addr = b /\ TailIn(items, k, step.leaves)
        BY <2>2, <3>2 DEF Recent
      <4>2. /\ ItemAt(items, b) = items[k] /\ items[k].ident = heap[b].ident
            /\ Cached(b) = items[k].entry
        <5>1. Unique(items)
          BY DEF CacheInv, Items, Store, Unique
        <5>2. ItemAt(items, b) = items[k]
          BY <4>1, <5>1, ItemFound
        <5> QED
          BY <1>4, <2>2, <3>2, <5>2 DEF Matches, Cached
      <4>3. PICK l \in 1 .. Len(items') :
                items'[l] = items[k] /\ TailIn(items', l, step.leaves)
        BY <1>1, <1>2, <1>7, <3>2, <4>1, LayerItems
      <4>4. Store(items')
        BY LayerItems
      <4>5. Matches(items, b)' /\ Cached(b)' = items'[l].entry
        BY <1>1, <1>4, <3>2, <4>1, <4>2, <4>3, <4>4, NextCached
      <4>6. Recent(b)'
        BY <1>1, <4>1, <4>3 DEF Recent
      <4> QED
        BY <3>2, <4>2, <4>3, <4>5, <4>6
    <3> QED
      BY <3>1, <3>2
  <2>4. Reusable(b, Cached(b))'
    BY <1>1, <2>2, <2>3, StillReusable
  <2> QED
    BY <1>2, <2>1, <2>2, <2>3, <2>4
<1>8. CASE b = a
  <2>1. recorded'[a] = {entry.plan} /\ Reusable(a, entry)
    <3>1. CASE recorded[a] # {}
      <4>1. Reuses(a) /\ recorded[a] = {Cached(a).plan} /\ Reusable(a, Cached(a))
        BY <1>5, <3>1 DEF Reuses
      <4>2. entry = Cached(a)
        BY <4>1 DEF LayerEntry
      <4> HIDE DEF entry
      <4> QED
        BY <1>2, <1>6, <4>1, <4>2
    <3>2. CASE recorded[a] = {}
      <4>1. ~Capturing(a)
        BY <1>2, <1>8, <3>2
      <4>2. recorded'[a] = {entry.plan}
        BY <1>2, <1>6, <3>2, <4>1
      <4>3. Reusable(a, entry)
        BY <1>3, <4>1 DEF Capturing
      <4> QED
        BY <4>2, <4>3
    <3> QED
      BY <3>1, <3>2
  <2>2. Cached(a)' = entry /\ (IF kind = "open" THEN heap'[a].entry # NoEntry
                               ELSE Matches(items, a)' /\ Recent(a)')
    <3> HIDE DEF entry
    <3>1. CASE kind = "open"
      BY <3>1, <1>1, <1>3 DEF Cached
    <3>2. CASE kind # "open"
      <4>1. PICK l \in 1 .. Len(items') :
                /\ items'[l].addr = a /\ items'[l].ident = heap[a].ident
                /\ items'[l].entry = entry
                /\ TailIn(items', l, step.leaves)
        BY <1>1, <1>2, <3>2, LayerItems DEF entry
      <4>2. Store(items')
        BY LayerItems
      <4>3. Matches(items, a)' /\ Cached(a)' = items'[l].entry
        BY <1>1, <1>4, <1>8, <3>2, <4>1, <4>2, NextCached
      <4>4. Recent(a)'
        BY <1>1, <4>1 DEF Recent
      <4> QED
        BY <3>2, <4>1, <4>3, <4>4
    <3> QED
      BY <3>1, <3>2
  <2> HIDE DEF entry
  <2>3. Reusable(a, Cached(a))'
    BY <1>1, <1>8, <2>1, <2>2, StillReusable
  <2> QED
    BY <1>2, <1>3, <1>8, <2>1, <2>2, <2>3
<1> QED
  BY <1>7, <1>8

(* The state a layer leaves, but for what it did.                          *)
LEMMA LayerState ==
    ASSUME CacheInv, NEW a \in Addr, NEW raises \in BOOLEAN, Layer(a, raises)
    PROVE  TypeOK' /\ Phases' /\ Objects' /\ Items' /\ Leaves'
<1> DEFINE entry == LayerEntry(a, raises)
<1>1. /\ pc = "layers" /\ a \in step.leaves /\ (raises => ~Reuses(a))
      /\ heap' \in [Addr -> Object]
      /\ kind = "open" => heap'[a].entry = entry
      /\ \A b \in Addr :
             /\ b # a \/ kind # "open" => heap'[b].entry = heap[b].entry
             /\ heap'[b].core = heap[b].core
             /\ heap'[b].official = heap[b].official
             /\ heap'[b].ident = heap[b].ident /\ heap'[b].born = heap[b].born
             /\ heap'[b].gen = heap[b].gen /\ heap'[b].runner = heap[b].runner
             /\ heap'[b].runnerStep = heap[b].runnerStep
             /\ heap'[b].graph = heap[b].graph
             /\ heap'[b].built = heap[b].built
             /\ heap'[b].forGraph = heap[b].forGraph
  BY LayerObjects
<1>2. /\ step' \in Step
      /\ step'.number = step.number /\ step'.core = step.core
      /\ step'.prompt = step.prompt /\ step'.common = step.common
      /\ step'.candidate = step.candidate /\ step'.leaves = step.leaves
      /\ step'.graph = step.graph
      /\ ~step'.failed => ~step.failed /\ ~raises
      /\ next' \in [ident : Nat \ {0}, gen : Nat \ {0}, step : Nat \ {0},
                    plan : Nat \ {0}]
      /\ next'.ident = next.ident
  BY LayerObjects
<1>3. /\ graphItems' = graphItems \/ graphItems' = StoreTouch(graphItems, a)
      /\ used' = [leaf |-> a, entry |-> entry, capturing |-> Capturing(a),
                  launched |-> Direct(entry) /\ ~Capturing(a)]
      /\ recorded' = IF Capturing(a) THEN recorded
                     ELSE [recorded EXCEPT ![a] = @ \cup {entry.plan}]
      /\ layers' = layers + 1
      /\ UNCHANGED << kind, patched, pc, todo >>
  BY DEF Layer
<1>4. /\ entry \in Entry /\ Sound(entry)
      /\ entry.source = "common" =>
             /\ Reuses(a)
             /\ entry.core = heap[a].built[1]
             /\ PlanPrompt(entry) = heap[a].built[2]
  BY <1>1, LayerPlan
<1>5. /\ todo = {} /\ step.prompt \in Prompt /\ recorded \in [Addr -> SUBSET Nat]
      /\ heap \in [Addr -> Object] /\ heap[a] \in Object
  BY <1>1 DEF CacheInv, TypeOK, Phases
<1>6. Capturing(a) \in BOOLEAN
  <2>1. heap[a].graph \in BOOLEAN /\ step.graph \in BOOLEAN
    BY <1>5 DEF CacheInv, TypeOK, Object, Step
  <2>2. IsGraph(a) \in BOOLEAN
    BY DEF IsGraph, Matches, Held
  <2> QED
    BY <2>1, <2>2 DEF Capturing
<1>7. AsTouched(GraphItem, graphItems, a, StoreTouch(graphItems, a))
  BY TouchItems DEF CacheInv, TypeOK, Items
<1>8. /\ graphItems' \in Seq(GraphItem) /\ Store(graphItems')
      /\ \A i \in 1 .. Len(graphItems') :
             \E j \in 1 .. Len(graphItems) : graphItems'[i] = graphItems[j]
  BY <1>3, <1>7 DEF AsTouched, CacheInv, TypeOK, Items
<1>9. TypeOK'
  <2>1. items' \in Seq(Item)
    BY LayerItems
  <2>2. used' \in [leaf : Addr, entry : Entry, capturing : BOOLEAN,
                   launched : BOOLEAN]
    <3>1. (Direct(entry) /\ ~Capturing(a)) \in BOOLEAN
      OBVIOUS
    <3> HIDE DEF entry
    <3> QED
      BY <1>3, <1>4, <1>6, <3>1
  <2>3. recorded' \in [Addr -> SUBSET Nat]
    <3>1. entry.plan \in Nat
      BY <1>4 DEF Entry
    <3> HIDE DEF entry
    <3> QED
      BY <1>3, <1>5, <3>1
  <2>4. layers' \in Nat
    BY <1>3 DEF CacheInv, TypeOK
  <2>5. todo' \in SUBSET step'.leaves
    BY <1>2, <1>3, <1>5
  <2> QED
    BY <1>1, <1>2, <1>3, <1>8, <2>1, <2>2, <2>3, <2>4, <2>5 DEF CacheInv, TypeOK
<1>10. Phases'
  <2>1. \A b \in Addr : recorded'[b] # {} => b \in step.leaves
    <3>1. \A b \in Addr \ {a} : recorded'[b] = recorded[b]
      BY <1>3, <1>5
    <3> QED
      BY <1>1, <3>1 DEF CacheInv, Phases
  <2> QED
    BY <1>1, <1>2, <1>3, <1>5, <2>1 DEF CacheInv, Phases
<1>11. Objects'
  <2>1. kind = "open" =>
            /\ Sound(heap'[a].entry)
            /\ heap'[a].entry.source = "common" =>
                   /\ heap'[a].entry.core = heap'[a].built[1]
                   /\ PlanPrompt(heap'[a].entry) = heap'[a].built[2]
    <3> HIDE DEF entry
    <3> QED
      BY <1>1, <1>4
  <2> QED
    BY <1>1, <1>2, <1>3, <2>1 DEF CacheInv, Objects
<1>12. Items'
  <2>1. ASSUME NEW i \in 1 .. Len(graphItems')
        PROVE  /\ graphItems'[i].ident < next'.ident
               /\ graphItems'[i].ident = heap'[graphItems'[i].addr].ident =>
                      heap'[graphItems'[i].addr].forGraph
    <3>1. PICK j \in 1 .. Len(graphItems) : graphItems'[i] = graphItems[j]
      BY <1>8
    <3>2. graphItems[j] \in GraphItem
      BY StoredItems DEF CacheInv
    <3>3. graphItems[j].addr \in Addr
      BY <3>2 DEF GraphItem
    <3> QED
      BY <1>1, <1>2, <3>1, <3>3 DEF CacheInv, Items
  <2>2. /\ Store(items')
        /\ \A i \in 1 .. Len(items') :
               Sound(items'[i].entry) /\ items'[i].entry.source # "common"
    BY LayerItems
  <2> QED
    BY <1>8, <2>1, <2>2 DEF Items
<1>13. Leaves'
  <2>1. step.leaves \subseteq Addr
    BY DEF CacheInv, TypeOK, Step
  <2> QED
    BY <1>1, <1>2, <1>3, <2>1 DEF CacheInv, Leaves
<1> QED
  BY <1>9, <1>10, <1>11, <1>12, <1>13

(* A layer reuses the plan its object got from the common metadata.        *)
LEMMA CommonReused ==
    ASSUME CacheInv, pc = "layers", NEW a \in step.leaves, NEW raises \in BOOLEAN,
           kind = "open", ~step.failed, step.common # NoPrompt,
           step.candidate = NoPrompt, heap[a].born = step.number,
           heap[a].official = NoPrompt
    PROVE  /\ LayerEntry(a, raises) = heap[a].entry
           /\ PlanPrompt(heap[a].entry) = step.prompt
<1> DEFINE e == heap[a].entry
<1>1. /\ heap[a].runner = NoPrompt /\ heap[a].gen # 0 /\ e # NoEntry
      /\ e.source = "common"
      /\ e.fingerprint = Fingerprint(heap[a], step.prompt, heap[a].gen, 0)
  BY LeafPrompt DEF CacheInv, CommonKept
<1>2. Cached(a) = e
  BY <1>1 DEF Cached
<1>3. PlanPrompt(e) = step.prompt /\ e.fingerprint.step = 0
  BY <1>1 DEF PlanPrompt, Fingerprint
<1>4. PromptLens(heap[a], NoPrompt).values = NoPrompt
  BY <1>1 DEF PromptLens
<1>5. Reusable(a, e)
  BY <1>1, <1>3, <1>4 DEF Reusable
<1> QED
  BY <1>1, <1>2, <1>3, <1>5 DEF LayerEntry, Reuses

(* What a layer changes whichever way its lookup goes.                     *)
LEMMA LayerCommon ==
    ASSUME CacheInv, NEW a \in Addr, NEW raises \in BOOLEAN, Layer(a, raises)
    PROVE  CommonKept'
<1>1. /\ pc = "layers" /\ a \in step.leaves
      /\ kind = "open" => heap'[a].entry = LayerEntry(a, raises)
      /\ \A b \in Addr :
             /\ b # a => heap'[b].entry = heap[b].entry
             /\ heap'[b].core = heap[b].core
             /\ heap'[b].official = heap[b].official
             /\ heap'[b].born = heap[b].born
             /\ heap'[b].gen = heap[b].gen /\ heap'[b].runner = heap[b].runner
      /\ step'.number = step.number /\ step'.prompt = step.prompt
      /\ step'.common = step.common /\ step'.candidate = step.candidate
      /\ step'.leaves = step.leaves
      /\ ~step'.failed => ~step.failed
  BY LayerObjects
<1>2. kind' = kind /\ pc' = pc /\ todo' = todo /\ step.leaves \subseteq Addr
  BY DEF Layer, CacheInv, TypeOK, Step
<1> SUFFICES ASSUME kind = "open", ~step'.failed, step'.common # NoPrompt,
                    step'.candidate = NoPrompt,
                    NEW b \in step'.leaves \ todo',
                    heap'[b].born = step'.number, heap'[b].official = NoPrompt
             PROVE  /\ heap'[b].runner = NoPrompt
                    /\ heap'[b].gen # 0
                    /\ heap'[b].entry # NoEntry
                    /\ heap'[b].entry.source = "common"
                    /\ heap'[b].entry.fingerprint =
                           Fingerprint(heap'[b], step'.prompt, heap'[b].gen, 0)
  BY <1>2 DEF CommonKept
<1>3. /\ heap[b].runner = NoPrompt /\ heap[b].gen # 0
      /\ heap[b].entry # NoEntry /\ heap[b].entry.source = "common"
      /\ heap[b].entry.fingerprint =
             Fingerprint(heap[b], step.prompt, heap[b].gen, 0)
  BY <1>1, <1>2 DEF CacheInv, CommonKept
<1>4. heap'[b].entry = heap[b].entry
  <2>1. CASE b # a
    BY <2>1, <1>1, <1>2
  <2>2. CASE b = a
    BY <2>2, <1>1, <1>2, CommonReused
  <2> QED
    BY <2>1, <2>2
<1>5. Fingerprint(heap'[b], step'.prompt, heap'[b].gen, 0) =
          Fingerprint(heap[b], step.prompt, heap[b].gen, 0)
  BY <1>1, <1>2 DEF Fingerprint
<1> QED
  BY <1>1, <1>2, <1>3, <1>4, <1>5

(* What the layer did.                                                     *)
LEMMA LayerUsed ==
    ASSUME CacheInv, NEW a \in Addr, NEW raises \in BOOLEAN, Layer(a, raises)
    PROVE  LaunchFresh' /\ KnownPromptUsed' /\ CaptureIsReal'
<1> DEFINE entry == LayerEntry(a, raises)
           p == PromptLens(heap[a], NoPrompt)
<1>1. /\ pc = "layers" /\ a \in step.leaves /\ (raises => ~Reuses(a))
      /\ heap'[a].official = heap[a].official /\ heap'[a].born = heap[a].born
      /\ heap'[a].forGraph = heap[a].forGraph
      /\ step'.number = step.number /\ step'.core = step.core
      /\ step'.prompt = step.prompt /\ step'.common = step.common
      /\ step'.candidate = step.candidate /\ step'.graph = step.graph
      /\ ~step'.failed => ~step.failed /\ ~raises
  BY LayerObjects
<1>2. /\ used' = [leaf |-> a, entry |-> entry, capturing |-> Capturing(a),
                  launched |-> Direct(entry) /\ ~Capturing(a)]
      /\ kind' = kind
  BY DEF Layer
<1>3. ~Capturing(a) =>
          /\ entry.core = step.core
          /\ PlanPrompt(entry) \in {NoPrompt, step.prompt}
          /\ ~raises /\ p.values # NoPrompt => PlanPrompt(entry) = step.prompt
  BY <1>1, LayerPlan DEF Capturing
<1>4. step.prompt \in Prompt /\ NoPrompt \notin Prompt
  BY <1>1, PlanCacheAssumption DEF CacheInv, Phases, PlanCacheAssumption
<1>5. LaunchFresh'
  <2>1. ASSUME Direct(entry), ~Capturing(a)
        PROVE  << entry.core, PlanPrompt(entry) >> = << step.core, step.prompt >>
    <3> HIDE DEF entry
    <3>1. PlanPrompt(entry) \in Prompt
      BY <2>1, PlanCacheAssumption DEF Direct, PlanCacheAssumption
    <3> QED
      BY <2>1, <3>1, <1>3, <1>4
  <2>2. used'.entry = entry /\ (used'.launched => Direct(entry) /\ ~Capturing(a))
    BY <1>2
  <2> HIDE DEF entry
  <2> QED
    BY <1>1, <2>1, <2>2 DEF LaunchFresh
<1>6. KnownPromptUsed'
  <2>1. used'.leaf = a /\ used'.entry = entry /\ (~used'.capturing => ~Capturing(a))
    BY <1>2
  <2> SUFFICES ASSUME ~Capturing(a), ~step'.failed, PromptKnown(a)'
               PROVE  PlanPrompt(entry) = step.prompt
    <3> HIDE DEF entry
    <3> QED
      BY <1>1, <1>2, <2>1 DEF KnownPromptUsed, PromptKnown
  <2>2. ~raises /\ ~step.failed /\ PromptKnown(a)
    BY <1>1, <1>2 DEF PromptKnown
  <2>3. CASE heap[a].official # NoPrompt
    BY <2>2, <2>3, <1>3 DEF PromptLens
  <2>4. CASE heap[a].official = NoPrompt /\ kind = "open" /\ step.candidate # NoPrompt
    <3>1. heap[a].runner = step.prompt /\ heap[a].runnerStep > 0
      BY <1>1, <2>4, LeafPrompt DEF CacheInv, Leaves
    <3> QED
      BY <2>2, <3>1, <1>3, <1>4 DEF PromptLens
  <2>5. CASE /\ heap[a].official = NoPrompt /\ kind = "open"
             /\ step.candidate = NoPrompt /\ step.common # NoPrompt
             /\ heap[a].born = step.number
    BY <1>1, <2>2, <2>5, CommonReused
  <2> QED
    BY <2>2, <2>3, <2>4, <2>5 DEF PromptKnown
<1>7. CaptureIsReal'
  <2>1. used'.leaf = a /\ (used'.capturing => Capturing(a))
    BY <1>2
  <2>2. heap[a].graph => heap[a].forGraph
    BY DEF CacheInv, Objects
  <2>3. IsGraph(a) => heap[a].forGraph
    <3> SUFFICES ASSUME IsGraph(a)
                 PROVE  heap[a].forGraph
      OBVIOUS
    <3>1. /\ Place(graphItems, a) \in 1 .. Len(graphItems)
          /\ graphItems[Place(graphItems, a)].addr = a
          /\ graphItems[Place(graphItems, a)].ident = heap[a].ident
      BY PlaceOfHeld DEF IsGraph, Matches, ItemAt
    <3> QED
      BY <3>1 DEF CacheInv, Items
  <2> QED
    BY <1>1, <2>1, <2>2, <2>3 DEF CaptureIsReal, Capturing
<1> QED
  BY <1>5, <1>6, <1>7

(* The layers of a step report one plan.                                   *)
LEMMA LayerOnePlan ==
    ASSUME CacheInv, NEW a \in Addr, NEW raises \in BOOLEAN, Layer(a, raises)
    PROVE  OnePlanPerStep'
<1>1. OneEntry' /\ pc' = "layers" /\ kind' = kind
  BY LayerOneEntry DEF Layer
<1> SUFFICES ASSUME ~step'.failed,
                    kind' = "open" \/ Cardinality(step'.leaves) <= Capacity,
                    NEW b \in Addr
             PROVE  Cardinality(recorded'[b]) <= 1
  BY DEF OnePlanPerStep
<1>2. CASE recorded'[b] = {}
  BY <1>2, FS_EmptySet
<1>3. CASE recorded'[b] # {}
  <2>1. recorded'[b] = {Cached(b)'.plan}
    BY <1>1, <1>3 DEF OneEntry
  <2>2. \A x : Cardinality({x}) = 1
    BY FS_Singleton
  <2>3. Cardinality({Cached(b)'.plan}) = 1
    BY <2>2
  <2> QED
    BY <2>1, <2>3
<1> QED
  BY <1>2, <1>3

(* A layer that looks up, builds, launches and records keeps it all.       *)
LEMMA LayerKeeps ==
    ASSUME CacheInv, NEW a \in Addr, NEW raises \in BOOLEAN, Layer(a, raises)
    PROVE  CacheInv'
  BY LayerState, LayerCommon, LayerUsed, LayerOneEntry, LayerOnePlan DEF CacheInv

(* Every step keeps the invariant.                                         *)
LEMMA NextKeeps ==
    ASSUME CacheInv, [Next]_vars
    PROVE  CacheInv'
<1>1. CASE PatchRunner
  BY <1>1, PatchKeeps
<1>2. CASE \E core \in Core, prompt \in Prompt, graph \in BOOLEAN,
              leaves \in SUBSET Addr \ {{}} :
              \E common, candidate \in {NoPrompt, prompt} :
                  StartStep(core, prompt, common, candidate, graph, leaves)
  <2>1. PICK core \in Core, prompt \in Prompt, graph \in BOOLEAN,
             leaves \in SUBSET Addr \ {{}} :
             \E common, candidate \in {NoPrompt, prompt} :
                 StartStep(core, prompt, common, candidate, graph, leaves)
    BY <1>2
  <2>2. PICK common \in {NoPrompt, prompt}, candidate \in {NoPrompt, prompt} :
             StartStep(core, prompt, common, candidate, graph, leaves)
    BY <2>1
  <2>3. leaves \in SUBSET Addr
    OBVIOUS
  <2> QED
    BY <2>2, <2>3, StartKeeps
<1>3. CASE \E a \in Addr, core \in Core, prompt \in Prompt :
              \E official, candidate \in {NoPrompt, prompt} :
                  Refill(a, core, prompt, official, candidate)
  BY <1>3, RefillKeeps
<1>4. CASE \E a \in Addr, official \in {NoPrompt, step.prompt}, raises \in BOOLEAN :
              BuildNew(a, official, raises) \/ BuildSame(a, official, raises)
  <2>1. PICK a \in Addr, official \in {NoPrompt, step.prompt}, raises \in BOOLEAN :
             BuildNew(a, official, raises) \/ BuildSame(a, official, raises)
    BY <1>4
  <2>2. CASE BuildNew(a, official, raises)
    <3>1. pc = "build" /\ Build(a, NewObject(official), raises)
      BY <2>2 DEF BuildNew, Build
    <3>2. Returned(a, NewObject(official))
      BY <3>1, NewReturned
    <3> QED
      BY <3>1, <3>2, BuildKeeps
  <2>3. CASE BuildSame(a, official, raises)
    <3>1. pc = "build" /\ Build(a, SameObject(a, official), raises)
      BY <2>3 DEF BuildSame, Build
    <3>2. Returned(a, SameObject(a, official))
      BY <3>1, SameReturned
    <3> QED
      BY <3>1, <3>2, BuildKeeps
  <2> QED
    BY <2>1, <2>2, <2>3
<1>5. CASE AttachRunnerPrompt
  BY <1>5, AttachKeeps
<1>6. CASE \E a \in Addr, raises \in BOOLEAN : Layer(a, raises)
  BY <1>6, LayerKeeps
<1>7. CASE EndStep
  BY <1>7, EndKeeps
<1>8. CASE Raise
  BY <1>8, RaiseKeeps
<1>9. CASE UNCHANGED vars
  BY <1>9, StutterKeeps
<1> QED
  BY <1>1, <1>2, <1>3, <1>4, <1>5, <1>6, <1>7, <1>8, <1>9 DEF Next

(* Along every behaviour of the plan cache.                                *)
LEMMA CacheInvariant == Spec => []CacheInv
  BY InitKeeps, NextKeeps, PTL DEF Spec

(* The state of the plan cache keeps its types.                            *)
THEOREM TypeInvariant == Spec => []TypeOK
<1>1. CacheInv => TypeOK
  BY DEF CacheInv
<1> QED
  BY <1>1, CacheInvariant, PTL

(* Whatever objects, addresses and prompts are reused, and however small   *)
(* the side stores are, a layer launches only with the lengths and the     *)
(* final prompt of the scheduler step it runs in.                          *)
THEOREM LaunchesFresh == Spec => []LaunchFresh
<1>1. CacheInv => LaunchFresh
  BY DEF CacheInv
<1> QED
  BY <1>1, CacheInvariant, PTL

(* A layer outside graph capture plans with the final prompt length when   *)
(* its step told the plugin one.                                           *)
THEOREM UsesKnownPrompt == Spec => []KnownPromptUsed
<1>1. CacheInv => KnownPromptUsed
  BY DEF CacheInv
<1> QED
  BY <1>1, CacheInvariant, PTL

(* The layers of a step that share a metadata object record one plan, as   *)
(* long as the side store has room for the objects of one step.            *)
THEOREM RecordsOnePlan == Spec => []OnePlanPerStep
<1>1. CacheInv => OnePlanPerStep
  BY DEF CacheInv
<1> QED
  BY <1>1, CacheInvariant, PTL

(* Only a capture step, or an object built for one, is treated as captured.*)
THEOREM CapturesAreReal == Spec => []CaptureIsReal
<1>1. CacheInv => CaptureIsReal
  BY DEF CacheInv
<1> QED
  BY <1>1, CacheInvariant, PTL
=============================================================================
