------------------------- MODULE TypedClientsProofs -------------------------
(***************************************************************************)
(* Proofs about the generated clients, listers and deep copies, for any    *)
(* set of names and consumers and any number of writes and edits: deep     *)
(* copies own their memory, cached objects are never changed, and updates  *)
(* of the status never undo a change of the spec.                          *)
(***************************************************************************)
EXTENDS TypedClients, TLAPS

Val(k) == [Fields(k) -> Nat]

AnyObj == [rv : Nat, val : Val("ProviderConfig") \cup Val("Tenant")]

Entry == [kind : Kind, name : Name, obj : AnyObj]

\* A copy that shares no memory.
Item(k) == [val : Val(k), shared : {{}}]

CopyOf(k) ==
  [kind : {k}, type : {k, "List"},
   items : UNION {[names -> Item(k)] : names \in SUBSET Name},
   rvs : UNION {[names -> Nat] : names \in SUBSET Name}]

Copies == UNION {CopyOf(k) : k \in Kind}

TypesOK ==
  /\ log \in Seq(Entry)
  /\ store \in [Kind -> [Name -> AnyObj]]
  /\ cache \in [Kind -> [Name -> AnyObj]]
  /\ pos \in [Kind -> Nat]
  /\ held \in [Consumer -> Copies \cup {NoCopy}]
  /\ edits \in Nat

\* No value is newer than the last edit.
LogOK ==
  \A i \in 1..Len(log) :
    /\ log[i].obj.val \in Val(log[i].kind)
    /\ log[i].obj.rv \in {0, i}
    /\ \A f \in Fields(log[i].kind) : log[i].obj.val[f] <= edits + 1

\* The object o of kind k is absent or as some write has stored it.
AsWritten(k, o) ==
  /\ o.val \in Val(k)
  /\ Live(o) => /\ o.rv \in 1..Len(log)
                /\ log[o.rv].kind = k
                /\ log[o.rv].obj = o

ObjectsOK ==
  \A k \in Kind, n \in Name : AsWritten(k, store[k][n]) /\ AsWritten(k, cache[k][n])

\* A consumer's copy is that of a stored object, with newer values.
HeldOK ==
  \A c \in Consumer : held[c] # NoCopy =>
    LET h == held[c]
    IN  /\ DOMAIN h.rvs = DOMAIN h.items
        /\ \A n \in DOMAIN h.items :
             /\ h.rvs[n] \in 1..Len(log)
             /\ log[h.rvs[n]].kind = h.kind
             /\ \A f \in Fields(h.kind) :
                  /\ h.items[n].val[f] >= log[h.rvs[n]].obj.val[f]
                  /\ h.items[n].val[f] <= edits + 1

TCInv == TypesOK /\ LogOK /\ ObjectsOK /\ HeldOK

-----------------------------------------------------------------------------
(* Deep copies. *)

(* The references of a type that is not assigned as a plain value.         *)
LEMMA ProviderConfigCopies ==
  ASSUME NEW t \in DOMAIN ProviderConfigTypes, NEW s,
         s = [val |-> s.val, shared |-> s.shared],
         s.shared \subseteq ProviderConfigTypes[t].refs
  PROVE  DeepCopyInto(t, s) = [val |-> s.val, shared |-> {}]
PROOF
<1>1. t \in {"Range", "ProviderConfigSecondaryRange", "AuthConfig", "PrincipalInfo",
            "ProviderConfigSubnetInfo", "ProviderNetworkConfig", "ProviderConfigSpec",
            "ProviderConfigStatus", "ProviderConfig"}
  BY DEF ProviderConfigTypes
<1>2. CASE t \in {"Range", "ProviderConfigSecondaryRange", "AuthConfig", "PrincipalInfo"}
  <2>1. ProviderConfigTypes[t].refs = {}
    BY <1>2 DEF ProviderConfigTypes
  <2>2. DeepCopyInto(t, s) = s
    BY <1>2 DEF DeepCopyInto, RangeDeepCopyInto, ProviderConfigSecondaryRangeDeepCopyInto,
                AuthConfigDeepCopyInto, PrincipalInfoDeepCopyInto
  <2> QED BY <2>1, <2>2
<1>3. CASE t \in {"ProviderConfigSubnetInfo", "ProviderNetworkConfig"}
  <2>1. ProviderConfigTypes[t].refs = {"NodeCIDRs", "PodRanges"}
    BY <1>3 DEF ProviderConfigTypes
  <2>2. DeepCopyInto(t, s) = Realloc(s, {"NodeCIDRs", "PodRanges"})
    BY <1>3 DEF DeepCopyInto, ProviderConfigSubnetInfoDeepCopyInto,
                ProviderNetworkConfigDeepCopyInto
  <2> QED BY <2>1, <2>2 DEF Realloc
<1>4. CASE t = "ProviderConfigSpec"
  BY <1>4 DEF DeepCopyInto, ProviderConfigTypes, Realloc, ProviderConfigSpecDeepCopyInto,
              ProviderConfigSubnetInfoDeepCopyInto, ProviderNetworkConfigDeepCopyInto
<1>5. CASE t = "ProviderConfigStatus"
  BY <1>5 DEF DeepCopyInto, ProviderConfigTypes, Realloc, ProviderConfigStatusDeepCopyInto
<1>6. CASE t = "ProviderConfig"
  BY <1>6 DEF DeepCopyInto, ProviderConfigTypes, Realloc, ProviderConfigDeepCopyInto,
              ObjectMetaDeepCopyInto, ObjectMetaRefs,
              ProviderConfigSpecDeepCopyInto, ProviderConfigStatusDeepCopyInto,
              ProviderConfigSubnetInfoDeepCopyInto, ProviderNetworkConfigDeepCopyInto
<1> QED BY <1>1, <1>2, <1>3, <1>4, <1>5, <1>6

LEMMA TenantCopies ==
  ASSUME NEW t \in DOMAIN TenantTypes, NEW s,
         s = [val |-> s.val, shared |-> s.shared],
         s.shared \subseteq TenantTypes[t].refs
  PROVE  DeepCopyInto(t, s) = [val |-> s.val, shared |-> {}]
PROOF
<1>1. t \in {"SecondaryRange", "SubnetInfo", "NetworkConfig", "TenantSpec",
            "TenantStatus", "Tenant"}
  BY DEF TenantTypes
<1>2. CASE t \in {"SubnetInfo", "NetworkConfig"}
  <2>1. TenantTypes[t].refs = {"PodRanges"}
    BY <1>2 DEF TenantTypes
  <2>2. DeepCopyInto(t, s) = Realloc(s, {"PodRanges"})
    BY <1>2 DEF DeepCopyInto, SubnetInfoDeepCopyInto, NetworkConfigDeepCopyInto
  <2> QED BY <2>1, <2>2 DEF Realloc
<1>3. CASE t = "SecondaryRange"
  BY <1>3 DEF DeepCopyInto, TenantTypes, SecondaryRangeDeepCopyInto
<1>4. CASE t = "TenantSpec"
  BY <1>4 DEF DeepCopyInto, TenantTypes, Realloc, SubnetInfoDeepCopyInto,
              NetworkConfigDeepCopyInto, TenantSpecDeepCopyInto
<1>5. CASE t = "TenantStatus"
  BY <1>5 DEF DeepCopyInto, TenantTypes, Realloc, TenantStatusDeepCopyInto
<1>6. CASE t = "Tenant"
  BY <1>6 DEF DeepCopyInto, TenantTypes, Realloc, TenantDeepCopyInto,
              ObjectMetaDeepCopyInto, ObjectMetaRefs, TenantSpecDeepCopyInto,
              SubnetInfoDeepCopyInto, NetworkConfigDeepCopyInto, TenantStatusDeepCopyInto
<1> QED BY <1>1, <1>2, <1>3, <1>4, <1>5, <1>6

(* The deep copy of every type of both kinds has the contents of the       *)
(* original and shares no memory with it, whichever fields are nil.        *)
THEOREM DeepCopyOwnsMemory ==
  ASSUME NEW k \in Kind, NEW t \in DOMAIN Types(k), NEW val
  PROVE  DeepCopyInto(t, Assign(k, t, val)) =
           [val |-> [f \in Types(k)[t].fields |-> val[f]], shared |-> {}]
PROOF
<1> DEFINE s == Assign(k, t, val)
<1>1. /\ s = [val |-> s.val, shared |-> s.shared]
      /\ s.val = [f \in Types(k)[t].fields |-> val[f]]
      /\ s.shared \subseteq Types(k)[t].refs
  BY DEF Assign
<1> HIDE DEF s
<1>2. CASE k = "ProviderConfig"
  BY <1>1, <1>2, ProviderConfigCopies DEF Types, s
<1>3. CASE k = "Tenant"
  BY <1>1, <1>3, TenantCopies DEF Types, s
<1> QED BY <1>2, <1>3 DEF Kind

(* For whole objects and for the items of a list. *)
LEMMA CopyOfObject ==
  ASSUME NEW k \in Kind, NEW val \in Val(k)
  PROVE  /\ DeepCopyInto(k, Assign(k, k, val)) = [val |-> val, shared |-> {}]
         /\ k = "Tenant" =>
              TenantDeepCopyInto(Assign(k, k, val)) = [val |-> val, shared |-> {}]
         /\ k = "ProviderConfig" =>
              ProviderConfigDeepCopyInto(Assign(k, k, val)) = [val |-> val, shared |-> {}]
PROOF
<1>1. k \in DOMAIN Types(k)
  BY DEF Kind, Types, ProviderConfigTypes, TenantTypes
<1>2. [f \in Types(k)[k].fields |-> val[f]] = val
  BY DEF Val, Fields
<1>3. DeepCopyInto(k, Assign(k, k, val)) = [val |-> val, shared |-> {}]
  BY <1>1, <1>2, DeepCopyOwnsMemory
<1>4. ASSUME NEW a PROVE /\ DeepCopyInto("Tenant", a) = TenantDeepCopyInto(a)
                         /\ DeepCopyInto("ProviderConfig", a) = ProviderConfigDeepCopyInto(a)
  BY DEF DeepCopyInto
<1> QED BY <1>3, <1>4

-----------------------------------------------------------------------------
(* The inductive invariant. *)

LEMMA AbsentIsObject ==
  ASSUME NEW k \in Kind
  PROVE  /\ Absent(k).val \in Val(k) /\ Absent(k) \in AnyObj
         /\ ~Live(Absent(k))
         /\ \A f \in Fields(k) : Absent(k).val[f] = 0
         /\ Absent(k).rv = 0
PROOF
BY DEF Absent, Val, AnyObj, Live, Kind

LEMMA TCInit == Init => TCInv
PROOF
<1> SUFFICES ASSUME Init PROVE TCInv OBVIOUS
<1>1. TypesOK
  <2>1. log \in Seq(Entry) /\ pos \in [Kind -> Nat] /\ edits \in Nat
    BY DEF Init
  <2>2. /\ store \in [Kind -> [Name -> AnyObj]]
        /\ cache \in [Kind -> [Name -> AnyObj]]
    BY AbsentIsObject DEF Init
  <2>3. held \in [Consumer -> Copies \cup {NoCopy}]
    BY DEF Init
  <2> QED BY <2>1, <2>2, <2>3 DEF TypesOK
<1>2. LogOK
  BY DEF Init, LogOK
<1>3. ObjectsOK
  BY AbsentIsObject DEF Init, ObjectsOK, AsWritten
<1>4. HeldOK
  BY DEF Init, HeldOK
<1> QED BY <1>1, <1>2, <1>3, <1>4 DEF TCInv

\* The API server only appends to its history.
LogGrows ==
  /\ Len(log') >= Len(log)
  /\ \A i \in 1..Len(log) : log'[i] = log[i]

SpecGrows ==
  \A k \in Kind, n \in Name : Live(store[k][n]) /\ Live(store[k][n])' =>
    \A f \in Fields(k) \ StatusFields : store'[k][n].val[f] >= store[k][n].val[f]

\* What a request does to the server's state.
Served ==
  /\ log' \in Seq(Entry)
  /\ store' \in [Kind -> [Name -> AnyObj]]
  /\ LogOK'
  /\ \A k \in Kind, n \in Name : AsWritten(k, store[k][n])'
  /\ LogGrows
  /\ SpecGrows

(* A request that is refused, or a step of somebody else. *)
LEMMA NotServed ==
  ASSUME TCInv, UNCHANGED <<log, store>>, edits' \in Nat, edits' >= edits
  PROVE  Served
PROOF
<1>1. LogOK'
  <2> SUFFICES ASSUME NEW i \in 1..Len(log)
               PROVE  /\ log[i].obj.val \in Val(log[i].kind)
                      /\ log[i].obj.rv \in {0, i}
                      /\ \A f \in Fields(log[i].kind) : log[i].obj.val[f] <= edits' + 1
    BY DEF LogOK
  <2> QED BY DEF TCInv, LogOK, TypesOK, Val
<1>2. LogGrows
  BY DEF LogGrows, TCInv, TypesOK
<1>3. SpecGrows
  BY DEF SpecGrows, TCInv, ObjectsOK, AsWritten, Val
<1>4. \A k \in Kind, n \in Name : AsWritten(k, store[k][n])'
  BY DEF TCInv, ObjectsOK, AsWritten
<1> QED BY <1>1, <1>2, <1>3, <1>4 DEF Served, TCInv, TypesOK

(* An accepted write of object o, live or not: what is appended to the     *)
(* history is what is stored.                                              *)
LEMMA Accepted ==
  ASSUME TCInv, edits' \in Nat, edits' >= edits,
         NEW k \in Kind, NEW n \in Name, NEW o \in AnyObj,
         o.rv \in {0, Len(log) + 1}, o.val \in Val(k),
         \A f \in Fields(k) : o.val[f] <= edits' + 1,
         Live(o) /\ Live(store[k][n]) =>
           \A f \in Fields(k) \ StatusFields : o.val[f] >= store[k][n].val[f],
         store' = [store EXCEPT ![k][n] = o],
         log' = Append(log, [kind |-> k, name |-> n, obj |-> o])
  PROVE  Served
PROOF
<1> DEFINE e == [kind |-> k, name |-> n, obj |-> o]
<1>1. /\ log' \in Seq(Entry)
      /\ Len(log') = Len(log) + 1 /\ Len(log) \in Nat
      /\ log'[Len(log) + 1] = e
      /\ \A i \in 1..Len(log) : log'[i] = log[i]
  <2>1. e \in Entry BY DEF Entry
  <2> HIDE DEF e
  <2> QED BY <2>1 DEF TCInv, TypesOK, e
<1>2. store' \in [Kind -> [Name -> AnyObj]]
  BY DEF TCInv, TypesOK
<1>3. LogOK'
  <2> SUFFICES ASSUME NEW i \in 1..Len(log')
               PROVE  /\ log'[i].obj.val \in Val(log'[i].kind)
                      /\ log'[i].obj.rv \in {0, i}
                      /\ \A f \in Fields(log'[i].kind) : log'[i].obj.val[f] <= edits' + 1
    BY DEF LogOK
  <2>1. CASE i = Len(log) + 1
    BY <1>1, <2>1
  <2>2. CASE i \in 1..Len(log)
    BY <1>1, <2>2 DEF TCInv, LogOK, TypesOK, Val
  <2>3. Len(log') = Len(log) + 1 /\ Len(log) \in Nat
    BY <1>1
  <2>4. i = Len(log) + 1 \/ i \in 1..Len(log)
    BY <2>3
  <2> QED BY <2>1, <2>2, <2>4
<1>4. LogGrows
  BY <1>1 DEF LogGrows
<1>5. ASSUME NEW j \in Kind, NEW m \in Name, j # k \/ m # n
      PROVE  store'[j][m] = store[j][m]
  BY <1>5 DEF TCInv, TypesOK
<1>6. store'[k][n] = o
  BY DEF TCInv, TypesOK
<1>7. ASSUME NEW j \in Kind, NEW m \in Name
      PROVE  AsWritten(j, store[j][m])'
  <2>1. CASE j = k /\ m = n
    <3>1. Live(o) => /\ o.rv \in 1..Len(log')
                     /\ log'[o.rv].kind = k
                     /\ log'[o.rv].obj = o
      BY <1>1 DEF Live
    <3> QED BY <1>6, <2>1, <3>1 DEF AsWritten, Live
  <2>2. CASE j # k \/ m # n
    <3>1. store'[j][m] = store[j][m] /\ AsWritten(j, store[j][m])
      BY <1>5, <2>2 DEF TCInv, ObjectsOK
    <3>2. \A i \in 1..Len(log) : i \in 1..Len(log') /\ log'[i] = log[i]
      BY <1>1
    <3> QED BY <3>1, <3>2 DEF AsWritten, Live
  <2> QED BY <2>1, <2>2
<1>8. SpecGrows
  <2> SUFFICES ASSUME NEW j \in Kind, NEW m \in Name, Live(store[j][m]), Live(store'[j][m]),
                      NEW f \in Fields(j) \ StatusFields
               PROVE  store'[j][m].val[f] >= store[j][m].val[f]
    BY DEF SpecGrows, Live
  <2>1. CASE j = k /\ m = n
    BY <1>6, <2>1
  <2>2. CASE j # k \/ m # n
    BY <1>5, <2>2 DEF TCInv, ObjectsOK, AsWritten, Val
  <2> QED BY <2>1, <2>2
<1> QED BY <1>1, <1>2, <1>3, <1>4, <1>7, <1>8 DEF Served

LEMMA ServedWrite ==
  ASSUME TCInv, edits' \in Nat, edits' >= edits,
         NEW k \in Kind, NEW n \in Name, NEW val \in Val(k),
         \A f \in Fields(k) : val[f] <= edits' + 1,
         Live(store[k][n]) =>
           \A f \in Fields(k) \ StatusFields : val[f] >= store[k][n].val[f],
         Write(k, n, val)
  PROVE  Served
PROOF
<1>1. CASE UNCHANGED <<log, store>>
  BY <1>1, NotServed
<1>2. CASE ~(Live(store[k][n]) /\ store[k][n].val = val)
  <2> DEFINE o == [rv |-> Len(log) + 1, val |-> val]
  <2>1. /\ store' = [store EXCEPT ![k][n] = o]
        /\ log' = Append(log, [kind |-> k, name |-> n, obj |-> o])
    BY <1>2 DEF Write
  <2>2. o \in AnyObj /\ o.rv = Len(log) + 1 /\ o.val = val
    BY DEF AnyObj, Kind, TCInv, TypesOK
  <2> HIDE DEF o
  <2> QED BY <2>1, <2>2, Accepted
<1> QED BY <1>1, <1>2 DEF Write

LEMMA ServedRemove ==
  ASSUME TCInv, edits' \in Nat, edits' >= edits,
         NEW k \in Kind, NEW n \in Name, Remove(k, n)
  PROVE  Served
PROOF
<1>1. \A f \in Fields(k) : Absent(k).val[f] <= edits' + 1
  BY AbsentIsObject
<1> QED BY <1>1, AbsentIsObject, Accepted DEF Remove

(* Create. *)
LEMMA ServedPost ==
  ASSUME TCInv, edits' \in Nat, edits' >= edits,
         NEW k \in Kind, NEW n \in Name, Post(k, n, Initial(k))
  PROVE  Served
PROOF
<1>1. CASE UNCHANGED <<log, store>>
  BY <1>1, NotServed
<1>2. CASE ~Live(store[k][n])
  <2> DEFINE v == [f \in Fields(k) |-> IF f \in StatusFields THEN 0 ELSE Initial(k)[f]]
  <2>1. v \in Val(k) /\ \A f \in Fields(k) : v[f] <= 1
    BY DEF Val, Initial
  <2>2. \A f \in Fields(k) : v[f] <= edits' + 1
    <3> HIDE DEF v
    <3> QED BY <2>1 DEF Val
  <2>3. Write(k, n, v)
    BY <1>2 DEF Post
  <2> HIDE DEF v
  <2> QED BY <1>2, <2>1, <2>2, <2>3, ServedWrite
<1> QED BY <1>1, <1>2 DEF Post

(* Update and UpdateStatus, and so Patch: the object's version, if it has  *)
(* one, is the current one, and the status alone cannot change the spec.   *)
LEMMA ServedPut ==
  ASSUME TCInv, edits' \in Nat, edits' >= edits,
         NEW k \in Kind, NEW n \in Name, NEW o, NEW sub,
         o.val \in Val(k), \A f \in Fields(k) : o.val[f] <= edits' + 1,
         sub = "status" \/
           (o.rv \in {0, store[k][n].rv} /\ Live(store[k][n]) =>
              \A f \in Fields(k) \ StatusFields : o.val[f] >= store[k][n].val[f]),
         Put(k, n, o, sub)
  PROVE  Served
PROOF
<1>1. CASE UNCHANGED <<log, store>>
  BY <1>1, NotServed
<1>2. CASE Live(store[k][n]) /\ o.rv \in {0, store[k][n].rv}
  <2> DEFINE cur   == store[k][n]
             taken == IF sub = "status" THEN StatusFields ELSE Fields(k) \ StatusFields
             v     == [f \in Fields(k) |-> IF f \in taken THEN o.val[f] ELSE cur.val[f]]
  <2>1. /\ cur.val \in Val(k)
        /\ \A f \in Fields(k) : cur.val[f] <= edits + 1
    BY <1>2 DEF TCInv, ObjectsOK, AsWritten, LogOK
  <2>2. Write(k, n, v)
    BY <1>2 DEF Put
  <2>3. v \in Val(k)
    BY <2>1 DEF Val
  <2>4. ASSUME NEW f \in Fields(k) PROVE v[f] <= edits' + 1
    BY <2>1 DEF Val, TCInv, TypesOK
  <2>5. ASSUME NEW f \in Fields(k) \ StatusFields PROVE v[f] >= store[k][n].val[f]
    <3>1. CASE sub = "status"
      BY <2>1, <3>1 DEF Val
    <3>2. CASE sub # "status"
      BY <1>2, <2>1, <3>2 DEF Val
    <3> QED BY <3>1, <3>2
  <2> HIDE DEF v
  <2> QED BY <2>2, <2>3, <2>4, <2>5, ServedWrite
<1> QED BY <1>1, <1>2 DEF Put

LEMMA ServedPatch ==
  ASSUME TCInv, edits' = edits + 1,
         NEW k \in Kind, NEW n \in Name, NEW f \in Fields(k), NEW sub,
         Live(store[k][n]), PatchRequest(k, n, f, edits + 2, sub)
  PROVE  Served
PROOF
<1> DEFINE cur == store[k][n]
           o   == [rv |-> 0, val |-> [cur.val EXCEPT ![f] = edits + 2]]
<1>0. edits \in Nat
  BY DEF TCInv, TypesOK
<1>1. /\ cur.val \in Val(k)
      /\ \A g \in Fields(k) : cur.val[g] <= edits + 1
  BY DEF TCInv, ObjectsOK, AsWritten, LogOK
<1>2. o.val \in Val(k)
  BY <1>0, <1>1 DEF Val
<1>3. \A g \in Fields(k) : o.val[g] <= edits' + 1 /\ o.val[g] >= cur.val[g]
  BY <1>0, <1>1 DEF Val
<1>4. Put(k, n, o, sub)
  BY DEF PatchRequest
<1> HIDE DEF o
<1> QED BY <1>0, <1>2, <1>3, <1>4, ServedPut

(* What TypesOK says of a consumer's copy. *)
LEMMA HeldTypes ==
  ASSUME TypesOK, NEW c \in Consumer, held[c] # NoCopy
  PROVE  LET h == held[c]
         IN  /\ h = [kind |-> h.kind, type |-> h.type, items |-> h.items, rvs |-> h.rvs]
             /\ h.kind \in Kind /\ h.type \in {h.kind, "List"}
             /\ DOMAIN h.items \subseteq Name
             /\ h.items \in [DOMAIN h.items -> Item(h.kind)]
             /\ \A n \in DOMAIN h.items : /\ h.items[n].val \in Val(h.kind)
                                           /\ h.items[n].shared = {}
             /\ h.rvs \in [DOMAIN h.rvs -> Nat]
PROOF
<1>1. PICK k \in Kind : held[c] \in CopyOf(k)
  BY DEF TypesOK, Copies
<1>2. held[c].kind = k
  BY <1>1 DEF CopyOf
<1>3. PICK names \in SUBSET Name : held[c].items \in [names -> Item(k)]
  BY <1>1 DEF CopyOf
<1>4. PICK names2 \in SUBSET Name : held[c].rvs \in [names2 -> Nat]
  BY <1>1 DEF CopyOf
<1>5. \A n \in names : /\ held[c].items[n].val \in Val(k)
                       /\ held[c].items[n].shared = {}
  BY <1>3 DEF Item
<1> QED BY <1>1, <1>2, <1>3, <1>4, <1>5 DEF CopyOf

(* A request leaves the informers and the other consumers alone.           *)
LEMMA AfterServed ==
  ASSUME TCInv, Served, edits' \in Nat, edits' >= edits,
         UNCHANGED <<cache, pos>>,
         \/ UNCHANGED held
         \/ \E c \in Consumer : held' = [held EXCEPT ![c] = NoCopy]
  PROVE  TCInv' /\ SpecGrows
PROOF
<1>1. held' \in [Consumer -> Copies \cup {NoCopy}]
  BY DEF TCInv, TypesOK
<1>2. TypesOK'
  BY <1>1 DEF TCInv, TypesOK, Served
<1>3. ObjectsOK'
  <2>1. ASSUME NEW k \in Kind, NEW n \in Name
        PROVE  AsWritten(k, cache[k][n])'
    BY DEF TCInv, TypesOK, ObjectsOK, AsWritten, Served, LogGrows, Live
  <2> QED BY <2>1 DEF ObjectsOK, Served
<1>4. HeldOK'
  <2> SUFFICES ASSUME NEW c \in Consumer, held'[c] # NoCopy
               PROVE  LET h == held'[c]
                      IN  /\ DOMAIN h.rvs = DOMAIN h.items
                          /\ \A n \in DOMAIN h.items :
                               /\ h.rvs[n] \in 1..Len(log')
                               /\ log'[h.rvs[n]].kind = h.kind
                               /\ \A f \in Fields(h.kind) :
                                    /\ h.items[n].val[f] >= log'[h.rvs[n]].obj.val[f]
                                    /\ h.items[n].val[f] <= edits' + 1
    BY DEF HeldOK
  <2>1. held'[c] = held[c]
    BY DEF TCInv, TypesOK
  <2> DEFINE h == held[c]
  <2>2. /\ DOMAIN h.rvs = DOMAIN h.items
        /\ \A n \in DOMAIN h.items :
             /\ h.rvs[n] \in 1..Len(log)
             /\ log[h.rvs[n]].kind = h.kind
             /\ \A f \in Fields(h.kind) :
                  /\ h.items[n].val[f] >= log[h.rvs[n]].obj.val[f]
                  /\ h.items[n].val[f] <= edits + 1
    BY <2>1 DEF TCInv, HeldOK
  <2>3. \A n \in DOMAIN h.items : \A f \in Fields(h.kind) : h.items[n].val[f] \in Nat
    <3>1. \A n \in DOMAIN h.items : h.items[n].val \in Val(h.kind)
      BY <2>1, HeldTypes DEF TCInv
    <3> HIDE DEF h
    <3> QED BY <3>1 DEF Val
  <2>4. \A n \in DOMAIN h.items : \A f \in Fields(h.kind) : h.items[n].val[f] <= edits' + 1
    BY <2>2, <2>3 DEF TCInv, TypesOK
  <2>5. \A n \in DOMAIN h.items : /\ h.rvs[n] \in 1..Len(log')
                                  /\ log'[h.rvs[n]] = log[h.rvs[n]]
    BY <2>2 DEF Served, LogGrows, TCInv, TypesOK
  <2> HIDE DEF h
  <2> QED BY <2>1, <2>2, <2>4, <2>5 DEF h
<1> QED BY <1>2, <1>3, <1>4 DEF TCInv, Served

-----------------------------------------------------------------------------
(* The informers. *)

LEMMA TCLists ==
  ASSUME TCInv, NEW k \in Kind, InformerLists(k)
  PROVE  TCInv' /\ SpecGrows
PROOF
<1>1. UNCHANGED <<log, store, held, edits>> /\ edits \in Nat
  BY DEF InformerLists, TCInv, TypesOK
<1>2. Served
  BY <1>1, NotServed
<1>3. cache' = [cache EXCEPT ![k] = ListRequest(k, Selected)]
  BY DEF InformerLists, ListFunc, TenantListFunc, ProviderConfigListFunc, tenantsList,
         providerConfigsList, Kind
<1>4. \A n \in Name : /\ ListRequest(k, Selected)[n] \in {store[k][n], Absent(k)}
                      /\ ListRequest(k, Selected)[n] \in AnyObj
  BY AbsentIsObject DEF ListRequest, TCInv, TypesOK
<1>5. cache' \in [Kind -> [Name -> AnyObj]]
  BY <1>3, <1>4 DEF TCInv, TypesOK, ListRequest
<1>6. pos' \in [Kind -> Nat]
  BY DEF InformerLists, TCInv, TypesOK
<1>7. ASSUME NEW j \in Kind, NEW n \in Name
      PROVE  AsWritten(j, cache[j][n])'
  <2>1. CASE j # k
    BY <1>1, <1>3, <2>1 DEF TCInv, TypesOK, ObjectsOK, AsWritten
  <2>2. CASE j = k
    <3>1. cache'[j][n] \in {store[k][n], Absent(k)}
      BY <1>3, <1>4, <2>2 DEF TCInv, TypesOK
    <3> QED BY <1>1, <2>2, <3>1, AbsentIsObject DEF TCInv, ObjectsOK, AsWritten, Live
  <2> QED BY <2>1, <2>2
<1>8. TypesOK'
  BY <1>1, <1>5, <1>6 DEF TCInv, TypesOK
<1>9. HeldOK'
  BY <1>1 DEF TCInv, HeldOK
<1> QED BY <1>2, <1>7, <1>8, <1>9 DEF TCInv, ObjectsOK, Served

LEMMA TCWatches ==
  ASSUME TCInv, NEW k \in Kind, InformerWatches(k)
  PROVE  TCInv' /\ SpecGrows
PROOF
<1>1. UNCHANGED <<log, store, held, edits>> /\ edits \in Nat
  BY DEF InformerWatches, TCInv, TypesOK
<1>2. Served
  BY <1>1, NotServed
<1>3. PICK i \in WatchRequest(k, Selected, pos[k]) :
             /\ cache' = [cache EXCEPT ![k][log[i].name] = log[i].obj]
             /\ pos' = [pos EXCEPT ![k] = i]
  BY DEF InformerWatches, WatchFunc, TenantWatchFunc, ProviderConfigWatchFunc,
         tenantsWatch, providerConfigsWatch, Kind
<1>4. i \in 1..Len(log) /\ i \in Nat /\ log[i].kind = k
  BY DEF WatchRequest, TCInv, TypesOK
<1> DEFINE m == log[i].name
           o == log[i].obj
<1>5. m \in Name /\ o \in AnyObj
  <2>1. log[i] \in Entry BY <1>4 DEF TCInv, TypesOK
  <2> QED BY <2>1 DEF Entry
<1>6. o.rv \in {0, i} /\ o.val \in Val(k)
  BY <1>4 DEF TCInv, LogOK
<1>7. cache' = [cache EXCEPT ![k] = [cache[k] EXCEPT ![m] = o]]
  BY <1>3
<1>8. AsWritten(k, o)
  BY <1>4, <1>6 DEF AsWritten, Live
<1> HIDE DEF m, o
<1>9. cache' \in [Kind -> [Name -> AnyObj]]
  BY <1>5, <1>7 DEF TCInv, TypesOK
<1>10. ASSUME NEW j \in Kind, NEW n \in Name
       PROVE  AsWritten(j, cache[j][n])'
  <2>1. CASE j = k /\ n = m
    <3>1. cache'[j][n] = o
      BY <1>5, <1>7, <2>1 DEF TCInv, TypesOK
    <3> QED BY <1>1, <1>8, <2>1, <3>1 DEF AsWritten
  <2>2. CASE j # k \/ n # m
    <3>1. cache'[j][n] = cache[j][n]
      BY <1>5, <1>7, <2>2 DEF TCInv, TypesOK
    <3> QED BY <1>1, <3>1 DEF AsWritten, TCInv, ObjectsOK
  <2> QED BY <2>1, <2>2
<1>11. TypesOK'
  BY <1>1, <1>3, <1>4, <1>9 DEF TCInv, TypesOK
<1>12. HeldOK'
  BY <1>1 DEF TCInv, HeldOK
<1> QED BY <1>2, <1>10, <1>11, <1>12 DEF TCInv, ObjectsOK, Served

-----------------------------------------------------------------------------
(* The consumers. *)

(* Taking a copy: of what a write has stored. *)
LEMMA TCHold ==
  ASSUME TCInv, NEW c \in Consumer, NEW k \in Kind, NEW t \in {k, "List"},
         NEW names \in SUBSET Name,
         NEW items \in [names -> Item(k)], NEW rvs \in [names -> Nat],
         \A n \in names : /\ rvs[n] \in 1..Len(log)
                          /\ log[rvs[n]].kind = k
                          /\ log[rvs[n]].obj.val = items[n].val,
         Hold(c, k, t, items, rvs)
  PROVE  TCInv' /\ SpecGrows
PROOF
<1> DEFINE h == [kind |-> k, type |-> t, items |-> items, rvs |-> rvs]
<1>1. UNCHANGED <<log, store, cache, pos, edits>> /\ edits \in Nat
  BY DEF Hold, TCInv, TypesOK
<1>2. held' = [held EXCEPT ![c] = h]
  BY DEF Hold
<1>3. Served
  BY <1>1, NotServed
<1>4. h \in Copies
  <2>1. items \in UNION {[S -> Item(k)] : S \in SUBSET Name}
    BY Zenon
  <2>2. rvs \in UNION {[S -> Nat] : S \in SUBSET Name}
    BY Zenon
  <2>3. h \in CopyOf(k)
    BY <2>1, <2>2 DEF CopyOf
  <2> QED BY <2>3 DEF Copies
<1>5. TypesOK'
  BY <1>1, <1>2, <1>4 DEF TCInv, TypesOK
<1>6. ObjectsOK'
  BY <1>1 DEF TCInv, ObjectsOK, AsWritten
<1>7. HeldOK'
  <2> SUFFICES ASSUME NEW d \in Consumer, held'[d] # NoCopy
               PROVE  LET g == held'[d]
                      IN  /\ DOMAIN g.rvs = DOMAIN g.items
                          /\ \A n \in DOMAIN g.items :
                               /\ g.rvs[n] \in 1..Len(log)
                               /\ log[g.rvs[n]].kind = g.kind
                               /\ \A f \in Fields(g.kind) :
                                    /\ g.items[n].val[f] >= log[g.rvs[n]].obj.val[f]
                                    /\ g.items[n].val[f] <= edits + 1
    BY <1>1 DEF HeldOK
  <2>1. CASE d = c
    <3>1. held'[d] = h
      BY <1>2, <2>1 DEF TCInv, TypesOK
    <3>2. \A n \in names : items[n].val \in Val(k)
      BY DEF Item
    <3>3. \A n \in names, f \in Fields(k) :
            /\ items[n].val[f] \in Nat
            /\ items[n].val[f] >= log[rvs[n]].obj.val[f]
            /\ items[n].val[f] <= edits + 1
      <4> SUFFICES ASSUME NEW n \in names, NEW f \in Fields(k)
                   PROVE  /\ items[n].val[f] \in Nat
                          /\ items[n].val[f] >= log[rvs[n]].obj.val[f]
                          /\ items[n].val[f] <= edits + 1
        OBVIOUS
      <4>1. items[n].val[f] \in Nat
        BY <3>2 DEF Val
      <4>2. log[rvs[n]].obj.val[f] <= edits + 1
        BY DEF TCInv, LogOK
      <4> QED BY <4>1, <4>2
    <3> QED BY <3>1, <3>3
  <2>2. CASE d # c
    <3>1. held'[d] = held[d]
      BY <1>2, <2>2 DEF TCInv, TypesOK
    <3> QED BY <3>1 DEF TCInv, HeldOK
  <2> QED BY <2>1, <2>2
<1> QED BY <1>3, <1>5, <1>6, <1>7 DEF TCInv, Served

(* CopyObject, CopyList and Fetch hold what the lister or the API server   *)
(* had.                                                                    *)
LEMMA TCCopy ==
  ASSUME TCInv, NEW c \in Consumer, NEW k \in Kind,
         \/ CopyList(c, k)
         \/ \E n \in Name : CopyObject(c, k, n)
         \/ \E n \in Name : Fetch(c, k, n)
  PROVE  TCInv' /\ SpecGrows
PROOF
<1>1. \A n \in ListerList(k) : n \in Name /\ Live(cache[k][n])
  BY DEF ListerList, TenantListerList, ProviderConfigListerList, Kind
<1>2. \A n \in Name : /\ AsWritten(k, cache[k][n])
                      /\ AsWritten(k, store[k][n])
                      /\ cache[k][n].rv \in Nat
                      /\ store[k][n].rv \in Nat
  BY DEF TCInv, ObjectsOK, TypesOK, AnyObj
<1>3. ASSUME NEW val \in Val(k)
      PROVE  [val |-> val, shared |-> {}] \in Item(k)
  BY DEF Item
<1>4. ASSUME CopyList(c, k) PROVE TCInv' /\ SpecGrows
  <2> DEFINE names == ListerList(k)
             items == [n \in names |-> [val |-> cache[k][n].val, shared |-> {}]]
             rvs == Versions(cache[k], names)
  <2>1. (IF k = "Tenant"
         THEN TenantListDeepCopyInto([n \in names |-> Assign(k, k, cache[k][n].val)])
         ELSE ProviderConfigListDeepCopyInto([n \in names |-> Assign(k, k, cache[k][n].val)]))
          = items
    <3>1. \A n \in names : cache[k][n].val \in Val(k)
      BY <1>1, <1>2 DEF AsWritten
    <3> HIDE DEF names
    <3> QED BY <3>1, CopyOfObject DEF TenantListDeepCopyInto, ProviderConfigListDeepCopyInto, Kind
  <2>2. Hold(c, k, "List", items, rvs)
    <3> HIDE DEF items, rvs
    <3> QED BY <1>4, <2>1 DEF CopyList, rvs
  <2>3. names \in SUBSET Name
    BY <1>1
  <2>4. items \in [names -> Item(k)] /\ rvs \in [names -> Nat]
    BY <1>1, <1>2, <1>3 DEF AsWritten, Versions
  <2>5. \A n \in names : /\ rvs[n] \in 1..Len(log)
                         /\ log[rvs[n]].kind = k
                         /\ log[rvs[n]].obj.val = items[n].val
    BY <1>1, <1>2 DEF AsWritten, Versions
  <2> HIDE DEF names, items, rvs
  <2> QED BY <2>2, <2>3, <2>4, <2>5, TCHold
<1>5. ASSUME NEW n \in Name, NEW o \in {cache[k][n], store[k][n]}, Live(o),
             Hold(c, k, k, [m \in {n} |-> [val |-> o.val, shared |-> {}]],
                  [m \in {n} |-> o.rv])
      PROVE  TCInv' /\ SpecGrows
  <2> DEFINE items == [m \in {n} |-> [val |-> o.val, shared |-> {}]]
             rvs == [m \in {n} |-> o.rv]
  <2>1. AsWritten(k, o) /\ o.rv \in Nat
    BY <1>2
  <2>2. items \in [{n} -> Item(k)] /\ rvs \in [{n} -> Nat]
    BY <1>3, <2>1 DEF AsWritten
  <2>3. \A m \in {n} : /\ rvs[m] \in 1..Len(log)
                       /\ log[rvs[m]].kind = k
                       /\ log[rvs[m]].obj.val = items[m].val
    BY <1>5, <2>1 DEF AsWritten
  <2>4. Hold(c, k, k, items, rvs) /\ {n} \in SUBSET Name /\ k \in {k, "List"}
    BY <1>5
  <2> HIDE DEF items, rvs
  <2> QED BY <2>2, <2>3, <2>4, TCHold
<1>6. ASSUME NEW n \in Name, CopyObject(c, k, n) PROVE TCInv' /\ SpecGrows
  <2>1. cache[k][n].val \in Val(k) /\ Live(cache[k][n])
    BY <1>1, <1>2, <1>6 DEF AsWritten, CopyObject
  <2>2. DeepCopyInto(k, Assign(k, k, cache[k][n].val)) = [val |-> cache[k][n].val, shared |-> {}]
    BY <2>1, CopyOfObject
  <2>3. Versions(cache[k], {n}) = [m \in {n} |-> cache[k][n].rv]
    BY DEF Versions
  <2>4. Hold(c, k, k, [m \in {n} |-> [val |-> cache[k][n].val, shared |-> {}]],
             [m \in {n} |-> cache[k][n].rv])
    BY <1>6, <2>2, <2>3 DEF CopyObject
  <2> QED BY <1>5, <2>1, <2>4
<1>7. ASSUME NEW n \in Name, Fetch(c, k, n) PROVE TCInv' /\ SpecGrows
  <2>1. Live(store[k][n]) /\
        Hold(c, k, k, [m \in {n} |-> [val |-> store[k][n].val, shared |-> {}]],
             [m \in {n} |-> store[k][n].rv])
    BY <1>7 DEF Fetch, tenantsGet, providerConfigsGet, GetRequest, Kind
  <2> QED BY <1>5, <2>1
<1> QED BY <1>4, <1>6, <1>7

(* An edit of a copy leaves the cached object alone and is newer than what *)
(* the copy was made from.                                                 *)
LEMMA TCEditCopy ==
  ASSUME TCInv, NEW c \in Consumer, held[c] # NoCopy, NEW n \in DOMAIN held[c].items,
         NEW f \in DOMAIN held[c].items[n].val, EditCopy(c, n, f)
  PROVE  TCInv' /\ SpecGrows
PROOF
<1> DEFINE h == held[c]
           k == h.kind
           v == [h.items[n].val EXCEPT ![f] = edits + 2]
           items == [h.items EXCEPT ![n] = [val |-> v, shared |-> {}]]
           g == [kind |-> k, type |-> h.type, items |-> items, rvs |-> h.rvs]
<1>1. /\ h = [kind |-> k, type |-> h.type, items |-> h.items, rvs |-> h.rvs]
      /\ k \in Kind /\ h.type \in {k, "List"}
      /\ DOMAIN h.items \subseteq Name
      /\ h.items \in [DOMAIN h.items -> Item(k)]
      /\ \A m \in DOMAIN h.items : h.items[m].val \in Val(k) /\ h.items[m].shared = {}
      /\ h.rvs \in [DOMAIN h.rvs -> Nat]
  BY HeldTypes DEF TCInv
<1>2. /\ DOMAIN h.rvs = DOMAIN h.items
      /\ \A m \in DOMAIN h.items :
           /\ h.rvs[m] \in 1..Len(log)
           /\ log[h.rvs[m]].kind = k
           /\ \A e \in Fields(k) :
                /\ h.items[m].val[e] >= log[h.rvs[m]].obj.val[e]
                /\ h.items[m].val[e] <= edits + 1
  BY DEF TCInv, HeldOK
<1>3. edits \in Nat /\ edits' = edits + 1 /\ UNCHANGED <<log, store, pos>>
  BY DEF EditCopy, TCInv, TypesOK
<1>4. cache' = cache
  BY <1>1 DEF EditCopy, Edited
<1>5. h.items[n] = [val |-> h.items[n].val, shared |-> {}]
  BY <1>1 DEF Item
<1>6. held' = [held EXCEPT ![c] = g]
  <2>1. held' = [held EXCEPT ![c] = [h EXCEPT !.items = [h.items EXCEPT ![n] =
                   [h.items[n] EXCEPT !.val = [h.items[n].val EXCEPT ![f] = edits + 2]]]]]
    BY DEF EditCopy
  <2>2. [h.items[n] EXCEPT !.val = v] = [val |-> v, shared |-> {}]
    <3> HIDE DEF v, h
    <3> QED BY <1>5
  <2>3. [h EXCEPT !.items = items] = g
    <3> HIDE DEF items, h
    <3> QED BY <1>1
  <2> HIDE DEF h
  <2> QED BY <2>1, <2>2, <2>3
<1>7. /\ f \in Fields(k)
      /\ v \in Val(k)
      /\ \A e \in Fields(k) : v[e] <= edits' + 1 /\ v[e] >= h.items[n].val[e]
  <2> HIDE DEF h
  <2>1. h.items[n].val \in [Fields(k) -> Nat]
    BY <1>1 DEF h, Val
  <2>2. f \in Fields(k)
    BY <2>1 DEF h
  <2>3. \A e \in Fields(k) : h.items[n].val[e] <= edits + 1
    BY <1>2 DEF h
  <2> QED BY <1>3, <2>1, <2>2, <2>3 DEF Val
<1>8. items \in [DOMAIN h.items -> Item(k)]
  <2>1. [val |-> v, shared |-> {}] \in Item(k)
    BY <1>7 DEF Item
  <2> HIDE DEF v, h
  <2> QED BY <1>1, <2>1
<1>9. g \in Copies
  <2> HIDE DEF items, h
  <2>1. items \in UNION {[S -> Item(k)] : S \in SUBSET Name}
    BY <1>1, <1>8, Zenon
  <2>2. h.rvs \in UNION {[S -> Nat] : S \in SUBSET Name}
    <3>1. h.rvs \in [DOMAIN h.items -> Nat] BY <1>1, <1>2
    <3> QED BY <1>1, <3>1, Zenon
  <2>3. g \in CopyOf(k)
    BY <1>1, <2>1, <2>2 DEF CopyOf
  <2> QED BY <1>1, <2>3 DEF Copies
<1>10. Served
  BY <1>3, NotServed
<1>11. TypesOK'
  <2> HIDE DEF g
  <2> QED BY <1>3, <1>4, <1>6, <1>9 DEF TCInv, TypesOK
<1>12. ObjectsOK'
  BY <1>3, <1>4 DEF TCInv, ObjectsOK, AsWritten
<1>13. HeldOK'
  <2> SUFFICES ASSUME NEW d \in Consumer, held'[d] # NoCopy
               PROVE  LET u == held'[d]
                      IN  /\ DOMAIN u.rvs = DOMAIN u.items
                          /\ \A m \in DOMAIN u.items :
                               /\ u.rvs[m] \in 1..Len(log)
                               /\ log[u.rvs[m]].kind = u.kind
                               /\ \A e \in Fields(u.kind) :
                                    /\ u.items[m].val[e] >= log[u.rvs[m]].obj.val[e]
                                    /\ u.items[m].val[e] <= edits' + 1
    BY <1>3 DEF HeldOK
  <2>1. CASE d = c
    <3>1. held'[d] = g
      <4> HIDE DEF g
      <4> QED BY <1>6, <2>1 DEF TCInv, TypesOK
    <3>2. DOMAIN items = DOMAIN h.items
      OBVIOUS
    <3>3. ASSUME NEW m \in DOMAIN h.items, NEW e \in Fields(k)
          PROVE  items[m].val[e] >= log[h.rvs[m]].obj.val[e] /\ items[m].val[e] <= edits' + 1
      <4>1. h.items[m].val[e] \in Nat /\ v[e] \in Nat
        <5>1. h.items[m].val \in Val(k) BY <1>1
        <5> HIDE DEF h, v
        <5> QED BY <1>7, <5>1 DEF Val
      <4>2. h.items[m].val[e] >= log[h.rvs[m]].obj.val[e] /\ h.items[m].val[e] <= edits + 1
        BY <1>2
      <4>3. log[h.rvs[m]].obj.val[e] \in Nat
        <5>1. log[h.rvs[m]].obj.val \in Val(k)
          BY <1>2 DEF TCInv, LogOK
        <5> HIDE DEF h
        <5> QED BY <5>1 DEF Val
      <4>4. CASE m = n
        <5>1. items[m].val = v
          <6> HIDE DEF h, v
          <6> QED BY <4>4
        <5> HIDE DEF items, h, v
        <5> QED BY <1>3, <1>7, <4>1, <4>2, <4>3, <4>4, <5>1
      <4>5. CASE m # n
        <5>1. items[m] = h.items[m]
          <6> HIDE DEF h, v
          <6> QED BY <4>5
        <5> HIDE DEF items, h, v
        <5> QED BY <1>3, <4>1, <4>2, <4>3, <5>1
      <4> QED BY <4>4, <4>5
    <3>4. g.rvs = h.rvs /\ g.items = items /\ g.kind = k
      OBVIOUS
    <3> HIDE DEF g, items, h
    <3> QED BY <1>2, <3>1, <3>2, <3>3, <3>4
  <2>2. CASE d # c
    <3>1. held'[d] = held[d]
      <4> HIDE DEF g
      <4> QED BY <1>6, <2>2 DEF TCInv, TypesOK
    <3>2. \A m \in DOMAIN held[d].items : held[d].items[m].val \in Val(held[d].kind)
      BY <3>1, HeldTypes DEF TCInv
    <3>3. \A m \in DOMAIN held[d].items, e \in Fields(held[d].kind) :
             held[d].items[m].val[e] <= edits' + 1
      BY <1>3, <3>1, <3>2 DEF TCInv, HeldOK, Val
    <3> QED BY <3>1, <3>3 DEF TCInv, HeldOK
  <2> QED BY <2>1, <2>2
<1> QED BY <1>10, <1>11, <1>12, <1>13 DEF TCInv, Served

LEMMA TCEditPart ==
  ASSUME TCInv, NEW k \in Kind, NEW n \in Name, NEW t \in DOMAIN Types(k),
         NEW f \in Types(k)[t].fields, EditPart(k, t, n, f)
  PROVE  TCInv' /\ SpecGrows
PROOF
<1>1. DeepCopyInto(t, Assign(k, t, cache[k][n].val)).shared = {}
  BY DeepCopyOwnsMemory
<1>2. cache' = cache
  BY <1>1 DEF EditPart, Edited
<1>3. UNCHANGED <<log, store, pos, held, edits>> /\ edits \in Nat
  BY DEF EditPart, TCInv, TypesOK
<1> QED BY <1>2, <1>3, NotServed, AfterServed

(* Update is refused unless the copy is of the current version, and then   *)
(* the copy's values are the stored ones or newer.                         *)
LEMMA TCWriteBack ==
  ASSUME TCInv, NEW c \in Consumer, held[c] # NoCopy, NEW n \in DOMAIN held[c].items,
         WriteBack(c, n)
  PROVE  TCInv' /\ SpecGrows
PROOF
<1> DEFINE h == held[c]
           k == h.kind
           val == h.items[n].val
<1>1. k \in Kind /\ n \in Name /\ val \in Val(k)
  BY HeldTypes DEF TCInv
<1>2. /\ h.rvs[n] \in 1..Len(log)
      /\ \A f \in Fields(k) : /\ val[f] >= log[h.rvs[n]].obj.val[f]
                              /\ val[f] <= edits + 1
  BY DEF TCInv, HeldOK
<1>3. /\ edits' = edits /\ edits \in Nat /\ edits' \in Nat /\ edits' >= edits
      /\ UNCHANGED <<cache, pos>>
      /\ held' = [held EXCEPT ![c] = NoCopy]
  BY DEF WriteBack, TCInv, TypesOK
<1>4. \/ Put(k, n, [rv |-> h.rvs[n], val |-> val], "")
      \/ \E rv \in {0, h.rvs[n]} : Put(k, n, [rv |-> rv, val |-> val], "status")
  BY <1>1 DEF WriteBack, tenantsUpdate, tenantsUpdateStatus, providerConfigsUpdate,
              providerConfigsUpdateStatus, Kind
<1> HIDE DEF h, k, val
<1>5. ASSUME Put(k, n, [rv |-> h.rvs[n], val |-> val], "") PROVE Served
  <2> DEFINE o == [rv |-> h.rvs[n], val |-> val]
  <2>1. ASSUME h.rvs[n] \in {0, store[k][n].rv}, Live(store[k][n]),
               NEW f \in Fields(k) \ StatusFields
        PROVE  val[f] >= store[k][n].val[f]
    <3>1. h.rvs[n] = store[k][n].rv
      BY <1>2, <2>1
    <3>2. log[store[k][n].rv].obj = store[k][n]
      BY <1>1, <2>1 DEF TCInv, ObjectsOK, AsWritten
    <3> QED BY <1>2, <3>1, <3>2
  <2>2. o.rv = h.rvs[n] /\ o.val = val /\ Put(k, n, o, "")
    BY <1>5
  <2> HIDE DEF o
  <2>3. \A f \in Fields(k) : o.val[f] <= edits' + 1
    BY <1>2, <1>3, <2>2
  <2> QED BY <1>1, <1>3, <2>1, <2>2, <2>3, ServedPut
<1>6. ASSUME NEW rv, Put(k, n, [rv |-> rv, val |-> val], "status") PROVE Served
  <2> DEFINE o == [rv |-> rv, val |-> val]
  <2>1. o.val = val /\ Put(k, n, o, "status")
    BY <1>6
  <2> HIDE DEF o
  <2>2. \A f \in Fields(k) : o.val[f] <= edits' + 1
    BY <1>2, <1>3, <2>1
  <2> QED BY <1>1, <1>3, <2>1, <2>2, ServedPut
<1>7. Served
  BY <1>4, <1>5, <1>6
<1> QED BY <1>3, <1>7, AfterServed

LEMMA TCOthersWrite ==
  ASSUME TCInv, OthersWrite PROVE TCInv' /\ SpecGrows
PROOF
<1>1. UNCHANGED <<cache, pos, held>> /\ edits \in Nat
  BY DEF OthersWrite, TCInv, TypesOK
<1>2. PICK k \in Kind, n \in Name :
        \/ Post(k, n, Initial(k)) /\ UNCHANGED edits
        \/ UNCHANGED <<log, store, edits>>
        \/ Remove(k, n) /\ UNCHANGED edits
        \/ \E f \in Fields(k), sub \in {"", "status"} :
             /\ Live(store[k][n])
             /\ PatchRequest(k, n, f, edits + 2, sub)
             /\ edits' = edits + 1
  <2>1. ASSUME NEW n \in Name, OthersWriteProviderConfig(n)
        PROVE  \/ Post("ProviderConfig", n, Initial("ProviderConfig")) /\ UNCHANGED edits
               \/ UNCHANGED <<log, store, edits>>
               \/ Remove("ProviderConfig", n) /\ UNCHANGED edits
               \/ \E f \in Fields("ProviderConfig"), sub \in {"", "status"} :
                    /\ Live(store["ProviderConfig"][n])
                    /\ PatchRequest("ProviderConfig", n, f, edits + 2, sub)
                    /\ edits' = edits + 1
    BY <2>1 DEF OthersWriteProviderConfig, providerConfigsCreate, providerConfigsDelete,
                DeleteRequest, providerConfigsPatch, Subresource
  <2>2. ASSUME NEW n \in Name, OthersWriteTenant(n)
        PROVE  \/ Post("Tenant", n, Initial("Tenant")) /\ UNCHANGED edits
               \/ UNCHANGED <<log, store, edits>>
               \/ Remove("Tenant", n) /\ UNCHANGED edits
               \/ \E f \in Fields("Tenant"), sub \in {"", "status"} :
                    /\ Live(store["Tenant"][n])
                    /\ PatchRequest("Tenant", n, f, edits + 2, sub)
                    /\ edits' = edits + 1
    BY <2>2 DEF OthersWriteTenant, tenantsCreate, tenantsDelete, DeleteRequest,
                tenantsPatch, Subresource
  <2>3. CASE \E n \in Name : OthersWriteProviderConfig(n) \/ OthersWriteTenant(n)
    BY <2>1, <2>2, <2>3 DEF Kind
  <2>4. CASE /\ providerConfigsDeleteCollection(Name) \/ tenantsDeleteCollection(Name)
             /\ UNCHANGED edits
    BY <2>4 DEF providerConfigsDeleteCollection, tenantsDeleteCollection,
                DeleteCollectionRequest, Kind
  <2> QED BY <2>3, <2>4 DEF OthersWrite
<1>3. edits' \in Nat /\ edits' >= edits
  <2>1. edits' = edits \/ edits' = edits + 1
    BY <1>2, Zenon
  <2> QED BY <1>1, <2>1
<1>4. Served
  <2>1. CASE Post(k, n, Initial(k))
    BY <1>3, <2>1, ServedPost
  <2>2. CASE UNCHANGED <<log, store, edits>>
    BY <1>3, <2>2, NotServed
  <2>3. CASE Remove(k, n)
    BY <1>3, <2>3, ServedRemove
  <2>4. CASE \E f \in Fields(k), sub \in {"", "status"} :
               /\ Live(store[k][n])
               /\ PatchRequest(k, n, f, edits + 2, sub)
               /\ edits' = edits + 1
    BY <2>4, ServedPatch
  <2> QED BY <1>2, <2>1, <2>2, <2>3, <2>4
<1> QED BY <1>1, <1>3, <1>4, AfterServed

LEMMA TCNext == TCInv /\ [Next]_vars => TCInv' /\ SpecGrows
PROOF
<1> SUFFICES ASSUME TCInv, [Next]_vars PROVE TCInv' /\ SpecGrows OBVIOUS
<1>1. ASSUME NEW c \in Consumer, ConsumerStep(c) PROVE TCInv' /\ SpecGrows
  <2>1. CASE \E k \in Kind : CopyList(c, k)
    BY <2>1, TCCopy
  <2>2. CASE \E k \in Kind, n \in Name : CopyObject(c, k, n) \/ Fetch(c, k, n)
    BY <2>2, TCCopy
  <2>3. CASE \E k \in Kind, n \in Name : \E t \in DOMAIN Types(k) :
               \E f \in Types(k)[t].fields : EditPart(k, t, n, f)
    BY <2>3, TCEditPart
  <2>4. CASE held[c] # NoCopy /\ \E n \in DOMAIN held[c].items :
               \E f \in DOMAIN held[c].items[n].val : EditCopy(c, n, f)
    BY <2>4, TCEditCopy
  <2>5. CASE held[c] # NoCopy /\ \E n \in DOMAIN held[c].items : WriteBack(c, n)
    BY <2>5, TCWriteBack
  <2>6. CASE Drop(c)
    <3>1. /\ UNCHANGED <<log, store, cache, pos>>
          /\ edits' \in Nat /\ edits' >= edits
          /\ held' = [held EXCEPT ![c] = NoCopy]
      BY <2>6 DEF Drop, TCInv, TypesOK
    <3>2. Served BY <3>1, NotServed
    <3> QED BY <3>1, <3>2, AfterServed
  <2> QED BY <1>1, <2>1, <2>2, <2>3, <2>4, <2>5, <2>6 DEF ConsumerStep
<1>2. ASSUME NEW k \in Kind, InformerLists(k) \/ InformerWatches(k) PROVE TCInv' /\ SpecGrows
  BY <1>2, TCLists, TCWatches
<1>3. CASE (\E k \in Kind : WatchExpires(k)) \/ UNCHANGED vars
  <2>1. UNCHANGED <<log, store, cache, pos, held, edits>> /\ edits \in Nat
    BY <1>3 DEF WatchExpires, vars, TCInv, TypesOK
  <2> QED BY <2>1, NotServed, AfterServed
<1>4. CASE OthersWrite
  BY <1>4, TCOthersWrite
<1> QED BY <1>1, <1>2, <1>3, <1>4 DEF Next

-----------------------------------------------------------------------------
(* The results; the fairness in Spec plays no role.                        *)

(* The inductive invariant: what is stored, cached and copied comes from   *)
(* one accepted write, and copies share no memory.                         *)
THEOREM ClientsInvariant == Spec => []TCInv
PROOF
BY TCInit, TCNext, PTL DEF Spec

(* However consumers edit their deep copies, a cached object is what the   *)
(* API server stored under its resource version.                           *)
THEOREM CachesStayPristine == Spec => []CacheIsPristine
PROOF
<1>1. TCInv => CacheIsPristine
  BY DEF TCInv, ObjectsOK, AsWritten, CacheIsPristine
<1> QED BY <1>1, ClientsInvariant, PTL

(* No update of the status, from however old a copy, and no conflicting    *)
(* update takes a field of the spec back to an older value.                *)
THEOREM SpecsNeverRevert == Spec => SpecNeverReverts
PROOF
<1>1. TCInv /\ [Next]_vars =>
        [\A k \in Kind, n \in Name : Live(store[k][n]) /\ Live(store[k][n])' =>
          \A f \in Fields(k) \ StatusFields :
            store'[k][n].val[f] >= store[k][n].val[f]]_vars
  BY TCNext DEF SpecGrows
<1> QED BY <1>1, ClientsInvariant, PTL DEF Spec, SpecNeverReverts

=============================================================================
