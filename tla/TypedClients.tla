---------------------------- MODULE TypedClients ----------------------------
(***************************************************************************)
(* The generated clients of the two kinds (pkg/providerconfig/client and   *)
(* pkg/tenant/client): the typed REST clients, the list and watch          *)
(* functions of the typed informers, and the listers that read the         *)
(* informer's indexer.  Consumers read from a lister or through a client,  *)
(* deep-copy what they read (ApiTypes), edit the copy and write it back;   *)
(* other processes write to the API server at any time.                    *)
(*                                                                         *)
(* The REST client, the API server and the informer are not part of the    *)
(* repository: they are modelled as the generated code uses them.          *)
(***************************************************************************)
EXTENDS ApiTypes, Sequences, FiniteSets

CONSTANTS
  Name,       \* names of objects; both kinds are cluster scoped
  Selected,   \* the names that the factory's tweakListOptions selects
  Consumer,   \* goroutines that read, copy, edit and write back
  MaxWrites,  \* bound on the writes that the API server accepts
  MaxEdits    \* bound on edits

ASSUME TypedClientsAssumption ==
  /\ Selected \subseteq Name
  /\ MaxWrites \in Nat
  /\ MaxEdits \in Nat \ {0}

VARIABLES
  log,     \* all accepted writes: what a watch delivers, in this order
  store,   \* the API server's objects, each with its resource version
  cache,   \* the indexer of each kind's informer
  pos,     \* the resource version up to which an informer has seen writes
  listed,  \* the informer has listed and watches
  held,    \* the copy a consumer works on
  edits    \* edits so far; each writes a value that was never there before

vars == <<log, store, cache, pos, listed, held, edits>>

Absent(k) == [rv |-> 0, val |-> [f \in Fields(k) |-> 0]]

Live(o) == o.rv # 0

NoCopy == [kind |-> "none"]

Init ==
  /\ log = << >>
  /\ store = [k \in Kind |-> [n \in Name |-> Absent(k)]]
  /\ cache = [k \in Kind |-> [n \in Name |-> Absent(k)]]
  /\ pos = [k \in Kind |-> 0]
  /\ listed = [k \in Kind |-> FALSE]
  /\ held = [c \in Consumer |-> NoCopy]
  /\ edits = 0

-----------------------------------------------------------------------------
(* The API server behind the REST client.  A write gets the next resource  *)
(* version; one that changes nothing is not a write.                       *)
Write(k, n, val) ==
  IF Live(store[k][n]) /\ store[k][n].val = val
  THEN UNCHANGED <<log, store>>
  ELSE /\ Len(log) < MaxWrites
       /\ LET o == [rv |-> Len(log) + 1, val |-> val]
          IN  /\ store' = [store EXCEPT ![k][n] = o]
              /\ log' = Append(log, [kind |-> k, name |-> n, obj |-> o])

(* Create: the status of a new object is dropped. *)
Post(k, n, val) ==
  IF Live(store[k][n])
  THEN UNCHANGED <<log, store>>
  ELSE Write(k, n, [f \in Fields(k) |-> IF f \in StatusFields THEN 0 ELSE val[f]])

(* Put of an object that was read at resource version rv (0: not said);    *)
(* main stores everything but the status, the subresource only the status. *)
Put(k, n, o, sub) ==
  LET cur   == store[k][n]
      taken == IF sub = "status" THEN StatusFields ELSE Fields(k) \ StatusFields
  IN  IF Live(cur) /\ o.rv \in {0, cur.rv}
      THEN Write(k, n, [f \in Fields(k) |-> IF f \in taken THEN o.val[f] ELSE cur.val[f]])
      ELSE UNCHANGED <<log, store>>

(* Patch of one field; a patch of a field that sub does not own is dropped. *)
PatchRequest(k, n, f, v, sub) ==
  Put(k, n, [rv |-> 0, val |-> [store[k][n].val EXCEPT ![f] = v]], sub)

Remove(k, n) ==
  /\ Len(log) < MaxWrites
  /\ store' = [store EXCEPT ![k][n] = Absent(k)]
  /\ log' = Append(log, [kind |-> k, name |-> n, obj |-> Absent(k)])

DeleteRequest(k, n) ==
  IF Live(store[k][n]) THEN Remove(k, n) ELSE UNCHANGED <<log, store>>

(* Deletes the objects of sel one after the other; n is the next one.      *)
DeleteCollectionRequest(k, sel) ==
  \E n \in sel : Live(store[k][n]) /\ Remove(k, n)

GetRequest(k, n) == store[k][n]

ListRequest(k, sel) ==
  [n \in Name |-> IF n \in sel THEN store[k][n] ELSE Absent(k)]

(* The writes that a watch of sel from resource version rv still delivers. *)
WatchRequest(k, sel, rv) ==
  {i \in (rv + 1)..Len(log) : log[i].kind = k /\ log[i].name \in sel}

-----------------------------------------------------------------------------
(* The typed client of ProviderConfigs: each method is one request for the *)
(* resource "providerconfigs".                                             *)
providerConfigsGet(n) == GetRequest("ProviderConfig", n)

providerConfigsList(sel) == ListRequest("ProviderConfig", sel)

providerConfigsWatch(sel, rv) == WatchRequest("ProviderConfig", sel, rv)

providerConfigsCreate(n, val) == Post("ProviderConfig", n, val)

providerConfigsUpdate(n, o) == Put("ProviderConfig", n, o, "")

\* Mutated: the request is sent without SubResource("status").
UpdateStatusOfTheObject(n, o) == Put("ProviderConfig", n, o, "")

providerConfigsUpdateStatus(n, o) == Put("ProviderConfig", n, o, "status")

providerConfigsDelete(n) == DeleteRequest("ProviderConfig", n)

providerConfigsDeleteCollection(sel) == DeleteCollectionRequest("ProviderConfig", sel)

providerConfigsPatch(n, f, v, sub) == PatchRequest("ProviderConfig", n, f, v, sub)

(* The typed client of Tenants. *)
tenantsGet(n) == GetRequest("Tenant", n)

tenantsList(sel) == ListRequest("Tenant", sel)

tenantsWatch(sel, rv) == WatchRequest("Tenant", sel, rv)

tenantsCreate(n, val) == Post("Tenant", n, val)

tenantsUpdate(n, o) == Put("Tenant", n, o, "")

tenantsUpdateStatus(n, o) == Put("Tenant", n, o, "status")

tenantsDelete(n) == DeleteRequest("Tenant", n)

tenantsDeleteCollection(sel) == DeleteCollectionRequest("Tenant", sel)

tenantsPatch(n, f, v, sub) == PatchRequest("Tenant", n, f, v, sub)

-----------------------------------------------------------------------------
(* The typed informers: list and watch with the factory's list options.    *)
ProviderConfigListFunc == providerConfigsList(Selected)

ProviderConfigWatchFunc(rv) == providerConfigsWatch(Selected, rv)

TenantListFunc == tenantsList(Selected)

\* Mutated: the list is filtered, the watch is not.
WatchUntweaked(rv) == tenantsWatch(Name, rv)

TenantWatchFunc(rv) == tenantsWatch(Selected, rv)

ListFunc(k) == IF k = "Tenant" THEN TenantListFunc ELSE ProviderConfigListFunc

WatchFunc(k, rv) ==
  IF k = "Tenant" THEN TenantWatchFunc(rv) ELSE ProviderConfigWatchFunc(rv)

(* The reflector of an informer: list, watch from there, list again when   *)
(* the watch has expired.                                                  *)
InformerLists(k) ==
  /\ ~listed[k]
  /\ cache' = [cache EXCEPT ![k] = ListFunc(k)]
  /\ pos' = [pos EXCEPT ![k] = Len(log)]
  /\ listed' = [listed EXCEPT ![k] = TRUE]
  /\ UNCHANGED <<log, store, held, edits>>

InformerWatches(k) ==
  /\ listed[k]
  /\ \E i \in WatchFunc(k, pos[k]) :
       /\ \A j \in WatchFunc(k, pos[k]) : i <= j
       /\ cache' = [cache EXCEPT ![k][log[i].name] = log[i].obj]
       /\ pos' = [pos EXCEPT ![k] = i]
  /\ UNCHANGED <<log, store, listed, held, edits>>

WatchExpires(k) ==
  /\ listed[k]
  /\ listed' = [listed EXCEPT ![k] = FALSE]
  /\ UNCHANGED <<log, store, cache, pos, held, edits>>

-----------------------------------------------------------------------------
(* The listers.  The indexer's key of an object is its name, with the      *)
(* namespace in front if it has one; Get always puts a namespace in front. *)
IndexerKey(n) == <<n>>

GetByKey(k, key) == {n \in Name : Live(cache[k][n]) /\ IndexerKey(n) = key}

ProviderConfigListerList == {n \in Name : Live(cache["ProviderConfig"][n])}

ProviderConfigListerGet(ns, n) == GetByKey("ProviderConfig", <<ns, n>>)

TenantListerList == {n \in Name : Live(cache["Tenant"][n])}

TenantListerGet(ns, n) == GetByKey("Tenant", <<ns, n>>)

ListerList(k) == IF k = "Tenant" THEN TenantListerList ELSE ProviderConfigListerList

ListerGet(k, ns, n) ==
  IF k = "Tenant" THEN TenantListerGet(ns, n) ELSE ProviderConfigListerGet(ns, n)

-----------------------------------------------------------------------------
(* Consumers. *)
Hold(c, k, t, items, rvs) ==
  /\ held[c] = NoCopy
  /\ held' = [held EXCEPT ![c] = [kind |-> k, type |-> t, items |-> items, rvs |-> rvs]]
  /\ UNCHANGED <<log, store, cache, pos, listed, edits>>

Versions(objs, names) == [n \in names |-> objs[n].rv]

(* Takes an object from the lister's list and deep-copies it.              *)
CopyObject(c, k, n) ==
  /\ n \in ListerList(k)
  /\ Hold(c, k, k, [m \in {n} |-> DeepCopyInto(k, Assign(k, k, cache[k][n].val))],
          Versions(cache[k], {n}))

(* Puts all listed objects into a typed list and deep-copies the list.     *)
CopyList(c, k) ==
  LET names == ListerList(k)
      items == [n \in names |-> Assign(k, k, cache[k][n].val)]
  IN  /\ names # {}
      /\ Hold(c, k, "List",
              IF k = "Tenant" THEN TenantListDeepCopyInto(items)
                              ELSE ProviderConfigListDeepCopyInto(items),
              Versions(cache[k], names))

(* Asks the lister for one object and, if it is not there, the API server. *)
Fetch(c, k, n) ==
  LET o == IF k = "Tenant" THEN tenantsGet(n) ELSE providerConfigsGet(n)
  IN  /\ ListerGet(k, "", n) = {}
      /\ Live(o)
      /\ Hold(c, k, k, [m \in {n} |-> [val |-> o.val, shared |-> {}]],
              [m \in {n} |-> o.rv])

(* What a new value in a field of copy s does to the cached object: it     *)
(* changes too where the copy shares its memory.                           *)
Edited(k, n, s, rv, f, v) ==
  IF f \in s.shared /\ cache[k][n].rv = rv
  THEN [cache EXCEPT ![k][n].val[f] = v]
  ELSE cache

EditCopy(c, n, f) ==
  LET h == held[c]
  IN  /\ edits < MaxEdits
      /\ edits' = edits + 1
      /\ held' = [held EXCEPT ![c].items[n].val[f] = edits + 2]
      /\ cache' = Edited(h.kind, n, h.items[n], h.rvs[n], f, edits + 2)
      /\ UNCHANGED <<log, store, pos, listed>>

(* Deep-copies a part of a listed object that is not nil and edits it; the *)
(* part is not written back, so nobody sees the edit unless memory is      *)
(* shared.                                                                 *)
EditPart(k, t, n, f) ==
  LET o    == cache[k][n]
      part == DeepCopyInto(t, Assign(k, t, o.val))
  IN  /\ n \in ListerList(k)
      /\ o.val[f] # 0
      /\ cache' = Edited(k, n, part, o.rv, f, MaxEdits + 2)
      /\ UNCHANGED <<log, store, pos, listed, held, edits>>

(* Writes the copy of a whole object back, with the resource version it    *)
(* was read at or (status reporters) without one.                          *)
WriteBack(c, n) ==
  LET h == held[c]
      Obj(rv) == [rv |-> rv, val |-> h.items[n].val]
  IN  /\ h.type \in {h.kind, "List"}
      /\ IF h.kind = "Tenant"
         THEN \/ tenantsUpdate(n, Obj(h.rvs[n]))
              \/ \E rv \in {0, h.rvs[n]} : tenantsUpdateStatus(n, Obj(rv))
         ELSE \/ providerConfigsUpdate(n, Obj(h.rvs[n]))
              \/ \E rv \in {0, h.rvs[n]} : providerConfigsUpdateStatus(n, Obj(rv))
      /\ held' = [held EXCEPT ![c] = NoCopy]
      /\ UNCHANGED <<cache, pos, listed, edits>>

Drop(c) ==
  /\ held' = [held EXCEPT ![c] = NoCopy]
  /\ UNCHANGED <<log, store, cache, pos, listed, edits>>

ConsumerStep(c) ==
  \/ \E k \in Kind : CopyList(c, k)
  \/ \E k \in Kind, n \in Name :
       \/ CopyObject(c, k, n)
       \/ Fetch(c, k, n)
       \/ \E t \in DOMAIN Types(k) : \E f \in Types(k)[t].fields : EditPart(k, t, n, f)
  \/ /\ held[c] # NoCopy
     /\ \/ \E n \in DOMAIN held[c].items :
              \/ \E f \in DOMAIN held[c].items[n].val : EditCopy(c, n, f)
              \/ WriteBack(c, n)
        \/ Drop(c)

(* Other processes, through the same clients.  A new object has all fields *)
(* set; its status, which Create drops, is nil.                            *)
Initial(k) == [f \in Fields(k) |-> 1]

Subresource(f) == IF f \in StatusFields THEN "status" ELSE ""

OthersWriteProviderConfig(n) ==
  \/ providerConfigsCreate(n, Initial("ProviderConfig")) /\ UNCHANGED edits
  \/ providerConfigsDelete(n) /\ UNCHANGED edits
  \/ \E f \in Fields("ProviderConfig") :
       /\ Live(store["ProviderConfig"][n])
       /\ edits < MaxEdits
       /\ providerConfigsPatch(n, f, edits + 2, Subresource(f))
       /\ edits' = edits + 1

OthersWriteTenant(n) ==
  \/ tenantsCreate(n, Initial("Tenant")) /\ UNCHANGED edits
  \/ tenantsDelete(n) /\ UNCHANGED edits
  \/ \E f \in Fields("Tenant") :
       /\ Live(store["Tenant"][n])
       /\ edits < MaxEdits
       /\ tenantsPatch(n, f, edits + 2, Subresource(f))
       /\ edits' = edits + 1

OthersWrite ==
  /\ \/ \E n \in Name : OthersWriteProviderConfig(n) \/ OthersWriteTenant(n)
     \/ /\ providerConfigsDeleteCollection(Name) \/ tenantsDeleteCollection(Name)
        /\ UNCHANGED edits
  /\ UNCHANGED <<cache, pos, listed, held>>

Next ==
  \/ \E c \in Consumer : ConsumerStep(c)
  \/ \E k \in Kind : InformerLists(k) \/ InformerWatches(k) \/ WatchExpires(k)
  \/ OthersWrite

(* Informers list and watch; nobody else has to do anything.               *)
Fairness == \A k \in Kind : WF_vars(InformerLists(k)) /\ WF_vars(InformerWatches(k))

Spec == Init /\ [][Next]_vars /\ Fairness

-----------------------------------------------------------------------------
(* Consumers that edit only deep copies never change a cached object: the  *)
(* indexer holds what the API server stored under that resource version,   *)
(* so all readers of a lister see what was stored.                         *)
CacheIsPristine ==
  \A k \in Kind, n \in Name :
    Live(cache[k][n]) => cache[k][n] = log[cache[k][n].rv].obj

(* Status reporters that work from an outdated copy never undo a change of *)
(* the spec: a stored field outside the status only takes newer values.    *)
SpecNeverReverts ==
  [][\A k \in Kind, n \in Name : Live(store[k][n]) /\ Live(store[k][n])' =>
       \A f \in Fields(k) \ StatusFields :
         store'[k][n].val[f] >= store[k][n].val[f]]_vars

(* The indexers catch up with what is stored of the selected objects, and  *)
(* hold no others, after expired watches too.                              *)
CachesConverge ==
  \A k \in Kind : []<>(cache[k] = ListRequest(k, Selected))

=============================================================================
