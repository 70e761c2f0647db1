----------------------------- MODULE ApiServer -----------------------------
(***************************************************************************)
(* What the framework sees of the Kubernetes API server and of the shared  *)
(* informer it is given: the ProviderConfigs, the watch stream, the        *)
(* informer's cache and the notifications on their way to the event        *)
(* handlers.  The API server and its users are external and modelled from  *)
(* the calls that pkg/framework makes; the informer is client-go's, which  *)
(* the repository vendors.                                                 *)
(*                                                                         *)
(* A ProviderConfig is reduced to what the framework reads or writes: its  *)
(* resource version, its finalizers and whether it is being deleted.  An   *)
(* object that does not exist keeps its last resource version, so that a   *)
(* re-created object gets a new one.                                       *)
(***************************************************************************)
EXTENDS Keys, Naturals, Sequences

CONSTANTS
  Finalizer,   \* the framework's finalizerName
  Other,       \* a finalizer of somebody else
  MaxRV,       \* users change an object only below this resource version
  Fault,       \* the kinds of faults that may happen
  MaxFaults    \* how many of them may happen

ASSUME ApiServerAssumption ==
  /\ Finalizer # Other
  /\ MaxRV \in Nat
  /\ MaxFaults \in Nat

VARIABLES
  api,         \* the ProviderConfigs stored by the API server
  watch,       \* versions the informer has not seen yet, in order
  cache,       \* the informer's indexer
  events,      \* keys with a notification for the Add or Update handler
  hasSynced,   \* the informer has processed its initial list
  faultsLeft   \* faults that may still happen

storeVars    == <<api, watch>>
informerVars == <<cache, events, hasSynced>>
apiVars      == <<storeVars, informerVars, faultsLeft>>

Version == [live : BOOLEAN, rv : Nat,
            fins : SUBSET {Finalizer, Other}, deleting : BOOLEAN]
NoObject == [live |-> FALSE, rv |-> 0, fins |-> {}, deleting |-> FALSE]

ApiInit ==
  /\ api = [k \in Key |-> NoObject]
  /\ watch = [k \in Key |-> <<>>]
  /\ cache = [k \in Key |-> NoObject]
  /\ events = {}
  /\ hasSynced = FALSE
  /\ faultsLeft = MaxFaults

(* A fault of kind f happens now. *)
Fails(f) ==
  /\ f \in Fault
  /\ faultsLeft > 0
  /\ faultsLeft' = faultsLeft - 1

NoFault == UNCHANGED faultsLeft

-----------------------------------------------------------------------------
(* The API server. *)

(* Object k is stored with the given finalizers under the next resource    *)
(* version.  An object that is being deleted goes away with its last       *)
(* finalizer.                                                              *)
Put(k, fins, deleting) ==
  LET new == [live |-> ~(deleting /\ fins = {}), rv |-> api[k].rv + 1,
              fins |-> fins, deleting |-> deleting]
  IN  /\ api' = [api EXCEPT ![k] = new]
      /\ watch' = IF hasSynced THEN [watch EXCEPT ![k] = Append(@, new)]
                               ELSE watch

(* unstructured.SetFinalizers, on a copy. *)
SetFinalizers(o, fins) ==
  [live |-> o.live, rv |-> o.rv, fins |-> fins, deleting |-> o.deleting]

(* Update succeeds only for the current version of an existing object; it  *)
(* may also fail before or after the server has stored the object.         *)
Update(k, o, ok) ==
  LET current == api[k].live /\ api[k].rv = o.rv
  IN  \/ ok /\ current /\ Put(k, o.fins, o.deleting) /\ NoFault
      \/ ~ok /\ ~current /\ UNCHANGED storeVars /\ NoFault
      \/ ~ok /\ UNCHANGED storeVars /\ Fails("update")
      \/ ~ok /\ current /\ Put(k, o.fins, o.deleting) /\ Fails("lost")

UserCreate(k, fins) ==
  /\ ~api[k].live
  /\ api[k].rv < MaxRV
  /\ Put(k, fins, FALSE)
  /\ UNCHANGED <<informerVars, faultsLeft>>

UserEdit(k) ==
  /\ api[k].live
  /\ api[k].rv < MaxRV
  /\ Fails("edit")
  /\ Put(k, api[k].fins, api[k].deleting)
  /\ UNCHANGED informerVars

UserDelete(k) ==
  /\ api[k].live
  /\ ~api[k].deleting
  /\ api[k].rv < MaxRV
  /\ Put(k, api[k].fins, TRUE)
  /\ UNCHANGED <<informerVars, faultsLeft>>

OtherFinalizerRemoved(k) ==
  /\ api[k].live
  /\ api[k].deleting
  /\ Other \in api[k].fins
  /\ Put(k, api[k].fins \ {Other}, TRUE)
  /\ UNCHANGED <<informerVars, faultsLeft>>

-----------------------------------------------------------------------------
(* The informer.  The controller registers no DeleteFunc, so a deletion    *)
(* changes the cache and notifies nobody.                                  *)

Notify(k) == events' = IF cache'[k].live THEN events \cup {k} ELSE events

InformerSync ==
  /\ ~hasSynced
  /\ hasSynced' = TRUE
  /\ cache' = api
  /\ events' = {k \in Key : api[k].live}
  /\ UNCHANGED <<storeVars, faultsLeft>>

Deliver(k) ==
  /\ watch[k] # <<>>
  /\ cache' = [cache EXCEPT ![k] = Head(watch[k])]
  /\ watch' = [watch EXCEPT ![k] = Tail(@)]
  /\ Notify(k)
  /\ UNCHANGED <<api, hasSynced, faultsLeft>>

(* The watch broke and the informer lists again: versions in between are   *)
(* never seen, and the cached object is replaced by a fresh one.           *)
Relist(k) ==
  /\ hasSynced
  /\ cache[k] # api[k]
  /\ Fails("relist")
  /\ cache' = [cache EXCEPT ![k] = api[k]]
  /\ watch' = [watch EXCEPT ![k] = <<>>]
  /\ Notify(k)
  /\ UNCHANGED <<api, hasSynced>>

(* The informer's periodic resync. *)
Resync(k) ==
  /\ cache[k].live
  /\ events' = events \cup {k}
  /\ UNCHANGED <<storeVars, cache, hasSynced, faultsLeft>>

(* The API server keeps its objects when the framework's process dies. *)
InformerRestart ==
  /\ watch' = [k \in Key |-> <<>>]
  /\ cache' = [k \in Key |-> NoObject]
  /\ events' = {}
  /\ hasSynced' = FALSE
  /\ UNCHANGED api

-----------------------------------------------------------------------------
ApiTypeOK ==
  /\ api \in [Key -> Version]
  /\ watch \in [Key -> Seq(Version)]
  /\ cache \in [Key -> Version]
  /\ events \subseteq Key
  /\ hasSynced \in BOOLEAN
  /\ faultsLeft \in 0..MaxFaults

=============================================================================
