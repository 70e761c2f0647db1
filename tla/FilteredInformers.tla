-------------------------- MODULE FilteredInformers --------------------------
(***************************************************************************)
(* pkg/filteredinformer: every tenant sees the objects of a shared         *)
(* informer through a FilteredSharedInformerFactory that lets only objects *)
(* with the tenant's label value through, to its event handlers            *)
(* (filteredinformer.go) and to its listers (filteredcache.go).            *)
(*                                                                         *)
(* An object is reduced to the value of the label filterKey.  A tenant     *)
(* stands for its factory and for its filterValue; a view is the filtered  *)
(* informer of one tenant for one kind of objects.  The shared informer    *)
(* and its listener goroutines are client-go's.                            *)
(***************************************************************************)
EXTENDS Naturals, SequencesExt

CONSTANTS
  Tenant,        \* the tenants, each also the label value of its objects
  AllowMissing,  \* tenants that also see objects without the label
  Kind,          \* kinds of objects with a shared informer (nodes, leases)
  Name,          \* names of the objects
  Missing,       \* an object without the label
  Absent,        \* no object
  MaxChanges     \* how many changes of objects reach the shared informers

ASSUME FilteredInformersAssumption ==
  /\ AllowMissing \subseteq Tenant
  /\ Missing \notin Tenant
  /\ Absent \notin Tenant \cup {Missing}
  /\ MaxChanges \in Nat

VARIABLES
  indexer,      \* the shared indexers: the label of every object
  indexed,      \* kinds whose indexer has the index filterKey
  halted,       \* kinds whose shared informer has stopped
  changesLeft,
  cached,       \* the factory remembers the informer (nodeInformer, ...)
  tracked,      \* the factory's list informers holds it
  stopped,      \* its flag stopped
  listening,    \* an event handler was added to it
  pending,      \* notifications on their way to that handler
  turn,         \* the notification it works on, see Turn
  known         \* history: the objects the handler was told of: added and
                \* not deleted

sharedVars   == <<indexer, indexed, halted, changesLeft>>
factoryVars  == <<cached, tracked, stopped>>
listenerVars == <<listening, pending, turn, known>>
vars         == <<sharedVars, factoryVars, listenerVars>>

View  == Tenant \X Kind
Label == Tenant \cup {Missing}

\* A notification: an add has no old object, a delete no new one.
Note  == [name : Name, old : Label \cup {Absent}, new : Label \cup {Absent}]

\* FilteringResourceEventHandler.OnUpdate calls the filter twice; at "older"
\* it has the answer newer for the new object, at "call" it is about to make
\* the call.
Turn  == [step : {"older", "call"}, note : Note, newer : BOOLEAN,
          call : {"", "add", "update", "delete"}]
Idle  == [step |-> "idle"]

Init ==
  /\ indexer = [d \in Kind |-> [n \in Name |-> Absent]]
  /\ indexed = {}
  /\ halted = {}
  /\ changesLeft = MaxChanges
  /\ cached = {}
  /\ tracked = {}
  /\ stopped = {}
  /\ listening = {}
  /\ pending = [v \in View |-> <<>>]
  /\ turn = [v \in View |-> Idle]
  /\ known = [v \in View |-> {}]

-----------------------------------------------------------------------------
(* helpers.go: the filter. *)

MatchValue(label, t) == IF label = Missing THEN t \in AllowMissing ELSE label = t

Matching(v) ==
  {n \in Name : indexer[v[2]][n] # Absent /\ MatchValue(indexer[v[2]][n], v[1])}

-----------------------------------------------------------------------------
(* filteredcache.go: what GetStore and GetIndexer show of the indexer. *)

GetByKey(v) == Matching(v)

\* The index filterKey of the shared indexer: an error if there is none.
IndexLookup(d, label) ==
  [err   |-> d \notin indexed,
   items |-> {n \in Name : d \in indexed /\ indexer[d][n] = label}]

\* ByIndex, and Index of an object with that label, on the index filterKey.
ByIndex(v, label) ==
  [IndexLookup(v[2], label) EXCEPT !.items = {n \in @ : MatchValue(label, v[1])}]

\* List, and with it ListKeys: by the index, without it by the filter.
List(v) ==
  LET found == IndexLookup(v[2], v[1])
  IN  IF found.err THEN Matching(v) ELSE found.items

-----------------------------------------------------------------------------
(* filteredfactory.go, and what it calls in filteredinformer.go. *)

\* Mutated: a tenant that sees objects without the label, which the index
\* does not have, makes no index.
NewFilteredInformerOptIn(v) ==
  indexed' = IF v[2] \in halted \/ v[1] \in AllowMissing THEN indexed
                                                         ELSE indexed \cup {v[2]}

(* NewFilteredInformer adds the index filterKey to the shared informer; it *)
(* does not look at the error it gets when that one has stopped.           *)
NewFilteredInformer(v) ==
  indexed' = IF v[2] \in halted THEN indexed ELSE indexed \cup {v[2]}

(* RemoveEventHandlers, and Cleanup of the informer, on each of views. *)
RemoveEventHandlers(views) == stopped' = stopped \cup views

\* Mutated: the informer is not remembered for Cleanup.
InformerUntracked(v) ==
  /\ v \notin cached
  /\ cached' = cached \cup {v}
  /\ NewFilteredInformer(v)
  /\ UNCHANGED <<tracked, stopped, indexer, halted, changesLeft, listenerVars>>

(* Informer: the first call creates the filtered informer, later calls     *)
(* return the one that is remembered.                                      *)
Informer(v) ==
  /\ v \notin cached
  /\ cached' = cached \cup {v}
  /\ tracked' = tracked \cup {v}
  /\ NewFilteredInformer(v)
  /\ UNCHANGED <<stopped, indexer, halted, changesLeft, listenerVars>>

(* Cleanup of a tenant's factory: its handlers are stopped and forgotten,  *)
(* the informers themselves stay remembered.                               *)
Cleanup(t) ==
  /\ RemoveEventHandlers({v \in tracked : v[1] = t})
  /\ tracked' = {v \in tracked : v[1] # t}
  /\ UNCHANGED <<cached, sharedVars, listenerVars>>

-----------------------------------------------------------------------------
(* filteredinformer.go: event handlers. *)

Replay(v, n) == [name |-> n, old |-> Absent, new |-> indexer[v[2]][n]]

\* Mutated: a handler added late is not told of what is there already.
AddEventHandlerNoReplay(v) ==
  /\ v \in cached \ listening
  /\ v[2] \notin halted
  /\ listening' = listening \cup {v}
  /\ UNCHANGED <<pending, turn, known, sharedVars, factoryVars>>

(* AddEventHandler, also with a resync period: the shared informer replays *)
(* the objects it has, in any order, unless it has stopped.                *)
AddEventHandler(v) ==
  /\ v \in cached \ listening
  /\ v[2] \notin halted
  /\ listening' = listening \cup {v}
  /\ \E order \in SetToSeqs({n \in Name : indexer[v[2]][n] # Absent}) :
       pending' = [pending EXCEPT ![v] = [i \in DOMAIN order |-> Replay(v, order[i])]]
  /\ UNCHANGED <<turn, known, sharedVars, factoryVars>>

\* Mutated: the flag stopped is not looked at.
filterFuncNeverStops(v, label) == MatchValue(label, v[1])

(* filterFunc reads the flag stopped on every call. *)
filterFunc(v, label) == v \notin stopped /\ MatchValue(label, v[1])

(* The listener of v makes the call, if any, next. *)
Proceed(v, note, call) ==
  turn' = [turn EXCEPT ![v] =
             IF call = "" THEN Idle
             ELSE [step |-> "call", note |-> note, newer |-> FALSE, call |-> call]]

\* Mutated: the object in a deletion's tombstone is not unpacked, so that no
\* deletion passes the filter.
FilterFirstDropsDeletes(v) ==
  LET note == Head(pending[v])
  IN  /\ turn[v] = Idle
      /\ pending[v] # <<>>
      /\ pending' = [pending EXCEPT ![v] = Tail(@)]
      /\ IF note.old = Absent \/ note.new = Absent
         THEN Proceed(v, note, IF note.new # Absent /\ filterFunc(v, note.new)
                               THEN "add" ELSE "")
         ELSE turn' = [turn EXCEPT ![v] = [step |-> "older", note |-> note, call |-> "",
                                           newer |-> filterFunc(v, note.new)]]
      /\ UNCHANGED <<listening, known, sharedVars, factoryVars>>

(* FilteringResourceEventHandler: the first call of the filter, on the new *)
(* object of an add or an update and on the old one of a delete.           *)
FilterFirst(v) ==
  LET note == Head(pending[v])
  IN  /\ turn[v] = Idle
      /\ pending[v] # <<>>
      /\ pending' = [pending EXCEPT ![v] = Tail(@)]
      /\ CASE note.old = Absent ->
                Proceed(v, note, IF filterFunc(v, note.new) THEN "add" ELSE "")
           [] note.new = Absent ->
                Proceed(v, note, IF filterFunc(v, note.old) THEN "delete" ELSE "")
           [] OTHER ->
                turn' = [turn EXCEPT ![v] = [step |-> "older", note |-> note, call |-> "",
                                             newer |-> filterFunc(v, note.new)]]
      /\ UNCHANGED <<listening, known, sharedVars, factoryVars>>

\* Mutated: an object that leaves the filter is dropped without a delete.
DispatchForgetsDelete(newer, older) ==
  CASE newer /\ older -> "update" [] newer /\ ~older -> "add" [] OTHER -> ""

Dispatch(newer, older) ==
  CASE newer /\ older  -> "update"
    [] newer /\ ~older -> "add"
    [] ~newer /\ older -> "delete"
    [] OTHER           -> ""

(* OnUpdate: the second call of the filter, on the old object. *)
FilterSecond(v) ==
  /\ turn[v].step = "older"
  /\ Proceed(v, turn[v].note,
             Dispatch(turn[v].newer, filterFunc(v, turn[v].note.old)))
  /\ UNCHANGED <<listening, pending, known, sharedVars, factoryVars>>

(* The tenant's handler is called. *)
CallHandler(v) ==
  /\ turn[v].step = "call"
  /\ turn' = [turn EXCEPT ![v] = Idle]
  /\ known' = [known EXCEPT ![v] =
                 IF turn[v].call = "delete" THEN @ \ {turn[v].note.name}
                                            ELSE @ \cup {turn[v].note.name}]
  /\ UNCHANGED <<listening, pending, sharedVars, factoryVars>>

-----------------------------------------------------------------------------
(* The shared informer: an object is created, changed (its label or        *)
(* anything else; a resync looks the same), deleted, or found deleted by a *)
(* relist, which passes the last known object on.                          *)
Change(d, n, label) ==
  LET note == [name |-> n, old |-> indexer[d][n], new |-> label]
  IN  /\ d \notin halted
      /\ changesLeft > 0
      /\ changesLeft' = changesLeft - 1
      /\ ~(indexer[d][n] = Absent /\ label = Absent)
      /\ indexer' = [indexer EXCEPT ![d][n] = label]
      /\ pending' = [v \in View |-> IF v \in listening /\ v[2] = d
                                    THEN Append(pending[v], note) ELSE pending[v]]
      /\ UNCHANGED <<indexed, halted, factoryVars, listening, turn, known>>

(* The shared informer stops; notifications in its buffers are lost. *)
Halt(d) ==
  /\ d \notin halted
  /\ halted' = halted \cup {d}
  /\ pending' = [v \in View |-> IF v[2] = d THEN <<>> ELSE pending[v]]
  /\ UNCHANGED <<indexer, indexed, changesLeft, factoryVars, listening, turn, known>>

Listener(v) == FilterFirst(v) \/ FilterSecond(v) \/ CallHandler(v)

Next ==
  \/ \E v \in View : Informer(v) \/ AddEventHandler(v) \/ Listener(v)
  \/ \E t \in Tenant : Cleanup(t)
  \/ \E d \in Kind : Halt(d)
  \/ \E d \in Kind, n \in Name, label \in Label \cup {Absent} : Change(d, n, label)

Safe == Init /\ [][Next]_vars

\* The listener goroutines run; nothing else has to happen.
Spec == Safe /\ \A v \in View : WF_vars(Listener(v))

-----------------------------------------------------------------------------
TypeOK ==
  /\ indexer \in [Kind -> [Name -> Label \cup {Absent}]]
  /\ indexed \subseteq Kind
  /\ halted \subseteq Kind
  /\ changesLeft \in 0..MaxChanges
  /\ cached \subseteq View
  /\ tracked \subseteq cached
  /\ stopped \subseteq cached
  /\ listening \subseteq cached
  /\ pending \in [View -> Seq(Note)]
  /\ turn \in [View -> Turn \cup {Idle}]
  /\ known \in [View -> SUBSET Name]

Live(v) == v \in listening \ stopped /\ v[2] \notin halted

\* The notifications the handler of v has not been called for yet.
Todo(v) == IF turn[v] = Idle THEN pending[v] ELSE <<turn[v].note>> \o pending[v]

\* Does an object with this label, or none, pass the filter of v?
Passes(v, label) == label # Absent /\ MatchValue(label, v[1])

\* The handler of v knows n as it was before the notifications in Todo(v),
\* which lead, each from where the one before ended, to the cached object.
Chained(v, n) ==
  LET todo == Todo(v)
      At   == {i \in 1..Len(todo) : todo[i].name = n}
  IN  /\ At = {} => (n \in known[v] <=> Passes(v, indexer[v[2]][n]))
      /\ \A i \in At :
           /\ (\A j \in At : j >= i) => (n \in known[v] <=> Passes(v, todo[i].old))
           /\ (\A j \in At : j <= i) => todo[i].new = indexer[v[2]][n]
           /\ \A j \in At : i < j /\ (\A m \in At : m <= i \/ m >= j)
                             => todo[i].new = todo[j].old

\* The answers of the filter a listener has got so far are those for the
\* objects of the notification it works on.
TurnOK(v) ==
  LET note == turn[v].note
  IN  /\ turn[v].step = "older" => turn[v].newer = Passes(v, note.new)
      /\ turn[v].step = "call" =>
           turn[v].call = Dispatch(Passes(v, note.new), Passes(v, note.old))

(* What the agreement of handlers and cache rests on: the notifications on *)
(* their way to a handler that is not being removed are a gapless history  *)
(* of every object from what the handler knows to what the cache holds.    *)
FIInv ==
  /\ TypeOK
  /\ \A v \in View : Live(v) => TurnOK(v) /\ \A n \in Name : Chained(v, n)

(* The calls a handler gets make sense to it: updates and deletes are of   *)
(* objects it was told of, adds of objects it does not know, although      *)
(* labels change while notifications queue up.  Only a handler removed     *)
(* between the two calls of the filter in OnUpdate may be told of an       *)
(* object twice, since the flag then makes the update look like an add.    *)
CallsFit ==
  \A v \in View : turn[v].step = "call" =>
    LET n == turn[v].note.name
    IN  IF turn[v].call = "add" THEN n \notin known[v] \/ v \in stopped
                                ELSE n \in known[v]

(* A handler that has caught up knows exactly the objects that the         *)
(* filtered cache shows by key.                                            *)
HandlerAgrees ==
  \A v \in View :
    Live(v) /\ pending[v] = <<>> /\ turn[v] = Idle => known[v] = GetByKey(v)

(* Whatever the interleaving of Informer and Cleanup, no informer that a   *)
(* factory has handed out escapes its next Cleanup.                        *)
CleanupReachesAll == \A v \in cached : v \in tracked \/ v \in stopped

\* Between two notifications, or in one it dropped, after the flag was set.
Silenced(v) ==
  /\ v \in stopped
  /\ turn[v] = Idle \/ (turn[v].step = "older" /\ ~turn[v].newer)

(* Once a listener has seen the flag stopped, its handler is never called  *)
(* again: only the notification it was working on can still get through.   *)
SilenceIsFinal ==
  [][\A v \in View : Silenced(v) => Silenced(v)' /\ known'[v] = known[v]]_vars

(* Tenants do not see each other in their listers: what List, ByIndex and  *)
(* Index answer about an object changes only when an object of the tenant  *)
(* does.  It does not depend on what other tenants' factories do to the    *)
(* index they share, nor on the shared informer being stopped.             *)
ListersAreIsolated ==
  [][\A v \in cached : \A n \in Name :
       LET old == indexer[v[2]][n]
           new == indexer'[v[2]][n]
       IN  old = new \/ ~(Passes(v, old) \/ Passes(v, new)) =>
             /\ n \in List(v)' <=> n \in List(v)
             /\ \A label \in Tenant :
                  /\ n \in ByIndex(v, label).items' <=> n \in ByIndex(v, label).items
                  /\ ByIndex(v, label).err' = ByIndex(v, label).err]_vars

(* A handler that is not removed eventually catches up with the cache.     *)
EventuallyAgrees ==
  \A v \in View : <>[](Live(v) => known[v] = GetByKey(v))

(* Documented, see the findings. *)

(* List returns a list of objects matching the filter. *)
ListMatchesFilter == \A v \in cached : List(v) = Matching(v)

=============================================================================
