-------------------------- MODULE InformerFactory --------------------------
(***************************************************************************)
(* The generated SharedInformerFactory (factory.go, generic.go and the     *)
(* typed informers under client/informers/externalversions): goroutines    *)
(* ask it for informers, start them, wait for their caches and shut it     *)
(* down, all at the same time.  What a method does while it holds the lock *)
(* is one step.  The copies for ProviderConfigs and for Tenants differ in  *)
(* names only.                                                             *)
(***************************************************************************)
EXTENDS Naturals

CONSTANTS
  Type,         \* the types that informers are asked for
  Known,        \* those that ForResource knows
  Caller,       \* goroutines that use the factory
  Chan,         \* stop channels
  MaxInformers  \* bound on the informers that are ever created

ASSUME FactoryAssumption == Known \subseteq Type /\ MaxInformers \in Nat

VARIABLES
  informers,     \* the map of informers: 0, or the identity of the informer
  made,          \* how many informers have been created
  handles,       \* the informers that callers were given for a type
  started,       \* startedInformers
  shuttingDown,
  routines,      \* goroutines within informer.Run: <<type, stop channel>>
  wg,            \* goroutines that wg.Wait waits for
  runs,          \* how often Run was called for a type
  synced,        \* types whose informer HasSynced
  closed,        \* closed stop channels
  op,            \* what a caller is doing
  waitCh,        \* WaitForCacheSync: its stopCh, as a set
  todo,          \* WaitForCacheSync: informers it has not waited for yet
  res,           \* WaitForCacheSync: its result so far, by outcome
  ready,         \* history: types requested before a Start that took effect
  due,           \* history: ready when WaitForCacheSync was called
  returned       \* history: a call of Shutdown has returned

mapVars  == <<informers, made, handles>>
runVars  == <<started, routines, wg, runs, ready>>
waitVars == <<waitCh, todo, res, due>>
vars     == <<mapVars, runVars, waitVars, shuttingDown, synced, closed, op, returned>>

NoResult == [ok |-> {}, failed |-> {}]

Init ==
  /\ informers = [t \in Type |-> 0]
  /\ made = 0
  /\ handles = [t \in Type |-> {}]
  /\ started = {}
  /\ shuttingDown = FALSE
  /\ routines = {}
  /\ wg = {}
  /\ runs = [t \in Type |-> 0]
  /\ synced = {}
  /\ closed = {}
  /\ op = [g \in Caller |-> "idle"]
  /\ waitCh = [g \in Caller |-> {}]
  /\ todo = [g \in Caller |-> {}]
  /\ res = [g \in Caller |-> NoResult]
  /\ ready = {}
  /\ due = [g \in Caller |-> {}]
  /\ returned = FALSE

Goto(g, s) == op' = [op EXCEPT ![g] = s]

-----------------------------------------------------------------------------
(* InformerFor: the informer of the type, created on the first call.       *)

\* Mutated: the map is not looked at before an informer is created.
InformerForAlwaysNew(t) ==
  /\ made < MaxInformers
  /\ made' = made + 1
  /\ informers' = [informers EXCEPT ![t] = made + 1]
  /\ handles' = [handles EXCEPT ![t] = @ \cup {made + 1}]

InformerFor(t) ==
  /\ IF informers[t] # 0
     THEN UNCHANGED <<informers, made>>
     ELSE /\ made < MaxInformers
          /\ made' = made + 1
          /\ informers' = [informers EXCEPT ![t] = made + 1]
  /\ handles' = [handles EXCEPT ![t] = @ \cup {informers'[t]}]

(* The ways to an informer: a typed informer (its Lister asks for the      *)
(* informer too), ForResource, which fails for unknown resources, and      *)
(* InformerFor with any type.                                              *)
Informer(t) == t \in Known /\ InformerFor(t)

Lister(t) == Informer(t)

ForResource(t) == IF t \in Known THEN Informer(t) ELSE UNCHANGED mapVars

Request(g, t) ==
  /\ op[g] = "idle"
  /\ InformerFor(t) \/ Informer(t) \/ Lister(t) \/ ForResource(t)
  /\ UNCHANGED <<runVars, waitVars, shuttingDown, synced, closed, op, returned>>

(* Start runs each requested informer that was not started before.         *)
Spawn(types, ch) ==
  /\ started' = started \cup types
  /\ routines' = routines \cup (types \X {ch})
  /\ wg' = wg \cup (types \X {ch})
  /\ runs' = [t \in Type |-> IF t \in types THEN runs[t] + 1 ELSE runs[t]]
  /\ ready' = {t \in Type : informers[t] # 0}

Unstarted == {t \in Type : informers[t] # 0 /\ t \notin started}

\* Mutated: shuttingDown is not looked at.
StartAnyway(g, ch) ==
  /\ op[g] = "idle"
  /\ Spawn(Unstarted, ch)
  /\ UNCHANGED <<mapVars, waitVars, shuttingDown, synced, closed, op, returned>>

\* Mutated: what runs already is run again.
StartAgain(g, ch) ==
  /\ op[g] = "idle"
  /\ \A t \in Type : runs[t] < 2
  /\ IF shuttingDown THEN UNCHANGED runVars
                     ELSE Spawn({t \in Type : informers[t] # 0}, ch)
  /\ UNCHANGED <<mapVars, waitVars, shuttingDown, synced, closed, op, returned>>

Start(g, ch) ==
  /\ op[g] = "idle"
  /\ IF shuttingDown THEN UNCHANGED runVars ELSE Spawn(Unstarted, ch)
  /\ UNCHANGED <<mapVars, waitVars, shuttingDown, synced, closed, op, returned>>

(* Shutdown sets the flag, then waits for the goroutines without the lock. *)
Shutdown(g) ==
  /\ op[g] = "idle"
  /\ shuttingDown' = TRUE
  /\ Goto(g, "shutdown")
  /\ UNCHANGED <<mapVars, runVars, waitVars, synced, closed, returned>>

ShutdownReturns(g) ==
  /\ op[g] = "shutdown"
  /\ wg = {}
  /\ Goto(g, "idle")
  /\ returned' = TRUE
  /\ UNCHANGED <<mapVars, runVars, waitVars, shuttingDown, synced, closed>>

(* WaitForCacheSync copies the started informers under the lock, then      *)
(* waits for one after the other, in any order.                            *)
WaitForCacheSync(g, ch) ==
  /\ op[g] = "idle"
  /\ waitCh' = [waitCh EXCEPT ![g] = {ch}]
  /\ todo' = [todo EXCEPT ![g] = {t \in started : informers[t] # 0}]
  /\ due' = [due EXCEPT ![g] = ready]
  /\ Goto(g, "wait")
  /\ UNCHANGED <<mapVars, runVars, res, shuttingDown, synced, closed, returned>>

\* Mutated: the wait that stopCh ends counts as synced.
WaitIgnoresStop(g, t) ==
  /\ op[g] = "wait"
  /\ t \in todo[g]
  /\ t \in synced \/ waitCh[g] \subseteq closed
  /\ res' = [res EXCEPT ![g].ok = @ \cup {t}]
  /\ todo' = [todo EXCEPT ![g] = @ \ {t}]
  /\ UNCHANGED <<mapVars, runVars, waitCh, due, shuttingDown, synced, closed, op, returned>>

WaitForOne(g, t) ==
  /\ op[g] = "wait"
  /\ t \in todo[g]
  /\ \/ t \in synced /\ res' = [res EXCEPT ![g].ok = @ \cup {t}]
     \/ waitCh[g] \subseteq closed /\ res' = [res EXCEPT ![g].failed = @ \cup {t}]
  /\ todo' = [todo EXCEPT ![g] = @ \ {t}]
  /\ UNCHANGED <<mapVars, runVars, waitCh, due, shuttingDown, synced, closed, op, returned>>

WaitReturns(g) ==
  /\ op[g] = "wait"
  /\ todo[g] = {}
  /\ Goto(g, "idle")
  /\ waitCh' = [waitCh EXCEPT ![g] = {}]
  /\ res' = [res EXCEPT ![g] = NoResult]
  /\ due' = [due EXCEPT ![g] = {}]
  /\ UNCHANGED <<mapVars, runVars, todo, shuttingDown, synced, closed, returned>>

-----------------------------------------------------------------------------
(* The goroutine of an informer: Run syncs the cache and returns when its  *)
(* stop channel is closed; the deferred wg.Done follows.                   *)
InformerSyncs(r) ==
  /\ r \in routines
  /\ synced' = synced \cup {r[1]}
  /\ UNCHANGED <<mapVars, runVars, waitVars, shuttingDown, closed, op, returned>>

RunReturns(r) ==
  /\ r \in routines
  /\ r[2] \in closed
  /\ routines' = routines \ {r}
  /\ UNCHANGED <<mapVars, started, wg, runs, ready, waitVars, shuttingDown>>
  /\ UNCHANGED <<synced, closed, op, returned>>

\* Mutated: wg.Done is called only after a sync.
DoneIfSynced(r) ==
  /\ r \in wg \ routines
  /\ r[1] \in synced
  /\ wg' = wg \ {r}
  /\ UNCHANGED <<mapVars, started, routines, runs, ready, waitVars, shuttingDown>>
  /\ UNCHANGED <<synced, closed, op, returned>>

Done(r) ==
  /\ r \in wg \ routines
  /\ wg' = wg \ {r}
  /\ UNCHANGED <<mapVars, started, routines, runs, ready, waitVars, shuttingDown>>
  /\ UNCHANGED <<synced, closed, op, returned>>

CloseChan(ch) ==
  /\ closed' = closed \cup {ch}
  /\ UNCHANGED <<mapVars, runVars, waitVars, shuttingDown, synced, op, returned>>

Proceed(g) ==
  \/ ShutdownReturns(g)
  \/ WaitReturns(g)
  \/ \E t \in Type : WaitForOne(g, t)

Routine(r) == InformerSyncs(r) \/ RunReturns(r) \/ Done(r)

Next ==
  \/ \E g \in Caller :
       \/ \E t \in Type : Request(g, t)
       \/ \E ch \in Chan : Start(g, ch) \/ WaitForCacheSync(g, ch)
       \/ Shutdown(g)
       \/ Proceed(g)
  \/ \E r \in Type \X Chan : Routine(r)
  \/ \E ch \in Chan : CloseChan(ch)

(* Goroutines run: a blocked call goes on when it can, Run returns and is  *)
(* done once its channel is closed.  Callers call what they like, syncing  *)
(* is up to the API server, channels are closed by their owners.           *)
Fairness ==
  /\ \A g \in Caller : WF_vars(Proceed(g))
  /\ \A r \in Type \X Chan : WF_vars(RunReturns(r)) /\ WF_vars(Done(r))

Safe == Init /\ [][Next]_vars

Spec == Safe /\ Fairness

-----------------------------------------------------------------------------
TypeOK ==
  /\ informers \in [Type -> Nat]
  /\ made \in Nat
  /\ handles \in [Type -> SUBSET Nat]
  /\ started \subseteq Type
  /\ shuttingDown \in BOOLEAN
  /\ routines \subseteq Type \X Chan
  /\ wg \subseteq Type \X Chan
  /\ runs \in [Type -> Nat]
  /\ synced \subseteq Type
  /\ closed \subseteq Chan
  /\ op \in [Caller -> {"idle", "shutdown", "wait"}]
  /\ waitCh \in [Caller -> SUBSET Chan]
  /\ todo \in [Caller -> SUBSET Type]
  /\ res \in [Caller -> [ok : SUBSET Type, failed : SUBSET Type]]
  /\ ready \subseteq Type
  /\ due \in [Caller -> SUBSET Type]
  /\ returned \in BOOLEAN

(* All ways to the informer of a type lead to the same one, and it is the  *)
(* one in the map, which Start runs: nobody holds an informer that is      *)
(* never started or whose cache nobody else sees.                          *)
OneInformerPerType ==
  \A t \in Type : handles[t] \subseteq {informers[t]} \ {0}

(* An informer's Run is called at most once, however often and by however  *)
(* many goroutines Start is called.                                        *)
RunsOnce == \A t \in Type : runs[t] <= 1

(* When a call of Shutdown has returned, no informer runs, then or later:  *)
(* a Start that races with it is waited for or does nothing.               *)
ShutdownIsFinal == returned => routines = {}

(* When WaitForCacheSync returns, its answer has every informer that was   *)
(* requested before the last Start, and only synced ones as synced.        *)
WaitAnswersForStarted ==
  \A g \in Caller : op[g] = "wait" /\ todo[g] = {} =>
    /\ due[g] \subseteq res[g].ok \cup res[g].failed
    /\ res[g].ok \subseteq synced

(* With what the code maintains between the steps: goroutines that run are *)
(* waited for, started informers are in the map and run once, nothing is   *)
(* added to wg after a Shutdown has returned.  Inductive.                  *)
IFInv ==
  /\ TypeOK
  /\ OneInformerPerType
  /\ routines \subseteq wg
  /\ \A t \in Type :
       /\ runs[t] = IF t \in started THEN 1 ELSE 0
       /\ t \in started => informers[t] # 0
  /\ ready \subseteq started
  /\ returned => shuttingDown /\ wg = {}
  /\ \A g \in Caller :
       /\ op[g] = "shutdown" => shuttingDown
       /\ res[g].ok \subseteq synced
       /\ due[g] \subseteq todo[g] \cup res[g].ok \cup res[g].failed

(* A call of Shutdown returns once all stop channels are closed, whatever  *)
(* other callers do meanwhile.                                             *)
ShutdownReturnsAtLast ==
  \A g \in Caller : op[g] = "shutdown" /\ closed = Chan ~> op[g] # "shutdown"

=============================================================================
