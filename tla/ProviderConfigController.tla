---------------------- MODULE ProviderConfigController ----------------------
(***************************************************************************)
(* pkg/framework: the Controller (controller.go), the manager that starts  *)
(* and stops the controllers of one ProviderConfig (manager.go) and the    *)
(* ControllerMap (controller_map.go), on top of the task queue             *)
(* (TaskQueue.tla) and of what they see of the API server (ApiServer.tla). *)
(*                                                                         *)
(* One worker's call of sync is a sequence of steps, one per access to     *)
(* state that somebody else can change: the cache, the API server or the   *)
(* ControllerStarter.                                                      *)
(***************************************************************************)
EXTENDS TaskQueue, ApiServer

CONSTANT Foreign  \* keys whose object is not of kind ProviderConfig

ASSUME ForeignAssumption == Foreign \subseteq Key

VARIABLES
  controllers,  \* the ControllerMap: "none", or an entry whose stopCh is
                \* "nil" or "set"
  running,      \* controller sets that run for a key: StartController
                \* returned a channel that is not closed yet
  pc,           \* where in sync a worker is
  obj,          \* the object it works on
  existed,      \* GetOrCreate found an entry
  hadFinalizer, \* the object carried the finalizer
  stopClosed,   \* the Controller's stopCh is closed
  ensured       \* history: the set was started after an Update of its own
                \* that stored the finalizer

syncVars    == <<pc, obj, existed, hadFinalizer>>
managerVars == <<controllers, running, ensured>>
vars        == <<tqVars, apiVars, syncVars, managerVars, stopClosed>>

Steps == {"none", "lookup", "start", "ensure", "launch", "rollbackGet",
          "rollbackUpdate", "stop", "stopGet", "stopUpdate"}

LocalInit ==
  /\ controllers = [k \in Key |-> "none"]
  /\ running = [k \in Key |-> 0]
  /\ pc = [w \in Worker |-> "none"]
  /\ obj = [w \in Worker |-> NoObject]
  /\ existed = [w \in Worker |-> FALSE]
  /\ hadFinalizer = [w \in Worker |-> FALSE]
  /\ stopClosed = FALSE
  /\ ensured = [k \in Key |-> FALSE]

Init == TQInit /\ ApiInit /\ LocalInit

-----------------------------------------------------------------------------
(* Steps within sync. *)

At(w, s) == worker[w] = "sync" /\ pc[w] = s

Goto(w, s) == pc' = [pc EXCEPT ![w] = s]

(* sync returns, with an error unless ok; its local variables are gone. *)
Return(w, ok) ==
  /\ SyncReturns(w, ok)
  /\ Goto(w, "none")
  /\ obj' = [obj EXCEPT ![w] = NoObject]
  /\ existed' = [existed EXCEPT ![w] = FALSE]
  /\ hadFinalizer' = [hadFinalizer EXCEPT ![w] = FALSE]

(* Continue without touching the queue or the locals existed and had. *)
Continue(w, s) ==
  /\ Goto(w, s)
  /\ UNCHANGED <<tqVars, existed, hadFinalizer>>

(* The ControllerMap: GetOrCreate and Delete of the key worker w holds.    *)
SetEntry(w, e) == controllers' = [controllers EXCEPT ![item[w]] = e]

\* Mutated: an entry that was created for a failed start stays in the map.
NeverDeletes(w) == UNCHANGED controllers

DeleteUnlessExisted(w) ==
  IF existed[w] THEN UNCHANGED controllers ELSE SetEntry(w, "none")

-----------------------------------------------------------------------------
(* sync up to the call of the manager. *)
Lookup(w) ==
  LET k == item[w]
  IN  /\ At(w, "lookup")
      /\ IF ~cache[k].live
         THEN Return(w, TRUE)
         ELSE IF k \in Foreign
              THEN Return(w, FALSE)
              ELSE /\ obj' = [obj EXCEPT ![w] = cache[k]]
                   /\ Continue(w, IF cache[k].deleting THEN "stop" ELSE "start")
      /\ UNCHANGED <<apiVars, managerVars, stopClosed>>

\* Mutated: start without looking whether controllers run already.
StartIgnoresStopCh(w) ==
  LET k   == item[w]
      had == Finalizer \in obj[w].fins
      Ensure(o) == SetFinalizers(o, o.fins \cup {Finalizer})
  IN  /\ At(w, "start")
      /\ existed' = [existed EXCEPT ![w] = controllers[k] # "none"]
      /\ SetEntry(w, "nil")
      /\ hadFinalizer' = [hadFinalizer EXCEPT ![w] = had]
      /\ obj' = [obj EXCEPT ![w] = Ensure(@)]
      /\ Goto(w, IF had THEN "launch" ELSE "ensure")
      /\ UNCHANGED <<tqVars, apiVars, running, ensured, stopClosed>>

(* StartControllersForProviderConfig up to the Update.  SetFinalizers      *)
(* changes the object that the indexer returned, hence the cached object   *)
(* too as long as the informer has not replaced it.                        *)
StartControllers(w) ==
  LET k       == item[w]
      had     == Finalizer \in obj[w].fins
      aliased == cache[k].live /\ cache[k].rv = obj[w].rv
      Ensure(o) == SetFinalizers(o, o.fins \cup {Finalizer})
  IN  /\ At(w, "start")
      /\ \/ /\ controllers[k] = "set"
            /\ Return(w, TRUE)
            /\ UNCHANGED <<cache, controllers>>
         \/ /\ controllers[k] # "set"
            /\ existed' = [existed EXCEPT ![w] = controllers[k] # "none"]
            /\ SetEntry(w, "nil")
            /\ hadFinalizer' = [hadFinalizer EXCEPT ![w] = had]
            /\ obj' = [obj EXCEPT ![w] = Ensure(@)]
            /\ cache' = IF ~had /\ aliased THEN [cache EXCEPT ![k] = Ensure(@)]
                                           ELSE cache
            /\ Goto(w, IF had THEN "launch" ELSE "ensure")
            /\ UNCHANGED tqVars
      /\ UNCHANGED <<storeVars, events, hasSynced, faultsLeft>>
      /\ UNCHANGED <<running, ensured, stopClosed>>

\* Mutated: the error of the Update is not looked at.
EnsureIgnoresError(w) ==
  /\ At(w, "ensure")
  /\ \E ok \in BOOLEAN : Update(item[w], obj[w], ok)
  /\ Continue(w, "launch")
  /\ UNCHANGED <<obj, controllers, informerVars, running, ensured, stopClosed>>

\* Mutated: the error of the Update is swallowed, so nothing retries.
EnsureSwallowsError(w) ==
  /\ At(w, "ensure")
  /\ \/ /\ Update(item[w], obj[w], TRUE)
        /\ Continue(w, "launch")
        /\ UNCHANGED <<obj, controllers>>
     \/ /\ Update(item[w], obj[w], FALSE)
        /\ DeleteUnlessExisted(w)
        /\ Return(w, TRUE)
  /\ UNCHANGED <<informerVars, running, ensured, stopClosed>>

(* The Update that stores the finalizer. *)
EnsureFinalizer(w) ==
  /\ At(w, "ensure")
  /\ \/ /\ Update(item[w], obj[w], TRUE)
        /\ Continue(w, "launch")
        /\ UNCHANGED <<obj, controllers>>
     \/ /\ Update(item[w], obj[w], FALSE)
        /\ DeleteUnlessExisted(w)
        /\ Return(w, FALSE)
  /\ UNCHANGED <<informerVars, running, ensured, stopClosed>>

(* The call of the ControllerStarter and what follows it: it returns a     *)
(* channel, it fails (or returns a nil channel), or it panics, which       *)
(* syncWrapper turns into an error.                                        *)
LaunchReturns(w) ==
  /\ SetEntry(w, "set")
  /\ running' = [running EXCEPT ![item[w]] = @ + 1]
  /\ ensured' = [ensured EXCEPT ![item[w]] = ~hadFinalizer[w]]
  /\ Return(w, TRUE)
  /\ NoFault

LaunchFails(w) ==
  /\ Fails("start")
  /\ DeleteUnlessExisted(w)
  /\ IF hadFinalizer[w]
     THEN Return(w, FALSE)
     ELSE Continue(w, "rollbackGet") /\ UNCHANGED obj
  /\ UNCHANGED <<running, ensured>>

\* Mutated: syncWrapper does not recover, the goroutine dies.
PanicKillsWorker(w) ==
  /\ Fails("panic")
  /\ Moves(w, "sync", "exited")
  /\ Goto(w, "none")
  /\ UNCHANGED <<wqVars, item, shutdown, obj, existed, hadFinalizer>>
  /\ UNCHANGED <<controllers, running, ensured>>

LaunchPanics(w) ==
  /\ Fails("panic")
  /\ Return(w, FALSE)
  /\ UNCHANGED <<controllers, running, ensured>>

StartController(w) ==
  /\ At(w, "launch")
  /\ LaunchReturns(w) \/ LaunchFails(w) \/ LaunchPanics(w)
  /\ UNCHANGED <<storeVars, informerVars, stopClosed>>

(* getProviderConfig: the API server answers with the stored object, with  *)
(* NotFound, or the call fails.  next is where a found object leads to.    *)
HasFinalizer(w, next) ==
  LET found == api[item[w]]
  IN  /\ found.live
      /\ Finalizer \in found.fins
      /\ obj' = [obj EXCEPT ![w] = SetFinalizers(found, found.fins \ {Finalizer})]
      /\ Continue(w, next)

(* rollbackFinalizerOnStartFailure; its errors are only logged and the     *)
(* start failure is returned.                                              *)
RollbackGet(w) ==
  /\ At(w, "rollbackGet")
  /\ \/ HasFinalizer(w, "rollbackUpdate") /\ NoFault
     \/ /\ ~(api[item[w]].live /\ Finalizer \in api[item[w]].fins)
        /\ Return(w, FALSE)
        /\ NoFault
     \/ Return(w, FALSE) /\ Fails("get")
  /\ UNCHANGED <<storeVars, informerVars, managerVars, stopClosed>>

RollbackUpdate(w) ==
  /\ At(w, "rollbackUpdate")
  /\ \E ok \in BOOLEAN : Update(item[w], obj[w], ok)
  /\ Return(w, FALSE)
  /\ UNCHANGED <<informerVars, managerVars, stopClosed>>

\* Mutated: the finalizer goes first, the channel is not closed before.
StopWithoutClose(w) ==
  /\ At(w, "stop")
  /\ Continue(w, "stopGet")
  /\ UNCHANGED <<obj, apiVars, managerVars, stopClosed>>

\* Mutated: closes whatever the entry holds, a nil channel too.
StopClosesNil(w) ==
  /\ At(w, "stop")
  /\ SetEntry(w, "none")
  /\ running' = [running EXCEPT ![item[w]] = @ - 1]
  /\ Continue(w, "stopGet")
  /\ UNCHANGED <<obj, apiVars, ensured, stopClosed>>

\* Mutated: returns early when no entry exists.
StopOnlyIfMapped(w) ==
  /\ At(w, "stop")
  /\ IF controllers[item[w]] = "none"
     THEN Return(w, TRUE) /\ UNCHANGED <<controllers, running>>
     ELSE /\ SetEntry(w, "none")
          /\ running' = [running EXCEPT ![item[w]] =
                           IF controllers[item[w]] = "set" THEN @ - 1 ELSE @]
          /\ Continue(w, "stopGet")
          /\ UNCHANGED obj
  /\ UNCHANGED <<apiVars, ensured, stopClosed>>

(* StopControllersForProviderConfig: the entry is removed and its channel  *)
(* closed before the finalizer is looked at.                               *)
StopControllers(w) ==
  LET k == item[w]
  IN  /\ At(w, "stop")
      /\ SetEntry(w, "none")
      /\ running' = [running EXCEPT ![k] = IF controllers[k] = "set" THEN @ - 1 ELSE @]
      /\ Continue(w, "stopGet")
      /\ UNCHANGED <<obj, apiVars, ensured, stopClosed>>

StopGet(w) ==
  /\ At(w, "stopGet")
  /\ \/ HasFinalizer(w, "stopUpdate") /\ NoFault
     \/ /\ ~(api[item[w]].live /\ Finalizer \in api[item[w]].fins)
        /\ Return(w, TRUE)
        /\ NoFault
     \/ Return(w, FALSE) /\ Fails("get")
  /\ UNCHANGED <<storeVars, informerVars, managerVars, stopClosed>>

RemoveFinalizer(w) ==
  /\ At(w, "stopUpdate")
  /\ \E ok \in BOOLEAN : Update(item[w], obj[w], ok) /\ Return(w, ok)
  /\ UNCHANGED <<informerVars, managerVars, stopClosed>>

SyncStep(w) ==
  \/ Lookup(w)
  \/ StartControllers(w)
  \/ EnsureFinalizer(w)
  \/ StartController(w)
  \/ RollbackGet(w)
  \/ RollbackUpdate(w)
  \/ StopControllers(w)
  \/ StopGet(w)
  \/ RemoveFinalizer(w)

-----------------------------------------------------------------------------
(* The worker loop around sync, unchanged but that GetItem calls sync.     *)
QueueStep(w) ==
  \/ GetItem(w) /\ Goto(w, "lookup")
  \/ (Exit(w) \/ Requeue(w) \/ ForgetItem(w) \/ DoneItem(w)) /\ UNCHANGED pc

WorkerRuns(w) ==
  \/ SyncStep(w)
  \/ /\ QueueStep(w)
     /\ UNCHANGED <<obj, existed, hadFinalizer, apiVars, managerVars, stopClosed>>

(* The handlers that newController registers. *)
HandleEvent(k) ==
  /\ k \in events
  /\ events' = events \ {k}
  /\ Enqueue(k)
  /\ UNCHANGED <<storeVars, cache, hasSynced, faultsLeft>>
  /\ UNCHANGED <<syncVars, managerVars, stopClosed>>

(* Controller.Run: wait for the cache, spawn the workers, wait for stopCh. *)
(* Whichever wait ends it, the deferred shutdown runs.                     *)
CacheSynced ==
  /\ shutdown = "no"
  /\ hasSynced
  /\ Run
  /\ UNCHANGED <<apiVars, syncVars, managerVars, stopClosed>>

CacheSyncAborted ==
  /\ ~Spawned
  /\ stopClosed
  /\ Shutdown
  /\ UNCHANGED <<apiVars, syncVars, managerVars, stopClosed>>

\* Mutated: Run returns without the deferred shutdown.
StopWithoutShutdown ==
  /\ Spawned
  /\ stopClosed
  /\ UNCHANGED vars

StopReceived ==
  /\ Spawned
  /\ stopClosed
  /\ Shutdown
  /\ UNCHANGED <<apiVars, syncVars, managerVars, stopClosed>>

RunReturns ==
  /\ ShutdownReturns
  /\ UNCHANGED <<apiVars, syncVars, managerVars, stopClosed>>

(* The process is asked to stop. *)
CloseStopCh ==
  /\ ~stopClosed
  /\ Fails("stop")
  /\ stopClosed' = TRUE
  /\ UNCHANGED <<tqVars, storeVars, informerVars, syncVars, managerVars>>

(* The process dies and is started again; its controllers die with it.     *)
Crash ==
  /\ Fails("crash")
  /\ Restart
  /\ InformerRestart
  /\ controllers' = [k \in Key |-> "none"]
  /\ running' = [k \in Key |-> 0]
  /\ ensured' = [k \in Key |-> FALSE]
  /\ pc' = [w \in Worker |-> "none"]
  /\ obj' = [w \in Worker |-> NoObject]
  /\ existed' = [w \in Worker |-> FALSE]
  /\ hadFinalizer' = [w \in Worker |-> FALSE]
  /\ stopClosed' = FALSE

-----------------------------------------------------------------------------
Users(k) ==
  /\ \/ \E fins \in SUBSET {Other} : UserCreate(k, fins)
     \/ UserEdit(k)
     \/ UserDelete(k)
     \/ OtherFinalizerRemoved(k)
  /\ UNCHANGED <<tqVars, syncVars, managerVars, stopClosed>>

InformerDelivers(k) ==
  /\ Deliver(k)
  /\ UNCHANGED <<tqVars, syncVars, managerVars, stopClosed>>

InformerStarts ==
  /\ InformerSync
  /\ UNCHANGED <<tqVars, syncVars, managerVars, stopClosed>>

InformerRepeats(k) ==
  /\ Relist(k) \/ Resync(k)
  /\ UNCHANGED <<tqVars, syncVars, managerVars, stopClosed>>

DelayedAdd ==
  /\ WaitingLoop
  /\ UNCHANGED <<apiVars, syncVars, managerVars, stopClosed>>

Next ==
  \/ \E w \in Worker : WorkerRuns(w)
  \/ \E k \in Key : HandleEvent(k) \/ Users(k) \/ InformerDelivers(k)
                                   \/ InformerRepeats(k)
  \/ InformerStarts
  \/ DelayedAdd
  \/ CacheSynced
  \/ CacheSyncAborted
  \/ StopReceived
  \/ RunReturns
  \/ CloseStopCh
  \/ Crash

Safe == Init /\ [][Next]_vars

(* The goroutines of the process run: workers, waiting loop, Run and the   *)
(* informer; a blocked sender gets its turn (see TQFairness).  Users,      *)
(* faults, resyncs and the closing of stopCh are not fair.                 *)
Fairness ==
  /\ \A w \in Worker :
       /\ WF_vars(WorkerRuns(w))
       /\ SF_vars(Requeue(w) /\ WorkerRuns(w))
  /\ \A k \in Key :
       /\ WF_vars(HandleEvent(k))
       /\ WF_vars(InformerDelivers(k))
       /\ WF_vars(FireWaiting(k) /\ DelayedAdd)
  /\ WF_vars(ReceiveWaiting /\ DelayedAdd)
  /\ WF_vars(InformerStarts)
  /\ WF_vars(CacheSynced \/ CacheSyncAborted \/ StopReceived \/ RunReturns)

Spec == Safe /\ Fairness

-----------------------------------------------------------------------------
ManagerTypeOK ==
  /\ controllers \in [Key -> {"none", "nil", "set"}]
  /\ running \in [Key -> Nat]
  /\ pc \in [Worker -> Steps]
  /\ obj \in [Worker -> Version]
  /\ existed \in [Worker -> BOOLEAN]
  /\ hadFinalizer \in [Worker -> BOOLEAN]
  /\ stopClosed \in BOOLEAN
  /\ ensured \in [Key -> BOOLEAN]

TypeOK == TQTypeOK /\ ApiTypeOK /\ ManagerTypeOK

(* At most one controller set runs per ProviderConfig, and it is the one   *)
(* whose channel the ControllerMap holds: none is started twice, none is   *)
(* lost without being closed, whatever fails in between.                   *)
OneControllerSet ==
  \A k \in Key : running[k] = IF controllers[k] = "set" THEN 1 ELSE 0

(* The framework takes its finalizer off a ProviderConfig only when no     *)
(* controller of it runs (StopControllersForProviderConfig closes first,   *)
(* rollbackFinalizerOnStartFailure follows a start that failed).           *)
TeardownOrder ==
  [][\A k \in Key : Finalizer \in api[k].fins /\ Finalizer \notin api'[k].fins
                      => running[k] = 0]_vars

(* When Run has returned the framework is still: it leaves the controllers *)
(* it has started running, but no worker starts or stops any, and none     *)
(* takes a finalizer off, until the process is started again.              *)
QuietAfterReturn ==
  [][shutdown = "returned" /\ shutdown' = "returned" =>
       /\ UNCHANGED <<controllers, running>>
       /\ \A k \in Key :
            Finalizer \in api[k].fins => Finalizer \in api'[k].fins]_vars

(* running as it is; a key is shielded while the API server stores the     *)
(* framework's finalizer.                                                  *)
Shielded == [k \in Key |-> Finalizer \in api[k].fins]

Lifecycle == INSTANCE TenantLifecycle WITH shielded <- Shielded

(* The framework implements the abstract life cycle of a ProviderConfig    *)
(* with every step of its workers, users, faults and crashes.              *)
ImplementsLifecycle == Lifecycle!LifecycleSpec

Protected(k) == api[k].live /\ Finalizer \in api[k].fins

(* Controllers that were started after the framework itself stored the     *)
(* finalizer are protected by it for as long as they run.                  *)
EnsuredStaysProtected ==
  \A k \in Key : ensured[k] /\ running[k] > 0 => Protected(k)

\* Worker w is between GetOrCreate and the starter's answer for key k.
Starting(w, k) == item[w] = k /\ pc[w] \in {"ensure", "launch"}

(* A map entry without a channel is transient: unless a starter panicked,  *)
(* it exists only while a worker is inside StartControllersForProvider-    *)
(* Config of that key, so failed starts leave nothing behind.              *)
NoStaleEntry ==
  \A k \in Key : controllers[k] = "nil" /\ "panic" \notin Fault =>
    \E w \in Worker : Starting(w, k)

\* What every step of sync relies on: no controllers run for the key once a
\* start or a stop has begun, what is to be stored carries the finalizer, and
\* what is launched after the Update is protected.
WorkerOK(w) ==
  /\ (pc[w] # "none") <=> (worker[w] = "sync")
  /\ pc[w] \notin {"none", "lookup", "start", "stop"} => controllers[item[w]] # "set"
  /\ pc[w] = "ensure" => Finalizer \in obj[w].fins
  /\ pc[w] = "launch" /\ ~hadFinalizer[w] => Protected(item[w])
  /\ pc[w] \in {"ensure", "launch"} /\ "panic" \notin Fault => ~existed[w]

KeyOK(k) ==
  /\ running[k] = IF controllers[k] = "set" THEN 1 ELSE 0
  /\ ensured[k] /\ running[k] > 0 => Protected(k)
  /\ ~api[k].live => Finalizer \notin api[k].fins
  /\ controllers[k] = "nil" /\ "panic" \notin Fault => \E w \in Worker : Starting(w, k)

(* Map, running controllers, stored finalizers and the steps of all syncs  *)
(* agree.  With TQInv it is the inductive invariant of                     *)
(* ProviderConfigProofs.                                                   *)
PCInv ==
  /\ TypeOK
  /\ \A w \in Worker : WorkerOK(w)
  /\ \A k \in Key : KeyOK(k)

(* A ProviderConfig that is being deleted is not held back for ever by the *)
(* framework's finalizer, whatever failed before.                          *)
DeletionUnblocked ==
  \A k \in Key \ Foreign :
    (Protected(k) /\ api[k].deleting) ~> (~Protected(k) \/ stopClosed)

(* A ProviderConfig that stays and is not being deleted gets controllers.  *)
EventuallyRunning ==
  \A k \in Key \ Foreign :
    (api[k].live /\ ~api[k].deleting)
      ~> (running[k] > 0 \/ ~api[k].live \/ api[k].deleting \/ stopClosed)

(* Once the workers run, Run returns after stopCh is closed.               *)
RunStops == (Spawned /\ stopClosed) ~> (shutdown = "returned" \/ ~stopClosed)

(* Documented, see the findings. *)

(* Controllers run only for a ProviderConfig that carries the finalizer    *)
(* (the finalizer is added before the controller starts).                  *)
FinalizerProtects == \A k \in Key : running[k] > 0 => Protected(k)

(* Run blocks until the stop channel is closed - and no longer.            *)
RunReturnsWhenStopped == stopClosed ~> (shutdown = "returned" \/ ~stopClosed)

=============================================================================
