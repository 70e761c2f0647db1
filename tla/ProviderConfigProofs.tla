------------------------ MODULE ProviderConfigProofs ------------------------
(***************************************************************************)
(* Proofs about ProviderConfigController, for any number of keys and       *)
(* workers and any faults: it implements the task queue's specification,   *)
(* so keys are serialized; because of that the controller map accounts for *)
(* every controller set, and the finalizer leaves only after the stop.     *)
(***************************************************************************)
EXTENDS ProviderConfigController, TaskQueueProofs

-----------------------------------------------------------------------------
(* The task queue is implemented: sync, seen from the queue, takes steps   *)
(* that change nothing and then returns.                                   *)

LEMMA SyncStepImplements ==
  ASSUME NEW w \in Worker, SyncStep(w)
  PROVE  (\E ok \in BOOLEAN : SyncReturns(w, ok)) \/ UNCHANGED tqVars
<1> USE DEF Return, Continue
<1>1. CASE Lookup(w)
  BY <1>1 DEF Lookup
<1>2. CASE StartControllers(w)
  BY <1>2 DEF StartControllers
<1>3. CASE EnsureFinalizer(w)
  BY <1>3 DEF EnsureFinalizer
<1>4. CASE StartController(w)
  BY <1>4 DEF StartController, LaunchReturns, LaunchFails, LaunchPanics
<1>5. CASE RollbackGet(w)
  BY <1>5 DEF RollbackGet, HasFinalizer
<1>6. CASE RollbackUpdate(w)
  BY <1>6 DEF RollbackUpdate
<1>7. CASE StopControllers(w)
  BY <1>7 DEF StopControllers
<1>8. CASE StopGet(w)
  BY <1>8 DEF StopGet, HasFinalizer
<1>9. CASE RemoveFinalizer(w)
  BY <1>9 DEF RemoveFinalizer
<1>10. QED
  BY <1>1, <1>2, <1>3, <1>4, <1>5, <1>6, <1>7, <1>8, <1>9 DEF SyncStep

LEMMA NextImplements ==
  ASSUME [Next]_vars
  PROVE  [TQNext]_tqVars
<1>1. ASSUME NEW w \in Worker, WorkerRuns(w) PROVE [TQNext]_tqVars
  <2>1. CASE SyncStep(w)
    BY <2>1, SyncStepImplements DEF TQNext, WorkerStep
  <2>2. CASE QueueStep(w)
    BY <2>2 DEF QueueStep, TQNext, WorkerStep
  <2>3. QED
    BY <1>1, <2>1, <2>2 DEF WorkerRuns
<1>2. ASSUME NEW k \in Key, HandleEvent(k) PROVE [TQNext]_tqVars
  BY <1>2 DEF HandleEvent, TQNext
<1>3. ASSUME NEW k \in Key, Users(k) \/ InformerDelivers(k) \/ InformerRepeats(k)
      PROVE  [TQNext]_tqVars
  BY <1>3 DEF Users, InformerDelivers, InformerRepeats
<1>4. CASE InformerStarts \/ CloseStopCh
  BY <1>4 DEF InformerStarts, CloseStopCh
<1>5. CASE DelayedAdd
  BY <1>5 DEF DelayedAdd, TQNext
<1>6. CASE CacheSynced \/ CacheSyncAborted \/ StopReceived \/ RunReturns
  BY <1>6 DEF CacheSynced, CacheSyncAborted, StopReceived, RunReturns, TQNext
<1>7. CASE Crash
  BY <1>7 DEF Crash, TQNext
<1>8. CASE UNCHANGED vars
  BY <1>8 DEF vars
<1>9. QED
  BY <1>1, <1>2, <1>3, <1>4, <1>5, <1>6, <1>7, <1>8 DEF Next

(* Every behaviour of the framework is a behaviour of the task queue, so   *)
(* all that is proved of the queue holds for the framework.                *)
THEOREM ImplementsTaskQueue == Safe => TQSafe
<1>1. Init => TQInit
  BY DEF Init
<1>2. [Next]_vars => [TQNext]_tqVars
  BY NextImplements
<1>3. QED
  BY <1>1, <1>2, PTL DEF Safe, TQSafe

-----------------------------------------------------------------------------
(* What the API server and the informer may do to the stored objects. *)

LEMMA PutEffect ==
  ASSUME ApiTypeOK, NEW k \in Key, NEW fins \in SUBSET {Finalizer, Other},
         NEW deleting \in BOOLEAN, Put(k, fins, deleting)
  PROVE  /\ api' \in [Key -> Version]
         /\ watch' \in [Key -> Seq(Version)]
         /\ api'[k].fins = fins
         /\ api'[k].live <=> ~(deleting /\ fins = {})
         /\ \A x \in Key : x # k => api'[x] = api[x]
<1> DEFINE new == [live |-> ~(deleting /\ fins = {}), rv |-> api[k].rv + 1,
                   fins |-> fins, deleting |-> deleting]
<1>1. api[k].rv + 1 \in Nat
  BY DEF ApiTypeOK, Version
<1>2. new \in Version
  BY <1>1 DEF Version
<1>3. new.fins = fins /\ (new.live <=> ~(deleting /\ fins = {}))
  OBVIOUS
<1>4. /\ api' = [api EXCEPT ![k] = new]
      /\ watch' = IF hasSynced THEN [watch EXCEPT ![k] = Append(@, new)] ELSE watch
  BY DEF Put
<1> HIDE DEF new
<1>5. api' \in [Key -> Version] /\ api'[k] = new
  BY <1>2, <1>4 DEF ApiTypeOK
<1>6. watch' \in [Key -> Seq(Version)]
  BY <1>2, <1>4 DEF ApiTypeOK
<1>7. \A x \in Key : x # k => api'[x] = api[x]
  BY <1>4 DEF ApiTypeOK
<1>8. QED
  BY <1>3, <1>5, <1>6, <1>7

LEMMA FaultType ==
  ASSUME ApiTypeOK, NEW f, Fails(f) \/ NoFault
  PROVE  faultsLeft' \in 0..MaxFaults
BY ApiServerAssumption DEF ApiTypeOK, Fails, NoFault

LEMMA UpdateEffect ==
  ASSUME ApiTypeOK, NEW k \in Key, NEW o \in Version, NEW ok \in BOOLEAN, Update(k, o, ok)
  PROVE  /\ api' \in [Key -> Version]
         /\ watch' \in [Key -> Seq(Version)]
         /\ faultsLeft' \in 0..MaxFaults
         /\ \A x \in Key : x # k => api'[x] = api[x]
         /\ \/ api'[k] = api[k] /\ ~ok
            \/ /\ api'[k].fins = o.fins
               /\ api'[k].live <=> ~(o.deleting /\ o.fins = {})
<1>1. faultsLeft' \in 0..MaxFaults
  BY FaultType DEF Update
<1>2. CASE Put(k, o.fins, o.deleting)
  <2>1. o.fins \in SUBSET {Finalizer, Other} /\ o.deleting \in BOOLEAN
    BY DEF Version
  <2>2. QED
    BY <1>1, <1>2, <2>1, PutEffect
<1>3. CASE UNCHANGED storeVars /\ ~ok
  BY <1>1, <1>3 DEF storeVars, ApiTypeOK
<1>4. QED
  BY <1>2, <1>3 DEF Update

-----------------------------------------------------------------------------
(* Frames: what a step of one worker's sync leaves alone. *)

SyncTypeOK ==
  /\ pc \in [Worker -> Steps]
  /\ obj \in [Worker -> Version]
  /\ existed \in [Worker -> BOOLEAN]
  /\ hadFinalizer \in [Worker -> BOOLEAN]

MapTypeOK ==
  /\ controllers \in [Key -> {"none", "nil", "set"}]
  /\ running \in [Key -> Nat]
  /\ ensured \in [Key -> BOOLEAN]

OthersStay(w) ==
  /\ UNCHANGED item
  /\ \A v \in Worker \ {w} :
       /\ worker'[v] = worker[v]
       /\ pc'[v] = pc[v]
       /\ obj'[v] = obj[v]
       /\ existed'[v] = existed[v]
       /\ hadFinalizer'[v] = hadFinalizer[v]

KeysStay(k) ==
  \A x \in Key \ {k} :
    /\ controllers'[x] = controllers[x]
    /\ running'[x] = running[x]
    /\ ensured'[x] = ensured[x]
    /\ api'[x] = api[x]

LEMMA TypeParts ==
  ASSUME TQInv', ApiTypeOK', SyncTypeOK', MapTypeOK', stopClosed' \in BOOLEAN
  PROVE  TypeOK'
BY DEF TypeOK, ManagerTypeOK, SyncTypeOK, MapTypeOK, TQInv

LEMMA PCTypes ==
  ASSUME PCInv
  PROVE  /\ SyncTypeOK /\ MapTypeOK /\ ApiTypeOK /\ TQTypeOK
         /\ stopClosed \in BOOLEAN
BY DEF PCInv, TypeOK, ManagerTypeOK, SyncTypeOK, MapTypeOK

LEMMA NoObjectType == NoObject \in Version
BY DEF NoObject, Version

LEMMA ReturnFrame ==
  ASSUME PCInv, NEW w \in Worker, NEW ok \in BOOLEAN, Return(w, ok)
  PROVE  /\ SyncTypeOK'
         /\ OthersStay(w)
         /\ pc'[w] = "none"
         /\ worker'[w] # "sync"
<1>1. SyncTypeOK /\ TQTypeOK
  BY PCTypes
<1>2. /\ worker' = [worker EXCEPT ![w] = IF ok THEN "forget" ELSE "requeue"]
      /\ item' = item
      /\ pc' = [pc EXCEPT ![w] = "none"]
      /\ obj' = [obj EXCEPT ![w] = NoObject]
      /\ existed' = [existed EXCEPT ![w] = FALSE]
      /\ hadFinalizer' = [hadFinalizer EXCEPT ![w] = FALSE]
  BY DEF Return, SyncReturns, Moves, Goto
<1>3. SyncTypeOK'
  BY <1>1, <1>2, NoObjectType DEF SyncTypeOK, Steps
<1>4. OthersStay(w)
  BY <1>1, <1>2 DEF OthersStay, SyncTypeOK, TQTypeOK
<1>5. pc'[w] = "none" /\ worker'[w] # "sync"
  BY <1>1, <1>2 DEF SyncTypeOK, TQTypeOK
<1>6. QED
  BY <1>3, <1>4, <1>5

LEMMA ContinueFrame ==
  ASSUME PCInv, NEW w \in Worker, NEW s \in Steps \ {"none"}, Continue(w, s),
         worker[w] = "sync",
         NEW o \in Version, obj' = [obj EXCEPT ![w] = o]
  PROVE  /\ SyncTypeOK'
         /\ OthersStay(w)
         /\ pc'[w] = s
         /\ worker'[w] = "sync"
         /\ obj'[w] = o
         /\ UNCHANGED <<existed, hadFinalizer>>
<1>1. SyncTypeOK /\ TQTypeOK
  BY PCTypes
<1>2. /\ pc' = [pc EXCEPT ![w] = s]
      /\ UNCHANGED <<worker, item, existed, hadFinalizer>>
  BY DEF Continue, Goto, tqVars
<1>3. SyncTypeOK'
  BY <1>1, <1>2 DEF SyncTypeOK
<1>4. OthersStay(w)
  BY <1>1, <1>2 DEF OthersStay, SyncTypeOK, TQTypeOK
<1>5. QED
  BY <1>1, <1>2, <1>3, <1>4 DEF SyncTypeOK

(* Because keys are serialized, a step of worker w that touches only its   *)
(* locals and its own key keeps the invariant of all other workers and     *)
(* keys.                                                                   *)
LEMMA LocalStep ==
  ASSUME PCInv, TQInv, NEW w \in Worker, worker[w] = "sync",
         OthersStay(w), KeysStay(item[w]), TypeOK', WorkerOK(w)', KeyOK(item[w])'
  PROVE  PCInv'
<1>1. \A v \in Worker \ {w} : pc[v] # "none" => item[v] \in Key \ {item[w]}
  <2>1. SUFFICES ASSUME NEW v \in Worker \ {w}, pc[v] # "none"
                 PROVE  item[v] \in Key \ {item[w]}
    OBVIOUS
  <2>2. Holding(v) /\ Holding(w)
    BY <2>1 DEF PCInv, WorkerOK, Holding
  <2>3. QED
    BY <2>2 DEF TQInv, TQTypeOK, HoldersMatch, KeySerialized
<1>2. ASSUME NEW v \in Worker \ {w} PROVE WorkerOK(v)'
  <2>1. WorkerOK(v)
    BY DEF PCInv
  <2>2. pc'[v] = "none" \/ /\ controllers'[item[v]] = controllers[item[v]]
                           /\ api'[item[v]] = api[item[v]]
    BY <1>1 DEF OthersStay, KeysStay
  <2>3. QED
    BY <2>1, <2>2 DEF OthersStay, WorkerOK, Protected
<1>3. ASSUME NEW x \in Key \ {item[w]} PROVE KeyOK(x)'
  <2>1. KeyOK(x)
    BY DEF PCInv
  <2>2. \A v \in Worker : Starting(v, x) => Starting(v, x)'
    BY <1>3 DEF OthersStay, Starting
  <2>3. QED
    BY <2>1, <2>2 DEF KeysStay, KeyOK, Protected
<1>4. \A v \in Worker : WorkerOK(v)'
  BY <1>2
<1>5. \A x \in Key : KeyOK(x)'
  <2>1. UNCHANGED item
    BY DEF OthersStay
  <2>2. ASSUME NEW x \in Key, x = item[w] PROVE KeyOK(x)'
    BY <2>1, <2>2
  <2>3. QED
    BY <1>3, <2>2
<1>6. QED
  BY <1>4, <1>5 DEF PCInv

(* A step that touches neither map nor syncs, and takes no finalizer of    *)
(* the framework off, keeps the invariant.                                 *)
LEMMA QuietStep ==
  ASSUME PCInv, TQInv, TypeOK', UNCHANGED <<pc, obj, existed, hadFinalizer>>,
         UNCHANGED <<controllers, running, ensured>>, UNCHANGED item,
         \A w \in Worker : worker'[w] = "sync" <=> worker[w] = "sync",
         \A k \in Key : Protected(k) => Protected(k)',
         \A k \in Key : ~api'[k].live => Finalizer \notin api'[k].fins
  PROVE  PCInv'
<1>1. ASSUME NEW w \in Worker PROVE WorkerOK(w)'
  <2>1. WorkerOK(w)
    BY DEF PCInv
  <2>2. pc[w] = "launch" => item[w] \in Key
    BY <2>1 DEF WorkerOK, Holding, TQInv, TQTypeOK, HoldersMatch
  <2>3. pc[w] = "launch" /\ ~hadFinalizer[w] => Protected(item[w])'
    BY <2>1, <2>2 DEF WorkerOK
  <2>4. QED
    BY <2>1, <2>3 DEF WorkerOK
<1>2. ASSUME NEW k \in Key PROVE KeyOK(k)'
  BY DEF PCInv, KeyOK, Starting
<1>3. QED
  BY <1>1, <1>2 DEF PCInv

-----------------------------------------------------------------------------
(* The steps of sync. *)

LEMMA HeldKey ==
  ASSUME TQInv, NEW w \in Worker, worker[w] = "sync"
  PROVE  item[w] \in Key
BY DEF TQInv, TQTypeOK, HoldersMatch, Holding

(* A step that returns from sync or only reads keeps the invariant. *)
LEMMA ReadStep ==
  ASSUME PCInv, TQInv, TQInv', NEW w \in Worker, worker[w] = "sync",
         pc[w] \notin {"ensure", "launch"}, OthersStay(w), SyncTypeOK', ApiTypeOK',
         UNCHANGED <<api, controllers, running, ensured, stopClosed>>, WorkerOK(w)'
  PROVE  PCInv'
<1>1. item[w] \in Key /\ item' = item
  BY HeldKey DEF OthersStay
<1>2. TypeOK'
  BY PCTypes, TypeParts DEF MapTypeOK
<1>3. \A v \in Worker : Starting(v, item[w]) => Starting(v, item[w])'
  BY DEF OthersStay, Starting
<1>4. KeyOK(item[w])'
  <2>1. KeyOK(item[w])
    BY <1>1 DEF PCInv
  <2>2. QED
    BY <1>1, <1>3, <2>1 DEF KeyOK, Protected
<1>5. QED
  BY <1>2, <1>4, LocalStep DEF KeysStay

LEMMA ReturnOK ==
  ASSUME NEW w \in Worker, pc'[w] = "none", worker'[w] # "sync"
  PROVE  WorkerOK(w)'
BY DEF WorkerOK

LEMMA LookupInv ==
  ASSUME PCInv, TQInv, TQInv', NEW w \in Worker, Lookup(w)
  PROVE  PCInv'
<1>1. /\ worker[w] = "sync" /\ pc[w] = "lookup"
      /\ UNCHANGED <<api, watch, cache, events, hasSynced, faultsLeft>>
      /\ UNCHANGED <<controllers, running, ensured, stopClosed>>
  BY DEF Lookup, At, apiVars, storeVars, informerVars, managerVars
<1>2. ApiTypeOK'
  BY <1>1, PCTypes DEF ApiTypeOK
<1>3. CASE \E ok \in BOOLEAN : Return(w, ok)
  BY <1>1, <1>2, <1>3, ReturnFrame, ReturnOK, ReadStep
<1>4. ASSUME NEW s \in {"start", "stop"}, Continue(w, s),
             obj' = [obj EXCEPT ![w] = cache[item[w]]]
      PROVE  PCInv'
  <2>1. cache[item[w]] \in Version
    BY <1>1, HeldKey, PCTypes DEF ApiTypeOK
  <2>2. SyncTypeOK' /\ OthersStay(w) /\ pc'[w] = s /\ worker'[w] = "sync"
    BY <1>1, <1>4, <2>1, ContinueFrame DEF Steps
  <2>3. WorkerOK(w)'
    BY <1>4, <2>2 DEF WorkerOK
  <2>4. QED
    BY <1>1, <1>2, <2>2, <2>3, ReadStep
<1>5. QED
  BY <1>3, <1>4 DEF Lookup

LEMMA GetLatestInv ==
  ASSUME PCInv, TQInv, TQInv', NEW w \in Worker, RollbackGet(w) \/ StopGet(w)
  PROVE  PCInv'
<1>1. /\ worker[w] = "sync" /\ pc[w] \in {"rollbackGet", "stopGet"}
      /\ UNCHANGED <<api, watch, cache, events, hasSynced>>
      /\ UNCHANGED <<controllers, running, ensured, stopClosed>>
  BY DEF RollbackGet, StopGet, At, storeVars, informerVars, managerVars
<1>2. ApiTypeOK'
  <2>1. faultsLeft' \in 0..MaxFaults
    BY FaultType, PCTypes DEF RollbackGet, StopGet
  <2>2. QED
    BY <1>1, <2>1, PCTypes DEF ApiTypeOK
<1>3. CASE \E ok \in BOOLEAN : Return(w, ok)
  BY <1>1, <1>2, <1>3, ReturnFrame, ReturnOK, ReadStep
<1>4. ASSUME NEW s \in {"rollbackUpdate", "stopUpdate"}, HasFinalizer(w, s)
      PROVE  PCInv'
  <2> DEFINE o == SetFinalizers(api[item[w]], api[item[w]].fins \ {Finalizer})
  <2>1. o \in Version
    BY <1>1, HeldKey, PCTypes DEF ApiTypeOK, SetFinalizers, Version
  <2>2. Continue(w, s) /\ obj' = [obj EXCEPT ![w] = o]
    BY <1>4 DEF HasFinalizer
  <2> HIDE DEF o
  <2>3. SyncTypeOK' /\ OthersStay(w) /\ pc'[w] = s /\ worker'[w] = "sync"
    BY <1>1, <2>1, <2>2, ContinueFrame DEF Steps
  <2>4. controllers'[item'[w]] # "set"
    BY <1>1, <2>3 DEF PCInv, WorkerOK, OthersStay
  <2>5. WorkerOK(w)'
    BY <1>4, <2>3, <2>4 DEF WorkerOK
  <2>6. QED
    BY <1>1, <1>2, <2>3, <2>5, ReadStep
<1>5. QED
  BY <1>3, <1>4 DEF RollbackGet, StopGet

LEMMA StartControllersInv ==
  ASSUME PCInv, TQInv, TQInv', NEW w \in Worker, StartControllers(w)
  PROVE  PCInv'
<1> DEFINE k == item[w]
           had == Finalizer \in obj[w].fins
           Ensure(o) == SetFinalizers(o, o.fins \cup {Finalizer})
<1>1. /\ worker[w] = "sync" /\ pc[w] = "start"
      /\ UNCHANGED <<api, watch, events, hasSynced, faultsLeft>>
      /\ UNCHANGED <<running, ensured, stopClosed>>
  BY DEF StartControllers, At, storeVars
<1>2. k \in Key
  BY <1>1, HeldKey
<1>3. CASE Return(w, TRUE) /\ UNCHANGED <<cache, controllers>>
  <2>1. ApiTypeOK'
    BY <1>1, <1>3, PCTypes DEF ApiTypeOK
  <2>2. QED
    BY <1>1, <1>3, <2>1, ReturnFrame, ReturnOK, ReadStep
<1>4. CASE controllers[k] # "set" /\ ~(Return(w, TRUE) /\ UNCHANGED <<cache, controllers>>)
  <2>1. /\ existed' = [existed EXCEPT ![w] = controllers[k] # "none"]
        /\ controllers' = [controllers EXCEPT ![k] = "nil"]
        /\ hadFinalizer' = [hadFinalizer EXCEPT ![w] = had]
        /\ obj' = [obj EXCEPT ![w] = Ensure(obj[w])]
        /\ cache' = cache \/ cache' = [cache EXCEPT ![k] = Ensure(cache[k])]
        /\ pc' = [pc EXCEPT ![w] = IF had THEN "launch" ELSE "ensure"]
        /\ UNCHANGED <<worker, item>>
    BY <1>4 DEF StartControllers, SetEntry, Goto, tqVars
  <2>2. \A o \in Version : Ensure(o) \in Version /\ Finalizer \in Ensure(o).fins
    BY DEF SetFinalizers, Version
  <2> HIDE DEF Ensure
  <2>3. obj[w] \in Version /\ cache[k] \in Version
    BY <1>2, PCTypes DEF SyncTypeOK, ApiTypeOK
  <2>4. SyncTypeOK'
    BY <2>1, <2>2, <2>3, PCTypes DEF SyncTypeOK, Steps
  <2>5. ApiTypeOK'
    BY <1>1, <2>1, <2>2, <2>3, PCTypes DEF ApiTypeOK
  <2>6. MapTypeOK'
    BY <1>1, <2>1, PCTypes DEF MapTypeOK
  <2>7. TypeOK'
    BY <1>1, <2>4, <2>5, <2>6, PCTypes, TypeParts
  <2>8. OthersStay(w) /\ KeysStay(k)
    BY <1>1, <2>1, PCTypes DEF OthersStay, KeysStay, SyncTypeOK, MapTypeOK
  <2>9. /\ pc'[w] = (IF had THEN "launch" ELSE "ensure")
        /\ hadFinalizer'[w] = had
        /\ existed'[w] = (controllers[k] # "none")
        /\ obj'[w] = Ensure(obj[w])
        /\ controllers'[k] = "nil"
    BY <1>2, <2>1, PCTypes DEF SyncTypeOK, MapTypeOK
  <2>10. "panic" \notin Fault => controllers[k] = "none"
    <3>1. SUFFICES ASSUME "panic" \notin Fault, controllers[k] = "nil" PROVE FALSE
      BY <1>2, <1>4, PCTypes DEF MapTypeOK
    <3>2. PICK v \in Worker : Starting(v, k)
      BY <1>2, <3>1 DEF PCInv, KeyOK
    <3>3. v # w /\ Holding(v) /\ Holding(w)
      BY <1>1, <3>2 DEF Starting, PCInv, WorkerOK, Holding
    <3>4. QED
      BY <3>2, <3>3 DEF Starting, TQInv, KeySerialized
  <2>11. WorkerOK(w)'
    <3>1. worker'[w] = "sync" /\ item'[w] = k
      BY <1>1, <2>1
    <3>2. Finalizer \in obj'[w].fins
      BY <2>2, <2>3, <2>9
    <3>3. "panic" \notin Fault => ~existed'[w]
      BY <2>9, <2>10
    <3>4. pc'[w] = "launch" => hadFinalizer'[w]
      BY <2>9
    <3>5. pc'[w] \in {"ensure", "launch"}
      BY <2>9
    <3>6. QED
      BY <2>9, <3>1, <3>2, <3>3, <3>4, <3>5 DEF WorkerOK
  <2>12. KeyOK(k)'
    <3>1. KeyOK(k)
      BY <1>2 DEF PCInv
    <3>2. Starting(w, k)'
      BY <2>1, <2>9 DEF Starting
    <3>3. QED
      BY <1>1, <1>4, <2>1, <2>9, <3>1, <3>2 DEF KeyOK, Protected
  <2>13. QED
    BY <1>1, <2>7, <2>8, <2>11, <2>12, LocalStep
<1>5. QED
  BY <1>3, <1>4 DEF StartControllers

LEMMA EnsureFinalizerInv ==
  ASSUME PCInv, TQInv, TQInv', NEW w \in Worker, EnsureFinalizer(w)
  PROVE  PCInv'
<1> DEFINE k == item[w]
<1>1. /\ worker[w] = "sync" /\ pc[w] = "ensure"
      /\ UNCHANGED <<cache, events, hasSynced, running, ensured, stopClosed>>
  BY DEF EnsureFinalizer, At, informerVars
<1>2. k \in Key /\ obj[w] \in Version /\ Finalizer \in obj[w].fins /\ controllers[k] # "set"
      /\ ("panic" \notin Fault => ~existed[w])
  BY <1>1, HeldKey, PCTypes DEF PCInv, WorkerOK, SyncTypeOK
<1>3. PICK ok \in BOOLEAN : Update(k, obj[w], ok) /\ (ok => Continue(w, "launch") /\ UNCHANGED <<obj, controllers>>)
                            /\ (~ok => DeleteUnlessExisted(w) /\ Return(w, FALSE))
  BY DEF EnsureFinalizer
<1>4. /\ api' \in [Key -> Version]
      /\ watch' \in [Key -> Seq(Version)]
      /\ faultsLeft' \in 0..MaxFaults
      /\ \A x \in Key : x # k => api'[x] = api[x]
      /\ (api'[k] = api[k] /\ ~ok) \/ (api'[k].live /\ Finalizer \in api'[k].fins)
  BY <1>2, <1>3, UpdateEffect, PCTypes
<1>5. ApiTypeOK'
  BY <1>1, <1>4, PCTypes DEF ApiTypeOK
<1>6. KeyOK(k) /\ running[k] = 0
  BY <1>2 DEF PCInv, KeyOK
<1>7. ~api'[k].live => Finalizer \notin api'[k].fins
  BY <1>4, <1>6 DEF KeyOK
<1>8. CASE ok
  <2>1. obj' = [obj EXCEPT ![w] = obj[w]]
    BY <1>3, <1>8, PCTypes DEF SyncTypeOK
  <2>2. /\ SyncTypeOK' /\ OthersStay(w) /\ pc'[w] = "launch" /\ worker'[w] = "sync"
        /\ UNCHANGED <<existed, hadFinalizer, item, controllers>>
    BY <1>1, <1>2, <1>3, <1>8, <2>1, ContinueFrame DEF Steps, OthersStay
  <2>3. TypeOK' /\ KeysStay(k)
    BY <1>1, <1>4, <1>5, <2>2, PCTypes, TypeParts DEF KeysStay, MapTypeOK
  <2>4. WorkerOK(w)'
    BY <1>2, <1>4, <1>8, <2>2 DEF WorkerOK, Protected
  <2>5. KeyOK(k)'
    <3>1. Starting(w, k)'
      BY <2>2 DEF Starting
    <3>2. QED
      BY <1>1, <1>6, <1>7, <2>2, <3>1 DEF KeyOK
  <2>6. QED
    BY <1>1, <2>2, <2>3, <2>4, <2>5, LocalStep
<1>9. CASE ~ok
  <2>1. SyncTypeOK' /\ OthersStay(w) /\ WorkerOK(w)' /\ item' = item
    BY <1>3, <1>9, ReturnFrame, ReturnOK DEF OthersStay
  <2>2. /\ controllers' \in [Key -> {"none", "nil", "set"}]
        /\ controllers'[k] # "set"
        /\ "panic" \notin Fault => controllers'[k] = "none"
        /\ \A x \in Key \ {k} : controllers'[x] = controllers[x]
    BY <1>2, <1>3, <1>9, PCTypes DEF DeleteUnlessExisted, SetEntry, MapTypeOK
  <2>3. TypeOK' /\ KeysStay(k)
    BY <1>1, <1>4, <1>5, <2>1, <2>2, PCTypes, TypeParts DEF KeysStay, MapTypeOK
  <2>4. KeyOK(k)'
    BY <1>1, <1>6, <1>7, <2>1, <2>2 DEF KeyOK
  <2>5. QED
    BY <1>1, <2>1, <2>3, <2>4, LocalStep
<1>10. QED
  BY <1>8, <1>9

LEMMA StartControllerInv ==
  ASSUME PCInv, TQInv, TQInv', NEW w \in Worker, StartController(w)
  PROVE  PCInv'
<1> DEFINE k == item[w]
<1>1. /\ worker[w] = "sync" /\ pc[w] = "launch"
      /\ UNCHANGED <<api, watch, cache, events, hasSynced, stopClosed>>
  BY DEF StartController, At, storeVars, informerVars
<1>2. k \in Key /\ controllers[k] # "set"
      /\ ("panic" \notin Fault => ~existed[w])
      /\ (~hadFinalizer[w] => Protected(k))
  BY <1>1, HeldKey DEF PCInv, WorkerOK
<1>3. KeyOK(k) /\ running[k] = 0
  BY <1>2 DEF PCInv, KeyOK
<1>4. faultsLeft' \in 0..MaxFaults
  BY FaultType, PCTypes DEF StartController, LaunchReturns, LaunchFails, LaunchPanics
<1>5. ApiTypeOK'
  BY <1>1, <1>4, PCTypes DEF ApiTypeOK
<1>6. CASE LaunchReturns(w)
  <2>1. /\ controllers' = [controllers EXCEPT ![k] = "set"]
        /\ running' = [running EXCEPT ![k] = running[k] + 1]
        /\ ensured' = [ensured EXCEPT ![k] = ~hadFinalizer[w]]
        /\ Return(w, TRUE)
    BY <1>6 DEF LaunchReturns, SetEntry
  <2>2. SyncTypeOK' /\ OthersStay(w) /\ WorkerOK(w)' /\ item' = item
    BY <2>1, ReturnFrame, ReturnOK DEF OthersStay
  <2>3. MapTypeOK'
    BY <1>2, <2>1, PCTypes DEF MapTypeOK
  <2>4. TypeOK' /\ KeysStay(k)
    BY <1>1, <1>5, <2>1, <2>2, <2>3, PCTypes, TypeParts DEF KeysStay, MapTypeOK
  <2>5. controllers'[k] = "set" /\ running'[k] = 1
    BY <1>2, <1>3, <2>1, PCTypes DEF MapTypeOK
  <2>6. ensured'[k] => Protected(k)
    BY <1>2, <2>1, PCTypes DEF MapTypeOK
  <2>7. KeyOK(k)'
    BY <1>1, <1>3, <2>2, <2>5, <2>6 DEF KeyOK, Protected
  <2>8. QED
    BY <1>1, <2>2, <2>4, <2>7, LocalStep
<1>7. CASE LaunchFails(w)
  <2>1. /\ controllers' \in [Key -> {"none", "nil", "set"}]
        /\ controllers'[k] # "set"
        /\ "panic" \notin Fault => controllers'[k] = "none"
        /\ \A x \in Key \ {k} : controllers'[x] = controllers[x]
        /\ UNCHANGED <<running, ensured>>
    BY <1>2, <1>7, PCTypes DEF LaunchFails, DeleteUnlessExisted, SetEntry, MapTypeOK
  <2>2. SyncTypeOK' /\ OthersStay(w) /\ item' = item
        /\ ((pc'[w] = "none" /\ worker'[w] # "sync")
              \/ (pc'[w] = "rollbackGet" /\ worker'[w] = "sync"))
    <3>1. CASE Return(w, FALSE)
      BY <3>1, ReturnFrame DEF OthersStay
    <3>2. CASE Continue(w, "rollbackGet") /\ UNCHANGED obj
      <4>1. obj[w] \in Version /\ obj' = [obj EXCEPT ![w] = obj[w]]
        BY <3>2, PCTypes DEF SyncTypeOK
      <4>2. QED
        BY <1>1, <3>2, <4>1, ContinueFrame DEF Steps, OthersStay
    <3>3. QED
      BY <1>7, <3>1, <3>2 DEF LaunchFails
  <2>3. TypeOK' /\ KeysStay(k)
    BY <1>1, <1>5, <2>1, <2>2, PCTypes, TypeParts DEF KeysStay, MapTypeOK
  <2>4. WorkerOK(w)'
    BY <2>1, <2>2 DEF WorkerOK
  <2>5. KeyOK(k)'
    BY <1>1, <1>3, <2>1, <2>2 DEF KeyOK
  <2>6. QED
    BY <1>1, <2>2, <2>3, <2>4, <2>5, LocalStep
<1>8. CASE LaunchPanics(w)
  <2>1. "panic" \in Fault /\ Return(w, FALSE) /\ UNCHANGED <<controllers, running, ensured>>
    BY <1>8 DEF LaunchPanics, Fails
  <2>2. SyncTypeOK' /\ OthersStay(w) /\ WorkerOK(w)' /\ item' = item
    BY <2>1, ReturnFrame, ReturnOK DEF OthersStay
  <2>3. TypeOK' /\ KeysStay(k)
    BY <1>1, <1>5, <2>1, <2>2, PCTypes, TypeParts DEF KeysStay, MapTypeOK
  <2>4. KeyOK(k)'
    BY <1>1, <1>3, <2>1, <2>2 DEF KeyOK
  <2>5. QED
    BY <1>1, <2>2, <2>3, <2>4, LocalStep
<1>9. QED
  BY <1>6, <1>7, <1>8 DEF StartController

LEMMA StopControllersInv ==
  ASSUME PCInv, TQInv, TQInv', NEW w \in Worker, StopControllers(w)
  PROVE  PCInv'
<1> DEFINE k == item[w]
<1>1. /\ worker[w] = "sync" /\ pc[w] = "stop"
      /\ controllers' = [controllers EXCEPT ![k] = "none"]
      /\ running' = [running EXCEPT ![k] = IF controllers[k] = "set" THEN @ - 1 ELSE @]
      /\ Continue(w, "stopGet")
      /\ UNCHANGED <<obj, api, watch, cache, events, hasSynced, faultsLeft>>
      /\ UNCHANGED <<ensured, stopClosed>>
  BY DEF StopControllers, At, SetEntry, apiVars, storeVars, informerVars
<1>2. k \in Key
  BY <1>1, HeldKey
<1>3. KeyOK(k)
  BY <1>2 DEF PCInv
<1>4. controllers'[k] = "none" /\ running'[k] = 0
  BY <1>1, <1>2, <1>3, PCTypes DEF KeyOK, MapTypeOK
<1>5. MapTypeOK'
  <2>1. (IF controllers[k] = "set" THEN running[k] - 1 ELSE running[k]) \in Nat
    BY <1>2, <1>3, PCTypes DEF KeyOK, MapTypeOK
  <2>2. running' \in [Key -> Nat]
    BY <1>1, <2>1, PCTypes DEF MapTypeOK
  <2>3. QED
    BY <1>1, <2>2, PCTypes DEF MapTypeOK
<1>6. obj[w] \in Version /\ obj' = [obj EXCEPT ![w] = obj[w]]
  BY <1>1, PCTypes DEF SyncTypeOK
<1>7. SyncTypeOK' /\ OthersStay(w) /\ pc'[w] = "stopGet" /\ worker'[w] = "sync" /\ item' = item
  BY <1>1, <1>6, ContinueFrame DEF Steps, OthersStay
<1>8. ApiTypeOK'
  BY <1>1, PCTypes DEF ApiTypeOK
<1>9. TypeOK' /\ KeysStay(k)
  BY <1>1, <1>5, <1>7, <1>8, PCTypes, TypeParts DEF KeysStay, MapTypeOK
<1>10. WorkerOK(w)'
  BY <1>4, <1>7 DEF WorkerOK
<1>11. KeyOK(k)'
  BY <1>1, <1>3, <1>4, <1>7 DEF KeyOK
<1>12. QED
  BY <1>1, <1>7, <1>9, <1>10, <1>11, LocalStep

LEMMA WriteBackInv ==
  ASSUME PCInv, TQInv, TQInv', NEW w \in Worker, RollbackUpdate(w) \/ RemoveFinalizer(w)
  PROVE  PCInv'
<1> DEFINE k == item[w]
<1>1. /\ worker[w] = "sync" /\ pc[w] \in {"rollbackUpdate", "stopUpdate"}
      /\ UNCHANGED <<cache, events, hasSynced, controllers, running, ensured, stopClosed>>
      /\ \E ok \in BOOLEAN : Update(k, obj[w], ok)
      /\ \E ok \in BOOLEAN : Return(w, ok)
  BY DEF RollbackUpdate, RemoveFinalizer, At, informerVars, managerVars
<1>2. k \in Key /\ obj[w] \in Version /\ controllers[k] # "set"
  BY <1>1, HeldKey, PCTypes DEF PCInv, WorkerOK, SyncTypeOK
<1>3. /\ api' \in [Key -> Version]
      /\ watch' \in [Key -> Seq(Version)]
      /\ faultsLeft' \in 0..MaxFaults
      /\ \A x \in Key : x # k => api'[x] = api[x]
      /\ api'[k] = api[k] \/ (~api'[k].live => api'[k].fins = {})
  BY <1>1, <1>2, UpdateEffect, PCTypes
<1>4. ApiTypeOK'
  BY <1>1, <1>3, PCTypes DEF ApiTypeOK
<1>5. SyncTypeOK' /\ OthersStay(w) /\ WorkerOK(w)' /\ item' = item
  BY <1>1, ReturnFrame, ReturnOK DEF OthersStay
<1>6. TypeOK' /\ KeysStay(k)
  BY <1>1, <1>3, <1>4, <1>5, PCTypes, TypeParts DEF KeysStay, MapTypeOK
<1>7. KeyOK(k)'
  <2>1. KeyOK(k) /\ running[k] = 0
    BY <1>2 DEF PCInv, KeyOK
  <2>2. \A v \in Worker : Starting(v, k) => Starting(v, k)'
    BY <1>1, <1>5 DEF OthersStay, Starting
  <2>3. QED
    BY <1>1, <1>3, <1>5, <2>1, <2>2 DEF KeyOK
<1>8. QED
  BY <1>1, <1>5, <1>6, <1>7, LocalStep

LEMMA SyncStepInv ==
  ASSUME PCInv, TQInv, TQInv', NEW w \in Worker, SyncStep(w)
  PROVE  PCInv'
BY LookupInv, StartControllersInv, EnsureFinalizerInv, StartControllerInv, GetLatestInv,
   WriteBackInv, StopControllersInv
DEF SyncStep

-----------------------------------------------------------------------------
(* All other steps. *)

LEMMA QueueStepInv ==
  ASSUME PCInv, TQInv, TQInv', NEW w \in Worker, QueueStep(w),
         UNCHANGED <<obj, existed, hadFinalizer, apiVars, managerVars, stopClosed>>
  PROVE  PCInv'
<1>1. /\ UNCHANGED <<obj, existed, hadFinalizer, api, watch, cache, events, hasSynced>>
      /\ UNCHANGED <<faultsLeft, controllers, running, ensured, stopClosed>>
  BY DEF apiVars, storeVars, informerVars, managerVars
<1>2. /\ worker[w] # "sync"
      /\ \A v \in Worker \ {w} : worker'[v] = worker[v] /\ item'[v] = item[v] /\ pc'[v] = pc[v]
      /\ pc' \in [Worker -> Steps]
      /\ \/ worker'[w] = "sync" /\ pc'[w] = "lookup"
         \/ worker'[w] # "sync" /\ pc'[w] = pc[w]
  <2> USE PCTypes DEF SyncTypeOK, TQTypeOK, Moves, Steps
  <2>1. CASE GetItem(w) /\ Goto(w, "lookup")
    BY <2>1 DEF GetItem, Goto
  <2>2. CASE Exit(w) /\ UNCHANGED pc
    BY <2>2 DEF Exit
  <2>3. CASE Requeue(w) /\ UNCHANGED pc
    BY <2>3 DEF Requeue
  <2>4. CASE ForgetItem(w) /\ UNCHANGED pc
    BY <2>4 DEF ForgetItem
  <2>5. CASE DoneItem(w) /\ UNCHANGED pc
    BY <2>5 DEF DoneItem
  <2>6. QED
    BY <2>1, <2>2, <2>3, <2>4, <2>5 DEF QueueStep
<1>3. pc[w] = "none"
  BY <1>2 DEF PCInv, WorkerOK
<1>4. TypeOK'
  <2>1. ApiTypeOK' /\ SyncTypeOK' /\ MapTypeOK' /\ stopClosed' \in BOOLEAN
    BY <1>1, <1>2, PCTypes DEF ApiTypeOK, SyncTypeOK, MapTypeOK
  <2>2. QED
    BY <2>1, TypeParts
<1>5. WorkerOK(w)'
  BY <1>2, <1>3 DEF WorkerOK
<1>6. ASSUME NEW v \in Worker \ {w} PROVE WorkerOK(v)'
  BY <1>1, <1>2 DEF PCInv, WorkerOK, Protected
<1>7. ASSUME NEW k \in Key PROVE KeyOK(k)'
  <2>1. \A v \in Worker : Starting(v, k) => Starting(v, k)'
    BY <1>2, <1>3 DEF Starting
  <2>2. QED
    BY <1>1, <2>1 DEF PCInv, KeyOK, Protected
<1>8. \A v \in Worker : WorkerOK(v)'
  BY <1>5, <1>6
<1>9. QED
  BY <1>4, <1>7, <1>8 DEF PCInv

(* Users take no finalizer of the framework off. *)
LEMMA UsersInv ==
  ASSUME PCInv, TQInv, TQInv', NEW k \in Key, Users(k)
  PROVE  /\ PCInv'
         /\ Finalizer \in api[k].fins => Finalizer \in api'[k].fins
         /\ UNCHANGED running
         /\ \A x \in Key \ {k} : api'[x] = api[x]
<1>1. /\ UNCHANGED <<worker, item, pc, obj, existed, hadFinalizer, controllers, running>>
      /\ UNCHANGED <<ensured, stopClosed, cache, events, hasSynced>>
  BY DEF Users, tqVars, syncVars, managerVars, informerVars,
         UserCreate, UserEdit, UserDelete, OtherFinalizerRemoved
<1>2. faultsLeft' \in 0..MaxFaults
  BY FaultType, PCTypes
  DEF Users, UserCreate, UserEdit, UserDelete, OtherFinalizerRemoved, NoFault
<1>3. api[k] \in Version /\ (~api[k].live => Finalizer \notin api[k].fins)
  BY PCTypes DEF ApiTypeOK, PCInv, KeyOK
<1>4. PICK fins \in SUBSET {Finalizer, Other}, deleting \in BOOLEAN :
        Put(k, fins, deleting) /\ (Finalizer \in api[k].fins => Finalizer \in fins)
  <2>1. CASE \E f \in SUBSET {Other} : UserCreate(k, f)
    <3>1. PICK f \in SUBSET {Other} : UserCreate(k, f)
      BY <2>1
    <3>2. Put(k, f, FALSE) /\ Finalizer \notin api[k].fins
      BY <1>3, <3>1 DEF UserCreate
    <3>3. QED
      BY <3>2
  <2>2. CASE UserEdit(k)
    <3>1. Put(k, api[k].fins, api[k].deleting)
      BY <2>2 DEF UserEdit
    <3>2. api[k].fins \in SUBSET {Finalizer, Other} /\ api[k].deleting \in BOOLEAN
      BY <1>3 DEF Version
    <3>3. QED
      BY <3>1, <3>2
  <2>3. CASE UserDelete(k)
    <3>1. Put(k, api[k].fins, TRUE)
      BY <2>3 DEF UserDelete
    <3>2. api[k].fins \in SUBSET {Finalizer, Other}
      BY <1>3 DEF Version
    <3>3. QED
      BY <3>1, <3>2
  <2>4. CASE OtherFinalizerRemoved(k)
    <3>1. Put(k, api[k].fins \ {Other}, TRUE)
      BY <2>4 DEF OtherFinalizerRemoved
    <3>2. api[k].fins \ {Other} \in SUBSET {Finalizer, Other}
          /\ (Finalizer \in api[k].fins => Finalizer \in api[k].fins \ {Other})
      BY <1>3, ApiServerAssumption DEF Version
    <3>3. QED
      BY <3>1, <3>2
  <2>5. QED
    BY <2>1, <2>2, <2>3, <2>4 DEF Users
<1>5. /\ api' \in [Key -> Version]
      /\ watch' \in [Key -> Seq(Version)]
      /\ \A x \in Key : x # k => api'[x] = api[x]
      /\ api'[k].fins = fins
      /\ ~api'[k].live => fins = {}
  BY <1>4, PutEffect, PCTypes
<1>6. ApiTypeOK'
  BY <1>1, <1>2, <1>5, PCTypes DEF ApiTypeOK
<1>7. TypeOK'
  BY <1>1, <1>6, PCTypes, TypeParts DEF SyncTypeOK, MapTypeOK
<1>8. \A x \in Key : Finalizer \in api[x].fins => Finalizer \in api'[x].fins
  BY <1>4, <1>5
<1>9. \A x \in Key : ~api'[x].live => Finalizer \notin api'[x].fins
  BY <1>5 DEF PCInv, KeyOK
<1>10. \A x \in Key : Protected(x) => Protected(x)'
  BY <1>8, <1>9, <1>5 DEF Protected, Version
<1>11. PCInv'
  BY <1>1, <1>7, <1>9, <1>10, QuietStep
<1>12. QED
  BY <1>1, <1>5, <1>8, <1>11

(* Steps of the informer, of Run and of the waiting loop touch neither the *)
(* stored objects nor the map nor any sync.                                *)
LEMMA BackgroundInv ==
  ASSUME PCInv, TQInv, TQInv', ApiTypeOK', stopClosed' \in BOOLEAN,
         UNCHANGED <<api, pc, obj, existed, hadFinalizer>>,
         UNCHANGED <<controllers, running, ensured, item>>,
         \A w \in Worker : worker'[w] = "sync" <=> worker[w] = "sync"
  PROVE  PCInv'
<1>1. TypeOK'
  BY PCTypes, TypeParts DEF SyncTypeOK, MapTypeOK
<1>2. \A k \in Key : Protected(k) => Protected(k)'
  BY DEF Protected
<1>3. \A k \in Key : ~api'[k].live => Finalizer \notin api'[k].fins
  BY DEF PCInv, KeyOK
<1>4. QED
  BY <1>1, <1>2, <1>3, QuietStep

LEMMA InformerInv ==
  ASSUME PCInv, TQInv, TQInv',
         InformerStarts \/ \E k \in Key : InformerDelivers(k) \/ InformerRepeats(k)
  PROVE  PCInv' /\ UNCHANGED <<api, running>>
<1>1. /\ UNCHANGED <<worker, item, pc, obj, existed, hadFinalizer>>
      /\ UNCHANGED <<controllers, running, ensured, stopClosed>>
  BY DEF InformerStarts, InformerDelivers, InformerRepeats, tqVars, syncVars, managerVars
<1>2. UNCHANGED api /\ faultsLeft' \in 0..MaxFaults
  BY FaultType, PCTypes
  DEF InformerStarts, InformerDelivers, InformerRepeats, InformerSync, Deliver, Relist,
      Resync, storeVars, NoFault
<1>3. /\ watch' \in [Key -> Seq(Version)]
      /\ cache' \in [Key -> Version]
      /\ events' \subseteq Key
      /\ hasSynced' \in BOOLEAN
  <2> USE PCTypes DEF ApiTypeOK
  <2>1. CASE InformerStarts
    BY <2>1 DEF InformerStarts, InformerSync, storeVars
  <2>2. ASSUME NEW k \in Key, Deliver(k) PROVE <1>3
    <3>1. Head(watch[k]) \in Version /\ Tail(watch[k]) \in Seq(Version)
      BY <2>2 DEF Deliver
    <3>2. QED
      BY <2>2, <3>1 DEF Deliver, Notify
  <2>3. ASSUME NEW k \in Key, Relist(k) PROVE <1>3
    <3>1. <<>> \in Seq(Version) /\ api[k] \in Version
      OBVIOUS
    <3>2. QED
      BY <2>3, <3>1 DEF Relist, Notify
  <2>4. ASSUME NEW k \in Key, Resync(k) PROVE <1>3
    BY <2>4 DEF Resync, storeVars
  <2>5. QED
    BY <2>1, <2>2, <2>3, <2>4 DEF InformerDelivers, InformerRepeats
<1>4. ApiTypeOK'
  BY <1>2, <1>3, PCTypes DEF ApiTypeOK
<1>5. PCInv'
  BY <1>1, <1>2, <1>4, PCTypes, BackgroundInv
<1>6. QED
  BY <1>1, <1>2, <1>5

LEMMA ControllerInv ==
  ASSUME PCInv, TQInv, TQInv',
         \/ \E k \in Key : HandleEvent(k)
         \/ DelayedAdd \/ CacheSynced \/ CacheSyncAborted \/ StopReceived \/ RunReturns
         \/ CloseStopCh
  PROVE  PCInv' /\ UNCHANGED <<api, running>>
<1>1. /\ UNCHANGED <<item, pc, obj, existed, hadFinalizer>>
      /\ UNCHANGED <<controllers, running, ensured, api, watch, cache, hasSynced>>
  BY DEF HandleEvent, DelayedAdd, CacheSynced, CacheSyncAborted, StopReceived, RunReturns,
         CloseStopCh, Enqueue, WaitingLoop, Run, Shutdown, ShutdownReturns,
         tqVars, syncVars, managerVars, apiVars, storeVars, informerVars
<1>2. \A w \in Worker : worker'[w] = "sync" <=> worker[w] = "sync"
  <2>1. CASE CacheSynced
    BY <2>1 DEF CacheSynced, Run
  <2>2. CASE ~CacheSynced
    BY <2>2 DEF HandleEvent, DelayedAdd, CacheSyncAborted, StopReceived, RunReturns,
         CloseStopCh, Enqueue, WaitingLoop, Shutdown, ShutdownReturns, tqVars
  <2>3. QED
    BY <2>1, <2>2
<1>3. events' \subseteq Key /\ faultsLeft' \in 0..MaxFaults
  <2>1. CASE CloseStopCh
    BY <2>1, FaultType, PCTypes DEF CloseStopCh, informerVars, ApiTypeOK
  <2>2. CASE ~CloseStopCh
    BY <2>2, PCTypes DEF HandleEvent, DelayedAdd, CacheSynced, CacheSyncAborted,
         StopReceived, RunReturns, apiVars, informerVars, ApiTypeOK
  <2>3. QED
    BY <2>1, <2>2
<1>4. stopClosed' \in BOOLEAN
  BY PCTypes DEF HandleEvent, DelayedAdd, CacheSynced, CacheSyncAborted, StopReceived,
         RunReturns, CloseStopCh
<1>5. ApiTypeOK'
  BY <1>1, <1>3, PCTypes DEF ApiTypeOK
<1>6. PCInv'
  BY <1>1, <1>2, <1>4, <1>5, BackgroundInv
<1>7. QED
  BY <1>1, <1>6

LEMMA CrashInv ==
  ASSUME PCInv, TQInv, TQInv', Crash
  PROVE  PCInv' /\ UNCHANGED api /\ running' = [k \in Key |-> 0]
<1>1. /\ UNCHANGED api
      /\ controllers' = [k \in Key |-> "none"]
      /\ running' = [k \in Key |-> 0]
      /\ ensured' = [k \in Key |-> FALSE]
      /\ stopClosed' = FALSE
  BY DEF Crash, InformerRestart
<1>2. \A w \in Worker : pc'[w] = "none" /\ worker'[w] = "off"
  BY DEF Crash, Restart
<1>3. ApiTypeOK'
  <2>1. faultsLeft' \in 0..MaxFaults
    BY FaultType, PCTypes DEF Crash
  <2>2. <<>> \in Seq(Version)
    OBVIOUS
  <2>3. watch' \in [Key -> Seq(Version)] /\ cache' \in [Key -> Version]
        /\ events' \subseteq Key /\ hasSynced' \in BOOLEAN
    BY <2>2, NoObjectType DEF Crash, InformerRestart
  <2>4. QED
    BY <1>1, <2>1, <2>3, PCTypes DEF ApiTypeOK
<1>4. SyncTypeOK'
  BY NoObjectType DEF Crash, SyncTypeOK, Steps
<1>5. MapTypeOK'
  BY <1>1 DEF MapTypeOK
<1>6. TypeOK'
  BY <1>1, <1>3, <1>4, <1>5, TypeParts
<1>7. \A w \in Worker : WorkerOK(w)'
  BY <1>2, ReturnOK
<1>8. ASSUME NEW k \in Key PROVE KeyOK(k)'
  <2>1. controllers'[k] = "none" /\ running'[k] = 0 /\ api'[k] = api[k]
    BY <1>1
  <2>2. QED
    BY <2>1 DEF PCInv, KeyOK
<1>9. QED
  BY <1>1, <1>6, <1>7, <1>8 DEF PCInv

LEMMA InitPCInv ==
  ASSUME Init
  PROVE  PCInv
<1>1. /\ \A w \in Worker : pc[w] = "none" /\ worker[w] = "off"
      /\ \A k \in Key : controllers[k] = "none" /\ running[k] = 0 /\ api[k] = NoObject
  BY DEF Init, LocalInit, TQInit, ApiInit
<1>2. ApiTypeOK
  <2>1. <<>> \in Seq(Version) /\ MaxFaults \in 0..MaxFaults
    BY ApiServerAssumption
  <2>2. QED
    BY <2>1, NoObjectType DEF Init, ApiInit, ApiTypeOK
<1>3. ManagerTypeOK
  BY NoObjectType DEF Init, LocalInit, ManagerTypeOK, Steps
<1>4. TypeOK
  BY <1>2, <1>3, InitInv DEF TypeOK, TQInv, Init
<1>5. \A w \in Worker : WorkerOK(w)
  BY <1>1 DEF WorkerOK
<1>6. ASSUME NEW k \in Key PROVE KeyOK(k)
  <2>1. controllers[k] = "none" /\ running[k] = 0 /\ api[k].fins = {}
    BY <1>1 DEF NoObject
  <2>2. QED
    BY <2>1 DEF KeyOK
<1>7. QED
  BY <1>4, <1>5, <1>6 DEF PCInv

LEMMA PCStepInv ==
  ASSUME PCInv, TQInv, TQInv', [Next]_vars
  PROVE  PCInv'
<1>1. ASSUME NEW w \in Worker, WorkerRuns(w) PROVE PCInv'
  BY <1>1, SyncStepInv, QueueStepInv DEF WorkerRuns
<1>2. CASE UNCHANGED vars
  <2>1. /\ UNCHANGED <<worker, item, api, watch, cache, events, hasSynced, faultsLeft>>
        /\ UNCHANGED <<pc, obj, existed, hadFinalizer>>
        /\ UNCHANGED <<controllers, running, ensured, stopClosed>>
    BY <1>2 DEF vars, tqVars, apiVars, storeVars, informerVars, syncVars, managerVars
  <2>2. ApiTypeOK'
    BY <2>1, PCTypes DEF ApiTypeOK
  <2>3. QED
    BY <2>1, <2>2, PCTypes, BackgroundInv
<1>3. CASE Next
  BY <1>1, <1>3, UsersInv, InformerInv, ControllerInv, CrashInv DEF Next
<1>4. QED
  BY <1>2, <1>3

-----------------------------------------------------------------------------
(* Map, running controllers, stored finalizers and the steps of all syncs  *)
(* agree in every reachable state, for any number of workers,              *)
(* ProviderConfigs and faults.                                             *)
THEOREM ControllerInvariant == Safe => []PCInv
<1>1. Safe => []TQInv
  BY ImplementsTaskQueue, TaskQueueInvariant, PTL
<1>2. Init => PCInv
  BY InitPCInv
<1>3. PCInv /\ TQInv /\ TQInv' /\ [Next]_vars => PCInv'
  BY PCStepInv
<1>4. QED
  BY <1>1, <1>2, <1>3, PTL DEF Safe

(* At most one controller set runs per ProviderConfig and the map holds    *)
(* its channel, whatever fails in between (manager.go, controller_map.go). *)
THEOREM ControllersAreUnique == Safe => []OneControllerSet
<1>1. PCInv => OneControllerSet
  BY DEF PCInv, KeyOK, OneControllerSet
<1>2. QED
  BY <1>1, ControllerInvariant, PTL

(* A set started after the framework's own Update of the finalizer runs    *)
(* only while the stored object carries the finalizer (manager.go).        *)
THEOREM EnsuredAreProtected == Safe => []EnsuredStaysProtected
<1>1. PCInv => EnsuredStaysProtected
  BY DEF PCInv, KeyOK, EnsuredStaysProtected
<1>2. QED
  BY <1>1, ControllerInvariant, PTL

(* A start that failed leaves no entry in the map, unless a starter        *)
(* panicked (manager.go's deferred Delete).                                *)
THEOREM EntriesAreTransient == Safe => []NoStaleEntry
<1>1. PCInv => NoStaleEntry
  BY DEF PCInv, KeyOK, NoStaleEntry
<1>2. QED
  BY <1>1, ControllerInvariant, PTL

-----------------------------------------------------------------------------
(* The abstract life cycle is implemented. *)

LEMMA ShieldStep ==
  ASSUME NEW k \in Key, UNCHANGED running, \A x \in Key \ {k} : api'[x] = api[x],
         Finalizer \in api[k].fins /\ Finalizer \notin api'[k].fins => running[k] = 0
  PROVE  [Lifecycle!LifecycleNext]_<<running, Shielded>>
<1>1. \A x \in Key \ {k} : (Finalizer \in api'[x].fins) = (Finalizer \in api[x].fins)
  OBVIOUS
<1>2. CASE Finalizer \in api'[k].fins
  <2>1. Shielded' = [Shielded EXCEPT ![k] = TRUE]
    BY <1>1, <1>2 DEF Shielded
  <2>2. Lifecycle!Shield(k)
    BY <2>1 DEF Lifecycle!Shield
  <2>3. QED
    BY <2>2 DEF Lifecycle!LifecycleNext
<1>3. CASE Finalizer \notin api'[k].fins /\ running[k] = 0
  <2>1. Shielded' = [Shielded EXCEPT ![k] = FALSE]
    <3>1. (Finalizer \in api'[k].fins) = FALSE
      BY <1>3
    <3>2. QED
      BY <1>1, <3>1 DEF Shielded
  <2>2. Lifecycle!Unshield(k)
    BY <1>3, <2>1 DEF Lifecycle!Unshield
  <2>3. QED
    BY <2>2 DEF Lifecycle!LifecycleNext
<1>4. CASE Finalizer \notin api'[k].fins /\ running[k] # 0
  <2>1. Shielded' = Shielded
    BY <1>1, <1>4 DEF Shielded
  <2>2. QED
    BY <2>1
<1>5. QED
  BY <1>2, <1>3, <1>4

LEMMA SyncLifecycle ==
  ASSUME PCInv, TQInv, NEW w \in Worker, SyncStep(w)
  PROVE  [Lifecycle!LifecycleNext]_<<running, Shielded>>
<1> DEFINE k == item[w]
<1>1. worker[w] = "sync"
  BY DEF SyncStep, At, Lookup, StartControllers, EnsureFinalizer, StartController,
         RollbackGet, RollbackUpdate, StopControllers, StopGet, RemoveFinalizer
<1>2. k \in Key /\ KeyOK(k) /\ obj[w] \in Version
  BY <1>1, HeldKey, PCTypes DEF PCInv, SyncTypeOK
<1>3. CASE \/ Lookup(w) \/ StartControllers(w) \/ RollbackGet(w) \/ StopGet(w)
           \/ LaunchFails(w) /\ UNCHANGED storeVars
           \/ LaunchPanics(w) /\ UNCHANGED storeVars
  BY <1>3 DEF Shielded, Lookup, StartControllers, RollbackGet, StopGet, LaunchFails, LaunchPanics,
              apiVars, storeVars, managerVars
<1>4. CASE EnsureFinalizer(w)
  <2>1. Finalizer \in obj[w].fins /\ UNCHANGED running
    BY <1>4 DEF EnsureFinalizer, At, PCInv, WorkerOK
  <2>2. PICK ok \in BOOLEAN : Update(k, obj[w], ok)
    BY <1>4 DEF EnsureFinalizer
  <2>3. /\ \A x \in Key : x # k => api'[x] = api[x]
        /\ api'[k] = api[k] \/ Finalizer \in api'[k].fins
    BY <1>2, <2>1, <2>2, UpdateEffect, PCTypes
  <2>4. QED
    BY <1>2, <2>1, <2>3, ShieldStep
<1>5. CASE RollbackUpdate(w) \/ RemoveFinalizer(w)
  <2>1. UNCHANGED running /\ controllers[k] # "set"
    BY <1>5 DEF RollbackUpdate, RemoveFinalizer, At, managerVars, PCInv, WorkerOK
  <2>2. PICK ok \in BOOLEAN : Update(k, obj[w], ok)
    BY <1>5 DEF RollbackUpdate, RemoveFinalizer
  <2>3. \A x \in Key : x # k => api'[x] = api[x]
    BY <1>2, <2>2, UpdateEffect, PCTypes
  <2>4. running[k] = 0
    BY <1>2, <2>1 DEF KeyOK
  <2>5. QED
    BY <1>2, <2>1, <2>3, <2>4, ShieldStep
<1>6. CASE StopControllers(w)
  <2>1. /\ running' = [running EXCEPT ![k] = IF controllers[k] = "set" THEN @ - 1 ELSE @]
        /\ UNCHANGED api
    BY <1>6 DEF StopControllers, apiVars, storeVars
  <2>2. (IF controllers[k] = "set" THEN running[k] - 1 ELSE running[k]) = 0
    BY <1>2 DEF KeyOK
  <2>3. running' = [running EXCEPT ![k] = 0]
    BY <2>1, <2>2
  <2>4. Lifecycle!Halt(k)
    BY <2>1, <2>3 DEF Lifecycle!Halt, Shielded
  <2>5. QED
    BY <1>2, <2>4 DEF Lifecycle!LifecycleNext
<1>7. CASE StartController(w) /\ LaunchReturns(w)
  <2>1. controllers[k] # "set"
    BY <1>7 DEF StartController, At, PCInv, WorkerOK
  <2>2. running[k] = 0
    BY <1>2, <2>1 DEF KeyOK
  <2>3. running' = [running EXCEPT ![k] = 1] /\ UNCHANGED api
    BY <1>7, <2>2 DEF StartController, LaunchReturns, storeVars
  <2>4. Lifecycle!Launch(k)
    BY <2>2, <2>3 DEF Lifecycle!Launch, Shielded
  <2>5. QED
    BY <1>2, <2>4 DEF Lifecycle!LifecycleNext
<1>8. QED
  BY <1>3, <1>4, <1>5, <1>6, <1>7 DEF SyncStep, StartController

LEMMA LifecycleStep ==
  ASSUME PCInv, TQInv, TQInv', [Next]_vars
  PROVE  [Lifecycle!LifecycleNext]_<<running, Shielded>>
<1>1. ASSUME NEW w \in Worker, WorkerRuns(w)
      PROVE  [Lifecycle!LifecycleNext]_<<running, Shielded>>
  <2>1. CASE SyncStep(w)
    BY <2>1, SyncLifecycle
  <2>2. CASE ~SyncStep(w)
    BY <1>1, <2>2 DEF Shielded, WorkerRuns, apiVars, storeVars, managerVars
  <2>3. QED
    BY <2>1, <2>2
<1>2. ASSUME NEW k \in Key, Users(k)
      PROVE  [Lifecycle!LifecycleNext]_<<running, Shielded>>
  BY <1>2, UsersInv, ShieldStep
<1>3. CASE UNCHANGED <<api, running>>
  BY <1>3 DEF Shielded
<1>4. CASE Crash
  <2>1. Lifecycle!Die
    BY <1>4, CrashInv DEF Lifecycle!Die, Shielded
  <2>2. QED
    BY <2>1 DEF Lifecycle!LifecycleNext
<1>5. CASE UNCHANGED vars
  BY <1>3, <1>5 DEF vars, apiVars, storeVars, managerVars
<1>6. QED
  BY <1>1, <1>2, <1>3, <1>4, <1>5, InformerInv, ControllerInv DEF Next

(* The framework implements the abstract life cycle of every               *)
(* ProviderConfig: one set of controllers at a time, and the finalizer is  *)
(* taken off only while none runs.                                         *)
THEOREM LifecycleImplemented == Safe => ImplementsLifecycle
<1>1. Init => Lifecycle!LifecycleInit
  <2>1. SUFFICES ASSUME Init PROVE Lifecycle!LifecycleInit
    OBVIOUS
  <2>2. running = [k \in Key |-> 0]
    BY <2>1 DEF Init, LocalInit
  <2>3. ASSUME NEW k \in Key PROVE (Finalizer \in api[k].fins) = FALSE
    <3>1. api[k].fins = {}
      BY <2>1, <2>3 DEF Init, ApiInit, NoObject
    <3>2. QED
      BY <3>1
  <2>4. QED
    BY <2>2, <2>3 DEF Lifecycle!LifecycleInit, Shielded
<1>2. Safe => []TQInv /\ []PCInv
  BY ImplementsTaskQueue, TaskQueueInvariant, ControllerInvariant, PTL
<1>3. PCInv /\ TQInv /\ TQInv' /\ [Next]_vars
        => [Lifecycle!LifecycleNext]_<<running, Shielded>>
  BY LifecycleStep
<1>4. QED
  BY <1>1, <1>2, <1>3, PTL DEF Safe, ImplementsLifecycle, Lifecycle!LifecycleSpec

(* The finalizer of the framework leaves a ProviderConfig only when no     *)
(* controller set of it runs: StopControllersForProviderConfig closes the  *)
(* channel first, the rollback follows a start that failed.                *)
THEOREM TeardownIsOrdered == Safe => TeardownOrder
<1> DEFINE A == \A k \in Key : Finalizer \in api[k].fins /\ Finalizer \notin api'[k].fins
                                 => running[k] = 0
<1>1. Safe => []TQInv /\ []PCInv
  BY ImplementsTaskQueue, TaskQueueInvariant, ControllerInvariant, PTL
<1>2. PCInv /\ TQInv /\ TQInv' /\ [Next]_vars => [A]_vars
  <2>1. SUFFICES ASSUME PCInv, TQInv, TQInv', [Next]_vars, NEW k \in Key,
                        Finalizer \in api[k].fins, Finalizer \notin api'[k].fins
                 PROVE  running[k] = 0
    OBVIOUS
  <2>2. Shielded[k] /\ ~Shielded'[k]
    BY <2>1 DEF Shielded
  <2>3. Shielded' # Shielded
    BY <2>2
  <2>4. Lifecycle!LifecycleNext
    BY <2>1, <2>3, LifecycleStep
  <2>5. PICK x \in Key : Lifecycle!Shield(x) \/ Lifecycle!Unshield(x)
    BY <2>3, <2>4 DEF Lifecycle!LifecycleNext, Lifecycle!Launch, Lifecycle!Halt, Lifecycle!Die
  <2>6. CASE Lifecycle!Shield(x)
    <3>1. Shielded' = [Shielded EXCEPT ![x] = TRUE]
      BY <2>6 DEF Lifecycle!Shield
    <3>2. QED
      BY <2>2, <3>1
  <2>7. CASE Lifecycle!Unshield(x)
    <3>1. Shielded' = [Shielded EXCEPT ![x] = FALSE] /\ running[x] = 0
      BY <2>7 DEF Lifecycle!Unshield
    <3>2. QED
      BY <2>2, <3>1
  <2>8. QED
    BY <2>5, <2>6, <2>7
<1>3. QED
  BY <1>1, <1>2, PTL DEF Safe, TeardownOrder

-----------------------------------------------------------------------------
(* After Run has returned all workers have left, so nothing is started,    *)
(* stopped or released any more.                                           *)
THEOREM ReturnIsQuiet == Safe => QuietAfterReturn
<1> DEFINE A == shutdown = "returned" /\ shutdown' = "returned" =>
                  /\ UNCHANGED <<controllers, running>>
                  /\ \A k \in Key :
                       Finalizer \in api[k].fins => Finalizer \in api'[k].fins
<1>1. Safe => []TQInv /\ []PCInv
  BY ImplementsTaskQueue, TaskQueueInvariant, ControllerInvariant, PTL
<1>2. PCInv /\ TQInv /\ TQInv' /\ [Next]_vars => [A]_vars
  <2>1. SUFFICES ASSUME PCInv, TQInv, TQInv', [Next]_vars,
                        shutdown = "returned", shutdown' = "returned"
                 PROVE  /\ UNCHANGED <<controllers, running>>
                        /\ \A k \in Key :
                             Finalizer \in api[k].fins => Finalizer \in api'[k].fins
    OBVIOUS
  <2>2. \A w \in Worker : worker[w] = "exited"
    BY <2>1 DEF TQInv, ExitsAreFinal
  <2>3. ASSUME NEW w \in Worker, WorkerRuns(w) PROVE FALSE
    BY <2>2, <2>3
    DEF WorkerRuns, SyncStep, QueueStep, At, Lookup, StartControllers, EnsureFinalizer,
        StartController, RollbackGet, RollbackUpdate, StopControllers, StopGet,
        RemoveFinalizer, GetItem, Exit, Requeue, ForgetItem, DoneItem, Moves
  <2>4. ASSUME NEW k \in Key, Users(k)
        PROVE  /\ UNCHANGED <<controllers, running>>
               /\ \A x \in Key : Finalizer \in api[x].fins => Finalizer \in api'[x].fins
    <3>1. UNCHANGED controllers
      BY <2>4 DEF Users, managerVars
    <3>2. QED
      BY <2>1, <2>4, <3>1, UsersInv
  <2>5. CASE Crash
    BY <2>1, <2>5 DEF Crash, Restart
  <2>6. CASE UNCHANGED <<api, controllers, running>>
    BY <2>6
  <2>7. CASE UNCHANGED vars
    BY <2>6, <2>7 DEF vars, apiVars, storeVars, managerVars
  <2>8. ASSUME \/ InformerStarts
               \/ \E k \in Key : InformerDelivers(k) \/ InformerRepeats(k) \/ HandleEvent(k)
               \/ DelayedAdd \/ CacheSynced \/ CacheSyncAborted \/ StopReceived \/ RunReturns
               \/ CloseStopCh
        PROVE  UNCHANGED <<api, controllers, running>>
    <3>1. UNCHANGED controllers
      BY <2>8 DEF InformerStarts, InformerDelivers, InformerRepeats, HandleEvent, DelayedAdd,
                  CacheSynced, CacheSyncAborted, StopReceived, RunReturns, CloseStopCh, managerVars
    <3>2. QED
      BY <2>1, <2>8, <3>1, InformerInv, ControllerInv
  <2>9. QED
    BY <2>1, <2>3, <2>4, <2>5, <2>6, <2>7, <2>8 DEF Next
<1>3. QED
  BY <1>1, <1>2, PTL DEF Safe, QuietAfterReturn

=============================================================================
