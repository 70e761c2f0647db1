----------------------------- MODULE TaskQueue -----------------------------
(***************************************************************************)
(* PeriodicTaskQueueWithMultipleWorkers of pkg/framework/taskqueue: a      *)
(* fixed set of worker goroutines that take keys off a rate limiting work  *)
(* queue, call the sync function and put the keys that failed back.        *)
(*                                                                         *)
(* Every call a worker makes on the queue is a step of its own, since the  *)
(* queue's lock is released between them.  What sync does is left open     *)
(* here: it returns at any later time, with or without an error.           *)
(* ProviderConfigController.tla refines it.                                *)
(***************************************************************************)
EXTENDS WorkQueue

CONSTANTS
  Worker,   \* the worker goroutines (workersCount of them)
  NoKey     \* the item of a worker that has none

ASSUME TaskQueueAssumption ==
  /\ Worker # {}
  /\ NoKey \notin Key

VARIABLES
  worker,    \* what a worker does next; "off" before Run, "exited" once its
             \* workerDone channel is closed
  item,      \* the key a worker holds
  shutdown   \* the call of Shutdown: "no", "draining" or "returned"

tqVars == <<wqVars, worker, item, shutdown>>

WorkerSteps == {"off", "get", "sync", "requeue", "forget", "done", "exited"}

Holding(w) == worker[w] \in {"sync", "requeue", "forget", "done"}
Spawned    == \A w \in Worker : worker[w] # "off"

TQInit ==
  /\ WQInit
  /\ worker = [w \in Worker |-> "off"]
  /\ item = [w \in Worker |-> NoKey]
  /\ shutdown = "no"

Moves(w, from, to) ==
  /\ worker[w] = from
  /\ worker' = [worker EXCEPT ![w] = to]

-----------------------------------------------------------------------------
(* Mutated forms of the operations below. *)

\* Exit as soon as the queue shuts down, without draining it.
ExitWithoutDraining(w) ==
  /\ shuttingDown
  /\ Moves(w, "get", "exited")
  /\ UNCHANGED <<wqVars, item, shutdown>>

\* A worker loop that ends with the first sync that fails.
RequeueEndsWorker(w) ==
  /\ Moves(w, "requeue", "exited")
  /\ AddRateLimited(item[w])
  /\ Done(item[w])
  /\ item' = [item EXCEPT ![w] = NoKey]
  /\ UNCHANGED <<shuttingDown, shutdown>>

\* A worker that calls Done before it calls sync, so that the key can be
\* handed to a second worker in the meantime.
GetItemIsDoneAtOnce(w) ==
  /\ Moves(w, "get", "sync")
  /\ queue # <<>>
  /\ item' = [item EXCEPT ![w] = Head(queue)]
  /\ queue' = Tail(queue)
  /\ dirty' = dirty \ {Head(queue)}
  /\ UNCHANGED <<processing, delayVars, failures, shuttingDown, shutdown>>

\* A Shutdown that does not wait for the workers.
ShutdownReturnsAtOnce ==
  /\ shutdown = "draining"
  /\ shutdown' = "returned"
  /\ UNCHANGED <<wqVars, worker, item>>

-----------------------------------------------------------------------------
(* Enqueue; the key is the object's name. *)
Enqueue(k) ==
  /\ Add(k)
  /\ UNCHANGED <<processing, delayVars, failures, shuttingDown>>
  /\ UNCHANGED <<worker, item, shutdown>>

(* Run spawns all workers. *)
Run ==
  /\ \A w \in Worker : worker[w] = "off"
  /\ worker' = [w \in Worker |-> "get"]
  /\ UNCHANGED <<wqVars, item, shutdown>>

(* The worker loop, one action per call on the queue. *)
GetItem(w) ==
  /\ Moves(w, "get", "sync")
  /\ queue # <<>>
  /\ Get(Head(queue))
  /\ item' = [item EXCEPT ![w] = Head(queue)]
  /\ UNCHANGED <<delayVars, failures, shuttingDown, shutdown>>

Exit(w) ==
  /\ queue = <<>>
  /\ shuttingDown
  /\ Moves(w, "get", "exited")
  /\ UNCHANGED <<wqVars, item, shutdown>>

SyncReturns(w, ok) ==
  /\ Moves(w, "sync", IF ok THEN "forget" ELSE "requeue")
  /\ UNCHANGED <<wqVars, item, shutdown>>

Requeue(w) ==
  /\ Moves(w, "requeue", "done")
  /\ AddRateLimited(item[w])
  /\ UNCHANGED <<fifoVars, shuttingDown, item, shutdown>>

ForgetItem(w) ==
  /\ Moves(w, "forget", "done")
  /\ Forget(item[w])
  /\ UNCHANGED <<fifoVars, delayVars, shuttingDown, item, shutdown>>

DoneItem(w) ==
  /\ Moves(w, "done", "get")
  /\ Done(item[w])
  /\ item' = [item EXCEPT ![w] = NoKey]
  /\ UNCHANGED <<delayVars, failures, shuttingDown, shutdown>>

(* Shutdown shuts the work queue down and then waits for every worker's    *)
(* workerDone channel, also for those Run never spawned.                   *)
Shutdown ==
  /\ shutdown = "no"
  /\ shutdown' = "draining"
  /\ ShutDown
  /\ UNCHANGED <<worker, item>>

\* Mutated: does not wait for the workers.
ShutdownDoesNotWait ==
  /\ shutdown = "draining"
  /\ shutdown' = "returned"
  /\ UNCHANGED <<wqVars, worker, item>>

ShutdownReturns ==
  /\ shutdown = "draining"
  /\ \A w \in Worker : worker[w] = "exited"
  /\ shutdown' = "returned"
  /\ UNCHANGED <<wqVars, worker, item>>

(* The goroutine of the waiting loop. *)
WaitingLoop ==
  /\ ReceiveWaiting \/ \E k \in Key : FireWaiting(k)
  /\ UNCHANGED <<worker, item, shutdown>>

(* The process is killed and started again: nothing here is persistent. *)
Restart ==
  /\ queue' = <<>> /\ dirty' = {} /\ processing' = {}
  /\ waitingForAddCh' = <<>> /\ waitingForQueue' = {}
  /\ failures' = [k \in Key |-> 0]
  /\ shuttingDown' = FALSE
  /\ worker' = [w \in Worker |-> "off"]
  /\ item' = [w \in Worker |-> NoKey]
  /\ shutdown' = "no"

-----------------------------------------------------------------------------
WorkerStep(w) ==
  \/ GetItem(w)
  \/ Exit(w)
  \/ \E ok \in BOOLEAN : SyncReturns(w, ok)
  \/ Requeue(w)
  \/ ForgetItem(w)
  \/ DoneItem(w)

TQNext ==
  \/ \E k \in Key : Enqueue(k)
  \/ Run
  \/ \E w \in Worker : WorkerStep(w)
  \/ Shutdown
  \/ ShutdownReturns
  \/ WaitingLoop
  \/ Restart

(* The goroutines are scheduled and sync returns; a sender that waits on a *)
(* full channel gets its turn, as Go serves blocked senders first come     *)
(* first served.  Who calls Enqueue, Run and Shutdown is left open.        *)
TQFairness ==
  /\ \A w \in Worker : WF_tqVars(WorkerStep(w)) /\ SF_tqVars(Requeue(w))
  /\ WF_tqVars(ReceiveWaiting /\ UNCHANGED <<worker, item, shutdown>>)
  /\ \A k \in Key :
       WF_tqVars(FireWaiting(k) /\ UNCHANGED <<worker, item, shutdown>>)
  /\ WF_tqVars(ShutdownReturns)

TQSafe == TQInit /\ [][TQNext]_tqVars
TQSpec == TQSafe /\ TQFairness

-----------------------------------------------------------------------------
(* Every variable has its type: queue and channel hold keys only. *)
TQTypeOK ==
  /\ queue \in Seq(Key)
  /\ dirty \subseteq Key
  /\ processing \subseteq Key
  /\ waitingForAddCh \in Seq(Key)
  /\ waitingForQueue \subseteq Key
  /\ failures \in [Key -> 0..MaxRequeues]
  /\ shuttingDown \in BOOLEAN
  /\ worker \in [Worker -> WorkerSteps]
  /\ item \in [Worker -> Key \cup {NoKey}]
  /\ shutdown \in {"no", "draining", "returned"}

(* Two workers never work on the same key at the same time: this is what   *)
(* lets the manager's Start and Stop (manager.go) run without a lock per   *)
(* ProviderConfig.                                                         *)
KeySerialized ==
  \A v, w \in Worker : v # w /\ Holding(v) /\ Holding(w) => item[v] # item[w]

(* A key whose sync failed and was not forgotten is owed another sync: it  *)
(* waits in the delaying queue, in the queue, or is with a worker          *)
(* (runInternal's AddRateLimited before Done).                             *)
NoLostRetry ==
  \A k \in Key :
    failures[k] > 0 /\ ~shuttingDown => Waiting(k) \/ k \in dirty \cup processing

(* When Shutdown has returned, everything that was queued has been synced  *)
(* and no worker holds a key: the workers drain the queue before they exit.*)
DrainedWhenReturned ==
  shutdown = "returned" => queue = <<>> /\ dirty = {} /\ processing = {}

(* A worker has just taken k for a sync that sees everything that happened *)
(* before.                                                                 *)
Fresh(k) == k \in processing /\ k \notin dirty

(* Every key that was added is handed to a worker after it was added, also *)
(* when it was added during a sync of the same key, and every key whose    *)
(* sync failed is retried unless the queue shuts down.                     *)
EventuallySynced ==
  \A k \in Key :
    /\ (Spawned /\ k \in dirty) ~> (Fresh(k) \/ ~Spawned)
    /\ (Spawned /\ Waiting(k)) ~> (Fresh(k) \/ shuttingDown \/ ~Spawned)

(* Once the workers have been spawned, Shutdown returns.                   *)
ShutdownCompletes == (Spawned /\ shutdown = "draining") ~> shutdown # "draining"

(* What is beneath KeySerialized and DrainedWhenReturned: the queue holds  *)
(* each key once, exactly the dirty keys that no worker holds, and the     *)
(* processing set is what the workers hold.                                *)
QueueIsPending ==
  /\ \A i, j \in 1..Len(queue) : queue[i] = queue[j] => i = j
  /\ \A i \in 1..Len(queue) : queue[i] \in dirty \ processing
  /\ \A k \in dirty \ processing : \E i \in 1..Len(queue) : queue[i] = k

HoldersMatch ==
  /\ \A w \in Worker : Holding(w) => item[w] \in processing
  /\ \A k \in processing : \E w \in Worker : Holding(w) /\ item[w] = k
  /\ \A w \in Worker : ~Holding(w) => item[w] = NoKey

ExitsAreFinal ==
  /\ \A w \in Worker : worker[w] = "exited" => shuttingDown
  /\ shutdown # "no" => shuttingDown
  /\ shutdown = "returned" => \A w \in Worker : worker[w] = "exited"
  /\ (\A w \in Worker : worker[w] = "exited") => queue = <<>>

\* AddRateLimited comes before Done: the retry is on its way when the key is
\* given back.
RetryBeforeDone ==
  \A w \in Worker :
    worker[w] = "done" /\ failures[item[w]] > 0 /\ ~shuttingDown
      => Waiting(item[w]) \/ item[w] \in dirty

(* What the task queue relies on, all together: every key has one holder,  *)
(* the queue is exactly what is due, no retry is lost and workers leave an *)
(* empty queue.  It is the inductive invariant of TaskQueueProofs.         *)
TQInv ==
  /\ TQTypeOK
  /\ KeySerialized
  /\ QueueIsPending
  /\ HoldersMatch
  /\ ExitsAreFinal
  /\ NoLostRetry
  /\ RetryBeforeDone

=============================================================================
