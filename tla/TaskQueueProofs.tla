--------------------------- MODULE TaskQueueProofs ---------------------------
(***************************************************************************)
(* Proofs about TaskQueue, for any set of keys, any number of workers and  *)
(* any capacity of the delay channel.  TQInv is inductive: KeySerialized   *)
(* alone is not, since that a key is not handed out twice depends on the   *)
(* queue never holding a key that a worker holds (QueueIsPending), and     *)
(* that depends on the processing set being what the workers hold          *)
(* (HoldersMatch).                                                         *)
(***************************************************************************)
EXTENDS TaskQueue, TLAPS

-----------------------------------------------------------------------------
(* The type invariant. *)

(* Add leaves the types alone, whether it queues the key, marks it dirty   *)
(* or ignores it.                                                          *)
LEMMA AddType ==
  ASSUME NEW k \in Key, queue \in Seq(Key), dirty \subseteq Key, Add(k)
  PROVE  queue' \in Seq(Key) /\ dirty' \subseteq Key
BY DEF Add

LEMMA WaitingLoopType ==
  ASSUME TQTypeOK, WaitingLoop
  PROVE  TQTypeOK'
<1> USE DEF TQTypeOK
<1>1. CASE ReceiveWaiting /\ UNCHANGED <<worker, item, shutdown>>
  <2>1. Head(waitingForAddCh) \in Key /\ Tail(waitingForAddCh) \in Seq(Key)
    BY <1>1 DEF ReceiveWaiting
  <2>2. queue' \in Seq(Key) /\ dirty' \subseteq Key
    BY <1>1, <2>1, AddType DEF ReceiveWaiting
  <2>3. waitingForQueue' \subseteq Key
    BY <1>1, <2>1 DEF ReceiveWaiting
  <2>4. QED
    BY <1>1, <2>1, <2>2, <2>3 DEF ReceiveWaiting
<1>2. ASSUME NEW k \in Key, FireWaiting(k), UNCHANGED <<worker, item, shutdown>>
      PROVE  TQTypeOK'
  <2>1. queue' \in Seq(Key) /\ dirty' \subseteq Key
    BY <1>2, AddType DEF FireWaiting
  <2>2. QED
    BY <1>2, <2>1 DEF FireWaiting
<1>3. QED
  BY <1>1, <1>2 DEF WaitingLoop

LEMMA WorkerStepType ==
  ASSUME TQTypeOK, KeySerialized, HoldersMatch, NEW w \in Worker, WorkerStep(w)
  PROVE  TQTypeOK'
<1> USE DEF TQTypeOK, Moves, WorkerSteps
<1>1. Holding(w) => item[w] \in Key
  BY DEF HoldersMatch
<1>2. CASE GetItem(w)
  <2>1. Head(queue) \in Key /\ Tail(queue) \in Seq(Key)
    BY <1>2 DEF GetItem
  <2>2. QED
    BY <1>2, <2>1 DEF GetItem, Get, delayVars
<1>3. CASE Exit(w)
  BY <1>3 DEF Exit, wqVars, fifoVars, delayVars
<1>4. ASSUME NEW ok \in BOOLEAN, SyncReturns(w, ok)
      PROVE  TQTypeOK'
  BY <1>4 DEF SyncReturns, wqVars, fifoVars, delayVars
<1>5. CASE Requeue(w)
  <2>1. item[w] \in Key
    BY <1>1, <1>5 DEF Requeue, Holding
  <2>2. failures' \in [Key -> 0..MaxRequeues]
    BY <1>5, <2>1, WorkQueueAssumption DEF Requeue, AddRateLimited
  <2>3. waitingForAddCh' \in Seq(Key)
    BY <1>5, <2>1 DEF Requeue, AddRateLimited
  <2>4. QED
    BY <1>5, <2>2, <2>3 DEF Requeue, AddRateLimited, fifoVars
<1>6. CASE ForgetItem(w)
  <2>1. 0 \in 0..MaxRequeues
    BY WorkQueueAssumption
  <2>2. failures' \in [Key -> 0..MaxRequeues]
    BY <1>6, <2>1 DEF ForgetItem, Forget
  <2>3. QED
    BY <1>6, <2>2 DEF ForgetItem, fifoVars, delayVars
<1>7. CASE DoneItem(w)
  <2>1. item[w] \in Key
    BY <1>1, <1>7 DEF DoneItem, Holding
  <2>2. queue' \in Seq(Key)
    BY <1>7, <2>1 DEF DoneItem, Done
  <2>3. QED
    BY <1>7, <2>1, <2>2 DEF DoneItem, Done, delayVars
<1>8. QED
  BY <1>2, <1>3, <1>4, <1>5, <1>6, <1>7 DEF WorkerStep

-----------------------------------------------------------------------------
(* QueueIsPending. *)

(* Add keeps the queue what it should be: a key that a worker holds or     *)
(* that is queued already is not queued.                                   *)
LEMMA AddQueue ==
  ASSUME NEW k \in Key, TQTypeOK, QueueIsPending, Add(k), UNCHANGED processing
  PROVE  QueueIsPending'
<1>1. CASE shuttingDown \/ k \in dirty
  <2>1. UNCHANGED <<queue, dirty>>
    BY <1>1 DEF Add
  <2>2. QED
    BY <2>1 DEF QueueIsPending
<1>2. CASE ~shuttingDown /\ k \notin dirty /\ k \in processing
  <2>1. queue' = queue /\ dirty' = dirty \cup {k}
    BY <1>2 DEF Add
  <2>2. QED
    BY <1>2, <2>1 DEF QueueIsPending
<1>3. CASE ~shuttingDown /\ k \notin dirty /\ k \notin processing
  <2>1. queue' = Append(queue, k) /\ dirty' = dirty \cup {k}
    BY <1>3 DEF Add
  <2>2. /\ Len(queue') = Len(queue) + 1
        /\ Len(queue) \in Nat
        /\ queue'[Len(queue) + 1] = k
        /\ \A i \in 1..Len(queue) : queue'[i] = queue[i]
    BY <2>1 DEF TQTypeOK
  <2>3. \A i \in 1..Len(queue) : queue[i] # k
    BY <1>3 DEF QueueIsPending
  <2>4. \A i, j \in 1..Len(queue') : queue'[i] = queue'[j] => i = j
    BY <2>2, <2>3 DEF QueueIsPending
  <2>5. \A i \in 1..Len(queue') : queue'[i] \in dirty' \ processing'
    BY <1>3, <2>1, <2>2 DEF QueueIsPending
  <2>6. \A x \in dirty' \ processing' : \E i \in 1..Len(queue') : queue'[i] = x
    <3>1. SUFFICES ASSUME NEW x \in dirty' \ processing'
                   PROVE  \E i \in 1..Len(queue') : queue'[i] = x
      OBVIOUS
    <3>2. CASE x = k
      BY <2>2, <3>2
    <3>3. CASE x # k
      BY <2>1, <2>2, <3>1, <3>3 DEF QueueIsPending
    <3>4. QED
      BY <3>2, <3>3
  <2>7. QED
    BY <2>4, <2>5, <2>6 DEF QueueIsPending
<1>4. QED
  BY <1>1, <1>2, <1>3

(* Get takes a key that nobody holds and that is queued only once. *)
LEMMA GetQueue ==
  ASSUME TQTypeOK, QueueIsPending, queue # <<>>, Get(Head(queue))
  PROVE  QueueIsPending' /\ Head(queue) \in Key \ processing
<1>1. /\ Len(queue) \in Nat \ {0}
      /\ Len(queue') = Len(queue) - 1
      /\ Head(queue) = queue[1]
      /\ Head(queue) \in Key
      /\ \A i \in 1..Len(queue') : queue'[i] = queue[i + 1]
  BY DEF TQTypeOK, Get
<1>2. /\ processing' = processing \cup {queue[1]}
      /\ dirty' = dirty \ {queue[1]}
  BY <1>1 DEF Get
<1>3. \A i, j \in 1..Len(queue') : queue'[i] = queue'[j] => i = j
  BY <1>1 DEF QueueIsPending
<1>4. \A i \in 1..Len(queue') : queue[i + 1] # queue[1]
  BY <1>1 DEF QueueIsPending
<1>5. \A i \in 1..Len(queue') : queue'[i] \in dirty' \ processing'
  BY <1>1, <1>2, <1>4 DEF QueueIsPending
<1>6. \A x \in dirty' \ processing' : \E i \in 1..Len(queue') : queue'[i] = x
  <2>1. SUFFICES ASSUME NEW x \in dirty' \ processing'
                 PROVE  \E i \in 1..Len(queue') : queue'[i] = x
    OBVIOUS
  <2>2. PICK j \in 1..Len(queue) : queue[j] = x
    BY <1>2, <2>1 DEF QueueIsPending
  <2>3. j # 1
    BY <1>2, <2>1, <2>2
  <2>4. j - 1 \in 1..Len(queue') /\ queue'[j - 1] = x
    BY <1>1, <2>2, <2>3
  <2>5. QED
    BY <2>4
<1>7. QED
  BY <1>1, <1>3, <1>5, <1>6 DEF QueueIsPending

(* Done queues a key again only if it became dirty in the meantime. *)
LEMMA DoneQueue ==
  ASSUME NEW k \in processing, TQTypeOK, QueueIsPending, Done(k)
  PROVE  QueueIsPending'
<1>1. CASE k \notin dirty
  BY <1>1 DEF Done, QueueIsPending
<1>2. CASE k \in dirty
  <2>1. queue' = Append(queue, k) /\ dirty' = dirty /\ processing' = processing \ {k}
    BY <1>2 DEF Done
  <2>2. /\ Len(queue') = Len(queue) + 1
        /\ Len(queue) \in Nat
        /\ queue'[Len(queue) + 1] = k
        /\ \A i \in 1..Len(queue) : queue'[i] = queue[i]
    BY <2>1 DEF TQTypeOK
  <2>3. \A i \in 1..Len(queue) : queue[i] # k
    BY DEF QueueIsPending
  <2>4. \A i, j \in 1..Len(queue') : queue'[i] = queue'[j] => i = j
    BY <2>2, <2>3 DEF QueueIsPending
  <2>5. \A i \in 1..Len(queue') : queue'[i] \in dirty' \ processing'
    BY <1>2, <2>1, <2>2 DEF QueueIsPending
  <2>6. \A x \in dirty' \ processing' : \E i \in 1..Len(queue') : queue'[i] = x
    <3>1. SUFFICES ASSUME NEW x \in dirty' \ processing'
                   PROVE  \E i \in 1..Len(queue') : queue'[i] = x
      OBVIOUS
    <3>2. CASE x = k
      BY <2>2, <3>2
    <3>3. CASE x # k
      BY <2>1, <2>2, <3>1, <3>3 DEF QueueIsPending
    <3>4. QED
      BY <3>2, <3>3
  <2>7. QED
    BY <2>4, <2>5, <2>6 DEF QueueIsPending
<1>3. QED
  BY <1>1, <1>2

-----------------------------------------------------------------------------
(* The conjuncts of TQInv about workers. *)

(* A step that changes no worker, no item and neither processing nor       *)
(* shutdown keeps what is said about workers.                              *)
LEMMA WorkersUnchanged ==
  ASSUME KeySerialized, HoldersMatch, UNCHANGED <<worker, item, processing>>
  PROVE  KeySerialized' /\ HoldersMatch'
BY DEF KeySerialized, HoldersMatch, Holding

(* Add queues nothing once the queue shuts down, so workers that have      *)
(* exited have left an empty queue.                                        *)
LEMMA AddExits ==
  ASSUME NEW k \in Key, TQTypeOK, ExitsAreFinal, Add(k),
         UNCHANGED <<worker, shutdown, shuttingDown>>
  PROVE  ExitsAreFinal'
<1>1. CASE shuttingDown
  <2>1. queue' = queue
    BY <1>1 DEF Add
  <2>2. QED
    BY <1>1, <2>1 DEF ExitsAreFinal
<1>2. CASE ~shuttingDown
  <2>1. \A w \in Worker : worker[w] # "exited"
    BY <1>2 DEF ExitsAreFinal
  <2>2. PICK w \in Worker : worker'[w] # "exited"
    BY <2>1, TaskQueueAssumption
  <2>3. shutdown = "no"
    BY <1>2 DEF ExitsAreFinal
  <2>4. QED
    BY <2>1, <2>2, <2>3 DEF ExitsAreFinal
<1>3. QED
  BY <1>1, <1>2

(* Add never takes a key away. *)
LEMMA AddRetry ==
  ASSUME NEW k \in Key, NoLostRetry, RetryBeforeDone, Add(k),
         UNCHANGED <<worker, item, processing, waitingForAddCh, waitingForQueue,
                     failures, shuttingDown>>
  PROVE  NoLostRetry' /\ RetryBeforeDone'
<1>1. dirty \subseteq dirty'
  BY DEF Add
<1>2. \A x : Waiting(x)' <=> Waiting(x)
  BY DEF Waiting
<1>3. QED
  BY <1>1, <1>2 DEF NoLostRetry, RetryBeforeDone

(* What TQInv says beyond types. *)
Sound ==
  /\ KeySerialized
  /\ QueueIsPending
  /\ HoldersMatch
  /\ ExitsAreFinal
  /\ NoLostRetry
  /\ RetryBeforeDone

LEMMA GetItemInv ==
  ASSUME TQInv, NEW w \in Worker, GetItem(w)
  PROVE  Sound'
<1> DEFINE k == Head(queue)
<1>1. QueueIsPending' /\ k \in Key \ processing
  BY GetQueue DEF GetItem, TQInv
<1>2. /\ worker[w] = "get"
      /\ worker' = [worker EXCEPT ![w] = "sync"]
      /\ item' = [item EXCEPT ![w] = k]
      /\ processing' = processing \cup {k}
      /\ dirty' = dirty \ {k}
      /\ UNCHANGED <<waitingForAddCh, waitingForQueue, failures, shuttingDown, shutdown>>
  BY DEF GetItem, Get, Moves, delayVars
<1>3. /\ worker \in [Worker -> WorkerSteps]
      /\ item \in [Worker -> Key \cup {NoKey}]
  BY DEF TQInv, TQTypeOK
<1>4. /\ Holding(w)' /\ ~Holding(w)
      /\ item'[w] = k
      /\ \A v \in Worker \ {w} : (Holding(v)' <=> Holding(v)) /\ item'[v] = item[v]
  BY <1>2, <1>3 DEF Holding
<1> HIDE DEF k
<1>5. \A v \in Worker \ {w} : Holding(v) => item[v] # k
  BY <1>1 DEF TQInv, HoldersMatch
<1>6. KeySerialized'
  BY <1>4, <1>5 DEF TQInv, KeySerialized
<1>7. HoldersMatch'
  BY <1>2, <1>4 DEF TQInv, HoldersMatch
<1>8. ExitsAreFinal'
  <2>1. \A v \in Worker : worker'[v] = "exited" => worker[v] = "exited"
    BY <1>2, <1>3
  <2>2. worker'[w] # "exited" /\ worker[w] # "exited"
    BY <1>2, <1>3
  <2>3. QED
    BY <1>2, <2>1, <2>2 DEF TQInv, ExitsAreFinal
<1>9. \A x : Waiting(x)' <=> Waiting(x)
  BY <1>2 DEF Waiting
<1>10. NoLostRetry'
  BY <1>2, <1>9 DEF TQInv, NoLostRetry
<1>11. RetryBeforeDone'
  <2>1. worker'[w] # "done"
    BY <1>2, <1>3
  <2>2. \A v \in Worker \ {w} : worker'[v] = worker[v]
    BY <1>2, <1>3
  <2>3. \A v \in Worker \ {w} : worker[v] = "done" => item[v] # k
    BY <1>5 DEF Holding
  <2>4. QED
    BY <1>2, <1>4, <1>9, <2>1, <2>2, <2>3 DEF TQInv, RetryBeforeDone
<1>12. QED
  BY <1>1, <1>6, <1>7, <1>8, <1>10, <1>11 DEF Sound

LEMMA ExitInv ==
  ASSUME TQInv, NEW w \in Worker, Exit(w)
  PROVE  Sound'
<1>1. /\ worker[w] = "get"
      /\ worker' = [worker EXCEPT ![w] = "exited"]
      /\ queue = <<>>
      /\ shuttingDown
      /\ UNCHANGED <<queue, dirty, processing, waitingForAddCh, waitingForQueue>>
      /\ UNCHANGED <<failures, shuttingDown, item, shutdown>>
  BY DEF Exit, Moves, wqVars, fifoVars, delayVars
<1>2. worker \in [Worker -> WorkerSteps]
  BY DEF TQInv, TQTypeOK
<1>3. \A v \in Worker : Holding(v)' <=> Holding(v)
  BY <1>1, <1>2 DEF Holding
<1>4. KeySerialized' /\ HoldersMatch'
  BY <1>1, <1>3 DEF TQInv, KeySerialized, HoldersMatch
<1>5. QueueIsPending'
  BY <1>1 DEF TQInv, QueueIsPending
<1>6. ExitsAreFinal'
  <2>1. worker[w] # "exited" /\ \A v \in Worker \ {w} : worker'[v] = worker[v]
    BY <1>1, <1>2
  <2>2. shutdown # "returned"
    BY <2>1 DEF TQInv, ExitsAreFinal
  <2>3. QED
    BY <1>1, <2>1, <2>2 DEF TQInv, ExitsAreFinal
<1>7. NoLostRetry' /\ RetryBeforeDone'
  BY <1>1 DEF NoLostRetry, RetryBeforeDone
<1>8. QED
  BY <1>4, <1>5, <1>6, <1>7 DEF Sound

(* A step in which worker w goes on with the key it holds: the queue       *)
(* proper, the items and shutdown stay.                                    *)
Proceeds(w) ==
  /\ Holding(w)
  /\ \E s \in {"requeue", "forget", "done"} : worker' = [worker EXCEPT ![w] = s]
  /\ UNCHANGED <<queue, dirty, processing, item, shuttingDown, shutdown>>

LEMMA ProceedsInv ==
  ASSUME TQInv, NEW w \in Worker, Proceeds(w)
  PROVE  /\ KeySerialized' /\ QueueIsPending' /\ HoldersMatch' /\ ExitsAreFinal'
         /\ \A v \in Worker \ {w} : worker'[v] = worker[v]
<1>1. PICK s \in {"requeue", "forget", "done"} : worker' = [worker EXCEPT ![w] = s]
  BY DEF Proceeds
<1>2. UNCHANGED <<queue, dirty, processing, item, shuttingDown, shutdown>>
  BY DEF Proceeds
<1>3. worker \in [Worker -> WorkerSteps]
  BY DEF TQInv, TQTypeOK
<1>4. \A v \in Worker : Holding(v)' <=> Holding(v)
  BY <1>1, <1>3 DEF Holding, Proceeds
<1>5. KeySerialized' /\ HoldersMatch'
  BY <1>2, <1>4 DEF TQInv, KeySerialized, HoldersMatch
<1>6. QueueIsPending'
  BY <1>2 DEF TQInv, QueueIsPending
<1>7. ExitsAreFinal'
  <2>1. \A v \in Worker : worker'[v] = "exited" <=> worker[v] = "exited"
    BY <1>1, <1>3 DEF Holding, Proceeds
  <2>2. QED
    BY <1>2, <2>1 DEF TQInv, ExitsAreFinal
<1>8. QED
  BY <1>1, <1>3, <1>5, <1>6, <1>7

LEMMA SyncReturnsInv ==
  ASSUME TQInv, NEW w \in Worker, NEW ok \in BOOLEAN, SyncReturns(w, ok)
  PROVE  Sound'
<1>1. /\ worker[w] = "sync"
      /\ worker' = [worker EXCEPT ![w] = IF ok THEN "forget" ELSE "requeue"]
      /\ UNCHANGED <<queue, dirty, processing, waitingForAddCh, waitingForQueue>>
      /\ UNCHANGED <<failures, shuttingDown, item, shutdown>>
  BY DEF SyncReturns, Moves, wqVars, fifoVars, delayVars
<1>2. Proceeds(w)
  BY <1>1 DEF Proceeds, Holding
<1>3. \A x : Waiting(x)' <=> Waiting(x)
  BY <1>1 DEF Waiting
<1>4. worker'[w] # "done"
  BY <1>1 DEF TQInv, TQTypeOK
<1>5. NoLostRetry' /\ RetryBeforeDone'
  BY <1>1, <1>2, <1>3, <1>4, ProceedsInv DEF TQInv, NoLostRetry, RetryBeforeDone
<1>6. QED
  BY <1>2, <1>5, ProceedsInv DEF Sound

LEMMA RequeueInv ==
  ASSUME TQInv, NEW w \in Worker, Requeue(w)
  PROVE  Sound'
<1> DEFINE k == item[w]
<1>1. /\ worker[w] = "requeue"
      /\ worker' = [worker EXCEPT ![w] = "done"]
      /\ UNCHANGED <<queue, dirty, processing, waitingForQueue>>
      /\ UNCHANGED <<shuttingDown, item, shutdown>>
  BY DEF Requeue, AddRateLimited, Moves, fifoVars
<1>2. Proceeds(w)
  BY <1>1 DEF Proceeds, Holding
<1>3. k \in processing /\ k \in Key
  BY <1>1 DEF TQInv, TQTypeOK, HoldersMatch, Holding
<1>4. \A x \in Key : x # k => failures'[x] = failures[x]
  BY <1>3 DEF Requeue, AddRateLimited, TQInv, TQTypeOK
<1>5. ~shuttingDown => /\ Waiting(k)'
                       /\ \A x : Waiting(x) => Waiting(x)'
  <2>1. SUFFICES ASSUME ~shuttingDown
                 PROVE  Waiting(k)' /\ \A x : Waiting(x) => Waiting(x)'
    OBVIOUS
  <2>2. waitingForAddCh' = Append(waitingForAddCh, k)
    BY <2>1 DEF Requeue, AddRateLimited
  <2>3. /\ Len(waitingForAddCh) \in Nat
        /\ Len(waitingForAddCh') = Len(waitingForAddCh) + 1
        /\ waitingForAddCh'[Len(waitingForAddCh) + 1] = k
        /\ \A i \in 1..Len(waitingForAddCh) : waitingForAddCh'[i] = waitingForAddCh[i]
    BY <1>3, <2>2 DEF TQInv, TQTypeOK
  <2>4. QED
    BY <1>1, <2>3 DEF Waiting
<1>6. NoLostRetry'
  BY <1>1, <1>3, <1>4, <1>5 DEF TQInv, NoLostRetry
<1>7. RetryBeforeDone'
  <2>1. SUFFICES ASSUME NEW v \in Worker, worker'[v] = "done",
                        failures'[item'[v]] > 0, ~shuttingDown'
                 PROVE  Waiting(item[v])' \/ item'[v] \in dirty'
    BY DEF RetryBeforeDone
  <2>2. CASE v = w
    BY <1>1, <1>5, <2>1, <2>2
  <2>3. CASE v # w
    <3>1. worker[v] = "done" /\ item[v] \in Key
      BY <1>2, <2>1, <2>3, ProceedsInv DEF TQInv, TQTypeOK, HoldersMatch, Holding
    <3>2. item[v] # k
      BY <1>1, <2>3, <3>1 DEF TQInv, KeySerialized, Holding
    <3>3. QED
      BY <1>1, <1>4, <1>5, <2>1, <3>1, <3>2 DEF TQInv, RetryBeforeDone
  <2>4. QED
    BY <2>2, <2>3
<1>8. QED
  BY <1>2, <1>6, <1>7, ProceedsInv DEF Sound

LEMMA ForgetItemInv ==
  ASSUME TQInv, NEW w \in Worker, ForgetItem(w)
  PROVE  Sound'
<1> DEFINE k == item[w]
<1>1. /\ worker[w] = "forget"
      /\ worker' = [worker EXCEPT ![w] = "done"]
      /\ failures' = [failures EXCEPT ![k] = 0]
      /\ UNCHANGED <<queue, dirty, processing, waitingForAddCh, waitingForQueue>>
      /\ UNCHANGED <<shuttingDown, item, shutdown>>
  BY DEF ForgetItem, Forget, Moves, fifoVars, delayVars
<1>2. Proceeds(w)
  BY <1>1 DEF Proceeds, Holding
<1>3. k \in Key
  BY <1>1 DEF TQInv, TQTypeOK, HoldersMatch, Holding
<1>4. failures'[k] = 0 /\ \A x \in Key : x # k => failures'[x] = failures[x]
  BY <1>1, <1>3 DEF TQInv, TQTypeOK
<1>5. \A x : Waiting(x)' <=> Waiting(x)
  BY <1>1 DEF Waiting
<1>6. NoLostRetry'
  BY <1>1, <1>4, <1>5 DEF TQInv, NoLostRetry
<1>7. RetryBeforeDone'
  <2>1. SUFFICES ASSUME NEW v \in Worker, worker'[v] = "done",
                        failures'[item'[v]] > 0, ~shuttingDown'
                 PROVE  Waiting(item[v])' \/ item'[v] \in dirty'
    BY DEF RetryBeforeDone
  <2>2. v # w
    BY <1>1, <1>4, <2>1
  <2>3. worker[v] = "done" /\ item[v] \in Key
    BY <1>2, <2>1, <2>2, ProceedsInv DEF TQInv, TQTypeOK, HoldersMatch, Holding
  <2>4. item[v] # k
    BY <1>1, <2>2, <2>3 DEF TQInv, KeySerialized, Holding
  <2>5. QED
    BY <1>1, <1>4, <1>5, <2>1, <2>3, <2>4 DEF TQInv, RetryBeforeDone
<1>8. QED
  BY <1>2, <1>6, <1>7, ProceedsInv DEF Sound

LEMMA DoneItemInv ==
  ASSUME TQInv, NEW w \in Worker, DoneItem(w)
  PROVE  Sound'
<1> DEFINE k == item[w]
<1>1. /\ worker[w] = "done"
      /\ worker' = [worker EXCEPT ![w] = "get"]
      /\ item' = [item EXCEPT ![w] = NoKey]
      /\ processing' = processing \ {k}
      /\ UNCHANGED <<dirty, waitingForAddCh, waitingForQueue>>
      /\ UNCHANGED <<failures, shuttingDown, shutdown>>
  BY DEF DoneItem, Done, Moves, delayVars
<1>2. Holding(w) /\ k \in processing /\ k \in Key
  BY <1>1 DEF TQInv, TQTypeOK, HoldersMatch, Holding
<1>3. /\ worker \in [Worker -> WorkerSteps]
      /\ item \in [Worker -> Key \cup {NoKey}]
  BY DEF TQInv, TQTypeOK
<1>4. /\ ~Holding(w)' /\ item'[w] = NoKey
      /\ \A v \in Worker \ {w} : /\ Holding(v)' <=> Holding(v)
                                 /\ item'[v] = item[v]
                                 /\ worker'[v] = worker[v]
  BY <1>1, <1>3 DEF Holding
<1>5. QueueIsPending'
  BY <1>2, DoneQueue DEF TQInv, DoneItem
<1> HIDE DEF k
<1>6. \A v \in Worker \ {w} : Holding(v) => item[v] # k
  BY <1>2 DEF TQInv, KeySerialized, k
<1>7. KeySerialized'
  BY <1>4 DEF TQInv, KeySerialized
<1>8. HoldersMatch'
  <2>1. \A v \in Worker : Holding(v)' => item'[v] \in processing'
    BY <1>1, <1>4, <1>6 DEF TQInv, HoldersMatch
  <2>2. \A x \in processing' : \E v \in Worker : Holding(v)' /\ item'[v] = x
    <3>1. SUFFICES ASSUME NEW x \in processing'
                   PROVE  \E v \in Worker : Holding(v)' /\ item'[v] = x
      OBVIOUS
    <3>2. PICK v \in Worker : Holding(v) /\ item[v] = x
      BY <1>1, <3>1 DEF TQInv, HoldersMatch
    <3>3. v # w
      BY <1>1, <3>1, <3>2 DEF k
    <3>4. QED
      BY <1>4, <3>2, <3>3
  <2>3. \A v \in Worker : ~Holding(v)' => item'[v] = NoKey
    BY <1>4 DEF TQInv, HoldersMatch
  <2>4. QED
    BY <2>1, <2>2, <2>3 DEF HoldersMatch
<1>9. ExitsAreFinal'
  <2>1. worker[w] # "exited" /\ worker'[w] # "exited"
    BY <1>1, <1>3
  <2>2. QED
    BY <1>1, <1>4, <2>1 DEF TQInv, ExitsAreFinal
<1>10. \A x : Waiting(x)' <=> Waiting(x)
  BY <1>1 DEF Waiting
<1>11. failures[k] > 0 /\ ~shuttingDown => Waiting(k) \/ k \in dirty
  BY <1>1 DEF TQInv, RetryBeforeDone, k
<1>12. NoLostRetry'
  BY <1>1, <1>10, <1>11 DEF TQInv, NoLostRetry
<1>13. RetryBeforeDone'
  <2>1. worker'[w] # "done"
    BY <1>1, <1>3
  <2>2. QED
    BY <1>1, <1>4, <1>10, <2>1 DEF TQInv, RetryBeforeDone
<1>14. QED
  BY <1>5, <1>7, <1>8, <1>9, <1>12, <1>13 DEF Sound

-----------------------------------------------------------------------------
(* Steps of the environment and of the waiting loop. *)

LEMMA EnqueueInv ==
  ASSUME TQInv, NEW k \in Key, Enqueue(k)
  PROVE  TQTypeOK' /\ Sound'
<1>1. /\ Add(k)
      /\ UNCHANGED <<processing, waitingForAddCh, waitingForQueue, failures>>
      /\ UNCHANGED <<shuttingDown, worker, item, shutdown>>
  BY DEF Enqueue, delayVars
<1>2. TQTypeOK'
  BY <1>1, AddType DEF TQInv, TQTypeOK
<1>3. QueueIsPending' /\ ExitsAreFinal' /\ NoLostRetry' /\ RetryBeforeDone'
  BY <1>1, AddQueue, AddExits, AddRetry DEF TQInv
<1>4. QED
  BY <1>1, <1>2, <1>3, WorkersUnchanged DEF TQInv, Sound

LEMMA WaitingLoopInv ==
  ASSUME TQInv, WaitingLoop
  PROVE  Sound'
<1>1. ASSUME NEW k \in Key, FireWaiting(k), UNCHANGED <<worker, item, shutdown>>
      PROVE  Sound'
  <2>1. /\ Add(k)
        /\ ~shuttingDown
        /\ waitingForQueue' = waitingForQueue \ {k}
        /\ UNCHANGED <<processing, waitingForAddCh, failures, shuttingDown>>
    BY <1>1 DEF FireWaiting
  <2>2. dirty' = dirty \cup {k}
    BY <2>1 DEF Add
  <2>3. \A x : Waiting(x) => Waiting(x)' \/ x = k
    BY <2>1 DEF Waiting
  <2>4. NoLostRetry' /\ RetryBeforeDone'
    BY <1>1, <2>1, <2>2, <2>3 DEF TQInv, NoLostRetry, RetryBeforeDone
  <2>5. QueueIsPending' /\ ExitsAreFinal'
    BY <1>1, <2>1, AddQueue, AddExits DEF TQInv
  <2>6. QED
    BY <1>1, <2>1, <2>4, <2>5, WorkersUnchanged DEF TQInv, Sound
<1>2. ASSUME ReceiveWaiting, UNCHANGED <<worker, item, shutdown>>
      PROVE  Sound'
  <2> DEFINE k == Head(waitingForAddCh)
  <2>1. /\ ~shuttingDown
        /\ waitingForAddCh # <<>>
        /\ waitingForAddCh' = Tail(waitingForAddCh)
        /\ UNCHANGED <<processing, failures, shuttingDown>>
    BY <1>2 DEF ReceiveWaiting
  <2>2. /\ k \in Key
        /\ \A i \in 1..Len(waitingForAddCh) :
             waitingForAddCh[i] # k =>
               \E j \in 1..Len(waitingForAddCh') : waitingForAddCh'[j] = waitingForAddCh[i]
    <3>1. /\ Len(waitingForAddCh) \in Nat \ {0}
          /\ Len(waitingForAddCh') = Len(waitingForAddCh) - 1
          /\ k = waitingForAddCh[1]
          /\ k \in Key
          /\ \A j \in 1..Len(waitingForAddCh') : waitingForAddCh'[j] = waitingForAddCh[j + 1]
      BY <2>1 DEF TQInv, TQTypeOK
    <3>2. SUFFICES ASSUME NEW i \in 1..Len(waitingForAddCh), waitingForAddCh[i] # k
                   PROVE  \E j \in 1..Len(waitingForAddCh') :
                            waitingForAddCh'[j] = waitingForAddCh[i]
      BY <3>1
    <3>3. i - 1 \in 1..Len(waitingForAddCh') /\ waitingForAddCh'[i - 1] = waitingForAddCh[i]
      BY <3>1, <3>2
    <3>4. QED
      BY <3>3
  <2> HIDE DEF k
  <2>3. CASE waitingForQueue' = waitingForQueue \cup {k} /\ UNCHANGED <<queue, dirty>>
    <3>1. \A x : Waiting(x) => Waiting(x)'
      BY <2>2, <2>3 DEF Waiting
    <3>2. NoLostRetry' /\ RetryBeforeDone'
      BY <1>2, <2>1, <2>3, <3>1 DEF TQInv, NoLostRetry, RetryBeforeDone
    <3>3. QueueIsPending' /\ ExitsAreFinal'
      BY <1>2, <2>1, <2>3 DEF TQInv, QueueIsPending, ExitsAreFinal
    <3>4. QED
      BY <1>2, <2>1, <3>2, <3>3, WorkersUnchanged DEF TQInv, Sound
  <2>4. CASE Add(k) /\ UNCHANGED waitingForQueue
    <3>1. dirty' = dirty \cup {k}
      BY <2>1, <2>4 DEF Add
    <3>2. \A x : Waiting(x) => Waiting(x)' \/ x = k
      BY <2>2, <2>4 DEF Waiting
    <3>3. NoLostRetry' /\ RetryBeforeDone'
      BY <1>2, <2>1, <3>1, <3>2 DEF TQInv, NoLostRetry, RetryBeforeDone
    <3>4. QueueIsPending' /\ ExitsAreFinal'
      BY <1>2, <2>1, <2>2, <2>4, AddQueue, AddExits DEF TQInv
    <3>5. QED
      BY <1>2, <2>1, <3>3, <3>4, WorkersUnchanged DEF TQInv, Sound
  <2>5. QED
    BY <1>2, <2>3, <2>4 DEF ReceiveWaiting, k
<1>3. QED
  BY <1>1, <1>2 DEF WaitingLoop

LEMMA RunInv ==
  ASSUME TQInv, Run
  PROVE  TQTypeOK' /\ Sound'
<1>1. /\ \A w \in Worker : worker[w] = "off" /\ worker'[w] = "get"
      /\ worker' \in [Worker -> WorkerSteps]
      /\ UNCHANGED <<queue, dirty, processing, waitingForAddCh, waitingForQueue>>
      /\ UNCHANGED <<failures, shuttingDown, item, shutdown>>
  BY DEF Run, WorkerSteps, wqVars, fifoVars, delayVars
<1>2. TQTypeOK'
  BY <1>1 DEF TQInv, TQTypeOK
<1>3. \A w \in Worker : ~Holding(w) /\ ~Holding(w)'
  BY <1>1 DEF Holding
<1>4. KeySerialized' /\ HoldersMatch'
  BY <1>1, <1>3 DEF TQInv, KeySerialized, HoldersMatch
<1>5. QueueIsPending'
  BY <1>1 DEF TQInv, QueueIsPending
<1>6. ExitsAreFinal'
  <2>1. PICK w \in Worker : worker[w] # "exited" /\ worker'[w] # "exited"
    BY <1>1, TaskQueueAssumption
  <2>2. QED
    BY <1>1, <2>1 DEF TQInv, ExitsAreFinal
<1>7. NoLostRetry' /\ RetryBeforeDone'
  <2>1. \A x : Waiting(x)' <=> Waiting(x)
    BY <1>1 DEF Waiting
  <2>2. QED
    BY <1>1, <2>1 DEF TQInv, NoLostRetry, RetryBeforeDone
<1>8. QED
  BY <1>2, <1>4, <1>5, <1>6, <1>7 DEF Sound

LEMMA ShutdownInv ==
  ASSUME TQInv, Shutdown \/ ShutdownReturns
  PROVE  TQTypeOK' /\ Sound'
<1>1. CASE Shutdown
  <2>1. /\ shuttingDown' = TRUE
        /\ shutdown' = "draining"
        /\ waitingForAddCh' = <<>>
        /\ waitingForQueue' = {}
        /\ UNCHANGED <<queue, dirty, processing, failures, worker, item>>
    BY <1>1 DEF Shutdown, ShutDown, fifoVars
  <2>2. TQTypeOK'
    BY <2>1 DEF TQInv, TQTypeOK
  <2>3. QueueIsPending' /\ ExitsAreFinal'
    BY <2>1 DEF TQInv, QueueIsPending, ExitsAreFinal
  <2>4. NoLostRetry' /\ RetryBeforeDone'
    BY <2>1 DEF NoLostRetry, RetryBeforeDone
  <2>5. QED
    BY <2>1, <2>2, <2>3, <2>4, WorkersUnchanged DEF TQInv, Sound
<1>2. CASE ShutdownReturns
  <2>1. /\ shutdown = "draining"
        /\ shutdown' = "returned"
        /\ \A w \in Worker : worker[w] = "exited"
        /\ UNCHANGED <<queue, dirty, processing, waitingForAddCh, waitingForQueue>>
        /\ UNCHANGED <<failures, shuttingDown, worker, item>>
    BY <1>2 DEF ShutdownReturns, wqVars, fifoVars, delayVars
  <2>2. TQTypeOK'
    BY <2>1 DEF TQInv, TQTypeOK
  <2>3. QueueIsPending' /\ ExitsAreFinal'
    BY <2>1 DEF TQInv, QueueIsPending, ExitsAreFinal
  <2>4. \A x : Waiting(x)' <=> Waiting(x)
    BY <2>1 DEF Waiting
  <2>5. NoLostRetry' /\ RetryBeforeDone'
    BY <2>1, <2>4 DEF TQInv, NoLostRetry, RetryBeforeDone
  <2>6. QED
    BY <2>1, <2>2, <2>3, <2>5, WorkersUnchanged DEF TQInv, Sound
<1>3. QED
  BY <1>1, <1>2

(* The initial state, and the state after a restart. *)
LEMMA InitInv ==
  ASSUME TQInit
  PROVE  TQInv
<1> USE DEF TQInit, WQInit
<1>1. \A w \in Worker : worker[w] = "off" /\ item[w] = NoKey
  OBVIOUS
<1>2. TQTypeOK
  <2>1. 0 \in 0..MaxRequeues
    BY WorkQueueAssumption
  <2>2. failures \in [Key -> 0..MaxRequeues]
    BY <2>1
  <2>3. worker \in [Worker -> WorkerSteps]
    BY DEF WorkerSteps
  <2>4. item \in [Worker -> Key \cup {NoKey}]
    OBVIOUS
  <2>5. queue \in Seq(Key) /\ waitingForAddCh \in Seq(Key)
    OBVIOUS
  <2>6. QED
    BY <2>2, <2>3, <2>4, <2>5 DEF TQTypeOK
<1>3. KeySerialized /\ HoldersMatch
  BY <1>1 DEF KeySerialized, HoldersMatch, Holding
<1>4. QueueIsPending
  BY DEF QueueIsPending
<1>5. ExitsAreFinal
  BY <1>1 DEF ExitsAreFinal
<1>6. NoLostRetry /\ RetryBeforeDone
  BY <1>1 DEF NoLostRetry, RetryBeforeDone
<1>7. QED
  BY <1>2, <1>3, <1>4, <1>5, <1>6 DEF TQInv

LEMMA RestartInv ==
  ASSUME Restart
  PROVE  TQInv'
<1> USE DEF Restart
<1>1. \A w \in Worker : worker'[w] = "off" /\ item'[w] = NoKey
  OBVIOUS
<1>2. TQTypeOK'
  <2>1. 0 \in 0..MaxRequeues
    BY WorkQueueAssumption
  <2>2. failures' \in [Key -> 0..MaxRequeues]
    BY <2>1
  <2>3. worker' \in [Worker -> WorkerSteps]
    BY DEF WorkerSteps
  <2>4. item' \in [Worker -> Key \cup {NoKey}]
    OBVIOUS
  <2>5. queue' \in Seq(Key) /\ waitingForAddCh' \in Seq(Key)
    OBVIOUS
  <2>6. QED
    BY <2>2, <2>3, <2>4, <2>5 DEF TQTypeOK
<1>3. KeySerialized' /\ HoldersMatch'
  BY <1>1 DEF KeySerialized, HoldersMatch, Holding
<1>4. QueueIsPending'
  BY DEF QueueIsPending
<1>5. ExitsAreFinal'
  BY <1>1 DEF ExitsAreFinal
<1>6. NoLostRetry' /\ RetryBeforeDone'
  BY <1>1 DEF NoLostRetry, RetryBeforeDone
<1>7. QED
  BY <1>2, <1>3, <1>4, <1>5, <1>6 DEF TQInv

-----------------------------------------------------------------------------
LEMMA StepInv ==
  ASSUME TQInv, [TQNext]_tqVars
  PROVE  TQInv'
<1>0. SUFFICES TQTypeOK' /\ Sound'
  BY DEF TQInv, Sound
<1>1. ASSUME NEW k \in Key, Enqueue(k) PROVE TQTypeOK' /\ Sound'
  BY <1>1, EnqueueInv
<1>2. CASE Run
  BY <1>2, RunInv
<1>3. ASSUME NEW w \in Worker, WorkerStep(w) PROVE TQTypeOK' /\ Sound'
  <2>1. TQTypeOK'
    BY <1>3, WorkerStepType DEF TQInv
  <2>2. Sound'
    BY <1>3, GetItemInv, ExitInv, SyncReturnsInv, RequeueInv, ForgetItemInv, DoneItemInv
    DEF WorkerStep
  <2>3. QED
    BY <2>1, <2>2
<1>4. CASE Shutdown \/ ShutdownReturns
  BY <1>4, ShutdownInv
<1>5. CASE WaitingLoop
  BY <1>5, WaitingLoopType, WaitingLoopInv DEF TQInv
<1>6. CASE Restart
  BY <1>6, RestartInv DEF TQInv, Sound
<1>7. CASE UNCHANGED tqVars
  BY <1>7 DEF tqVars, wqVars, fifoVars, delayVars, TQInv, Sound, TQTypeOK, KeySerialized,
     QueueIsPending, HoldersMatch, ExitsAreFinal, NoLostRetry, RetryBeforeDone, Holding, Waiting
<1>8. QED
  BY <1>1, <1>2, <1>3, <1>4, <1>5, <1>6, <1>7 DEF TQNext

(* TQInv holds in every reachable state of the task queue, with any number *)
(* of keys and workers.                                                    *)
THEOREM TaskQueueInvariant == TQSafe => []TQInv
<1>1. TQInit => TQInv
  BY InitInv
<1>2. TQInv /\ [TQNext]_tqVars => TQInv'
  BY StepInv
<1>3. QED
  BY <1>1, <1>2, PTL DEF TQSafe

(* Two workers never hold the same key, so sync is never called twice at   *)
(* once for a ProviderConfig.                                              *)
THEOREM KeysAreSerialized == TQSafe => []KeySerialized
<1>1. TQInv => KeySerialized
  BY DEF TQInv
<1>2. QED
  BY <1>1, TaskQueueInvariant, PTL

(* A key whose sync failed is never forgotten before a sync of it          *)
(* succeeds or the queue shuts down.                                       *)
THEOREM RetriesAreNotLost == TQSafe => []NoLostRetry
<1>1. TQInv => NoLostRetry
  BY DEF TQInv
<1>2. QED
  BY <1>1, TaskQueueInvariant, PTL

(* When Shutdown has returned the queue is empty, nothing is dirty and no  *)
(* worker holds a key.                                                     *)
THEOREM ShutdownDrains == TQSafe => []DrainedWhenReturned
<1>1. TQInv => DrainedWhenReturned
  <2>1. SUFFICES ASSUME TQInv, shutdown = "returned"
                 PROVE  queue = <<>> /\ dirty = {} /\ processing = {}
    BY DEF DrainedWhenReturned
  <2>2. \A w \in Worker : worker[w] = "exited"
    BY <2>1 DEF TQInv, ExitsAreFinal
  <2>3. queue = <<>>
    BY <2>1, <2>2 DEF TQInv, ExitsAreFinal
  <2>4. processing = {}
    BY <2>1, <2>2 DEF TQInv, HoldersMatch, Holding
  <2>5. dirty = {}
    <3>1. dirty \ processing = {}
      BY <2>1, <2>3 DEF TQInv, QueueIsPending
    <3>2. QED
      BY <2>4, <3>1
  <2>6. QED
    BY <2>3, <2>4, <2>5
<1>2. QED
  BY <1>1, TaskQueueInvariant, PTL

=============================================================================
