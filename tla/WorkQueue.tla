----------------------------- MODULE WorkQueue -----------------------------
(***************************************************************************)
(* The rate limiting work queue of client-go that the task queue of        *)
(* pkg/framework/taskqueue is built on (vendor/k8s.io/client-go/util/      *)
(* workqueue).  The module declares the state of one queue and one action  *)
(* formula per method; TaskQueue.tla adds the worker goroutines.           *)
(*                                                                         *)
(* Time is abstracted: an entry of the waiting loop may become ready at    *)
(* any moment.  The default rate limiter never returns a zero delay (its   *)
(* per-item part starts at 5ms), so AddRateLimited always goes through the *)
(* waiting loop.                                                           *)
(***************************************************************************)
EXTENDS Keys, Naturals, Sequences

CONSTANTS
  ChanCap,      \* capacity of waitingForAddCh (1000 in the code)
  MaxRequeues   \* the failure counter of the rate limiter saturates here

ASSUME WorkQueueAssumption ==
  /\ ChanCap \in Nat \ {0}
  /\ MaxRequeues \in Nat \ {0}

VARIABLES
  queue,            \* FIFO of the keys that wait for a worker
  dirty,            \* keys that need processing
  processing,       \* keys handed to a worker and not yet Done
  waitingForAddCh,  \* channel from AddAfter to the waiting loop
  waitingForQueue,  \* keys in the waiting loop's heap (waitingEntryByData)
  failures,         \* the rate limiter's failure count of every key
  shuttingDown      \* ShutDown has been called

fifoVars  == <<queue, dirty, processing>>
delayVars == <<waitingForAddCh, waitingForQueue>>
wqVars    == <<fifoVars, delayVars, failures, shuttingDown>>

WQInit ==
  /\ queue = <<>>
  /\ dirty = {}
  /\ processing = {}
  /\ waitingForAddCh = <<>>
  /\ waitingForQueue = {}
  /\ failures = [k \in Key |-> 0]
  /\ shuttingDown = FALSE

-----------------------------------------------------------------------------
(* Mutated forms of the operations below. *)

\* Add that pushes a key although a worker holds it.
AddIgnoresProcessing(k) ==
  IF shuttingDown \/ k \in dirty
  THEN UNCHANGED <<queue, dirty>>
  ELSE /\ dirty' = dirty \cup {k}
       /\ queue' = Append(queue, k)

\* Add that accepts keys after ShutDown.
AddAfterShutDown(k) ==
  IF k \in dirty
  THEN UNCHANGED <<queue, dirty>>
  ELSE /\ dirty' = dirty \cup {k}
       /\ queue' = IF k \in processing THEN queue ELSE Append(queue, k)

\* Done that forgets to push a key that became dirty while it was processed.
DoneDropsDirty(k) ==
  /\ processing' = processing \ {k}
  /\ UNCHANGED <<queue, dirty>>

\* AddRateLimited that counts the failure but never schedules the retry.
AddRateLimitedDropsItem(k) ==
  /\ shuttingDown \/ Len(waitingForAddCh) < ChanCap
  /\ failures' = [failures EXCEPT ![k] = IF @ < MaxRequeues THEN @ + 1 ELSE @]
  /\ UNCHANGED <<waitingForAddCh, waitingForQueue>>

\* A waiting loop that takes an entry off the channel without keeping it.
ReceiveWaitingNeverInserts ==
  /\ ~shuttingDown
  /\ waitingForAddCh # <<>>
  /\ waitingForAddCh' = Tail(waitingForAddCh)
  /\ UNCHANGED <<fifoVars, waitingForQueue, failures, shuttingDown>>

-----------------------------------------------------------------------------
(* Typed.Add: a key is queued once however often it is added, and a key    *)
(* that a worker holds is only marked dirty.                               *)
Add(k) ==
  IF shuttingDown \/ k \in dirty
  THEN UNCHANGED <<queue, dirty>>
  ELSE /\ dirty' = dirty \cup {k}
       /\ queue' = IF k \in processing THEN queue ELSE Append(queue, k)

(* Typed.Get, the case that returns an item. *)
Get(k) ==
  /\ queue # <<>>
  /\ k = Head(queue)
  /\ queue' = Tail(queue)
  /\ processing' = processing \cup {k}
  /\ dirty' = dirty \ {k}

(* Typed.Done: a key that became dirty while it was processed is queued    *)
(* again.                                                                  *)
Done(k) ==
  /\ processing' = processing \ {k}
  /\ queue' = IF k \in dirty THEN Append(queue, k) ELSE queue
  /\ UNCHANGED dirty

(* rateLimitingType.AddRateLimited and delayingType.AddAfter.  The failure *)
(* is counted even when the queue shuts down; the send blocks while the    *)
(* channel is full.                                                        *)
AddRateLimited(k) ==
  /\ shuttingDown \/ Len(waitingForAddCh) < ChanCap
  /\ failures' = [failures EXCEPT ![k] = IF @ < MaxRequeues THEN @ + 1 ELSE @]
  /\ waitingForAddCh' = IF shuttingDown THEN waitingForAddCh
                                        ELSE Append(waitingForAddCh, k)
  /\ UNCHANGED waitingForQueue

(* rateLimitingType.Forget *)
Forget(k) == failures' = [failures EXCEPT ![k] = 0]

(* waitingLoop receives an entry: it is inserted into the heap, which      *)
(* keeps one entry per key, or added at once when it is ready already.     *)
ReceiveWaiting ==
  /\ ~shuttingDown
  /\ waitingForAddCh # <<>>
  /\ waitingForAddCh' = Tail(waitingForAddCh)
  /\ \/ /\ waitingForQueue' = waitingForQueue \cup {Head(waitingForAddCh)}
        /\ UNCHANGED <<queue, dirty>>
     \/ /\ Add(Head(waitingForAddCh))
        /\ UNCHANGED waitingForQueue
  /\ UNCHANGED <<processing, failures, shuttingDown>>

(* waitingLoop adds an entry of the heap that has become ready. *)
FireWaiting(k) ==
  /\ ~shuttingDown
  /\ k \in waitingForQueue
  /\ waitingForQueue' = waitingForQueue \ {k}
  /\ Add(k)
  /\ UNCHANGED <<processing, waitingForAddCh, failures, shuttingDown>>

(* ShutDown: later Adds are ignored and the waiting loop returns, so the   *)
(* entries it still holds are gone.                                        *)
ShutDown ==
  /\ shuttingDown' = TRUE
  /\ waitingForAddCh' = <<>>
  /\ waitingForQueue' = {}
  /\ UNCHANGED <<fifoVars, failures>>

-----------------------------------------------------------------------------
(* A key the waiting loop still has to hand back to the queue. *)
Waiting(k) ==
  \/ k \in waitingForQueue
  \/ \E i \in 1..Len(waitingForAddCh) : waitingForAddCh[i] = k

=============================================================================
