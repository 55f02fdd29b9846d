---------------------------- MODULE OSQueueKernel ----------------------------
(***************************************************************************)
(* VoidOSQueue (OS/OSQueueKernel.cpp): a ring of `queue_len' values that   *)
(* two mutexes protect, used by application threads.                       *)
(*                                                                         *)
(* A consumer in popBlocking registers itself in consumer_thread_ptr,      *)
(* marks itself blocked and yields; push marks the registered thread       *)
(* RUNNING.                                                                *)
(*                                                                         *)
(* What a call does to the ring under queue_lock is one step.  The rest is *)
(* cut where the timer, if it switches threads, lets another thread come   *)
(* between two accesses; without it only the yields do.                    *)
(***************************************************************************)
EXTENDS MutexLock

CONSTANTS
  queue_lock, consumer_lock,  \* the queue's two mutexes
  QUEUE_LEN,                  \* the length setup() asks of init
  COUNT_MOD,                  \* bound: current_elements is 0 .. COUNT_MOD-1
  Data                        \* values that can be pushed

AllCalls == {"push", "pop", "popBlocking", "sleep", "yield", "suspend", "resume"}

ASSUME CallsAssumption == Calls \subseteq AllCalls
ASSUME LocksAssumption ==
  queue_lock \in Words /\ consumer_lock \in Words /\ queue_lock # consumer_lock
ASSUME QueueAssumption ==
  QUEUE_LEN \in Nat \ {0} /\ COUNT_MOD \in Nat /\ COUNT_MOD > QUEUE_LEN
ASSUME DataAssumption == NULL \notin Data

VARIABLES
  consumer_thread_ptr,  \* slot of the thread that waits for an element
  queue_len,
  current_elements,
  data_buffer,          \* NULL before init succeeds
  head,
  tail,
  received              \* slot -> what its thread's last pop returned

queueVars == <<consumer_thread_ptr, queue_len, current_elements, data_buffer,
               head, tail, received>>
vars == <<lockVars, queueVars>>

(* "waits" labels: inside lockWaitIndefinite, after its yield.             *)
Labels ==
  {"user", "push waits", "push stores", "push wakes", "push unlocks",
   "pop waits", "pop takes",
   "popBlocking waits for consumer_lock", "popBlocking tests",
   "popBlocking registers", "popBlocking blocks", "popBlocking leaves",
   "popBlocking locks", "popBlocking waits", "popBlocking takes"}

Indices == 0 .. QUEUE_LEN - 1

(* The null pointer is not a buffer.                                       *)
ASSUME BufferAssumption == NULL \notin [Indices -> Data \cup {NULL}]

TypeOK ==
  /\ ApplicationTypeOK(Labels)
  /\ held \in [Slots -> SUBSET Mutexes]
  /\ consumer_thread_ptr \in Slots \cup {NULL}
  /\ queue_len \in {0, QUEUE_LEN}
  /\ current_elements \in 0 .. COUNT_MOD - 1
  /\ data_buffer \in [Indices -> Data \cup {NULL}] \cup {NULL}
  /\ head \in Indices /\ tail \in Indices
  /\ received \in [Slots -> Data \cup {NULL}]

Init ==
  /\ ApplicationInit
  /\ held = [t \in Slots |-> {}]
  /\ consumer_thread_ptr = NULL
  /\ queue_len = 0
  /\ current_elements = 0
  /\ data_buffer = NULL
  /\ head = 0 /\ tail = 0
  /\ received = [t \in Slots |-> NULL]

-----------------------------------------------------------------------------
(* setup() calls init until it returns true; threads use the queue after   *)
(* that, so its lock and unlock leave no trace.  malloc may fail: then     *)
(* queue_len is set and there is no buffer.                                *)
init ==
  /\ At(Main, "user")
  /\ data_buffer = NULL
  /\ queue_len' = QUEUE_LEN
  /\ data_buffer' \in {NULL, [i \in Indices |-> NULL]}
  /\ UNCHANGED <<lockVars, consumer_thread_ptr, current_elements, head, tail,
                 received>>

Using(t, call) == Calling(t, call) /\ data_buffer # NULL

(* lockWaitIndefinite on the way from one label to another, and its second *)
(* section.                                                                *)
Lock(t, m, waits, then) ==
  /\ \/ TakeFree(t, m) /\ Goto(t, then)
     \/ BlockOn(t, m) /\ YieldThen(t, waits)
  /\ UNCHANGED queueVars

LockWoken(t, waits, then) ==
  At(t, waits) /\ TakeWoken(t) /\ Goto(t, then) /\ UNCHANGED queueVars

Unlock(t, m, then) ==
  /\ GiveBack(t, m)
  /\ Goto(t, then)
  /\ UNCHANGED <<system_threads, thread_priorities, current_thread,
                 current_active_state, thread_count, bits>>

Advanced_WrapsEarly(index) == IF index + 2 = queue_len THEN 0 ELSE index + 1  \* mutant

Advanced(index) == IF index + 1 = queue_len THEN 0 ELSE index + 1

Incremented(n) == IF n = COUNT_MOD - 1 THEN 0 ELSE n + 1
Decremented(n) == IF n = 0 THEN COUNT_MOD - 1 ELSE n - 1

-----------------------------------------------------------------------------
push(t) == Using(t, "push") /\ Lock(t, queue_lock, "push waits", "push stores")

push_lock_resume(t) == LockWoken(t, "push waits", "push stores")

push_full_KeepsLock(t) ==  \* mutant
  /\ At(t, "push stores")
  /\ queue_len = current_elements
  /\ Goto(t, "user")
  /\ UNCHANGED <<kernelVars, held, queueVars>>

push_full(t) ==
  /\ At(t, "push stores")
  /\ queue_len = current_elements
  /\ Unlock(t, queue_lock, "user")
  /\ UNCHANGED queueVars

push_store(t) ==
  /\ At(t, "push stores")
  /\ queue_len # current_elements
  /\ current_elements' = Incremented(current_elements)
  /\ \E data \in Data : data_buffer' = [data_buffer EXCEPT ![tail] = data]
  /\ tail' = Advanced(tail)
  /\ Goto(t, "push wakes")
  /\ UNCHANGED <<kernelVars, held, consumer_thread_ptr, queue_len, head, received>>

(* The registered consumer is made RUNNING whatever its state is.          *)
push_wake_Nobody(t) ==  \* mutant
  /\ At(t, "push wakes")
  /\ Goto(t, "push unlocks")
  /\ UNCHANGED <<kernelVars, held, queueVars>>

push_wake(t) ==
  /\ At(t, "push wakes")
  /\ system_threads' =
       IF consumer_thread_ptr = NULL THEN system_threads
       ELSE [system_threads EXCEPT ![consumer_thread_ptr].flags = "RUNNING"]
  /\ Goto(t, "push unlocks")
  /\ UNCHANGED <<thread_priorities, current_thread, current_active_state,
                 thread_count, word, bits, held, queueVars>>

push_unlock(t) ==
  /\ At(t, "push unlocks")
  /\ Unlock(t, queue_lock, "user")
  /\ UNCHANGED queueVars

-----------------------------------------------------------------------------
(* The element at the head is returned and the lock given back.            *)
TakeHead(t) ==
  /\ received' = [received EXCEPT ![t] = data_buffer[head]]
  /\ current_elements' = Decremented(current_elements)
  /\ head' = Advanced(head)
  /\ Unlock(t, queue_lock, "user")
  /\ UNCHANGED <<consumer_thread_ptr, queue_len, data_buffer, tail>>

pop(t) == Using(t, "pop") /\ Lock(t, queue_lock, "pop waits", "pop takes")

pop_lock_resume(t) == LockWoken(t, "pop waits", "pop takes")

pop_empty(t) ==
  /\ At(t, "pop takes")
  /\ current_elements = 0
  /\ received' = [received EXCEPT ![t] = NULL]
  /\ Unlock(t, queue_lock, "user")
  /\ UNCHANGED <<consumer_thread_ptr, queue_len, current_elements, data_buffer,
                 head, tail>>

pop_take(t) ==
  /\ At(t, "pop takes")
  /\ current_elements # 0
  /\ TakeHead(t)

-----------------------------------------------------------------------------
popBlocking_Unlocked(t) ==  \* mutant: without consumer_lock
  /\ Using(t, "popBlocking")
  /\ Goto(t, "popBlocking tests")
  /\ UNCHANGED <<kernelVars, held, queueVars>>

popBlocking(t) ==
  /\ Using(t, "popBlocking")
  /\ Lock(t, consumer_lock, "popBlocking waits for consumer_lock", "popBlocking tests")

popBlocking_consumer_resume(t) ==
  LockWoken(t, "popBlocking waits for consumer_lock", "popBlocking tests")

(* current_elements is read without queue_lock.                            *)
popBlocking_test(t) ==
  /\ At(t, "popBlocking tests")
  /\ Goto(t, IF current_elements = 0 THEN "popBlocking registers"
                                     ELSE "popBlocking leaves")
  /\ UNCHANGED <<kernelVars, held, queueVars>>

popBlocking_register(t) ==
  /\ At(t, "popBlocking registers")
  /\ consumer_thread_ptr' = t
  /\ Goto(t, "popBlocking blocks")
  /\ UNCHANGED <<kernelVars, held, queue_len, current_elements, data_buffer,
                 head, tail, received>>

popBlocking_block(t) ==
  /\ At(t, "popBlocking blocks")
  /\ system_threads' = [system_threads EXCEPT ![t].flags = "BLOCKED_QUEUE"]
  /\ YieldThen(t, "popBlocking leaves")
  /\ UNCHANGED <<thread_priorities, current_thread, current_active_state,
                 thread_count, word, bits, held, queueVars>>

popBlocking_leave(t) ==
  /\ At(t, "popBlocking leaves")
  /\ consumer_thread_ptr' = NULL
  /\ Unlock(t, consumer_lock, "popBlocking locks")
  /\ UNCHANGED <<queue_len, current_elements, data_buffer, head, tail, received>>

popBlocking_lock(t) ==
  /\ At(t, "popBlocking locks")
  /\ Lock(t, queue_lock, "popBlocking waits", "popBlocking takes")

popBlocking_lock_resume(t) == LockWoken(t, "popBlocking waits", "popBlocking takes")

(* The number of elements is not looked at again.                          *)
popBlocking_take(t) == At(t, "popBlocking takes") /\ TakeHead(t)

PushStep(t) ==
  push_lock_resume(t) \/ push_full(t) \/ push_store(t) \/ push_wake(t) \/ push_unlock(t)

PopStep(t) == pop_lock_resume(t) \/ pop_empty(t) \/ pop_take(t)

PopBlockingStep(t) ==
  \/ popBlocking_consumer_resume(t)
  \/ popBlocking_test(t)
  \/ popBlocking_register(t)
  \/ popBlocking_block(t)
  \/ popBlocking_leave(t)
  \/ popBlocking_lock(t)
  \/ popBlocking_lock_resume(t)
  \/ popBlocking_take(t)

QueueOperation(t) ==
  \/ push(t) \/ pop(t) \/ popBlocking(t)
  \/ PushStep(t) \/ PopStep(t) \/ PopBlockingStep(t)

Next ==
  \/ ApplicationNext /\ UNCHANGED <<held, queueVars>>
  \/ init
  \/ \E t \in Slots : QueueOperation(t)

Spec == Init /\ [][Next]_vars

-----------------------------------------------------------------------------
(* A thread blocked on the queue is the one the next push will wake: no    *)
(* other consumer has taken its place in consumer_thread_ptr.              *)
BlockedConsumerIsRegistered ==
  \A t \in Slots :
    flags(t) = "BLOCKED_QUEUE" /\ current_active_state = "STARTED"
      => consumer_thread_ptr = t

(* No wake-up is lost: while a thread is blocked on the queue, the queue   *)
(* is empty or a push that has stored its value is about to wake it.       *)
NoLostWakeup ==
  (\E t \in Slots : flags(t) = "BLOCKED_QUEUE") =>
    current_elements = 0 \/ \E u \in Slots : pc[u] = "push wakes"

(* No thread is switched out, asleep, blocked or suspended, while it has   *)
(* queue_lock: only consumer_lock is held across a wait.                   *)
QueueLockOnlyWhileRunning ==
  \A t \in Slots \ {current_thread} : queue_lock \notin held[t]

(* VoidOSQueue implements the abstract queue: its contents are the         *)
(* current_elements values from head on.                                   *)
Contents ==
  [i \in 1 .. current_elements |->
     data_buffer[IF head + i - 1 < QUEUE_LEN THEN head + i - 1
                                             ELSE head + i - 1 - QUEUE_LEN]]

Abstract == INSTANCE AbstractQueue
              WITH Threads <- Slots, Capacity <- QUEUE_LEN, None <- NULL,
                   items <- Contents

AbstractSpec == Abstract!Spec
=============================================================================
