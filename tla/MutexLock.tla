------------------------------ MODULE MutexLock ------------------------------
(***************************************************************************)
(* The sections of MutexLock's operations (OS/OSMutexKernel.cpp), each the *)
(* code between an os_stop() and its os_start(): what OSMutexKernel makes  *)
(* calls of and OSQueueKernel uses inside its own operations.              *)
(***************************************************************************)
EXTENDS OSApplication

VARIABLE held  \* slot -> the mutexes its code relies on having locked

lockVars == <<threadVars, held>>

Mutexes == Words
MUTEX_UNLOCKED == 0
MUTEX_LOCKED == 1

Acquired(t, m) == held' = [held EXCEPT ![t] = @ \cup {m}]

Write(m, state) == word' = [word EXCEPT ![m] = state]

(* The mutex thread t is inside a blocking call of.                        *)
this(t) == system_threads[t].mutex_semaphore

(* tryLock, and lockWaitIndefinite at first: the state is tested and set   *)
(* with the kernel stopped.                                                *)
TakeFree_Untested(t, m) ==  \* mutant
  /\ Write(m, MUTEX_LOCKED)
  /\ Acquired(t, m)
  /\ UNCHANGED <<system_threads, thread_priorities, current_thread,
                 current_active_state, thread_count, bits>>

TakeFree_StaysStopped(t, m) ==  \* mutant: returns before its os_start()
  /\ word[m] = MUTEX_UNLOCKED
  /\ Write(m, MUTEX_LOCKED)
  /\ Acquired(t, m)
  /\ current_active_state' = "STOPPED"
  /\ UNCHANGED <<system_threads, thread_priorities, current_thread,
                 thread_count, bits>>

TakeFree(t, m) ==
  /\ word[m] = MUTEX_UNLOCKED
  /\ Write(m, MUTEX_LOCKED)
  /\ Acquired(t, m)
  /\ UNCHANGED <<system_threads, thread_priorities, current_thread,
                 current_active_state, thread_count, bits>>

(* lockWaitIndefinite on a locked mutex marks the thread blocked.          *)
BlockOn(t, m) ==
  /\ word[m] # MUTEX_UNLOCKED
  /\ system_threads' = [system_threads EXCEPT ![t].mutex_semaphore = m,
                                              ![t].flags = "BLOCKED_MUTEX"]
  /\ UNCHANGED <<thread_priorities, current_thread, current_active_state,
                 thread_count, word, bits, held>>

(* Its second section, once the thread runs again.  If the mutex is locked *)
(* the code falls off the end: it returns to a caller that now relies on   *)
(* the lock, and leaves the kernel stopped.                                *)
TakeWoken(t) ==
  /\ IF word[this(t)] = MUTEX_UNLOCKED
     THEN Write(this(t), MUTEX_LOCKED) /\ UNCHANGED current_active_state
     ELSE current_active_state' = "STOPPED" /\ UNCHANGED word
  /\ Acquired(t, this(t))
  /\ UNCHANGED <<system_threads, thread_priorities, current_thread,
                 thread_count, bits>>

(* unlock does not look at who has the mutex, nor at who waits for it.     *)
GiveBack_Unwritten(t, m) ==  \* mutant
  /\ UNCHANGED word
  /\ held' = [held EXCEPT ![t] = @ \ {m}]

GiveBack(t, m) ==
  /\ Write(m, MUTEX_UNLOCKED)
  /\ held' = [held EXCEPT ![t] = @ \ {m}]

-----------------------------------------------------------------------------
(* Even when the timer switches threads, two threads rely on the same      *)
(* mutex only once one of them has found it locked on its second look and  *)
(* left the kernel stopped: from then on no switch gives the other a turn. *)
OverlapOnlyWhenStopped ==
  \A t, u \in Slots :
    t # u /\ held[t] \cap held[u] # {} =>
      current_active_state = "STOPPED" /\ current_thread \in {t, u}
=============================================================================
