---------------------------- MODULE OSMutexKernel ----------------------------
(***************************************************************************)
(* MutexLock (OS/OSMutexKernel.cpp) used by application threads: they      *)
(* lock, try and unlock in any order, keeping to the usage the API asks    *)
(* for: a thread unlocks what it has locked and does not lock it again     *)
(* before.                                                                 *)
(***************************************************************************)
EXTENDS MutexLock

AllCalls == {"tryLock", "lockWaitIndefinite", "lock", "unlock", "sleep",
             "yield", "suspend", "resume"}

ASSUME CallsAssumption == Calls \subseteq AllCalls

vars == lockVars

(* A label other than "user" is the second section of a blocking call.     *)
Labels == {"user", "lockWaitIndefinite", "lock"}

TypeOK ==
  /\ ApplicationTypeOK(Labels)
  /\ held \in [Slots -> SUBSET Mutexes]

Init ==
  /\ ApplicationInit
  /\ held = [t \in Slots |-> {}]

-----------------------------------------------------------------------------
tryLock(t, m) ==
  /\ Calling(t, "tryLock")
  /\ m \notin held[t]
  /\ TakeFree(t, m)
  /\ UNCHANGED <<pc, yielding>>

(* lockWaitIndefinite takes a free mutex at once, or blocks and yields...  *)
lockWaitIndefinite_free(t, m) ==
  /\ Calling(t, "lockWaitIndefinite")
  /\ m \notin held[t]
  /\ TakeFree(t, m)
  /\ UNCHANGED <<pc, yielding>>

lockWaitIndefinite_block(t, m) ==
  /\ Calling(t, "lockWaitIndefinite")
  /\ m \notin held[t]
  /\ BlockOn(t, m)
  /\ YieldThen(t, "lockWaitIndefinite")

(* ... to take it when the scheduler comes back to the thread.             *)
lockWaitIndefinite_resume(t) ==
  /\ At(t, "lockWaitIndefinite")
  /\ TakeWoken(t)
  /\ Goto(t, "user")

(* lock(timeout_ms) always blocks first, even on a free mutex...           *)
lock_block(t, m) ==
  /\ Calling(t, "lock")
  /\ m \notin held[t]
  /\ \E timeout_ms \in 0 .. MAX_INTERVAL :
       system_threads' = [system_threads EXCEPT
                            ![t].mutex_semaphore = m,
                            ![t].flags = "BLOCKED_MUTEX_TIMEOUT",
                            ![t].remaining = timeout_ms]
  /\ YieldThen(t, "lock")
  /\ UNCHANGED <<thread_priorities, current_thread, current_active_state,
                 thread_count, word, bits, held>>

(* ... and tries the mutex once when it runs again.                        *)
lock_resume_GivesUp(t) ==  \* mutant: a wait that ended is a timeout
  /\ At(t, "lock")
  /\ Goto(t, "user")
  /\ UNCHANGED <<kernelVars, held>>

lock_resume(t) ==
  /\ At(t, "lock")
  /\ IF word[this(t)] = MUTEX_UNLOCKED
     THEN Write(this(t), MUTEX_LOCKED) /\ Acquired(t, this(t))
     ELSE UNCHANGED <<word, held>>
  /\ Goto(t, "user")
  /\ UNCHANGED <<system_threads, thread_priorities, current_thread,
                 current_active_state, thread_count, bits>>

unlock(t, m) ==
  /\ Calling(t, "unlock")
  /\ m \in held[t]
  /\ GiveBack(t, m)
  /\ UNCHANGED <<system_threads, thread_priorities, current_thread,
                 current_active_state, thread_count, bits, pc, yielding>>

MutexOperation(t) ==
  \/ \E m \in Mutexes : \/ tryLock(t, m)
                        \/ lockWaitIndefinite_free(t, m)
                        \/ lockWaitIndefinite_block(t, m)
                        \/ lock_block(t, m)
                        \/ unlock(t, m)
  \/ lockWaitIndefinite_resume(t)
  \/ lock_resume(t)

Next ==
  \/ ApplicationNext /\ UNCHANGED held
  \/ \E t \in Slots : MutexOperation(t)

Spec == Init /\ [][Next]_vars

(* The clock runs and a running thread executes its kernel call; of the    *)
(* application: a thread that runs again and again with locks held comes   *)
(* to unlock them, and one that runs again and again with none held comes  *)
(* to sleep.                                                               *)
Fairness ==
  /\ WF_vars(systick /\ UNCHANGED held)
  /\ WF_vars(idle_thread_handler /\ UNCHANGED held)
  /\ \A t \in Slots :
       /\ WF_vars(os_yield_in_call(t) /\ UNCHANGED held)
       /\ WF_vars(lockWaitIndefinite_resume(t))
       /\ WF_vars(lock_resume(t))
       /\ SF_vars(\E m \in Mutexes : unlock(t, m))
       /\ SF_vars(held[t] = {} /\ os_thread_sleep_ms(t) /\ UNCHANGED held)

FairSpec == Spec /\ Fairness

-----------------------------------------------------------------------------
(* Never do two threads rely on having locked the same mutex.              *)
MutualExclusion ==
  \A t, u \in Slots : t # u => held[t] \cap held[u] = {}

(* The state word says locked exactly when a thread relies on the lock: no *)
(* lock is lost, and none is forged.                                       *)
LockedIffHeld ==
  \A m \in Mutexes : word[m] = MUTEX_LOCKED <=> \E t \in Slots : m \in held[t]

(* Every path through the mutex starts the kernel again.                   *)
KernelStarted == current_active_state = "STARTED"

(* A thread inside lockWaitIndefinite that the scheduler runs finds the    *)
(* mutex free: nothing locks it between the wake-up and the second test.   *)
WokenFindsFree ==
  \A t \in Slots :
    At(t, "lockWaitIndefinite") => word[this(t)] = MUTEX_UNLOCKED

(* The abstract mutex as the code keeps it: who is inside a blocking call, *)
(* for which mutex, and whether the call has a timeout.                    *)
Asking ==
  [t \in Slots |-> IF pc[t] \in {"lockWaitIndefinite", "lock"} THEN this(t) ELSE NULL]

Timed == {t \in Slots : pc[t] = "lock"}

Abstract == INSTANCE AbstractMutex
              WITH Threads <- Slots, asking <- Asking, timed <- Timed

(* MutexLock implements the abstract mutex.  Beyond one owner at a time: a *)
(* blocking call keeps its mutex and its thread inactive to the end, gets  *)
(* the mutex if it is free when the thread runs again, fails only while    *)
(* another thread has it, and never fails without a timeout.               *)
AbstractSpec == Abstract!Spec

(* The scheduler comes to the thread that has the mutex again and again:   *)
(* nobody leaves it suspended, no ready thread in front of it keeps it out.*)
OwnerRuns(m) == []<>(\A u \in Slots : m \in held[u] => current_thread = u)

(* A thread at the head of the scheduler's list that waits for a mutex     *)
(* gets it, unless a thread is put in front of it or the owner of the      *)
(* mutex starves.  unlock wakes nobody and its caller may lock again at    *)
(* once: it takes a yield with the mutex free, and the waiter found then.  *)
HeadWaiterAcquires ==
  \A m \in Mutexes : OwnerRuns(m) =>
    \A t \in Slots \ {Main, Idle} :
      (/\ thread_priorities[1].ptr = t
       /\ pc[t] = "lockWaitIndefinite"
       /\ this(t) = m)
        ~> (m \in held[t] \/ thread_priorities[1].ptr # t)
=============================================================================
