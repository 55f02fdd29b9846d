------------------------- MODULE OSMutexKernelProofs -------------------------
(***************************************************************************)
(* Theorems about MutexLock, for any number of threads, priorities and     *)
(* mutexes, in a kernel that only switches threads when they yield and     *)
(* whose application does not call os_resume_thread.                       *)
(***************************************************************************)
EXTENDS OSMutexKernel, OSThreadKernelProofs

(* The idle thread ends every walk of the scheduler.                       *)
IdleReady ==
  /\ current_thread # NULL
  /\ Listed(Idle)
  /\ flags(Idle) = "RUNNING"
  /\ pc[Idle] = "user" /\ Idle \notin yielding

(* A thread inside a blocking call has its mutex in its slot.              *)
WaitsForMutex ==
  \A t \in Slots :
    pc[t] \in {"lockWaitIndefinite", "lock"} => this(t) \in Mutexes

(* Between marking itself blocked and yielding, a thread keeps running.    *)
YieldsBlocked ==
  \A t \in Slots :
    pc[t] = "lockWaitIndefinite" /\ t \in yielding
      => t = current_thread /\ flags(t) = "BLOCKED_MUTEX"

(* After it, the thread stays blocked or suspended until the scheduler     *)
(* chooses it, and then its mutex is free.                                 *)
ResumesFree ==
  \A t \in Slots :
    pc[t] = "lockWaitIndefinite" /\ t \notin yielding
      => IF t = current_thread THEN word[this(t)] = MUTEX_UNLOCKED
                               ELSE flags(t) \in {"BLOCKED_MUTEX", "SUSPENDED"}

MutexInv ==
  /\ TypeOK
  /\ IdleReady
  /\ WaitsForMutex
  /\ YieldsBlocked
  /\ ResumesFree
  /\ KernelStarted
  /\ MutualExclusion
  /\ LockedIffHeld

(* The two slots every system has.                                         *)
LEMMA SlotFacts ==
  Main \in Slots /\ Idle \in Slots /\ Main # Idle /\ NULL \notin Slots
BY ThreadsAssumption, NullAssumption DEF Main, Idle, Slots

(* What the invariant says of the types, for the steps to cite.            *)
LEMMA InvTypes ==
  ASSUME MutexInv
  PROVE  /\ KernelTypeOK
         /\ system_threads \in [Slots -> thread_t]
         /\ current_thread \in Slots
         /\ word \in [Mutexes -> 0 .. WORD_MOD - 1]
         /\ pc \in [Slots -> Labels] /\ yielding \subseteq Slots
         /\ held \in [Slots -> SUBSET Mutexes]
         /\ MUTEX_UNLOCKED \in 0 .. WORD_MOD - 1 /\ MUTEX_LOCKED \in 0 .. WORD_MOD - 1
         /\ MUTEX_UNLOCKED # MUTEX_LOCKED
BY WordAssumption
  DEF MutexInv, TypeOK, ApplicationTypeOK, KernelTypeOK, IdleReady, Mutexes,
                      MUTEX_UNLOCKED, MUTEX_LOCKED

(* The initial state.                                                      *)
LEMMA MutexInit == Init => MutexInv
<1> SUFFICES ASSUME Init PROVE MutexInv
  OBVIOUS
<1>2. TypeOK
  BY KernelInitFacts DEF Init, ApplicationInit, TypeOK, ApplicationTypeOK, Labels
<1>3. IdleReady
  BY SlotFacts, KernelInitFacts DEF Init, ApplicationInit, KernelInit, IdleReady
<1>4. LockedIffHeld
  BY DEF Init, ApplicationInit, KernelInit, LockedIffHeld, Mutexes, MUTEX_LOCKED
<1> QED
  BY <1>2, <1>3, <1>4
    DEF Init, ApplicationInit, KernelInit, MutexInv, WaitsForMutex, YieldsBlocked,
                          ResumesFree, KernelStarted, MutualExclusion

(* A free mutex is granted to the running thread.                          *)
LEMMA GrantStep ==
  ASSUME MutexInv, NEW t \in Slots, NEW m \in Mutexes,
         t = current_thread, t \notin yielding,
         word[m] = MUTEX_UNLOCKED,
         Write(m, MUTEX_LOCKED), Acquired(t, m), Goto(t, "user"),
         UNCHANGED <<system_threads, thread_priorities, current_thread,
                     current_active_state, thread_count, bits>>
  PROVE  MutexInv'
<1> USE SlotFacts, InvTypes
<1>1. TypeOK'
  BY DEF MutexInv, TypeOK, ApplicationTypeOK, KernelTypeOK, Write, Acquired, Goto,
         Labels, Mutexes
<1>2. IdleReady'
  BY DEF MutexInv, IdleReady, Listed, flags, Goto
<1>3. WaitsForMutex' /\ YieldsBlocked'
  BY DEF MutexInv, WaitsForMutex, YieldsBlocked, this, flags, Goto
<1>4. ResumesFree'
  BY DEF MutexInv, ResumesFree, this, flags, Goto
<1>5. \A u \in Slots : m \notin held[u]
  BY DEF MutexInv, LockedIffHeld
<1>6. MutualExclusion'
  <2>1. /\ held'[t] = held[t] \cup {m}
        /\ \A u \in Slots \ {t} : held'[u] = held[u]
    BY DEF Acquired
  <2>2. SUFFICES ASSUME NEW u \in Slots, NEW v \in Slots, u # v
                 PROVE  held'[u] \cap held'[v] = {}
    BY DEF MutualExclusion
  <2>3. held[u] \cap held[v] = {}
    BY <2>2 DEF MutexInv, MutualExclusion
  <2> QED
    BY <1>5, <2>1, <2>2, <2>3
<1>7. LockedIffHeld'
  BY DEF MutexInv, LockedIffHeld, Acquired, Write
<1> QED
  BY <1>1, <1>2, <1>3, <1>4, <1>6, <1>7 DEF MutexInv, KernelStarted

(* The holder gives a mutex back.                                          *)
LEMMA ReleaseStep ==
  ASSUME MutexInv, NEW t \in Slots, NEW m \in Mutexes, unlock(t, m)
  PROVE  MutexInv'
<1> USE SlotFacts, InvTypes
<1>1. TypeOK'
  BY
    DEF MutexInv, TypeOK, ApplicationTypeOK, KernelTypeOK, Write, unlock, GiveBack,
        Mutexes
<1>2. IdleReady'
  BY DEF MutexInv, IdleReady, Listed, flags, unlock, GiveBack
<1>3. WaitsForMutex' /\ YieldsBlocked'
  BY DEF MutexInv, WaitsForMutex, YieldsBlocked, this, flags, unlock, GiveBack
<1>4. ResumesFree'
  <2>1. /\ t = current_thread /\ pc[t] = "user"
        /\ UNCHANGED <<system_threads, current_thread, pc, yielding>>
    BY DEF unlock, GiveBack, Calling, At
  <2> QED
    BY <2>1 DEF MutexInv, ResumesFree, flags
<1>5. \A u \in Slots : u # t => m \notin held[u]
  BY DEF MutexInv, MutualExclusion, unlock, GiveBack
<1>6. MutualExclusion'
  BY DEF MutexInv, MutualExclusion, unlock, GiveBack
<1>7. LockedIffHeld'
  BY <1>5 DEF MutexInv, LockedIffHeld, unlock, GiveBack, Write
<1> QED
  BY <1>1, <1>2, <1>3, <1>4, <1>6, <1>7 DEF MutexInv, KernelStarted, unlock, GiveBack

(* What marking itself blocked does to the thread's slot.                  *)
LEMMA BlockUpdate ==
  ASSUME system_threads \in [Slots -> thread_t],
         pc \in [Slots -> Labels], yielding \subseteq Slots,
         NEW t \in Slots, NEW m \in Mutexes,
         lockWaitIndefinite_block(t, m) \/ lock_block(t, m)
  PROVE  /\ system_threads' \in [Slots -> thread_t]
         /\ system_threads'[t].mutex_semaphore = m
         /\ \A u \in Slots \ {t} : system_threads'[u] = system_threads[u]
         /\ yielding' = yielding \cup {t}
         /\ \/ pc' = [pc EXCEPT ![t] = "lock"]
            \/ /\ pc' = [pc EXCEPT ![t] = "lockWaitIndefinite"]
               /\ system_threads'[t].flags = "BLOCKED_MUTEX"
<1>1. PICK f \in thread_state_t, n \in 0 .. MAX_INTERVAL :
        /\ system_threads' =
             [system_threads EXCEPT ![t] = [@ EXCEPT !.mutex_semaphore = m,
                                                     !.flags = f,
                                                     !.remaining = n]]
        /\ yielding' = yielding \cup {t}
        /\ \/ pc' = [pc EXCEPT ![t] = "lock"]
           \/ /\ pc' = [pc EXCEPT ![t] = "lockWaitIndefinite"]
              /\ f = "BLOCKED_MUTEX"
  <2>1. CASE lock_block(t, m)
    <3>1. PICK n \in 0 .. MAX_INTERVAL :
            system_threads' = [system_threads EXCEPT
                                 ![t] = [@ EXCEPT !.mutex_semaphore = m,
                                                  !.flags = "BLOCKED_MUTEX_TIMEOUT",
                                                  !.remaining = n]]
      BY <2>1 DEF lock_block
    <3>2. "BLOCKED_MUTEX_TIMEOUT" \in thread_state_t
      BY DEF thread_state_t
    <3> QED
      BY <2>1, <3>1, <3>2 DEF lock_block, YieldThen
  <2>2. CASE lockWaitIndefinite_block(t, m)
    <3>1. system_threads[t].remaining \in 0 .. MAX_INTERVAL
      BY DEF thread_t
    <3>2. [system_threads[t] EXCEPT !.mutex_semaphore = m, !.flags = "BLOCKED_MUTEX"]
            = [system_threads[t] EXCEPT !.mutex_semaphore = m,
                                        !.flags = "BLOCKED_MUTEX",
                                        !.remaining = system_threads[t].remaining]
      BY DEF thread_t
    <3>3. "BLOCKED_MUTEX" \in thread_state_t
      BY DEF thread_state_t
    <3>4. system_threads' = [system_threads EXCEPT
                               ![t] = [@ EXCEPT !.mutex_semaphore = m,
                                                !.flags = "BLOCKED_MUTEX"]]
      BY <2>2 DEF lockWaitIndefinite_block, BlockOn
    <3> QED
      BY <2>2, <3>1, <3>2, <3>3, <3>4 DEF lockWaitIndefinite_block, BlockOn, YieldThen
  <2> QED
    BY <2>1, <2>2
<1> DEFINE rec == [system_threads[t] EXCEPT !.mutex_semaphore = m,
                                            !.flags = f, !.remaining = n]
<1>2. rec \in thread_t /\ rec.mutex_semaphore = m /\ rec.flags = f
  <2>1. system_threads[t] \in thread_t /\ m \in Words
    BY DEF Mutexes
  <2>2. f \in thread_state_t /\ n \in 0 .. MAX_INTERVAL
    BY <1>1
  <2> QED
    BY <2>1, <2>2 DEF thread_t
<1>3. system_threads' = [system_threads EXCEPT ![t] = rec]
  BY <1>1
<1> HIDE DEF rec
<1> QED
  BY <1>1, <1>2, <1>3

(* The running thread marks itself blocked on a mutex.                     *)
LEMMA BlockStep ==
  ASSUME MutexInv, NEW t \in Slots, NEW m \in Mutexes,
         lockWaitIndefinite_block(t, m) \/ lock_block(t, m)
  PROVE  MutexInv'
<1> USE SlotFacts
<1>t. /\ system_threads \in [Slots -> thread_t]
      /\ pc \in [Slots -> Labels] /\ yielding \subseteq Slots
  BY InvTypes
<1>1. /\ t = current_thread /\ t \notin yielding /\ pc[t] = "user" /\ t # Idle
      /\ UNCHANGED <<thread_priorities, current_thread, current_active_state,
                     thread_count, word, bits, held>>
  BY DEF lockWaitIndefinite_block, BlockOn, lock_block, Calling, At
<1>2. /\ system_threads' \in [Slots -> thread_t]
      /\ system_threads'[t].mutex_semaphore = m
      /\ \A u \in Slots \ {t} : system_threads'[u] = system_threads[u]
      /\ yielding' = yielding \cup {t}
      /\ \/ pc' = [pc EXCEPT ![t] = "lock"]
         \/ /\ pc' = [pc EXCEPT ![t] = "lockWaitIndefinite"]
            /\ system_threads'[t].flags = "BLOCKED_MUTEX"
  BY <1>t, BlockUpdate
<1>3. TypeOK'
  BY <1>t, <1>1, <1>2 DEF MutexInv, TypeOK, ApplicationTypeOK, KernelTypeOK, Labels
<1>4. IdleReady'
  BY <1>t, <1>1, <1>2 DEF MutexInv, IdleReady, Listed, flags
<1>5. WaitsForMutex' /\ YieldsBlocked' /\ ResumesFree'
  BY <1>t, <1>1, <1>2 DEF MutexInv, WaitsForMutex, YieldsBlocked, ResumesFree, this, flags
<1> QED
  BY <1>1, <1>3, <1>4, <1>5
     DEF MutexInv, KernelStarted, MutualExclusion, LockedIffHeld

(* The running thread goes to sleep.                                       *)
LEMMA SleepStep ==
  ASSUME MutexInv, NEW t \in Slots, os_thread_sleep_ms(t), UNCHANGED held
  PROVE  MutexInv'
<1> USE SlotFacts, InvTypes
<1>1. /\ t = current_thread /\ t \notin yielding /\ pc[t] = "user" /\ t # Idle
      /\ pc' = [pc EXCEPT ![t] = "user"] /\ yielding' = yielding \cup {t}
      /\ UNCHANGED <<thread_priorities, current_thread, current_active_state,
                     thread_count, word, bits, held>>
  BY DEF os_thread_sleep_ms, Calling, At, YieldThen
<1>2. /\ system_threads' \in [Slots -> thread_t]
      /\ \A u \in Slots \ {t} : system_threads'[u] = system_threads[u]
  BY SleepUpdate DEF os_thread_sleep_ms
<1>3. TypeOK'
  BY <1>1, <1>2 DEF MutexInv, TypeOK, ApplicationTypeOK, KernelTypeOK, Labels
<1>4. IdleReady'
  BY <1>1, <1>2 DEF MutexInv, IdleReady, Listed, flags
<1>5. WaitsForMutex' /\ YieldsBlocked' /\ ResumesFree'
  BY <1>1, <1>2 DEF MutexInv, WaitsForMutex, YieldsBlocked, ResumesFree, this, flags
<1> QED
  BY <1>1, <1>3, <1>4, <1>5
     DEF MutexInv, KernelStarted, MutualExclusion, LockedIffHeld

(* A lock call with a timeout finds the mutex taken, and gives up.         *)
LEMMA GiveUpStep ==
  ASSUME MutexInv, NEW t \in Slots, t = current_thread, t \notin yielding,
         Goto(t, "user"), UNCHANGED <<kernelVars, held>>
  PROVE  MutexInv'
<1> USE SlotFacts, InvTypes
<1>1. TypeOK'
  BY DEF MutexInv, TypeOK, ApplicationTypeOK, KernelTypeOK, kernelVars, Goto, Labels
<1>2. IdleReady'
  BY DEF MutexInv, IdleReady, Listed, flags, kernelVars, Goto
<1>3. WaitsForMutex' /\ YieldsBlocked' /\ ResumesFree'
  BY DEF MutexInv, WaitsForMutex, YieldsBlocked, ResumesFree, this, flags,
         kernelVars, Goto
<1> QED
  BY <1>1, <1>2, <1>3
    DEF MutexInv, kernelVars, KernelStarted, MutualExclusion, LockedIffHeld

(* A context switch: who waits stays blocked, and whoever is chosen out of *)
(* a wait finds its mutex free.                                            *)
LEMMA SwitchStep ==
  ASSUME MutexInv, NEW t \in Slots, t = current_thread, ContextSwitch,
         UNCHANGED <<pc, held>>, yielding' = yielding \ {t},
         t \in yielding \/ pc[t] = "user"
  PROVE  MutexInv'
<1> USE SlotFacts, InvTypes
<1>1. KernelTypeOK'
  BY ContextSwitchType
<1>2. os_get_next_thread /\ UNCHANGED <<thread_priorities, current_active_state, word, bits>>
  BY DEF ContextSwitch, MutexInv, KernelStarted
<1>3. current_thread' \in Slots /\ current_thread' # NULL
  BY <1>2, IdleEndsWalk, Schedule DEF MutexInv, IdleReady
<1>4. /\ Ready(current_thread') /\ flags(current_thread)' = "RUNNING"
      /\ \A u \in Slots : u # current_thread' => system_threads'[u] = system_threads[u]
      /\ \A u \in Slots :
           system_threads'[u].mutex_semaphore = system_threads[u].mutex_semaphore
  BY <1>2, <1>3, Schedule
<1>6. TypeOK'
  BY <1>1 DEF MutexInv, TypeOK, ApplicationTypeOK
<1>7. IdleReady'
  BY <1>2, <1>3, <1>4 DEF MutexInv, IdleReady, Listed, flags
<1>8. WaitsForMutex' /\ YieldsBlocked'
  BY <1>4 DEF MutexInv, WaitsForMutex, YieldsBlocked, this
<1>9. ResumesFree'
  <2> SUFFICES ASSUME NEW u \in Slots, pc[u] = "lockWaitIndefinite", u \notin yielding'
               PROVE  IF u = current_thread' THEN word[this(u)] = MUTEX_UNLOCKED
                        ELSE flags(u)' \in {"BLOCKED_MUTEX", "SUSPENDED"}
    BY <1>2, <1>4 DEF ResumesFree, this
  <2>1. flags(u) \in {"BLOCKED_MUTEX", "SUSPENDED"}
    BY DEF MutexInv, ResumesFree, YieldsBlocked
  <2>2. CASE u = current_thread'
    <3>1. CanWake(system_threads[u]) /\ flags(u) = "BLOCKED_MUTEX"
      BY <1>4, <2>1, <2>2 DEF Ready, CanWake, flags
    <3> QED
      BY <2>2, <3>1 DEF CanWake, MutexReleased, flags, this, MUTEX_UNLOCKED
  <2>3. CASE u # current_thread'
    BY <1>4, <2>1, <2>3 DEF flags
  <2> QED
    BY <2>2, <2>3
<1> QED
  BY <1>2, <1>6, <1>7, <1>8, <1>9
     DEF MutexInv, KernelStarted, MutualExclusion, LockedIffHeld

(* setup() creates a thread in a slot nobody waits in.                     *)
LEMMA SetupStep ==
  ASSUME MutexInv, setup, UNCHANGED held
  PROVE  MutexInv'
<1> USE SlotFacts, InvTypes
<1>1. UNCHANGED <<current_thread, current_active_state, word, bits, pc, yielding, held>>
  BY DEF setup
<1>2. PICK priority \in 0 .. MAX_PRIORITY : AddThread(priority)
  BY DEF setup
<1>3. /\ KernelTypeOK'
      /\ \A u \in Slots : Listed(u) => Listed(u)'
      /\ \A u \in Slots :
           system_threads'[u].mutex_semaphore = system_threads[u].mutex_semaphore
  BY <1>1, <1>2, AddThreadEffect DEF KernelTypeOK
<1>4. \A u \in Slots : ~FreeSlot(u) => flags(u)' = flags(u)
  BY <1>2, AddThreadEffect DEF flags
<1>5. TypeOK'
  BY <1>1, <1>3 DEF MutexInv, TypeOK, ApplicationTypeOK
<1>6. IdleReady'
  BY <1>1, <1>3, <1>4 DEF MutexInv, IdleReady, FreeSlot
<1>7. WaitsForMutex' /\ YieldsBlocked'
  BY <1>1, <1>3, <1>4 DEF MutexInv, WaitsForMutex, YieldsBlocked, this, FreeSlot
<1>8. ResumesFree'
  BY <1>1, <1>3, <1>4 DEF MutexInv, ResumesFree, this, FreeSlot
<1> QED
  BY <1>1, <1>5, <1>6, <1>7, <1>8
     DEF MutexInv, KernelStarted, MutualExclusion, LockedIffHeld

(* One thread suspends another, or itself.                                 *)
LEMMA SuspendStep ==
  ASSUME MutexInv, NEW t \in Slots, NEW target \in Slots,
         os_suspend_thread(t, target), UNCHANGED held
  PROVE  MutexInv'
<1> USE SlotFacts, InvTypes
<1>1. /\ t = current_thread /\ pc[t] = "user" /\ target # Idle
      /\ UNCHANGED <<thread_priorities, current_thread, current_active_state,
                     thread_count, word, bits, pc, yielding, held>>
  BY DEF os_suspend_thread, Calling, At
<1>2. /\ system_threads' \in [Slots -> thread_t]
      /\ \A u \in Slots : u # target => system_threads'[u] = system_threads[u]
      /\ flags(target)' \in {flags(target), "SUSPENDED"}
      /\ system_threads'[target].mutex_semaphore = system_threads[target].mutex_semaphore
  <2>1. SetFlags(target, "SUSPENDED") /\ "SUSPENDED" \in thread_state_t
    BY DEF os_suspend_thread, thread_state_t
  <2> QED
    BY <2>1, SetFlagsType
<1>3. ASSUME NEW u \in Slots
      PROVE  /\ flags(u)' \in {flags(u), "SUSPENDED"}
             /\ system_threads'[u].mutex_semaphore = system_threads[u].mutex_semaphore
  <2>1. CASE u = target
    BY <1>2, <2>1
  <2>2. CASE u # target
    BY <1>2, <2>2 DEF flags
  <2> QED
    BY <2>1, <2>2
<1>4. TypeOK'
  BY <1>1, <1>2 DEF MutexInv, TypeOK, ApplicationTypeOK, KernelTypeOK
<1>5. IdleReady'
  BY <1>1, <1>2 DEF MutexInv, IdleReady, Listed, flags
<1>6. WaitsForMutex' /\ YieldsBlocked'
  BY <1>1, <1>3 DEF MutexInv, WaitsForMutex, YieldsBlocked, this
<1>7. ResumesFree'
  BY <1>1, <1>3 DEF MutexInv, ResumesFree, this
<1> QED
  BY <1>1, <1>4, <1>5, <1>6, <1>7
     DEF MutexInv, KernelStarted, MutualExclusion, LockedIffHeld

(* Time passes, or nothing happens.                                        *)
LEMMA ClockStep ==
  ASSUME MutexInv, (systick /\ UNCHANGED held) \/ UNCHANGED vars
  PROVE  MutexInv'
<1> USE SlotFacts, InvTypes
<1>1. /\ KernelTypeOK'
      /\ \A u \in Slots :
           /\ flags(u)' = flags(u)
           /\ system_threads'[u].mutex_semaphore = system_threads[u].mutex_semaphore
  <2>1. CASE systick
    BY <2>1, TickType DEF systick
  <2>2. CASE UNCHANGED vars
    BY <2>2 DEF vars, lockVars, threadVars, kernelVars, KernelTypeOK, flags
  <2> QED
    BY <2>1, <2>2
<1>2. UNCHANGED <<thread_priorities, current_thread, current_active_state, word, pc,
                  yielding, held>>
  BY DEF systick, Tick, vars, lockVars, threadVars, kernelVars
<1>3. TypeOK' /\ IdleReady'
  BY <1>1, <1>2 DEF MutexInv, TypeOK, ApplicationTypeOK, IdleReady, Listed
<1>4. WaitsForMutex' /\ YieldsBlocked'
  BY <1>1, <1>2 DEF MutexInv, WaitsForMutex, YieldsBlocked, this
<1>5. ResumesFree'
  BY <1>1, <1>2 DEF MutexInv, ResumesFree, this
<1> QED
  BY <1>2, <1>3, <1>4, <1>5
     DEF MutexInv, KernelStarted, MutualExclusion, LockedIffHeld

(* The invariant is inductive.                                             *)
LEMMA MutexStep ==
  ASSUME ~Preemptive, "resume" \notin Calls
  PROVE  MutexInv /\ [Next]_vars => MutexInv'
<1> SUFFICES ASSUME MutexInv, [Next]_vars PROVE MutexInv'
  OBVIOUS
<1> USE SlotFacts, InvTypes
<1>2. ASSUME NEW t \in Slots, NEW m \in Mutexes,
             tryLock(t, m) \/ lockWaitIndefinite_free(t, m)
      PROVE  MutexInv'
  <2>1. /\ t = current_thread /\ t \notin yielding /\ pc[t] = "user"
        /\ UNCHANGED <<pc, yielding>>
    BY <1>2 DEF tryLock, lockWaitIndefinite_free, TakeFree, Calling, At
  <2>2. Goto(t, "user")
    BY <2>1 DEF Goto
  <2> QED
    BY <1>2, <2>1, <2>2, GrantStep DEF tryLock, lockWaitIndefinite_free, TakeFree
<1>3. ASSUME NEW t \in Slots, NEW m \in Mutexes,
             lockWaitIndefinite_block(t, m) \/ lock_block(t, m)
      PROVE  MutexInv'
  BY <1>3, BlockStep
<1>4. ASSUME NEW t \in Slots, NEW m \in Mutexes, unlock(t, m)
      PROVE  MutexInv'
  BY <1>4, ReleaseStep
<1>5. ASSUME NEW t \in Slots, lockWaitIndefinite_resume(t)
      PROVE  MutexInv'
  <2>1. /\ t = current_thread /\ t \notin yielding
        /\ this(t) \in Mutexes /\ word[this(t)] = MUTEX_UNLOCKED
    BY <1>5
      DEF lockWaitIndefinite_resume, TakeWoken, At, MutexInv, WaitsForMutex, ResumesFree
  <2> QED
    BY <1>5, <2>1, GrantStep DEF lockWaitIndefinite_resume, TakeWoken
<1>6. ASSUME NEW t \in Slots, lock_resume(t)
      PROVE  MutexInv'
  <2>1. /\ t = current_thread /\ t \notin yielding /\ this(t) \in Mutexes
    BY <1>6 DEF lock_resume, At, MutexInv, WaitsForMutex
  <2>2. CASE word[this(t)] = MUTEX_UNLOCKED
    BY <1>6, <2>1, <2>2, GrantStep DEF lock_resume
  <2>3. CASE word[this(t)] # MUTEX_UNLOCKED
    <3>1. Goto(t, "user") /\ UNCHANGED <<kernelVars, held>>
      BY <1>6, <2>3 DEF lock_resume, kernelVars
    <3> QED
      BY <2>1, <3>1, GiveUpStep
  <2> QED
    BY <2>2, <2>3
<1>7. CASE setup /\ UNCHANGED held
  BY <1>7, SetupStep
<1>8. ASSUME NEW t \in Slots, KernelOperation(t), UNCHANGED held
      PROVE  MutexInv'
  <2>1. CASE os_thread_sleep_ms(t)
    BY <1>8, <2>1, SleepStep
  <2>2. CASE os_yield_in_call(t)
    BY <1>8, <2>2, SwitchStep DEF os_yield_in_call
  <2>3. CASE os_yield(t)
    <3>1. t \notin yielding /\ UNCHANGED <<pc, yielding>>
      BY <2>3 DEF os_yield, Calling, At
    <3>2. yielding' = yielding \ {t}
      BY <3>1
    <3> QED
      BY <1>8, <2>3, <3>1, <3>2, SwitchStep DEF os_yield, Calling, At
  <2>4. ASSUME NEW target \in Slots, os_suspend_thread(t, target)
        PROVE  MutexInv'
    BY <1>8, <2>4, SuspendStep
  <2>5. ~ \E target \in Slots : os_resume_thread(t, target)
    BY DEF os_resume_thread, Calling
  <2> QED
    BY <1>8, <2>1, <2>2, <2>3, <2>4, <2>5 DEF KernelOperation
<1>9. CASE idle_thread_handler /\ UNCHANGED held
  <2>1. /\ Idle = current_thread /\ Idle \notin yielding /\ pc[Idle] = "user"
        /\ UNCHANGED <<pc, yielding, held>> /\ ContextSwitch
    BY <1>9 DEF idle_thread_handler, At
  <2>2. yielding' = yielding \ {Idle}
    BY <2>1
  <2> QED
    BY <2>1, <2>2, SwitchStep
<1>10. CASE context_switch_pit_isr
  BY <1>10 DEF context_switch_pit_isr, TimerSwitch
<1>11. CASE (systick /\ UNCHANGED held) \/ UNCHANGED vars
  BY <1>11, ClockStep
<1> QED
  BY <1>2, <1>3, <1>4, <1>5, <1>6, <1>7, <1>8, <1>9, <1>10, <1>11
     DEF Next, ApplicationNext, MutexOperation

(* Every reachable state satisfies the invariant.                          *)
THEOREM MutexInvariant ==
  ASSUME ~Preemptive, "resume" \notin Calls
  PROVE  Spec => []MutexInv
<1>1. MutexInv /\ [Next]_vars => MutexInv'
  BY MutexStep
<1> QED
  BY <1>1, MutexInit, PTL DEF Spec

(* Two threads never both rely on having locked a mutex, however they mix  *)
(* lock, tryLock and lockWaitIndefinite.                                   *)
THEOREM MutexExcludes ==
  ASSUME ~Preemptive, "resume" \notin Calls
  PROVE  Spec => []MutualExclusion
<1>1. MutexInv => MutualExclusion
  BY DEF MutexInv
<1> QED
  BY <1>1, MutexInvariant, PTL

(* No lock is lost and none is forged.                                     *)
THEOREM LockWordIsTrue ==
  ASSUME ~Preemptive, "resume" \notin Calls
  PROVE  Spec => []LockedIffHeld
<1>1. MutexInv => LockedIffHeld
  BY DEF MutexInv
<1> QED
  BY <1>1, MutexInvariant, PTL

(* No path through the mutex leaves the kernel stopped.                    *)
THEOREM KernelNeverLeftStopped ==
  ASSUME ~Preemptive, "resume" \notin Calls
  PROVE  Spec => []KernelStarted
<1>1. MutexInv => KernelStarted
  BY DEF MutexInv
<1> QED
  BY <1>1, MutexInvariant, PTL

(* The second test of lockWaitIndefinite never fails.                      *)
THEOREM WakeUpsAreTrue ==
  ASSUME ~Preemptive, "resume" \notin Calls
  PROVE  Spec => []WokenFindsFree
<1>1. MutexInv => WokenFindsFree
  BY DEF MutexInv, ResumesFree, WokenFindsFree, At
<1> QED
  BY <1>1, MutexInvariant, PTL

-----------------------------------------------------------------------------
(* A state word only ever says unlocked or locked.                         *)
WordBinary == \A m \in Mutexes : word[m] \in {MUTEX_UNLOCKED, MUTEX_LOCKED}

LEMMA WordStep == MutexInv /\ WordBinary /\ [Next]_vars => WordBinary'
<1> SUFFICES ASSUME MutexInv, WordBinary, [Next]_vars PROVE WordBinary'
  OBVIOUS
<1>0. word \in [Mutexes -> 0 .. WORD_MOD - 1]
  BY InvTypes
<1>1. ASSUME NEW m \in Mutexes, NEW state \in {MUTEX_UNLOCKED, MUTEX_LOCKED},
             Write(m, state)
      PROVE  WordBinary'
  BY <1>0, <1>1 DEF WordBinary, Write
<1>2. UNCHANGED word => WordBinary'
  BY DEF WordBinary
<1>3. ASSUME NEW t \in Slots, MutexOperation(t) PROVE WordBinary'
  <2>1. ASSUME NEW m \in Mutexes, tryLock(t, m) \/ lockWaitIndefinite_free(t, m)
        PROVE  WordBinary'
    BY <1>1, <2>1 DEF tryLock, lockWaitIndefinite_free, TakeFree
  <2>2. ASSUME NEW m \in Mutexes, lockWaitIndefinite_block(t, m) \/ lock_block(t, m)
        PROVE  WordBinary'
    BY <1>2, <2>2 DEF lockWaitIndefinite_block, BlockOn, lock_block
  <2>3. ASSUME NEW m \in Mutexes, unlock(t, m) PROVE WordBinary'
    BY <1>1, <2>3 DEF unlock, GiveBack
  <2>4. CASE lockWaitIndefinite_resume(t)
    BY <1>1, <1>2, <2>4
       DEF lockWaitIndefinite_resume, TakeWoken, At, MutexInv, WaitsForMutex
  <2>5. CASE lock_resume(t)
    BY <1>1, <1>2, <2>5 DEF lock_resume, At, MutexInv, WaitsForMutex
  <2> QED
    BY <1>3, <2>1, <2>2, <2>3, <2>4, <2>5 DEF MutexOperation
<1>4. ASSUME ApplicationNext PROVE UNCHANGED word
  <2>1. ASSUME NEW t \in Slots, KernelOperation(t) PROVE UNCHANGED word
    BY <2>1 DEF KernelOperation, os_thread_sleep_ms, os_yield_in_call, os_yield,
                os_suspend_thread, os_resume_thread, ContextSwitch
  <2> QED
    BY <1>4, <2>1 DEF ApplicationNext, setup, idle_thread_handler, ContextSwitch,
                      context_switch_pit_isr, TimerSwitch, systick, Tick
<1> QED
  BY <1>2, <1>3, <1>4 DEF Next, vars, lockVars, threadVars, kernelVars

(* A mutex is free of owners exactly when its word says so.                *)
LEMMA FreeIsAbstract ==
  ASSUME MutexInv, WordBinary, NEW m \in Mutexes
  PROVE  word[m] = MUTEX_UNLOCKED <=> Abstract!Free(m)
<1>1. word[m] = MUTEX_LOCKED <=> \E t \in Slots : m \in held[t]
  BY DEF MutexInv, LockedIffHeld
<1>2. word[m] = MUTEX_UNLOCKED <=> word[m] # MUTEX_LOCKED
  BY InvTypes DEF WordBinary
<1> QED
  BY <1>1, <1>2 DEF Abstract!Free

(* What threads, the timer and the clock do besides the calls of MutexLock *)
(* leaves everybody's place in a blocking call, and its mutex, alone.      *)
LEMMA WaitsUndisturbed ==
  ASSUME TypeOK, ApplicationNext
  PROVE  UNCHANGED pc /\ \A u \in Slots : this(u)' = this(u)
<1> USE SlotFacts DEF this
<1>0. /\ KernelTypeOK /\ system_threads \in [Slots -> thread_t]
      /\ pc \in [Slots -> Labels]
  BY DEF TypeOK, ApplicationTypeOK, KernelTypeOK
<1>1. CASE setup
  <2>1. PICK priority \in 0 .. MAX_PRIORITY : AddThread(priority)
    BY <1>1 DEF setup
  <2> QED
    BY <1>0, <1>1, <2>1, AddThreadEffect DEF setup
<1>2. ASSUME NEW t \in Slots, os_thread_sleep_ms(t)
      PROVE  UNCHANGED pc /\ \A u \in Slots : this(u)' = this(u)
  <2>1. PICK n \in 0 .. MAX_INTERVAL : PrepareSleep(t, n)
    BY <1>2 DEF os_thread_sleep_ms
  <2>2. pc[t] = "user" /\ pc' = [pc EXCEPT ![t] = "user"]
    BY <1>2 DEF os_thread_sleep_ms, Calling, At, YieldThen
  <2>3. \A u \in Slots \ {t} : system_threads'[u] = system_threads[u]
    BY <1>0, <2>1, SleepUpdate
  <2>4. system_threads'[t].mutex_semaphore = system_threads[t].mutex_semaphore
    BY <1>0, <2>1 DEF PrepareSleep, thread_t
  <2> QED
    BY <1>0, <2>2, <2>3, <2>4
<1>3. ASSUME ContextSwitch \/ TimerSwitch, UNCHANGED pc
      PROVE  UNCHANGED pc /\ \A u \in Slots : this(u)' = this(u)
  BY <1>0, <1>3, Schedule DEF ContextSwitch, TimerSwitch
<1>4. ASSUME NEW t \in Slots, NEW target \in Slots,
             os_suspend_thread(t, target) \/ os_resume_thread(t, target)
      PROVE  UNCHANGED pc /\ \A u \in Slots : this(u)' = this(u)
  <2>1. PICK f \in {"SUSPENDED", "RUNNING"} : SetFlags(target, f) /\ UNCHANGED pc
    BY <1>4 DEF os_suspend_thread, os_resume_thread
  <2>2. f \in thread_state_t
    BY DEF thread_state_t
  <2>3. /\ \A u \in Slots : u # target => system_threads'[u] = system_threads[u]
        /\ system_threads'[target].mutex_semaphore = system_threads[target].mutex_semaphore
    BY <1>0, <2>1, <2>2, SetFlagsType
  <2> QED
    BY <2>1, <2>3
<1>5. CASE systick
  BY <1>0, <1>5, TickType DEF systick
<1>6. ASSUME NEW t \in Slots, KernelOperation(t)
      PROVE  UNCHANGED pc /\ \A u \in Slots : this(u)' = this(u)
  BY <1>2, <1>3, <1>4, <1>6 DEF KernelOperation, os_yield_in_call, os_yield
<1> QED
  BY <1>1, <1>3, <1>5, <1>6
     DEF ApplicationNext, idle_thread_handler, context_switch_pit_isr

(* A wait that starts or ends changes what one thread asks for.            *)
LEMMA AskingUpdate ==
  ASSUME NEW t \in Slots, pc \in [Slots -> Labels], NEW label \in Labels,
         pc' = [pc EXCEPT ![t] = label],
         \A u \in Slots \ {t} : this(u)' = this(u)
  PROVE  /\ Asking' = [Asking EXCEPT ![t] =
                         IF label \in {"lockWaitIndefinite", "lock"}
                         THEN this(t)' ELSE NULL]
         /\ Timed' = IF label = "lock" THEN Timed \cup {t} ELSE Timed \ {t}
<1>1. /\ pc'[t] = label
      /\ \A u \in Slots \ {t} : pc'[u] = pc[u]
  OBVIOUS
<1>2. Timed' = IF label = "lock" THEN Timed \cup {t} ELSE Timed \ {t}
  BY <1>1 DEF Timed
<1>3. Asking' = [Asking EXCEPT ![t] =
                   IF label \in {"lockWaitIndefinite", "lock"} THEN this(t)' ELSE NULL]
  BY <1>1 DEF Asking
<1> QED
  BY <1>2, <1>3

(* Every step of MutexLock is a step of the abstract mutex or a stutter.   *)
LEMMA RefinementStep ==
  ASSUME MutexInv, WordBinary, [Next]_vars
  PROVE  [Abstract!Next]_(Abstract!vars)
<1>0. /\ pc \in [Slots -> Labels] /\ system_threads \in [Slots -> thread_t]
      /\ yielding \subseteq Slots /\ TypeOK
  BY InvTypes DEF MutexInv
<1>1. ASSUME UNCHANGED <<pc, held>>, \A u \in Slots : this(u)' = this(u)
      PROVE  UNCHANGED Abstract!vars
  <2>1. UNCHANGED Asking
    BY <1>1 DEF Asking
  <2>2. UNCHANGED Timed
    BY <1>1 DEF Timed
  <2> QED
    BY <1>1, <2>1, <2>2 DEF Abstract!vars
<1>2. ASSUME NEW t \in Slots, pc[t] = "user" PROVE Asking[t] = NULL
  BY <1>2 DEF Asking
<1>3. ASSUME NEW t \in Slots, UNCHANGED <<pc, system_threads>>
      PROVE  UNCHANGED <<Asking, Timed>>
  <2>1. UNCHANGED Asking
    BY <1>3 DEF Asking, this
  <2>2. UNCHANGED Timed
    BY <1>3 DEF Timed
  <2> QED
    BY <2>1, <2>2
<1>4. ASSUME NEW t \in Slots, NEW m \in Mutexes,
             tryLock(t, m) \/ lockWaitIndefinite_free(t, m)
      PROVE  Abstract!Next
  <2>1. /\ pc[t] = "user" /\ word[m] = MUTEX_UNLOCKED /\ Acquired(t, m)
        /\ UNCHANGED <<pc, system_threads>>
    BY <1>4 DEF tryLock, lockWaitIndefinite_free, TakeFree, Calling, At
  <2>2. Abstract!Free(m)
    BY <2>1, FreeIsAbstract
  <2>3. Abstract!Lock(t, m)
    BY <1>2, <1>3, <2>1, <2>2 DEF Abstract!Lock, Abstract!Locks, Acquired
  <2> QED
    BY <2>3 DEF Abstract!Next
<1>5. ASSUME NEW t \in Slots, NEW m \in Mutexes,
             lockWaitIndefinite_block(t, m) \/ lock_block(t, m)
      PROVE  Abstract!Next
  <2>1. pc[t] = "user" /\ UNCHANGED held
    BY <1>5 DEF lockWaitIndefinite_block, BlockOn, lock_block, Calling, At
  <2>2. this(t)' = m /\ \A u \in Slots \ {t} : this(u)' = this(u)
    BY <1>0, <1>5, BlockUpdate DEF this
  <2>3. CASE lock_block(t, m)
    <3>1. pc' = [pc EXCEPT ![t] = "lock"]
      BY <2>3 DEF lock_block, YieldThen
    <3>2. Asking' = [Asking EXCEPT ![t] = m] /\ Timed' = Timed \cup {t}
      BY <1>0, <2>2, <3>1, AskingUpdate DEF Labels
    <3>3. Abstract!Ask(t, m)
      BY <1>2, <2>1, <3>2 DEF Abstract!Ask
    <3> QED
      BY <3>3 DEF Abstract!Next
  <2>4. CASE lockWaitIndefinite_block(t, m)
    <3>1. pc' = [pc EXCEPT ![t] = "lockWaitIndefinite"] /\ word[m] # MUTEX_UNLOCKED
      BY <2>4 DEF lockWaitIndefinite_block, BlockOn, YieldThen
    <3>2. Asking' = [Asking EXCEPT ![t] = m] /\ Timed' = Timed \ {t}
      BY <1>0, <2>2, <3>1, AskingUpdate DEF Labels
    <3>3. t \notin Timed
      BY <2>1 DEF Timed
    <3>4. Abstract!Ask(t, m)
      BY <1>2, <2>1, <3>1, <3>2, <3>3, FreeIsAbstract DEF Abstract!Ask
    <3> QED
      BY <3>4 DEF Abstract!Next
  <2> QED
    BY <1>5, <2>3, <2>4
<1>6. ASSUME NEW t \in Slots, NEW m \in Mutexes, this(t) = m,
             pc[t] \in {"lockWaitIndefinite", "lock"},
             Goto(t, "user"), UNCHANGED system_threads
      PROVE  Abstract!Answered(t) /\ Asking[t] = m
  <2>1. pc' = [pc EXCEPT ![t] = "user"] /\ \A u \in Slots : this(u)' = this(u)
    BY <1>6 DEF Goto, this
  <2>2. Asking' = [Asking EXCEPT ![t] = NULL] /\ Timed' = Timed \ {t}
    BY <1>0, <2>1, AskingUpdate DEF Labels
  <2>3. Asking[t] = m
    BY <1>6 DEF Asking
  <2> QED
    BY <2>2, <2>3 DEF Abstract!Answered
<1>7. ASSUME NEW t \in Slots, lockWaitIndefinite_resume(t)
      PROVE  Abstract!Next
  <2> DEFINE m == this(t)
  <2>1. /\ m \in Mutexes /\ word[m] = MUTEX_UNLOCKED /\ Acquired(t, m)
        /\ pc[t] = "lockWaitIndefinite" /\ Goto(t, "user") /\ UNCHANGED system_threads
    BY <1>7
      DEF lockWaitIndefinite_resume, TakeWoken, At, MutexInv, WaitsForMutex, ResumesFree
  <2> HIDE DEF m
  <2>2. Abstract!Answered(t) /\ Asking[t] = m
    BY <1>6, <2>1 DEF m
  <2>3. Abstract!Grant(t, m)
    BY <2>1, <2>2, FreeIsAbstract DEF Abstract!Grant, Abstract!Locks, Acquired
  <2> QED
    BY <2>1, <2>3 DEF Abstract!Next
<1>8. ASSUME NEW t \in Slots, lock_resume(t)
      PROVE  Abstract!Next
  <2> DEFINE m == this(t)
  <2>1. /\ m \in Mutexes /\ pc[t] = "lock" /\ Goto(t, "user") /\ UNCHANGED system_threads
        /\ IF word[m] = MUTEX_UNLOCKED THEN Acquired(t, m) ELSE UNCHANGED held
    BY <1>8 DEF lock_resume, At, MutexInv, WaitsForMutex
  <2> HIDE DEF m
  <2>2. Abstract!Answered(t) /\ Asking[t] = m
    BY <1>6, <2>1 DEF m
  <2>3. t \in Timed
    BY <2>1 DEF Timed
  <2>4. CASE word[m] = MUTEX_UNLOCKED
    <3>1. Abstract!Grant(t, m)
      BY <2>1, <2>2, <2>4, FreeIsAbstract DEF Abstract!Grant, Abstract!Locks, Acquired
    <3> QED
      BY <2>1, <3>1 DEF Abstract!Next
  <2>5. CASE word[m] # MUTEX_UNLOCKED
    <3>1. Abstract!Refuse(t, m)
      BY <2>1, <2>2, <2>3, <2>5, FreeIsAbstract DEF Abstract!Refuse
    <3> QED
      BY <2>1, <3>1 DEF Abstract!Next
  <2> QED
    BY <2>4, <2>5
<1>9. ASSUME NEW t \in Slots, NEW m \in Mutexes, unlock(t, m)
      PROVE  Abstract!Next
  <2>1. pc[t] = "user" /\ UNCHANGED <<pc, system_threads>>
    BY <1>9 DEF unlock, Calling, At
  <2>2. Abstract!Unlock(t, m)
    BY <1>2, <1>3, <1>9, <2>1 DEF unlock, GiveBack, Abstract!Unlock
  <2> QED
    BY <2>2 DEF Abstract!Next
<1>10. ASSUME ApplicationNext, UNCHANGED held PROVE UNCHANGED Abstract!vars
  BY <1>0, <1>1, <1>10, WaitsUndisturbed
<1>11. CASE UNCHANGED vars
  BY <1>1, <1>11 DEF vars, lockVars, threadVars, kernelVars, this
<1> QED
  BY <1>4, <1>5, <1>7, <1>8, <1>9, <1>10, <1>11 DEF Next, MutexOperation

(* MutexLock implements the abstract mutex: besides one owner at a time,   *)
(* a wait keeps its mutex, is answered truly, and never without a timeout  *)
(* in the negative.                                                        *)
THEOREM ImplementsAbstractMutex ==
  ASSUME ~Preemptive, "resume" \notin Calls
  PROVE  Spec => AbstractSpec
<1>1. Init => Abstract!Init
  <2>1. Init => Asking = [t \in Slots |-> NULL]
    BY DEF Init, ApplicationInit, Asking
  <2>2. Init => Timed = {}
    BY DEF Init, ApplicationInit, Timed
  <2> QED
    BY <2>1, <2>2 DEF Init, Abstract!Init
<1>2. Init => WordBinary
  BY DEF Init, ApplicationInit, KernelInit, WordBinary, Mutexes, MUTEX_UNLOCKED
<1>3. MutexInv /\ WordBinary /\ [Next]_vars => WordBinary'
  BY WordStep
<1>4. MutexInv /\ WordBinary /\ [Next]_vars => [Abstract!Next]_(Abstract!vars)
  BY RefinementStep
<1>5. Spec => []MutexInv
  BY MutexInvariant
<1> QED
  BY <1>1, <1>2, <1>3, <1>4, <1>5, PTL DEF Spec, AbstractSpec, Abstract!Spec

-----------------------------------------------------------------------------
(* From here on the timer interrupt may switch threads at any time, and    *)
(* threads may resume each other.                                          *)

(* Nobody disturbs a lock until the kernel is left stopped, and then only  *)
(* the thread that left it so goes on.                                     *)
OverlapInv ==
  /\ TypeOK
  /\ WaitsForMutex
  /\ IF current_active_state = "STOPPED"
     THEN OverlapOnlyWhenStopped
     ELSE /\ current_active_state = "STARTED"
          /\ MutualExclusion /\ LockedIffHeld

(* What it says of the types.                                              *)
LEMMA OverlapTypes ==
  ASSUME OverlapInv
  PROVE  /\ ApplicationTypeOK(Labels) /\ KernelTypeOK
         /\ system_threads \in [Slots -> thread_t]
         /\ word \in [Mutexes -> 0 .. WORD_MOD - 1]
         /\ pc \in [Slots -> Labels] /\ yielding \subseteq Slots
         /\ held \in [Slots -> SUBSET Mutexes]
         /\ MUTEX_UNLOCKED \in 0 .. WORD_MOD - 1 /\ MUTEX_LOCKED \in 0 .. WORD_MOD - 1
         /\ MUTEX_UNLOCKED # MUTEX_LOCKED
BY WordAssumption DEF OverlapInv, TypeOK, ApplicationTypeOK, KernelTypeOK, Mutexes,
                      MUTEX_UNLOCKED, MUTEX_LOCKED

(* A step that leaves the locks and their words alone, and in a stopped    *)
(* kernel the running thread too.                                          *)
LEMMA OtherStep ==
  ASSUME OverlapInv, TypeOK', WaitsForMutex',
         UNCHANGED <<word, held, current_active_state>>,
         current_active_state = "STOPPED" => UNCHANGED current_thread
  PROVE  OverlapInv'
BY DEF OverlapInv, OverlapOnlyWhenStopped, MutualExclusion, LockedIffHeld

(* The running thread locks a mutex, or relies on it although it is locked *)
(* and leaves the kernel stopped.                                          *)
LEMMA LockStep ==
  ASSUME OverlapInv, TypeOK', WaitsForMutex', NEW t \in Slots, NEW m \in Mutexes,
         t = current_thread, Acquired(t, m), UNCHANGED current_thread,
         IF word[m] = MUTEX_UNLOCKED
         THEN Write(m, MUTEX_LOCKED) /\ UNCHANGED current_active_state
         ELSE UNCHANGED word /\ current_active_state' = "STOPPED"
  PROVE  OverlapInv'
<1> USE OverlapTypes
<1>1. held'[t] = held[t] \cup {m} /\ \A u \in Slots \ {t} : held'[u] = held[u]
  BY DEF Acquired
<1>2. CASE current_active_state' = "STOPPED"
  <2>1. ASSUME NEW u \in Slots, NEW v \in Slots, u # v, held'[u] \cap held'[v] # {}
        PROVE  t \in {u, v}
    <3>1. CASE current_active_state = "STOPPED"
      BY <1>1, <2>1, <3>1 DEF OverlapInv, OverlapOnlyWhenStopped
    <3>2. CASE current_active_state # "STOPPED"
      BY <1>1, <2>1, <3>2 DEF OverlapInv, MutualExclusion
    <3> QED
      BY <3>1, <3>2
  <2>2. OverlapOnlyWhenStopped'
    BY <1>2, <2>1 DEF OverlapOnlyWhenStopped
  <2> QED
    BY <1>2, <2>2 DEF OverlapInv
<1>3. CASE current_active_state' # "STOPPED"
  <2>1. /\ word[m] = MUTEX_UNLOCKED /\ Write(m, MUTEX_LOCKED)
        /\ current_active_state = "STARTED" /\ current_active_state' = "STARTED"
        /\ MutualExclusion /\ LockedIffHeld
    BY <1>3 DEF OverlapInv
  <2>2. \A u \in Slots : m \notin held[u]
    BY <2>1 DEF LockedIffHeld
  <2>3. MutualExclusion'
    <3> SUFFICES ASSUME NEW u \in Slots, NEW v \in Slots, u # v
                 PROVE  held'[u] \cap held'[v] = {}
      BY DEF MutualExclusion
    <3>1. held[u] \cap held[v] = {}
      BY <2>1 DEF MutualExclusion
    <3> QED
      BY <1>1, <2>2, <3>1
  <2>4. LockedIffHeld'
    BY <2>1 DEF LockedIffHeld, Acquired, Write
  <2> QED
    BY <2>1, <2>3, <2>4 DEF OverlapInv
<1> QED
  BY <1>2, <1>3

(* The running thread gives a mutex back.                                  *)
LEMMA UnlockStep ==
  ASSUME OverlapInv, NEW t \in Slots, NEW m \in Mutexes, unlock(t, m)
  PROVE  OverlapInv'
<1> USE OverlapTypes
<1>1. /\ t = current_thread /\ m \in held[t]
      /\ word' = [word EXCEPT ![m] = MUTEX_UNLOCKED]
      /\ held' = [held EXCEPT ![t] = @ \ {m}]
      /\ UNCHANGED <<system_threads, thread_priorities, current_thread,
                     current_active_state, thread_count, bits, pc, yielding>>
  BY DEF unlock, GiveBack, Write, Calling, At
<1>2. TypeOK' /\ WaitsForMutex'
  BY <1>1 DEF OverlapInv, TypeOK, ApplicationTypeOK, KernelTypeOK, Mutexes,
              WaitsForMutex, this
<1>3. \A u \in Slots : held'[u] \subseteq held[u]
  BY <1>1
<1>4. CASE current_active_state = "STOPPED"
  <2>1. OverlapOnlyWhenStopped'
    BY <1>1, <1>3, <1>4 DEF OverlapInv, OverlapOnlyWhenStopped
  <2> QED
    BY <1>1, <1>2, <1>4, <2>1 DEF OverlapInv
<1>5. CASE current_active_state # "STOPPED"
  <2>1. MutualExclusion /\ LockedIffHeld
    BY <1>5 DEF OverlapInv
  <2>2. MutualExclusion'
    BY <1>3, <2>1 DEF MutualExclusion
  <2>3. \A u \in Slots \ {t} : m \notin held[u]
    BY <1>1, <2>1 DEF MutualExclusion
  <2>4. LockedIffHeld'
    BY <1>1, <2>1, <2>3 DEF LockedIffHeld
  <2> QED
    BY <1>1, <1>2, <1>5, <2>2, <2>4 DEF OverlapInv
<1> QED
  BY <1>4, <1>5

(* A lock call that ends, with the mutex or without.                       *)
LEMMA LockTypes ==
  ASSUME OverlapInv, NEW t \in Slots, NEW m \in Mutexes,
         pc' \in {pc, [pc EXCEPT ![t] = "user"]},
         UNCHANGED word \/ Write(m, MUTEX_LOCKED),
         UNCHANGED held \/ Acquired(t, m),
         current_active_state' \in {current_active_state, "STOPPED"},
         UNCHANGED <<system_threads, thread_priorities, current_thread, thread_count,
                     bits, yielding>>
  PROVE  TypeOK' /\ WaitsForMutex'
<1> USE OverlapTypes
<1>1. pc' \in [Slots -> Labels]
  BY DEF Labels
<1>2. word' \in [Words -> 0 .. WORD_MOD - 1] /\ held' \in [Slots -> SUBSET Mutexes]
  BY DEF Write, Acquired, Mutexes
<1>3. TypeOK'
  BY <1>1, <1>2 DEF OverlapInv, TypeOK, ApplicationTypeOK, KernelTypeOK, os_state_t
<1>4. WaitsForMutex'
  BY DEF OverlapInv, WaitsForMutex, this
<1> QED
  BY <1>3, <1>4

(* The calls of MutexLock.                                                 *)
LEMMA MutexOperationStep ==
  ASSUME OverlapInv, NEW t \in Slots, MutexOperation(t)
  PROVE  OverlapInv'
<1> USE OverlapTypes
<1>1. ASSUME NEW m \in Mutexes, tryLock(t, m) \/ lockWaitIndefinite_free(t, m)
      PROVE  OverlapInv'
  <2>1. /\ t = current_thread /\ TakeFree(t, m) /\ UNCHANGED <<pc, yielding>>
    BY <1>1 DEF tryLock, lockWaitIndefinite_free, Calling, At
  <2>2. TypeOK' /\ WaitsForMutex'
    BY <2>1, LockTypes DEF TakeFree
  <2> QED
    BY <2>1, <2>2, LockStep DEF TakeFree
<1>2. ASSUME NEW m \in Mutexes, lockWaitIndefinite_block(t, m) \/ lock_block(t, m)
      PROVE  OverlapInv'
  <2>1. /\ UNCHANGED <<thread_priorities, current_thread, current_active_state,
                       thread_count, word, bits, held>>
    BY <1>2 DEF lockWaitIndefinite_block, BlockOn, lock_block
  <2>2. /\ system_threads' \in [Slots -> thread_t]
        /\ system_threads'[t].mutex_semaphore = m
        /\ \A u \in Slots \ {t} : system_threads'[u] = system_threads[u]
        /\ yielding' = yielding \cup {t}
        /\ pc' \in {[pc EXCEPT ![t] = "lock"], [pc EXCEPT ![t] = "lockWaitIndefinite"]}
    BY <1>2, BlockUpdate
  <2>3. TypeOK'
    BY <2>1, <2>2 DEF OverlapInv, TypeOK, ApplicationTypeOK, KernelTypeOK, Labels
  <2>4. WaitsForMutex'
    BY <2>2 DEF OverlapInv, WaitsForMutex, this
  <2> QED
    BY <2>1, <2>3, <2>4, OtherStep
<1>3. ASSUME NEW m \in Mutexes, unlock(t, m) PROVE OverlapInv'
  BY <1>3, UnlockStep
<1>4. CASE lockWaitIndefinite_resume(t)
  <2>1. /\ t = current_thread /\ this(t) \in Mutexes /\ TakeWoken(t) /\ Goto(t, "user")
    BY <1>4 DEF lockWaitIndefinite_resume, At, OverlapInv, WaitsForMutex
  <2>2. TypeOK' /\ WaitsForMutex'
    BY <2>1, LockTypes DEF TakeWoken, Goto
  <2> QED
    BY <2>1, <2>2, LockStep DEF TakeWoken
<1>5. CASE lock_resume(t)
  <2>1. /\ t = current_thread /\ this(t) \in Mutexes /\ Goto(t, "user")
        /\ UNCHANGED <<system_threads, thread_priorities, current_thread,
                       current_active_state, thread_count, bits>>
    BY <1>5 DEF lock_resume, At, OverlapInv, WaitsForMutex
  <2>2. CASE word[this(t)] = MUTEX_UNLOCKED
    <3>1. Write(this(t), MUTEX_LOCKED) /\ Acquired(t, this(t))
      BY <1>5, <2>2 DEF lock_resume
    <3>2. TypeOK' /\ WaitsForMutex'
      BY <2>1, <3>1, LockTypes DEF Goto
    <3> QED
      BY <2>1, <2>2, <3>1, <3>2, LockStep
  <2>3. CASE word[this(t)] # MUTEX_UNLOCKED
    <3>1. UNCHANGED <<word, held>>
      BY <1>5, <2>3 DEF lock_resume
    <3>2. TypeOK' /\ WaitsForMutex'
      BY <2>1, <3>1, LockTypes DEF Goto
    <3> QED
      BY <2>1, <3>1, <3>2, OtherStep
  <2> QED
    BY <2>2, <2>3
<1> QED
  BY <1>1, <1>2, <1>3, <1>4, <1>5 DEF MutexOperation

(* Everything else threads, the timer and the clock do.                    *)
LEMMA ApplicationStep ==
  ASSUME OverlapInv, ApplicationNext, UNCHANGED held
  PROVE  OverlapInv'
<1> USE OverlapTypes
<1>0. UNCHANGED <<word, current_active_state>>
  BY DEF ApplicationNext, setup, AddThread, KernelOperation, os_thread_sleep_ms,
         os_yield_in_call, os_yield, os_suspend_thread, os_resume_thread,
         idle_thread_handler, context_switch_pit_isr, systick, ContextSwitch,
         TimerSwitch, Tick
<1>1. current_active_state = "STOPPED" => UNCHANGED current_thread
  BY DEF ApplicationNext, setup, AddThread, KernelOperation, os_thread_sleep_ms,
         os_yield_in_call, os_yield, os_suspend_thread, os_resume_thread,
         idle_thread_handler, context_switch_pit_isr, systick, ContextSwitch,
         TimerSwitch, Tick
<1>2. ASSUME KernelTypeOK', pc' \in [Slots -> Labels], yielding' \subseteq Slots,
             \A u \in Slots : pc'[u] # "user" => pc'[u] = pc[u],
             \A u \in Slots :
               system_threads'[u].mutex_semaphore = system_threads[u].mutex_semaphore
      PROVE  OverlapInv'
  <2>1. TypeOK'
    BY <1>2 DEF OverlapInv, TypeOK, ApplicationTypeOK
  <2>2. WaitsForMutex'
    BY <1>2 DEF OverlapInv, WaitsForMutex, this
  <2> QED
    BY <1>0, <1>1, <2>1, <2>2, OtherStep
<1>3. CASE setup
  <2>1. PICK priority \in 0 .. MAX_PRIORITY : AddThread(priority)
    BY <1>3 DEF setup
  <2>2. UNCHANGED <<current_thread, current_active_state, word, bits, pc, yielding>>
    BY <1>3 DEF setup
  <2>3. KernelTypeOK' /\ \A u \in Slots :
               system_threads'[u].mutex_semaphore = system_threads[u].mutex_semaphore
    BY <2>1, <2>2, AddThreadEffect DEF KernelTypeOK
  <2> QED
    BY <1>2, <2>2, <2>3
<1>4. ASSUME NEW t \in Slots, os_thread_sleep_ms(t) PROVE OverlapInv'
  <2>1. PICK n \in 0 .. MAX_INTERVAL : PrepareSleep(t, n)
    BY <1>4 DEF os_thread_sleep_ms
  <2>2. /\ pc' = [pc EXCEPT ![t] = "user"] /\ yielding' = yielding \cup {t}
        /\ UNCHANGED <<thread_priorities, current_thread, current_active_state,
                       thread_count, word, bits>>
    BY <1>4 DEF os_thread_sleep_ms, YieldThen
  <2>3. /\ system_threads' \in [Slots -> thread_t]
        /\ \A u \in Slots \ {t} : system_threads'[u] = system_threads[u]
    BY <2>1, SleepUpdate
  <2>4. system_threads'[t].mutex_semaphore = system_threads[t].mutex_semaphore
    BY <2>1 DEF PrepareSleep, thread_t
  <2>5. KernelTypeOK'
    BY <2>2, <2>3 DEF KernelTypeOK
  <2> QED
    BY <1>2, <2>2, <2>3, <2>4, <2>5 DEF Labels
<1>5. ASSUME ContextSwitch \/ TimerSwitch, UNCHANGED pc, yielding' \subseteq yielding
      PROVE  OverlapInv'
  <2>1. KernelTypeOK'
    BY <1>5, ContextSwitchType
  <2>2. \A u \in Slots :
          system_threads'[u].mutex_semaphore = system_threads[u].mutex_semaphore
    BY <1>5, Schedule DEF ContextSwitch, TimerSwitch
  <2> QED
    BY <1>2, <1>5, <2>1, <2>2
<1>6. ASSUME NEW t \in Slots, NEW target \in Slots,
             os_suspend_thread(t, target) \/ os_resume_thread(t, target)
      PROVE  OverlapInv'
  <2>1. PICK f \in {"SUSPENDED", "RUNNING"} :
          /\ SetFlags(target, f)
          /\ UNCHANGED <<thread_priorities, current_thread, current_active_state,
                         thread_count, word, bits, pc, yielding>>
    BY <1>6 DEF os_suspend_thread, os_resume_thread
  <2>2. f \in thread_state_t
    BY DEF thread_state_t
  <2>3. /\ system_threads' \in [Slots -> thread_t]
        /\ \A u \in Slots : u # target => system_threads'[u] = system_threads[u]
        /\ system_threads'[target].mutex_semaphore = system_threads[target].mutex_semaphore
    BY <2>1, <2>2, SetFlagsType
  <2>4. KernelTypeOK'
    BY <2>1, <2>3 DEF KernelTypeOK
  <2> QED
    BY <1>2, <2>1, <2>3, <2>4
<1>7. CASE systick
  <2>1. KernelTypeOK' /\ \A u \in Slots :
          system_threads'[u].mutex_semaphore = system_threads[u].mutex_semaphore
    BY <1>7, TickType DEF systick
  <2> QED
    BY <1>2, <1>7, <2>1 DEF systick
<1>8. ASSUME NEW t \in Slots, KernelOperation(t) PROVE OverlapInv'
  BY <1>4, <1>5, <1>6, <1>8 DEF KernelOperation, os_yield_in_call, os_yield
<1> QED
  BY <1>3, <1>5, <1>7, <1>8
     DEF ApplicationNext, idle_thread_handler, context_switch_pit_isr

(* The invariant is inductive, whatever the timer and the application do.  *)
LEMMA OverlapStep == OverlapInv /\ [Next]_vars => OverlapInv'
<1> SUFFICES ASSUME OverlapInv, [Next]_vars PROVE OverlapInv'
  OBVIOUS
<1>1. CASE UNCHANGED vars
  BY <1>1 DEF vars, lockVars, threadVars, kernelVars, OverlapInv, TypeOK,
              ApplicationTypeOK, KernelTypeOK, WaitsForMutex, this,
              OverlapOnlyWhenStopped, MutualExclusion, LockedIffHeld
<1> QED
  BY <1>1, MutexOperationStep, ApplicationStep DEF Next

(* Every reachable state satisfies the invariant.                          *)
THEOREM OverlapInvariant == Spec => []OverlapInv
<1>1. MutexInv => OverlapInv
  BY DEF MutexInv, OverlapInv, KernelStarted
<1>2. Init => OverlapInv
  BY <1>1, MutexInit
<1> QED
  BY <1>2, OverlapStep, PTL DEF Spec

(* With the timer interrupt, two threads rely on the same mutex only once  *)
(* one of them has left the kernel stopped, and runs alone.                *)
THEOREM OverlapsOnlyWhenStopped == Spec => []OverlapOnlyWhenStopped
<1>1. OverlapInv => OverlapOnlyWhenStopped
  BY DEF OverlapInv, OverlapOnlyWhenStopped, MutualExclusion
<1> QED
  BY <1>1, OverlapInvariant, PTL
=============================================================================
