------------------------- MODULE OSQueueKernelProofs -------------------------
(***************************************************************************)
(* Theorems about VoidOSQueue, for any number of threads and values and    *)
(* any length of the queue: first with the timer interrupt, then in a      *)
(* kernel that only switches threads when they yield.                      *)
(***************************************************************************)
EXTENDS OSQueueKernel, OSThreadKernelProofs

QueueLockWaits == {"push waits", "pop waits", "popBlocking waits"}

QueueLockLabels ==
  {"push stores", "push wakes", "push unlocks", "pop takes", "popBlocking takes"}

ConsumerLockLabels ==
  {"popBlocking tests", "popBlocking registers", "popBlocking blocks",
   "popBlocking leaves"}

(* The locks a thread relies on at each label, for better or worse.        *)
ReliedOn(label) ==
  IF label \in QueueLockLabels THEN {queue_lock}
  ELSE IF label \in ConsumerLockLabels THEN {consumer_lock} ELSE {}

HeldByLabel == \A t \in Slots : held[t] = ReliedOn(pc[t])

(* A thread inside lockWaitIndefinite has the lock in its slot.            *)
WaitsForItsLock ==
  \A t \in Slots :
    /\ pc[t] \in QueueLockWaits => this(t) = queue_lock
    /\ pc[t] = "popBlocking waits for consumer_lock" => this(t) = consumer_lock

(* Nobody is inside an operation before the ring has its buffer.           *)
BufferInUse ==
  /\ \A t \in Slots : pc[t] # "user" => data_buffer # NULL
  /\ data_buffer # NULL => queue_len = QUEUE_LEN

Excluded == \A t, u \in Slots : t # u => held[t] \cap held[u] = {}

LockedIffHeld ==
  \A m \in Mutexes : word[m] = MUTEX_LOCKED <=> \E t \in Slots : m \in held[t]

(* Nobody disturbs a lock until the kernel is left stopped, and then only  *)
(* the thread that left it so goes on.                                     *)
LocksRespected ==
  IF current_active_state = "STOPPED"
  THEN OverlapOnlyWhenStopped
  ELSE current_active_state = "STARTED" /\ Excluded /\ LockedIffHeld

(* Until then, a thread about to block, and one that is blocked, is the    *)
(* registered one, and no blocked thread runs.                             *)
BlocksRegistered ==
  current_active_state = "STARTED" =>
    \A t \in Slots :
      /\ pc[t] = "popBlocking blocks" => consumer_thread_ptr = t
      /\ flags(t) = "BLOCKED_QUEUE" =>
           /\ pc[t] = "popBlocking leaves"
           /\ consumer_thread_ptr = t
           /\ t = current_thread => t \in yielding

QueueInv ==
  /\ TypeOK
  /\ HeldByLabel
  /\ WaitsForItsLock
  /\ BufferInUse
  /\ LocksRespected
  /\ BlocksRegistered

-----------------------------------------------------------------------------
(* Without the timer: only the running thread is in the middle of a call,  *)
(* all but the two places where popBlocking waits.                         *)
WaitingLabels == {"user", "popBlocking waits for consumer_lock", "popBlocking leaves"}

OneInside ==
  /\ yielding \subseteq {current_thread}
  /\ \A t \in Slots :
       /\ pc[t] \notin WaitingLabels => t = current_thread /\ t \notin yielding
       /\ pc[t] \notin QueueLockWaits

QueueLockFree ==
  word[queue_lock] = MUTEX_UNLOCKED \/ \E t \in Slots : queue_lock \in held[t]

(* Without os_resume_thread either: a thread that waits for consumer_lock  *)
(* runs on only once the lock is free, and the kernel stays started.       *)
FreeSlotsUnused ==
  \A t \in Slots :
    /\ t = Main => pc[t] = "user"
    /\ t # Main /\ FreeSlot(t) => pc[t] = "user" /\ t # current_thread

WaiterFindsFree ==
  \A t \in Slots :
    pc[t] = "popBlocking waits for consumer_lock" =>
      IF t \in yielding THEN flags(t) = "BLOCKED_MUTEX"
      ELSE IF t = current_thread THEN word[consumer_lock] = MUTEX_UNLOCKED
      ELSE flags(t) \in {"BLOCKED_MUTEX", "SUSPENDED"}

RegisteredInside ==
  \A t \in Slots :
    consumer_thread_ptr = t => pc[t] \in {"popBlocking blocks", "popBlocking leaves"}

(* consumer_lock is free from where popBlocking gives it back to the end.  *)
LeaverReleased ==
  \A t \in Slots :
    pc[t] \in {"popBlocking locks", "popBlocking takes"} =>
      word[consumer_lock] = MUTEX_UNLOCKED

EmptyWhenBlocking ==
  \A t \in Slots :
    /\ pc[t] \in {"popBlocking registers", "popBlocking blocks"} => current_elements = 0
    /\ flags(t) = "BLOCKED_QUEUE" =>
         current_elements = 0 \/ \E u \in Slots : pc[u] = "push wakes"

CoopInv ==
  /\ QueueInv /\ OneInside /\ QueueLockFree
  /\ current_active_state = "STARTED"
  /\ FreeSlotsUnused
  /\ WaiterFindsFree
  /\ RegisteredInside
  /\ LeaverReleased
  /\ EmptyWhenBlocking

(* The elements fill the ring from head up to tail.                        *)
RingInv ==
  /\ current_elements \in 0 .. QUEUE_LEN
  /\ tail = IF head + current_elements < QUEUE_LEN
            THEN head + current_elements ELSE head + current_elements - QUEUE_LEN
  /\ data_buffer = NULL => current_elements = 0

PopLabels == {"pop waits", "pop takes"}

PopBlockingLabels ==
  ConsumerLockLabels \cup {"popBlocking waits for consumer_lock", "popBlocking locks",
                           "popBlocking waits", "popBlocking takes"}

OneKindOfPop ==
  \A t \in Slots : /\ pc[t] \in PopLabels => "pop" \in Calls
                   /\ pc[t] \in PopBlockingLabels => "popBlocking" \in Calls

(* A push that has stored and a consumer on its last steps see an element. *)
ElementThere ==
  \A t \in Slots :
    pc[t] \in {"push wakes", "popBlocking locks", "popBlocking takes"} =>
      current_elements # 0

(* So does a consumer that has been woken and not been suspended since.    *)
LeaverHasElement ==
  \A t \in Slots :
    pc[t] = "popBlocking leaves" =>
      IF t \in yielding THEN flags(t) = "BLOCKED_QUEUE"
      ELSE current_elements = 0 =>
             t # current_thread /\ flags(t) \in {"BLOCKED_QUEUE", "SUSPENDED"}

ElementInv ==
  /\ CoopInv
  /\ RingInv
  /\ OneKindOfPop
  /\ ElementThere
  /\ LeaverHasElement

-----------------------------------------------------------------------------
(* What the application's own steps do, in the three ways that matter: the *)
(* scheduler chooses a thread, the running thread goes to sleep, or the    *)
(* running thread goes on and others have been created, suspended or       *)
(* resumed meanwhile.                                                      *)
Switches ==
  /\ current_thread \in Slots
  /\ \/ /\ yielding' = yielding \ {current_thread}
        /\ current_thread \in yielding \/ pc[current_thread] = "user"
     \/ Preemptive /\ UNCHANGED yielding
  /\ IF current_active_state = "STARTED"
     THEN \A u \in Slots :
            IF u = current_thread' THEN Ready(u) /\ flags(u)' = "RUNNING"
                                   ELSE flags(u)' = flags(u)
     ELSE UNCHANGED <<current_thread, system_threads>>

Sleeps ==
  /\ current_thread \in Slots
  /\ current_thread \notin yielding /\ pc[current_thread] = "user"
  /\ yielding' = yielding \cup {current_thread}
  /\ UNCHANGED current_thread
  /\ \A u \in Slots :
       flags(u)' = IF u = current_thread THEN "SLEEPING" ELSE flags(u)

Stays ==
  /\ UNCHANGED <<current_thread, yielding>>
  /\ \A u \in Slots : flags(u)' # flags(u) =>
       /\ current_thread \notin yielding /\ pc[current_thread] = "user"
       /\ u # Main
       /\ \/ ~FreeSlot(u) /\ flags(u)' = "SUSPENDED"
          \/ FreeSlot(u) /\ flags(u)' = "RUNNING"
          \/ flags(u) = "SUSPENDED" /\ flags(u)' = "RUNNING" /\ "resume" \in Calls

(* What every such step leaves alone.                                      *)
ApplicationFrame ==
  /\ ApplicationTypeOK(Labels)'
  /\ UNCHANGED <<pc, word, current_active_state>>
  /\ \A u \in Slots : this(u)' = this(u)

(* The scheduler's choice.                                                 *)
LEMMA SwitchCase ==
  ASSUME ApplicationTypeOK(Labels), ContextSwitch \/ TimerSwitch,
         current_thread \in Slots, UNCHANGED pc,
         \/ /\ yielding' = yielding \ {current_thread}
            /\ current_thread \in yielding \/ pc[current_thread] = "user"
         \/ TimerSwitch /\ UNCHANGED yielding
  PROVE  ApplicationFrame /\ Switches
<1>1. KernelTypeOK /\ KernelTypeOK'
  BY ContextSwitchType DEF ApplicationTypeOK
<1>2. ApplicationTypeOK(Labels)'
  BY <1>1 DEF ApplicationTypeOK
<1>3. NULL \notin Slots
  BY ThreadsAssumption, NullAssumption DEF Slots
<1>4. CASE current_active_state = "STARTED"
  <2>1. os_get_next_thread /\ UNCHANGED <<word, current_active_state>>
    BY <1>4 DEF ContextSwitch, TimerSwitch
  <2>2. \A u \in Slots :
          IF u = current_thread' THEN Ready(u) /\ flags(u)' = "RUNNING"
                                 ELSE flags(u)' = flags(u)
    BY <1>1, <1>3, <2>1, Schedule DEF flags
  <2>3. \A u \in Slots : this(u)' = this(u)
    BY <1>1, <2>1, Schedule DEF this
  <2> QED
    BY <1>2, <1>4, <2>1, <2>2, <2>3 DEF ApplicationFrame, Switches, TimerSwitch
<1>5. CASE current_active_state # "STARTED"
  <2>1. UNCHANGED <<current_thread, system_threads, word, current_active_state>>
    BY <1>5 DEF ContextSwitch, TimerSwitch
  <2> QED
    BY <1>2, <1>5, <2>1 DEF ApplicationFrame, Switches, this, TimerSwitch
<1> QED
  BY <1>4, <1>5

(* A thread suspended or resumed.                                          *)
LEMMA SuspendCase ==
  ASSUME ApplicationTypeOK(Labels), NEW t \in Slots, NEW target \in Slots,
         os_suspend_thread(t, target) \/ os_resume_thread(t, target)
  PROVE  ApplicationFrame /\ Stays
<1>0. system_threads \in [Slots -> thread_t] /\ KernelTypeOK
  BY DEF ApplicationTypeOK, KernelTypeOK
<1>1. PICK f \in {"SUSPENDED", "RUNNING"} :
        /\ SetFlags(target, f)
        /\ target # Main
        /\ f = "SUSPENDED" => ~FreeSlot(target)
        /\ f = "RUNNING" => flags(target) = "SUSPENDED" /\ "resume" \in Calls
        /\ current_thread \notin yielding /\ pc[current_thread] = "user"
        /\ UNCHANGED <<thread_priorities, current_thread, current_active_state,
                       thread_count, word, bits, pc, yielding>>
  BY DEF os_suspend_thread, os_resume_thread, Calling, At
<1>2. f \in thread_state_t
  BY DEF thread_state_t
<1>3. /\ system_threads' \in [Slots -> thread_t]
      /\ \A u \in Slots : u # target => system_threads'[u] = system_threads[u]
      /\ flags(target)' \in {f, flags(target)}
      /\ system_threads'[target].mutex_semaphore = system_threads[target].mutex_semaphore
  BY <1>0, <1>1, <1>2, SetFlagsType
<1>4. ApplicationTypeOK(Labels)'
  BY <1>1, <1>3 DEF ApplicationTypeOK, KernelTypeOK
<1>5. \A u \in Slots : this(u)' = this(u)
  BY <1>3 DEF this
<1>6. Stays
  <2>1. \A u \in Slots \ {target} : flags(u)' = flags(u)
    BY <1>3 DEF flags
  <2> QED
    BY <1>1, <1>3, <2>1 DEF Stays
<1> QED
  BY <1>1, <1>4, <1>5, <1>6 DEF ApplicationFrame

(* A thread created.                                                       *)
LEMMA SetupCase ==
  ASSUME ApplicationTypeOK(Labels), setup
  PROVE  ApplicationFrame /\ Stays
<1>0. KernelTypeOK
  BY DEF ApplicationTypeOK
<1>1. PICK priority \in 0 .. MAX_PRIORITY : AddThread(priority)
  BY DEF setup
<1>2. /\ UNCHANGED <<current_thread, current_active_state, word, bits, pc, yielding>>
      /\ current_thread \notin yielding /\ pc[current_thread] = "user"
  BY DEF setup, At
<1>3. /\ KernelTypeOK'
      /\ \A u \in Slots :
           system_threads'[u].mutex_semaphore = system_threads[u].mutex_semaphore
  BY <1>0, <1>1, <1>2, AddThreadEffect DEF KernelTypeOK
<1>4. PICK i \in Slots \ {Main} :
        /\ FreeSlot(i)
        /\ flags(i)' = "RUNNING"
        /\ \A t \in Slots : t # i => system_threads'[t] = system_threads[t]
  BY <1>0, <1>1, AddThreadEffect
<1>5. Stays
  BY <1>2, <1>4 DEF Stays, flags
<1> QED
  BY <1>2, <1>3, <1>5 DEF ApplicationFrame, ApplicationTypeOK, this

(* The running thread put to sleep.                                        *)
LEMMA SleepCase ==
  ASSUME ApplicationTypeOK(Labels), NEW t \in Slots, os_thread_sleep_ms(t)
  PROVE  ApplicationFrame /\ Sleeps
<1>0. KernelTypeOK /\ system_threads \in [Slots -> thread_t] /\ pc \in [Slots -> Labels]
  BY DEF ApplicationTypeOK, KernelTypeOK
<1>1. PICK n \in 0 .. MAX_INTERVAL : PrepareSleep(t, n)
  BY DEF os_thread_sleep_ms
<1>2. /\ t = current_thread /\ t \notin yielding /\ pc[t] = "user"
      /\ pc' = [pc EXCEPT ![t] = "user"] /\ yielding' = yielding \cup {t}
      /\ UNCHANGED <<thread_priorities, current_thread, current_active_state,
                     thread_count, word, bits>>
  BY DEF os_thread_sleep_ms, YieldThen, Calling, At
<1>3. UNCHANGED pc
  BY <1>0, <1>2
<1>4. /\ system_threads' \in [Slots -> thread_t]
      /\ flags(t)' = "SLEEPING"
      /\ \A u \in Slots \ {t} : system_threads'[u] = system_threads[u]
  BY <1>0, <1>1, SleepUpdate
<1>5. system_threads'[t].mutex_semaphore = system_threads[t].mutex_semaphore
  BY <1>0, <1>1 DEF PrepareSleep, thread_t
<1>6. ApplicationTypeOK(Labels)'
  BY <1>2, <1>3, <1>4 DEF ApplicationTypeOK, KernelTypeOK
<1>7. \A u \in Slots : this(u)' = this(u)
  BY <1>4, <1>5 DEF this
<1>8. Sleeps
  BY <1>2, <1>4 DEF Sleeps, flags
<1> QED
  BY <1>2, <1>3, <1>6, <1>7, <1>8 DEF ApplicationFrame

(* Every step of the application is one of the three.                      *)
LEMMA ApplicationCases ==
  ASSUME ApplicationTypeOK(Labels), ApplicationNext
  PROVE  ApplicationFrame /\ (Switches \/ Sleeps \/ Stays)
<1>0. NULL \notin Slots /\ Main \in Slots /\ Idle \in Slots
  BY ThreadsAssumption, NullAssumption DEF Main, Idle, Slots
<1>1. CASE setup
  BY <1>1, SetupCase
<1>2. ASSUME NEW t \in Slots, KernelOperation(t)
      PROVE  ApplicationFrame /\ (Switches \/ Sleeps \/ Stays)
  <2>1. CASE os_thread_sleep_ms(t)
    BY <2>1, SleepCase
  <2>2. CASE os_yield_in_call(t)
    BY <2>2, SwitchCase DEF os_yield_in_call
  <2>3. CASE os_yield(t)
    <3>1. /\ t = current_thread /\ pc[t] = "user" /\ ContextSwitch /\ UNCHANGED pc
          /\ yielding' = yielding \ {t}
      BY <2>3 DEF os_yield, Calling, At
    <3> QED
      BY <3>1, SwitchCase
  <2>4. ASSUME NEW target \in Slots,
               os_suspend_thread(t, target) \/ os_resume_thread(t, target)
        PROVE  ApplicationFrame /\ Stays
    BY <2>4, SuspendCase
  <2> QED
    BY <1>2, <2>1, <2>2, <2>3, <2>4 DEF KernelOperation
<1>3. CASE idle_thread_handler
  <2>1. /\ Idle = current_thread /\ pc[Idle] = "user" /\ ContextSwitch /\ UNCHANGED pc
        /\ yielding' = yielding \ {Idle}
    BY <1>3 DEF idle_thread_handler, At
  <2> QED
    BY <1>0, <2>1, SwitchCase
<1>4. CASE context_switch_pit_isr
  <2>1. TimerSwitch /\ current_thread \in Slots /\ UNCHANGED <<pc, yielding>>
    BY <1>4 DEF context_switch_pit_isr, ApplicationTypeOK, KernelTypeOK
  <2> QED
    BY <2>1, SwitchCase
<1>5. CASE systick
  <2>1. /\ KernelTypeOK'
        /\ \A u \in Slots :
             /\ flags(u)' = flags(u)
             /\ system_threads'[u].mutex_semaphore = system_threads[u].mutex_semaphore
    BY <1>5, TickType DEF systick, ApplicationTypeOK
  <2>2. UNCHANGED <<current_thread, current_active_state, word, pc, yielding>>
    BY <1>5 DEF systick, Tick
  <2> QED
    BY <2>1, <2>2 DEF ApplicationFrame, ApplicationTypeOK, Stays, this
<1> QED
  BY <1>1, <1>2, <1>3, <1>4, <1>5 DEF ApplicationNext

-----------------------------------------------------------------------------
(* What the invariant says of the types.                                   *)
LEMMA QueueTypes ==
  ASSUME TypeOK
  PROVE  /\ ApplicationTypeOK(Labels) /\ KernelTypeOK
         /\ system_threads \in [Slots -> thread_t]
         /\ current_thread \in Slots \cup {NULL} /\ NULL \notin Slots
         /\ word \in [Mutexes -> 0 .. WORD_MOD - 1]
         /\ pc \in [Slots -> Labels] /\ yielding \subseteq Slots
         /\ held \in [Slots -> SUBSET Mutexes]
         /\ queue_lock \in Mutexes /\ consumer_lock \in Mutexes
         /\ queue_lock # consumer_lock
         /\ MUTEX_UNLOCKED \in 0 .. WORD_MOD - 1 /\ MUTEX_LOCKED \in 0 .. WORD_MOD - 1
         /\ MUTEX_UNLOCKED # MUTEX_LOCKED
BY WordAssumption, LocksAssumption, ThreadsAssumption, NullAssumption
   DEF TypeOK, ApplicationTypeOK, KernelTypeOK, Mutexes, MUTEX_UNLOCKED, MUTEX_LOCKED,
       Slots

(* The types that a step of an operation of thread t can disturb.          *)
LEMMA OperationTypes ==
  ASSUME TypeOK, NEW t \in Slots, NEW label \in Labels,
         pc' = [pc EXCEPT ![t] = label],
         system_threads' \in [Slots -> thread_t], yielding' \subseteq Slots,
         word' \in [Words -> 0 .. WORD_MOD - 1],
         held' \in [Slots -> SUBSET Mutexes],
         current_active_state' \in {current_active_state, "STOPPED"},
         UNCHANGED <<thread_priorities, current_thread, thread_count, bits>>
  PROVE  /\ ApplicationTypeOK(Labels)'
         /\ held' \in [Slots -> SUBSET Mutexes]
<1>1. KernelTypeOK'
  BY DEF TypeOK, ApplicationTypeOK, KernelTypeOK, os_state_t
<1>2. pc' \in [Slots -> Labels]
  BY QueueTypes
<1> QED
  BY <1>1, <1>2 DEF ApplicationTypeOK

(* A value of each field of the queue stays one as long as nothing is      *)
(* assigned to it.                                                         *)
QueueFieldsOK ==
  /\ consumer_thread_ptr \in Slots \cup {NULL}
  /\ queue_len \in {0, QUEUE_LEN}
  /\ current_elements \in 0 .. COUNT_MOD - 1
  /\ data_buffer \in [Indices -> Data \cup {NULL}] \cup {NULL}
  /\ head \in Indices /\ tail \in Indices
  /\ received \in [Slots -> Data \cup {NULL}]

LEMMA TypeParts ==
  /\ TypeOK <=> /\ ApplicationTypeOK(Labels)
                /\ held \in [Slots -> SUBSET Mutexes]
                /\ QueueFieldsOK
  /\ TypeOK' <=> /\ ApplicationTypeOK(Labels)'
                 /\ held' \in [Slots -> SUBSET Mutexes]
                 /\ QueueFieldsOK'
BY DEF TypeOK, QueueFieldsOK

(* The next index and the next number of elements are in range.            *)
LEMMA AdvancedType ==
  ASSUME NEW index \in Indices, queue_len = QUEUE_LEN
  PROVE  Advanced(index) \in Indices
BY QueueAssumption DEF Advanced, Indices

LEMMA CountType ==
  ASSUME NEW n \in 0 .. COUNT_MOD - 1
  PROVE  /\ Incremented(n) \in 0 .. COUNT_MOD - 1
         /\ Decremented(n) \in 0 .. COUNT_MOD - 1
BY QueueAssumption DEF Incremented, Decremented

-----------------------------------------------------------------------------
(* The running thread takes a lock that is free, or relies on one that it  *)
(* finds locked and leaves the kernel stopped.                             *)
TakesLock(t, m, label) ==
  /\ At(t, pc[t])
  /\ ReliedOn(pc[t]) = {} /\ ReliedOn(label) = {m} /\ label # "popBlocking blocks"
  /\ Acquired(t, m)
  /\ pc' = [pc EXCEPT ![t] = label]
  /\ IF word[m] = MUTEX_UNLOCKED
     THEN Write(m, MUTEX_LOCKED) /\ UNCHANGED current_active_state
     ELSE UNCHANGED word /\ current_active_state' = "STOPPED"
  /\ UNCHANGED <<system_threads, thread_priorities, current_thread, thread_count,
                 bits, yielding, queueVars>>

(* It waits for one.                                                       *)
WaitsForLock(t, m, label) ==
  /\ At(t, pc[t])
  /\ ReliedOn(pc[t]) = {}
  /\ \/ label \in QueueLockWaits /\ m = queue_lock
     \/ label = "popBlocking waits for consumer_lock" /\ m = consumer_lock
  /\ BlockOn(t, m)
  /\ YieldThen(t, label)
  /\ UNCHANGED queueVars

(* It goes on with the lock it has, or gives it back.                      *)
KeepsLock(t, label) ==
  /\ At(t, pc[t])
  /\ ReliedOn(label) = ReliedOn(pc[t]) /\ ReliedOn(label) # {}
  /\ pc' = [pc EXCEPT ![t] = label]
  /\ \/ UNCHANGED yielding
     \/ label = "popBlocking leaves" /\ yielding' = yielding \cup {t}
  /\ UNCHANGED <<thread_priorities, current_thread, current_active_state,
                 thread_count, word, bits, held, queue_len>>

GivesLock(t, m, label) ==
  /\ At(t, pc[t])
  /\ ReliedOn(pc[t]) = {m} /\ label \in {"user", "popBlocking locks"}
  /\ GiveBack(t, m)
  /\ pc' = [pc EXCEPT ![t] = label]
  /\ UNCHANGED <<system_threads, thread_priorities, current_thread,
                 current_active_state, thread_count, bits, yielding, queue_len,
                 data_buffer>>

(* What the labels promise of the locks.                                   *)
LEMMA LabelFacts ==
  /\ QueueLockLabels \subseteq Labels /\ ConsumerLockLabels \subseteq Labels
  /\ QueueLockWaits \subseteq Labels
  /\ ReliedOn("user") = {}
  /\ \A label \in Labels : ReliedOn(label) # {} =>
       label \notin QueueLockWaits \cup {"popBlocking waits for consumer_lock", "user"}
  /\ \A label \in QueueLockWaits \cup {"popBlocking waits for consumer_lock"} :
       ReliedOn(label) = {} /\ label \notin {"user", "popBlocking blocks"}
  /\ \A label \in Labels : label \in ConsumerLockLabels <=> ReliedOn(label) = {consumer_lock}
  /\ \A label \in Labels : label \in QueueLockLabels <=> ReliedOn(label) = {queue_lock}
<1> USE LocksAssumption
        DEF ReliedOn, QueueLockLabels, ConsumerLockLabels, QueueLockWaits
<1>1. /\ QueueLockLabels \subseteq Labels /\ ConsumerLockLabels \subseteq Labels
      /\ QueueLockWaits \subseteq Labels
  BY DEF Labels
<1>2. ReliedOn("user") = {}
  OBVIOUS
<1>3. ASSUME NEW label \in Labels, ReliedOn(label) # {}
      PROVE  label \notin QueueLockWaits \cup {"popBlocking waits for consumer_lock", "user"}
  BY <1>3
<1>4. \A label \in QueueLockWaits \cup {"popBlocking waits for consumer_lock"} :
        ReliedOn(label) = {} /\ label \notin {"user", "popBlocking blocks"}
  OBVIOUS
<1>5. ASSUME NEW label \in Labels
      PROVE  /\ label \in ConsumerLockLabels <=> ReliedOn(label) = {consumer_lock}
             /\ label \in QueueLockLabels <=> ReliedOn(label) = {queue_lock}
  <2>1. /\ {queue_lock} # {consumer_lock} /\ {queue_lock} # {} /\ {consumer_lock} # {}
        /\ QueueLockLabels \cap ConsumerLockLabels = {}
    OBVIOUS
  <2> QED
    BY <2>1
<1> HIDE DEF ReliedOn, QueueLockLabels, ConsumerLockLabels, QueueLockWaits
<1> QED
  BY <1>1, <1>2, <1>3, <1>4, <1>5

LEMMA TakesLockStep ==
  ASSUME QueueInv, NEW t \in Slots, NEW m \in {queue_lock, consumer_lock},
         NEW label \in Labels, TakesLock(t, m, label), data_buffer # NULL
  PROVE  QueueInv'
<1> USE QueueTypes DEF QueueInv
<1>1. /\ t = current_thread /\ t \notin yielding
      /\ pc'[t] = label /\ \A u \in Slots \ {t} : pc'[u] = pc[u]
      /\ held'[t] = held[t] \cup {m} /\ \A u \in Slots \ {t} : held'[u] = held[u]
      /\ UNCHANGED <<system_threads, current_thread, yielding, queueVars>>
  BY DEF TakesLock, At, Acquired
<1>2. TypeOK'
  <2>1. word' \in [Words -> 0 .. WORD_MOD - 1] /\ held' \in [Slots -> SUBSET Mutexes]
    BY DEF TakesLock, Write, Acquired, Mutexes
  <2>2. ApplicationTypeOK(Labels)'
    BY <2>1, OperationTypes DEF TakesLock
  <2>3. QueueFieldsOK'
    BY <1>1, TypeParts DEF QueueFieldsOK, queueVars
  <2> QED
    BY <2>1, <2>2, <2>3, TypeParts
<1>3. HeldByLabel'
  BY <1>1 DEF HeldByLabel, TakesLock, ReliedOn
<1>4. WaitsForItsLock'
  BY <1>1, LabelFacts DEF WaitsForItsLock, this, TakesLock
<1>5. BufferInUse'
  BY <1>1 DEF BufferInUse, queueVars
<1>6. CASE current_active_state' = "STOPPED"
  <2>1. ASSUME NEW u \in Slots, NEW v \in Slots, u # v, held'[u] \cap held'[v] # {}
        PROVE  t \in {u, v}
    BY <1>1, <2>1 DEF LocksRespected, OverlapOnlyWhenStopped, Excluded
  <2>2. LocksRespected'
    BY <1>1, <1>6, <2>1 DEF LocksRespected, OverlapOnlyWhenStopped
  <2>3. BlocksRegistered'
    BY <1>6 DEF BlocksRegistered
  <2> QED
    BY <1>2, <1>3, <1>4, <1>5, <2>2, <2>3
<1>7. CASE current_active_state' # "STOPPED"
  <2>1. /\ word[m] = MUTEX_UNLOCKED /\ Write(m, MUTEX_LOCKED)
        /\ current_active_state = "STARTED" /\ current_active_state' = "STARTED"
        /\ Excluded /\ LockedIffHeld
    BY <1>7 DEF LocksRespected, TakesLock
  <2>2. m \in Mutexes /\ \A u \in Slots : m \notin held[u]
    BY <2>1 DEF LockedIffHeld
  <2>3. Excluded'
    <3> SUFFICES ASSUME NEW u \in Slots, NEW v \in Slots, u # v
                 PROVE  held'[u] \cap held'[v] = {}
      BY DEF Excluded
    <3>1. held[u] \cap held[v] = {}
      BY <2>1 DEF Excluded
    <3> QED
      BY <1>1, <2>2, <3>1
  <2>4. LockedIffHeld'
    BY <1>1, <2>1, <2>2 DEF LockedIffHeld, Write
  <2>5. BlocksRegistered'
    BY <1>1, <2>1 DEF BlocksRegistered, queueVars, flags, TakesLock, ReliedOn,
                      QueueLockLabels, ConsumerLockLabels
  <2> QED
    BY <1>2, <1>3, <1>4, <1>5, <2>1, <2>3, <2>4, <2>5 DEF LocksRespected
<1> QED
  BY <1>6, <1>7

LEMMA WaitsForLockStep ==
  ASSUME QueueInv, NEW t \in Slots, NEW m \in {queue_lock, consumer_lock},
         NEW label \in Labels, WaitsForLock(t, m, label), data_buffer # NULL
  PROVE  /\ QueueInv'
         /\ flags(t)' = "BLOCKED_MUTEX"
         /\ \A u \in Slots \ {t} : flags(u)' = flags(u)
<1> USE QueueTypes DEF QueueInv
<1>1. /\ t = current_thread /\ t \notin yielding
      /\ pc' = [pc EXCEPT ![t] = label] /\ yielding' = yielding \cup {t}
      /\ pc'[t] = label /\ \A u \in Slots \ {t} : pc'[u] = pc[u]
      /\ UNCHANGED <<thread_priorities, current_thread, current_active_state,
                     thread_count, word, bits, held, queueVars>>
  BY DEF WaitsForLock, BlockOn, YieldThen, At
<1>2. label \notin {"user", "popBlocking blocks"} /\ ReliedOn(label) = {}
  BY LabelFacts DEF WaitsForLock
<1>3. /\ system_threads' \in [Slots -> thread_t]
      /\ flags(t)' = "BLOCKED_MUTEX" /\ this(t)' = m
      /\ \A u \in Slots \ {t} : system_threads'[u] = system_threads[u]
  <2> DEFINE rec == [system_threads[t] EXCEPT !.mutex_semaphore = m,
                                              !.flags = "BLOCKED_MUTEX"]
  <2>1. system_threads[t] \in thread_t /\ m \in Words
    BY DEF Mutexes
  <2>2. rec \in thread_t /\ rec.mutex_semaphore = m /\ rec.flags = "BLOCKED_MUTEX"
    BY <2>1 DEF thread_t, thread_state_t
  <2>3. system_threads' = [system_threads EXCEPT ![t] = rec]
    BY DEF WaitsForLock, BlockOn
  <2> HIDE DEF rec
  <2> QED
    BY <2>2, <2>3 DEF flags, this
<1>4. TypeOK'
  <2>1. ApplicationTypeOK(Labels)' /\ held' \in [Slots -> SUBSET Mutexes]
    <3>1. word' \in [Words -> 0 .. WORD_MOD - 1]
      BY <1>1 DEF Mutexes
    <3> QED
      BY <1>1, <1>3, <3>1, OperationTypes
  <2>2. QueueFieldsOK'
    BY <1>1, TypeParts DEF QueueFieldsOK, queueVars
  <2> QED
    BY <2>1, <2>2, TypeParts
<1>5. HeldByLabel'
  BY <1>1, <1>2 DEF HeldByLabel, WaitsForLock, ReliedOn
<1>6. WaitsForItsLock'
  <2>1. \A u \in Slots \ {t} : this(u)' = this(u)
    BY <1>3 DEF this
  <2>2. /\ label \in QueueLockWaits => m = queue_lock
        /\ label = "popBlocking waits for consumer_lock" => m = consumer_lock
    BY DEF WaitsForLock, QueueLockWaits
  <2> QED
    BY <1>1, <1>3, <2>1, <2>2 DEF WaitsForItsLock, QueueLockWaits
<1>7. BufferInUse'
  BY <1>1 DEF BufferInUse, queueVars
<1>8. LocksRespected'
  BY <1>1 DEF LocksRespected, OverlapOnlyWhenStopped, Excluded, LockedIffHeld
<1>9. \A u \in Slots \ {t} : flags(u)' = flags(u)
  BY <1>3 DEF flags
<1>10. BlocksRegistered'
  BY <1>1, <1>2, <1>3, <1>9 DEF BlocksRegistered, queueVars
<1> QED
  BY <1>3, <1>4, <1>5, <1>6, <1>7, <1>8, <1>9, <1>10

LEMMA KeepsLockStep ==
  ASSUME QueueInv, NEW t \in Slots, NEW label \in Labels, KeepsLock(t, label),
         TypeOK', BlocksRegistered', \A u \in Slots : this(u)' = this(u),
         data_buffer' # NULL
  PROVE  QueueInv'
<1> USE QueueTypes DEF QueueInv
<1>1. /\ t = current_thread
      /\ pc'[t] = label /\ \A u \in Slots \ {t} : pc'[u] = pc[u]
      /\ UNCHANGED <<current_thread, current_active_state, word, held, queue_len>>
  BY DEF KeepsLock, At
<1>2. HeldByLabel'
  BY <1>1 DEF HeldByLabel, KeepsLock, ReliedOn
<1>3. WaitsForItsLock'
  BY <1>1, LabelFacts DEF WaitsForItsLock, KeepsLock
<1>4. BufferInUse'
  <2>1. pc[t] # "user"
    BY LabelFacts DEF KeepsLock
  <2> QED
    BY <1>1, <2>1 DEF BufferInUse
<1>5. LocksRespected'
  BY <1>1 DEF LocksRespected, OverlapOnlyWhenStopped, Excluded, LockedIffHeld
<1> QED
  BY <1>2, <1>3, <1>4, <1>5

LEMMA GivesLockStep ==
  ASSUME QueueInv, NEW t \in Slots, NEW m \in {queue_lock, consumer_lock},
         NEW label \in Labels, GivesLock(t, m, label), QueueFieldsOK',
         m = consumer_lock \/ UNCHANGED consumer_thread_ptr
  PROVE  QueueInv'
<1> USE QueueTypes DEF QueueInv
<1>1. /\ t = current_thread /\ t \notin yielding
      /\ pc' = [pc EXCEPT ![t] = label]
      /\ pc'[t] = label /\ \A u \in Slots \ {t} : pc'[u] = pc[u]
      /\ word' = [word EXCEPT ![m] = MUTEX_UNLOCKED]
      /\ held' = [held EXCEPT ![t] = @ \ {m}]
      /\ UNCHANGED <<system_threads, thread_priorities, current_thread,
                     current_active_state, thread_count, bits, yielding, queue_len,
                     data_buffer>>
  BY DEF GivesLock, GiveBack, Write, At
<1>2. label \in {"user", "popBlocking locks"} /\ ReliedOn(label) = {}
  BY DEF GivesLock, ReliedOn, QueueLockLabels, ConsumerLockLabels
<1>3. TypeOK'
  <2>1. word' \in [Words -> 0 .. WORD_MOD - 1] /\ held' \in [Slots -> SUBSET Mutexes]
    BY <1>1 DEF Mutexes
  <2> QED
    BY <1>1, <2>1, OperationTypes, TypeParts
<1>4. held[t] = {m} /\ held'[t] = {} /\ \A u \in Slots \ {t} : held'[u] = held[u]
  BY <1>1 DEF HeldByLabel, GivesLock
<1>5. HeldByLabel'
  BY <1>1, <1>2, <1>4 DEF HeldByLabel, ReliedOn
<1>6. WaitsForItsLock'
  BY <1>1, <1>2 DEF WaitsForItsLock, this, QueueLockWaits
<1>7. BufferInUse'
  <2>1. pc[t] # "user"
    BY LabelFacts DEF GivesLock
  <2> QED
    BY <1>1, <2>1 DEF BufferInUse
<1>8. CASE current_active_state = "STOPPED"
  BY <1>1, <1>3, <1>4, <1>5, <1>6, <1>7, <1>8
     DEF LocksRespected, OverlapOnlyWhenStopped, BlocksRegistered
<1>9. CASE current_active_state # "STOPPED"
  <2>1. current_active_state = "STARTED" /\ Excluded /\ LockedIffHeld
    BY <1>9 DEF LocksRespected
  <2>2. \A u \in Slots \ {t} : m \notin held[u]
    BY <1>4, <2>1 DEF Excluded
  <2>3. Excluded' /\ LockedIffHeld'
    BY <1>1, <1>4, <2>1, <2>2 DEF Excluded, LockedIffHeld
  <2>4. BlocksRegistered'
    <3> SUFFICES ASSUME NEW u \in Slots
                 PROVE  /\ pc'[u] = "popBlocking blocks" => consumer_thread_ptr' = u
                        /\ flags(u) = "BLOCKED_QUEUE" =>
                             /\ pc'[u] = "popBlocking leaves"
                             /\ consumer_thread_ptr' = u
                             /\ u = current_thread => u \in yielding
      BY <1>1 DEF BlocksRegistered, flags
    <3>1. CASE u = t
      <4>1. flags(u) # "BLOCKED_QUEUE"
        BY <1>1, <2>1, <3>1 DEF BlocksRegistered
      <4> QED
        BY <1>1, <1>2, <3>1, <4>1
    <3>2. CASE u # t
      <4>1. CASE m = consumer_lock
        <5>1. pc[u] \notin ConsumerLockLabels
          <6>1. held[u] = ReliedOn(pc[u]) /\ pc[u] \in Labels /\ m \notin held[u]
            BY <2>2, <3>2 DEF HeldByLabel
          <6>2. ReliedOn(pc[u]) # {consumer_lock}
            BY <4>1, <6>1
          <6> QED
            BY <6>1, <6>2, LabelFacts
        <5>2. pc[u] \notin {"popBlocking blocks", "popBlocking leaves"}
          BY <5>1 DEF ConsumerLockLabels
        <5> QED
          BY <1>1, <2>1, <3>2, <5>2 DEF BlocksRegistered
      <4>2. CASE m # consumer_lock
        BY <1>1, <2>1, <3>2, <4>2 DEF BlocksRegistered
      <4> QED
        BY <4>1, <4>2
    <3> QED
      BY <3>1, <3>2
  <2> QED
    BY <1>1, <1>3, <1>5, <1>6, <1>7, <2>1, <2>3, <2>4 DEF LocksRespected
<1> QED
  BY <1>8, <1>9

(* The application's own steps.                                            *)
LEMMA ApplicationStep ==
  ASSUME QueueInv, ApplicationNext, UNCHANGED <<held, queueVars>>
  PROVE  QueueInv'
<1> USE QueueTypes DEF QueueInv
<1>1. ApplicationFrame /\ (Switches \/ Sleeps \/ Stays)
  BY ApplicationCases
<1>2. TypeOK' /\ HeldByLabel' /\ BufferInUse'
  BY <1>1, TypeParts DEF ApplicationFrame, QueueFieldsOK, queueVars, HeldByLabel,
                         BufferInUse
<1>3. WaitsForItsLock'
  BY <1>1 DEF ApplicationFrame, WaitsForItsLock
<1>4. LocksRespected'
  <2>1. current_active_state = "STOPPED" => UNCHANGED current_thread
    BY <1>1 DEF Switches, Sleeps, Stays
  <2> QED
    BY <1>1, <2>1 DEF ApplicationFrame, LocksRespected, OverlapOnlyWhenStopped,
                      Excluded, LockedIffHeld
<1>5. BlocksRegistered'
  <2> SUFFICES ASSUME current_active_state = "STARTED", NEW u \in Slots,
                      flags(u)' = "BLOCKED_QUEUE"
               PROVE  /\ flags(u) = "BLOCKED_QUEUE"
                      /\ u = current_thread' => u \in yielding'
    BY <1>1 DEF BlocksRegistered, ApplicationFrame, queueVars
  <2>1. flags(u) = "BLOCKED_QUEUE" => (u = current_thread => u \in yielding)
    BY DEF BlocksRegistered
  <2>2. CASE Switches
    BY <2>2 DEF Switches
  <2>3. CASE Sleeps
    BY <2>1, <2>3 DEF Sleeps
  <2>4. CASE Stays
    BY <2>1, <2>4 DEF Stays
  <2> QED
    BY <1>1, <2>2, <2>3, <2>4
<1> QED
  BY <1>2, <1>3, <1>4, <1>5

-----------------------------------------------------------------------------
(* The two locks, where an operation waits for each and what it does next. *)
LockedThen(m, waits, then) ==
  \/ /\ m = queue_lock
     /\ waits \in QueueLockWaits
     /\ then \in {"push stores", "pop takes", "popBlocking takes"}
  \/ /\ m = consumer_lock
     /\ waits = "popBlocking waits for consumer_lock"
     /\ then = "popBlocking tests"

LEMMA LockedThenFacts ==
  ASSUME NEW m, NEW waits, NEW then, LockedThen(m, waits, then)
  PROVE  /\ m \in {queue_lock, consumer_lock}
         /\ waits \in Labels /\ then \in Labels
         /\ ReliedOn(waits) = {} /\ ReliedOn(then) = {m}
         /\ waits # "user" /\ then # "user" /\ then # "popBlocking blocks"
BY DEF LockedThen, QueueLockWaits, Labels, ReliedOn, QueueLockLabels, ConsumerLockLabels

(* A call of lockWaitIndefinite inside an operation.                       *)
LEMMA LockCases ==
  ASSUME QueueInv, NEW t \in Slots, NEW m, NEW waits, NEW then,
         LockedThen(m, waits, then), At(t, pc[t]), ReliedOn(pc[t]) = {},
         data_buffer # NULL, Lock(t, m, waits, then)
  PROVE  /\ QueueInv'
         /\ \/ TakesLock(t, m, then) /\ word[m] = MUTEX_UNLOCKED
            \/ WaitsForLock(t, m, waits) /\ word[m] # MUTEX_UNLOCKED
<1>0. /\ m \in {queue_lock, consumer_lock} /\ waits \in Labels /\ then \in Labels
      /\ data_buffer # NULL
  BY LockedThenFacts
<1>1. CASE TakeFree(t, m) /\ Goto(t, then)
  <2>1. TakesLock(t, m, then) /\ word[m] = MUTEX_UNLOCKED
    BY <1>1, LockedThenFacts DEF TakesLock, TakeFree, Goto, Lock
  <2> QED
    BY <1>0, <2>1, TakesLockStep
<1>2. CASE BlockOn(t, m) /\ YieldThen(t, waits)
  <2>1. WaitsForLock(t, m, waits) /\ word[m] # MUTEX_UNLOCKED
    BY <1>2 DEF WaitsForLock, BlockOn, Lock, LockedThen
  <2> QED
    BY <1>0, <2>1, WaitsForLockStep
<1> QED
  BY <1>1, <1>2 DEF Lock

(* Its second section.                                                     *)
LEMMA WokenCase ==
  ASSUME QueueInv, NEW t \in Slots, NEW m, NEW waits, NEW then,
         LockedThen(m, waits, then), LockWoken(t, waits, then)
  PROVE  QueueInv' /\ TakesLock(t, m, then) /\ pc[t] = waits /\ At(t, waits)
<1>1. At(t, waits) /\ pc[t] = waits /\ TakeWoken(t) /\ Goto(t, then) /\ UNCHANGED queueVars
  BY DEF LockWoken, At
<1>2. this(t) = m
  BY <1>1 DEF QueueInv, WaitsForItsLock, LockedThen
<1>3. data_buffer # NULL
  BY <1>1, LockedThenFacts DEF QueueInv, BufferInUse
<1>4. TakesLock(t, m, then)
  BY <1>1, <1>2, LockedThenFacts DEF TakesLock, TakeWoken, Goto, At
<1> QED
  <2>1. m \in {queue_lock, consumer_lock} /\ then \in Labels
    BY LockedThenFacts
  <2> QED
    BY <1>1, <1>3, <1>4, <2>1, TakesLockStep

(* A thread that is inside an operation finds the ring's buffer.           *)
LEMMA InsideUses ==
  ASSUME QueueInv, NEW t \in Slots, NEW label, At(t, label), label # "user"
  PROVE  /\ t = current_thread /\ t \notin yielding /\ pc[t] = label
         /\ data_buffer # NULL /\ data_buffer \in [Indices -> Data \cup {NULL}]
         /\ queue_len = QUEUE_LEN
BY DEF QueueInv, BufferInUse, At, TypeOK

(* The end of an operation on the ring.                                    *)
LEMMA RingUnlockStep ==
  ASSUME QueueInv, NEW t \in Slots,
         At(t, pc[t]), pc[t] \in QueueLockLabels, Unlock(t, queue_lock, "user"),
         QueueFieldsOK', UNCHANGED <<consumer_thread_ptr, queue_len, data_buffer>>
  PROVE  QueueInv' /\ GivesLock(t, queue_lock, "user")
<1>1. ReliedOn(pc[t]) = {queue_lock} /\ "user" \in Labels
  BY DEF ReliedOn, Labels
<1>2. GivesLock(t, queue_lock, "user")
  BY <1>1 DEF GivesLock, Unlock, Goto
<1> QED
  BY <1>1, <1>2, GivesLockStep

LEMMA PushFullStep ==
  ASSUME QueueInv, NEW t \in Slots, push_full(t)
  PROVE  QueueInv' /\ GivesLock(t, queue_lock, "user")
<1>1. pc[t] \in QueueLockLabels /\ At(t, pc[t]) /\ QueueFieldsOK
  BY TypeParts DEF push_full, At, QueueLockLabels, QueueInv
<1> QED
  BY <1>1, RingUnlockStep DEF push_full, queueVars, QueueFieldsOK

LEMMA PushUnlockStep ==
  ASSUME QueueInv, NEW t \in Slots, push_unlock(t)
  PROVE  QueueInv' /\ GivesLock(t, queue_lock, "user")
<1>1. pc[t] \in QueueLockLabels /\ At(t, pc[t]) /\ QueueFieldsOK
  BY TypeParts DEF push_unlock, At, QueueLockLabels, QueueInv
<1> QED
  BY <1>1, RingUnlockStep DEF push_unlock, queueVars, QueueFieldsOK

LEMMA PopEmptyStep ==
  ASSUME QueueInv, NEW t \in Slots, pop_empty(t)
  PROVE  QueueInv' /\ GivesLock(t, queue_lock, "user")
<1>1. pc[t] \in QueueLockLabels /\ At(t, pc[t]) /\ QueueFieldsOK
  BY TypeParts DEF pop_empty, At, QueueLockLabels, QueueInv
<1>2. received' \in [Slots -> Data \cup {NULL}]
  BY <1>1 DEF pop_empty, QueueFieldsOK
<1> QED
  BY <1>1, <1>2, RingUnlockStep DEF pop_empty, QueueFieldsOK

LEMMA TakeHeadStep ==
  ASSUME QueueInv, NEW t \in Slots, NEW label \in {"pop takes", "popBlocking takes"},
         At(t, label), TakeHead(t)
  PROVE  QueueInv' /\ GivesLock(t, queue_lock, "user")
<1>1. pc[t] \in QueueLockLabels /\ At(t, pc[t]) /\ QueueFieldsOK
  BY TypeParts DEF At, QueueLockLabels, QueueInv
<1>2. data_buffer \in [Indices -> Data \cup {NULL}] /\ queue_len = QUEUE_LEN
  BY InsideUses
<1>3. received' \in [Slots -> Data \cup {NULL}]
  BY <1>1, <1>2 DEF TakeHead, QueueFieldsOK
<1>4. head' \in Indices /\ current_elements' \in 0 .. COUNT_MOD - 1
  BY <1>1, <1>2, AdvancedType, CountType DEF TakeHead, QueueFieldsOK
<1>5. QueueFieldsOK'
  BY <1>1, <1>3, <1>4 DEF TakeHead, QueueFieldsOK
<1> QED
  BY <1>1, <1>5, RingUnlockStep DEF TakeHead

LEMMA LeaveStep ==
  ASSUME QueueInv, NEW t \in Slots, popBlocking_leave(t)
  PROVE  QueueInv' /\ GivesLock(t, consumer_lock, "popBlocking locks")
<1>1. /\ pc[t] = "popBlocking leaves" /\ At(t, pc[t]) /\ QueueFieldsOK
      /\ "popBlocking locks" \in Labels /\ ReliedOn(pc[t]) = {consumer_lock}
  BY TypeParts DEF popBlocking_leave, At, QueueInv, Labels, ReliedOn,
                   ConsumerLockLabels, QueueLockLabels
<1>2. GivesLock(t, consumer_lock, "popBlocking locks")
  BY <1>1 DEF GivesLock, popBlocking_leave, Unlock, Goto
<1>3. QueueFieldsOK'
  BY <1>1 DEF popBlocking_leave, QueueFieldsOK
<1> QED
  BY <1>1, <1>2, <1>3, GivesLockStep

(* Goes on inside an operation, no thread's flags touched.                 *)
LEMMA GoesOnStep ==
  ASSUME QueueInv, NEW t \in Slots, NEW from \in Labels, NEW label \in Labels,
         At(t, from), from # "user",
         ReliedOn(label) = ReliedOn(from) /\ ReliedOn(label) # {},
         Goto(t, label), UNCHANGED <<kernelVars, held, queue_len>>,
         QueueFieldsOK', data_buffer' # NULL, BlocksRegistered'
  PROVE  QueueInv' /\ KeepsLock(t, label)
<1> USE QueueTypes DEF QueueInv
<1>1. KeepsLock(t, label)
  BY DEF KeepsLock, Goto, kernelVars, At
<1>2. ApplicationTypeOK(Labels)'
  BY DEF TypeOK, ApplicationTypeOK, KernelTypeOK, kernelVars, Goto
<1>3. TypeOK'
  BY <1>2, TypeParts
<1> QED
  BY <1>1, <1>3, KeepsLockStep DEF kernelVars, this

LEMMA PushStoreStep ==
  ASSUME QueueInv, NEW t \in Slots, push_store(t)
  PROVE  QueueInv' /\ KeepsLock(t, "push wakes")
<1>1. /\ At(t, "push stores") /\ QueueFieldsOK /\ queue_len = QUEUE_LEN
      /\ data_buffer \in [Indices -> Data \cup {NULL}]
  BY InsideUses, TypeParts DEF push_store, QueueInv
<1>2. QueueFieldsOK'
  <2>1. current_elements' \in 0 .. COUNT_MOD - 1 /\ tail' \in Indices
    BY <1>1, AdvancedType, CountType DEF push_store, QueueFieldsOK
  <2>2. data_buffer' \in [Indices -> Data \cup {NULL}]
    BY <1>1 DEF push_store, QueueFieldsOK
  <2> QED
    BY <1>1, <2>1, <2>2 DEF push_store, QueueFieldsOK
<1>3. data_buffer' # NULL
  BY <1>1, BufferAssumption DEF push_store, QueueFieldsOK
<1>4. BlocksRegistered'
  BY QueueTypes DEF QueueInv, BlocksRegistered, push_store, kernelVars, At, Goto, flags
<1>5. /\ ReliedOn("push stores") = ReliedOn("push wakes") /\ ReliedOn("push wakes") # {}
      /\ "push stores" \in Labels /\ "push wakes" \in Labels
  BY DEF ReliedOn, QueueLockLabels, Labels
<1> QED
  BY <1>1, <1>2, <1>3, <1>4, <1>5, GoesOnStep DEF push_store

LEMMA TestStep ==
  ASSUME QueueInv, NEW t \in Slots, popBlocking_test(t)
  PROVE  /\ QueueInv'
         /\ KeepsLock(t, IF current_elements = 0 THEN "popBlocking registers"
                                                  ELSE "popBlocking leaves")
<1> DEFINE label == IF current_elements = 0 THEN "popBlocking registers"
                                            ELSE "popBlocking leaves"
<1>1. /\ At(t, "popBlocking tests") /\ data_buffer # NULL /\ QueueFieldsOK
  BY InsideUses, TypeParts DEF popBlocking_test, QueueInv
<1>2. /\ ReliedOn("popBlocking tests") = ReliedOn(label) /\ ReliedOn(label) # {}
      /\ "popBlocking tests" \in Labels /\ label \in Labels
      /\ label \in {"popBlocking registers", "popBlocking leaves"}
  BY DEF ReliedOn, ConsumerLockLabels, QueueLockLabels, Labels
<1>3. Goto(t, label) /\ UNCHANGED <<kernelVars, held, queueVars>>
  BY DEF popBlocking_test
<1> HIDE DEF label
<1>4. BlocksRegistered'
  BY <1>1, <1>2, <1>3, QueueTypes
     DEF QueueInv, BlocksRegistered, kernelVars, queueVars, At, Goto, flags
<1>5. QueueFieldsOK' /\ data_buffer' # NULL
  BY <1>1, <1>3 DEF QueueFieldsOK, queueVars
<1>6. QueueInv' /\ KeepsLock(t, label)
  BY <1>1, <1>2, <1>3, <1>4, <1>5, GoesOnStep DEF queueVars
<1> QED
  BY <1>6 DEF label

LEMMA RegisterStep ==
  ASSUME QueueInv, NEW t \in Slots, popBlocking_register(t)
  PROVE  QueueInv' /\ KeepsLock(t, "popBlocking blocks")
<1> USE QueueTypes DEF QueueInv
<1>1. /\ At(t, "popBlocking registers") /\ data_buffer # NULL /\ QueueFieldsOK
      /\ pc[t] = "popBlocking registers"
  BY InsideUses, TypeParts DEF popBlocking_register
<1>2. /\ ReliedOn("popBlocking registers") = {consumer_lock}
      /\ ReliedOn("popBlocking blocks") = {consumer_lock}
      /\ "popBlocking registers" \in Labels /\ "popBlocking blocks" \in Labels
  BY DEF ReliedOn, ConsumerLockLabels, QueueLockLabels, Labels
<1>3. BlocksRegistered'
  <2>1. SUFFICES ASSUME current_active_state = "STARTED", NEW u \in Slots, u # t
                 PROVE  /\ pc[u] # "popBlocking blocks"
                        /\ flags(u) # "BLOCKED_QUEUE"
    BY <1>1 DEF BlocksRegistered, popBlocking_register, kernelVars, Goto, flags, At
  <2>2. consumer_lock \in held[t] /\ held[u] \cap held[t] = {}
    BY <1>1, <1>2, <2>1 DEF HeldByLabel, LocksRespected, Excluded
  <2>3. held[u] = ReliedOn(pc[u]) /\ pc[u] \in Labels /\ ReliedOn(pc[u]) # {consumer_lock}
    BY <2>2 DEF HeldByLabel
  <2>4. pc[u] \notin {"popBlocking blocks", "popBlocking leaves"}
    BY <2>3, LabelFacts DEF ConsumerLockLabels
  <2> QED
    BY <2>1, <2>4 DEF BlocksRegistered
<1>4. QueueFieldsOK' /\ data_buffer' # NULL
  BY <1>1 DEF QueueFieldsOK, popBlocking_register
<1> QED
  BY <1>1, <1>2, <1>3, <1>4, GoesOnStep DEF popBlocking_register

(* The registered consumer woken.                                          *)
LEMMA PushWakeStep ==
  ASSUME QueueInv, NEW t \in Slots, push_wake(t)
  PROVE  /\ QueueInv' /\ KeepsLock(t, "push unlocks")
         /\ \A u \in Slots :
              flags(u)' = IF u = consumer_thread_ptr THEN "RUNNING" ELSE flags(u)
<1> USE QueueTypes DEF QueueInv
<1>1. /\ pc[t] = "push wakes" /\ data_buffer # NULL /\ QueueFieldsOK
      /\ t = current_thread /\ t \notin yielding
      /\ consumer_thread_ptr \in Slots \cup {NULL}
  BY InsideUses, TypeParts DEF push_wake, QueueFieldsOK
<1>2. /\ system_threads' \in [Slots -> thread_t]
      /\ \A u \in Slots :
           /\ flags(u)' = IF u = consumer_thread_ptr THEN "RUNNING" ELSE flags(u)
           /\ this(u)' = this(u)
  <2>1. CASE consumer_thread_ptr = NULL
    BY <2>1 DEF push_wake, flags, this
  <2>2. CASE consumer_thread_ptr # NULL
    <3>1. /\ consumer_thread_ptr \in Slots /\ "RUNNING" \in thread_state_t
          /\ system_threads' = [system_threads EXCEPT ![consumer_thread_ptr].flags = "RUNNING"]
      BY <1>1, <2>2 DEF push_wake, thread_state_t
    <3> QED
      BY <3>1, FlagsUpdate DEF flags, this
  <2> QED
    BY <2>1, <2>2
<1>3. /\ ReliedOn("push wakes") = {queue_lock} /\ ReliedOn("push unlocks") = {queue_lock}
      /\ "push wakes" \in Labels /\ "push unlocks" \in Labels
  BY DEF ReliedOn, QueueLockLabels, Labels
<1>4. /\ pc' = [pc EXCEPT ![t] = "push unlocks"]
      /\ UNCHANGED <<thread_priorities, current_thread, current_active_state,
                     thread_count, word, bits, held, queueVars, yielding>>
  BY DEF push_wake, Goto
<1>5. KeepsLock(t, "push unlocks")
  BY <1>1, <1>3, <1>4 DEF KeepsLock, At, queueVars
<1>6. TypeOK'
  <2>1. word' \in [Words -> 0 .. WORD_MOD - 1]
    BY <1>4 DEF Mutexes
  <2>2. ApplicationTypeOK(Labels)' /\ held' \in [Slots -> SUBSET Mutexes]
    BY <1>2, <1>3, <1>4, <2>1, OperationTypes
  <2>3. QueueFieldsOK'
    BY <1>1, <1>4 DEF QueueFieldsOK, queueVars
  <2> QED
    BY <2>2, <2>3, TypeParts
<1>7. BlocksRegistered'
  BY <1>1, <1>2, <1>4 DEF BlocksRegistered, queueVars
<1>8. data_buffer' # NULL
  BY <1>1, <1>4 DEF queueVars
<1> QED
  BY <1>2, <1>3, <1>5, <1>6, <1>7, <1>8, KeepsLockStep

(* The consumer marks itself blocked.                                      *)
LEMMA BlockStep ==
  ASSUME QueueInv, NEW t \in Slots, popBlocking_block(t)
  PROVE  /\ QueueInv' /\ KeepsLock(t, "popBlocking leaves")
         /\ \A u \in Slots :
              flags(u)' = IF u = t THEN "BLOCKED_QUEUE" ELSE flags(u)
<1> USE QueueTypes DEF QueueInv
<1>1. /\ pc[t] = "popBlocking blocks" /\ data_buffer # NULL /\ QueueFieldsOK
      /\ t = current_thread /\ t \notin yielding
  BY InsideUses, TypeParts DEF popBlocking_block
<1>2. /\ system_threads' \in [Slots -> thread_t]
      /\ \A u \in Slots :
           /\ flags(u)' = IF u = t THEN "BLOCKED_QUEUE" ELSE flags(u)
           /\ this(u)' = this(u)
  <2>1. "BLOCKED_QUEUE" \in thread_state_t
    BY DEF thread_state_t
  <2>2. system_threads' = [system_threads EXCEPT ![t].flags = "BLOCKED_QUEUE"]
    BY DEF popBlocking_block
  <2> QED
    BY <2>1, <2>2, FlagsUpdate DEF flags, this
<1>3. /\ ReliedOn("popBlocking blocks") = {consumer_lock}
      /\ ReliedOn("popBlocking leaves") = {consumer_lock}
      /\ "popBlocking leaves" \in Labels
  BY DEF ReliedOn, ConsumerLockLabels, QueueLockLabels, Labels
<1>4. /\ pc' = [pc EXCEPT ![t] = "popBlocking leaves"] /\ yielding' = yielding \cup {t}
      /\ UNCHANGED <<thread_priorities, current_thread, current_active_state,
                     thread_count, word, bits, held, queueVars>>
  BY DEF popBlocking_block, YieldThen
<1>5. KeepsLock(t, "popBlocking leaves")
  BY <1>1, <1>3, <1>4 DEF KeepsLock, At, queueVars
<1>6. TypeOK'
  <2>1. word' \in [Words -> 0 .. WORD_MOD - 1] /\ yielding' \subseteq Slots
    BY <1>4 DEF Mutexes
  <2>2. ApplicationTypeOK(Labels)' /\ held' \in [Slots -> SUBSET Mutexes]
    BY <1>2, <1>3, <1>4, <2>1, OperationTypes
  <2>3. QueueFieldsOK'
    BY <1>1, <1>4 DEF QueueFieldsOK, queueVars
  <2> QED
    BY <2>2, <2>3, TypeParts
<1>7. BlocksRegistered'
  BY <1>1, <1>2, <1>4 DEF BlocksRegistered, queueVars
<1>8. data_buffer' # NULL
  BY <1>1, <1>4 DEF queueVars
<1> QED
  BY <1>2, <1>3, <1>5, <1>6, <1>7, <1>8, KeepsLockStep

-----------------------------------------------------------------------------
(* An operation begins in user code and with the ring in use.              *)
LEMMA PushCases ==
  ASSUME QueueInv, NEW t \in Slots, push(t)
  PROVE  /\ QueueInv' /\ At(t, "user")
         /\ \/ TakesLock(t, queue_lock, "push stores") /\ word[queue_lock] = MUTEX_UNLOCKED
            \/ /\ WaitsForLock(t, queue_lock, "push waits")
               /\ word[queue_lock] # MUTEX_UNLOCKED
<1>1. /\ At(t, "user") /\ At(t, pc[t]) /\ ReliedOn(pc[t]) = {} /\ data_buffer # NULL
      /\ Lock(t, queue_lock, "push waits", "push stores")
  BY LabelFacts DEF push, Using, Calling, At
<1>2. LockedThen(queue_lock, "push waits", "push stores")
  BY DEF LockedThen, QueueLockWaits
<1> QED
  BY <1>1, <1>2, LockCases

LEMMA PopCases ==
  ASSUME QueueInv, NEW t \in Slots, pop(t)
  PROVE  /\ QueueInv' /\ At(t, "user") /\ "pop" \in Calls
         /\ \/ TakesLock(t, queue_lock, "pop takes") /\ word[queue_lock] = MUTEX_UNLOCKED
            \/ /\ WaitsForLock(t, queue_lock, "pop waits")
               /\ word[queue_lock] # MUTEX_UNLOCKED
<1>1. /\ At(t, "user") /\ At(t, pc[t]) /\ ReliedOn(pc[t]) = {} /\ data_buffer # NULL
      /\ Lock(t, queue_lock, "pop waits", "pop takes") /\ "pop" \in Calls
  BY LabelFacts DEF pop, Using, Calling, At
<1>2. LockedThen(queue_lock, "pop waits", "pop takes")
  BY DEF LockedThen, QueueLockWaits
<1> QED
  BY <1>1, <1>2, LockCases

LEMMA PopBlockingCases ==
  ASSUME QueueInv, NEW t \in Slots, popBlocking(t)
  PROVE  /\ QueueInv' /\ At(t, "user") /\ "popBlocking" \in Calls
         /\ t # Main /\ t # Idle
         /\ \/ /\ TakesLock(t, consumer_lock, "popBlocking tests")
               /\ word[consumer_lock] = MUTEX_UNLOCKED
            \/ /\ WaitsForLock(t, consumer_lock, "popBlocking waits for consumer_lock")
               /\ word[consumer_lock] # MUTEX_UNLOCKED
<1>1. /\ At(t, "user") /\ At(t, pc[t]) /\ ReliedOn(pc[t]) = {} /\ data_buffer # NULL
      /\ Lock(t, consumer_lock, "popBlocking waits for consumer_lock", "popBlocking tests")
      /\ "popBlocking" \in Calls /\ t # Main /\ t # Idle
  BY LabelFacts DEF popBlocking, Using, Calling, At
<1>2. LockedThen(consumer_lock, "popBlocking waits for consumer_lock", "popBlocking tests")
  BY DEF LockedThen
<1> QED
  BY <1>1, <1>2, LockCases

LEMMA PopBlockingLockCases ==
  ASSUME QueueInv, NEW t \in Slots, popBlocking_lock(t)
  PROVE  /\ QueueInv' /\ At(t, "popBlocking locks")
         /\ \/ /\ TakesLock(t, queue_lock, "popBlocking takes")
               /\ word[queue_lock] = MUTEX_UNLOCKED
            \/ /\ WaitsForLock(t, queue_lock, "popBlocking waits")
               /\ word[queue_lock] # MUTEX_UNLOCKED
<1>1. /\ At(t, "popBlocking locks") /\ At(t, pc[t])
      /\ Lock(t, queue_lock, "popBlocking waits", "popBlocking takes")
  BY DEF popBlocking_lock, At
<1>2. ReliedOn(pc[t]) = {}
  BY <1>1 DEF At, ReliedOn, QueueLockLabels, ConsumerLockLabels
<1>3. data_buffer # NULL
  BY <1>1, InsideUses
<1>4. LockedThen(queue_lock, "popBlocking waits", "popBlocking takes")
  BY DEF LockedThen, QueueLockWaits
<1> QED
  BY <1>1, <1>2, <1>3, <1>4, LockCases

LEMMA WokenSteps ==
  ASSUME QueueInv, NEW t \in Slots
  PROVE  /\ push_lock_resume(t) =>
              QueueInv' /\ TakesLock(t, queue_lock, "push stores") /\ pc[t] = "push waits"
         /\ pop_lock_resume(t) =>
              QueueInv' /\ TakesLock(t, queue_lock, "pop takes") /\ pc[t] = "pop waits"
         /\ popBlocking_lock_resume(t) =>
              /\ QueueInv' /\ TakesLock(t, queue_lock, "popBlocking takes")
              /\ pc[t] = "popBlocking waits"
         /\ popBlocking_consumer_resume(t) =>
              /\ QueueInv' /\ TakesLock(t, consumer_lock, "popBlocking tests")
              /\ At(t, "popBlocking waits for consumer_lock")
<1>1. /\ LockedThen(queue_lock, "push waits", "push stores")
      /\ LockedThen(queue_lock, "pop waits", "pop takes")
      /\ LockedThen(queue_lock, "popBlocking waits", "popBlocking takes")
      /\ LockedThen(consumer_lock, "popBlocking waits for consumer_lock",
                    "popBlocking tests")
  BY DEF LockedThen, QueueLockWaits
<1>2. push_lock_resume(t) =>
        QueueInv' /\ TakesLock(t, queue_lock, "push stores") /\ pc[t] = "push waits"
  BY <1>1, WokenCase DEF push_lock_resume
<1>3. pop_lock_resume(t) =>
        QueueInv' /\ TakesLock(t, queue_lock, "pop takes") /\ pc[t] = "pop waits"
  BY <1>1, WokenCase DEF pop_lock_resume
<1>4. popBlocking_lock_resume(t) =>
        /\ QueueInv' /\ TakesLock(t, queue_lock, "popBlocking takes")
        /\ pc[t] = "popBlocking waits"
  BY <1>1, WokenCase DEF popBlocking_lock_resume
<1>5. popBlocking_consumer_resume(t) =>
        /\ QueueInv' /\ TakesLock(t, consumer_lock, "popBlocking tests")
        /\ At(t, "popBlocking waits for consumer_lock")
  BY <1>1, WokenCase DEF popBlocking_consumer_resume
<1> QED
  BY <1>2, <1>3, <1>4, <1>5

(* Every step of an operation keeps the invariant.                         *)
LEMMA OperationStep ==
  ASSUME QueueInv, NEW t \in Slots, QueueOperation(t)
  PROVE  QueueInv'
<1>1. CASE push(t) \/ pop(t) \/ popBlocking(t)
  BY <1>1, PushCases, PopCases, PopBlockingCases
<1>2. CASE PushStep(t)
  BY <1>2, WokenSteps, PushFullStep, PushStoreStep, PushWakeStep, PushUnlockStep
     DEF PushStep
<1>3. CASE PopStep(t)
  <2>1. ASSUME pop_take(t) PROVE QueueInv'
    BY <2>1, TakeHeadStep DEF pop_take
  <2> QED
    BY <1>3, <2>1, WokenSteps, PopEmptyStep DEF PopStep
<1>4. CASE PopBlockingStep(t)
  <2>1. ASSUME popBlocking_take(t) PROVE QueueInv'
    BY <2>1, TakeHeadStep DEF popBlocking_take
  <2> QED
    BY <1>4, <2>1, WokenSteps, TestStep, RegisterStep, BlockStep, LeaveStep,
       PopBlockingLockCases DEF PopBlockingStep
<1> QED
  BY <1>1, <1>2, <1>3, <1>4 DEF QueueOperation

(* init gives the ring its buffer, or not, before anybody uses it.         *)
LEMMA InitStep ==
  ASSUME QueueInv, init
  PROVE  QueueInv'
<1> USE DEF QueueInv
<1>1. UNCHANGED lockVars /\ data_buffer = NULL
  BY DEF init
<1>2. QueueFieldsOK'
  BY TypeParts DEF init, QueueFieldsOK
<1>3. TypeOK'
  BY <1>1, <1>2, TypeParts DEF lockVars, threadVars, kernelVars, ApplicationTypeOK,
                               KernelTypeOK
<1>4. HeldByLabel' /\ WaitsForItsLock' /\ LocksRespected'
  BY <1>1 DEF lockVars, threadVars, kernelVars, HeldByLabel, WaitsForItsLock, this,
              LocksRespected, OverlapOnlyWhenStopped, Excluded, LockedIffHeld
<1>5. BufferInUse'
  BY <1>1 DEF BufferInUse, init, lockVars, threadVars
<1>6. BlocksRegistered'
  BY <1>1 DEF BlocksRegistered, init, lockVars, threadVars, kernelVars, flags
<1> QED
  BY <1>3, <1>4, <1>5, <1>6

(* The initial state.                                                      *)
LEMMA QueueInit == Init => QueueInv
<1> SUFFICES ASSUME Init PROVE QueueInv
  OBVIOUS
<1>1. KernelTypeOK /\ \A t \in Slots : flags(t) # "BLOCKED_QUEUE"
  <2>1. KernelTypeOK /\ flags(Idle) = "RUNNING"
        /\ \A t \in Slots \ {Idle} : flags(t) = "EMPTY"
    BY KernelInitFacts DEF Init, ApplicationInit
  <2> QED
    BY <2>1
<1>2. TypeOK
  BY <1>1, QueueAssumption
     DEF Init, ApplicationInit, TypeOK, ApplicationTypeOK, Labels, Indices
<1>3. \A t \in Slots : pc[t] = "user" /\ held[t] = {} /\ ReliedOn(pc[t]) = {}
  BY LabelFacts DEF Init, ApplicationInit
<1>4. HeldByLabel /\ WaitsForItsLock /\ BufferInUse
  BY <1>3, LabelFacts DEF HeldByLabel, WaitsForItsLock, BufferInUse, Init
<1>5. LocksRespected
  BY <1>3 DEF LocksRespected, Init, ApplicationInit, KernelInit, Excluded, LockedIffHeld,
              Mutexes, MUTEX_LOCKED
<1>6. BlocksRegistered
  BY <1>1, <1>3 DEF BlocksRegistered
<1> QED
  BY <1>2, <1>4, <1>5, <1>6 DEF QueueInv

(* The invariant is inductive, whatever the timer and the application do.  *)
LEMMA QueueStep == QueueInv /\ [Next]_vars => QueueInv'
<1> SUFFICES ASSUME QueueInv, [Next]_vars PROVE QueueInv'
  OBVIOUS
<1>1. CASE UNCHANGED vars
  BY <1>1 DEF vars, lockVars, threadVars, kernelVars, queueVars, QueueInv, TypeOK,
              ApplicationTypeOK, KernelTypeOK, HeldByLabel, WaitsForItsLock, this,
              BufferInUse, LocksRespected, OverlapOnlyWhenStopped, Excluded,
              LockedIffHeld, BlocksRegistered, flags
<1> QED
  BY <1>1, ApplicationStep, InitStep, OperationStep DEF Next

(* Every reachable state satisfies the invariant.                          *)
THEOREM QueueInvariant == Spec => []QueueInv
  BY QueueInit, QueueStep, PTL DEF Spec

(* With the timer interrupt, two threads rely on the same lock of the      *)
(* queue only once one of them has left the kernel stopped, and runs alone.*)
THEOREM QueueLocksOverlapOnlyWhenStopped == Spec => []OverlapOnlyWhenStopped
<1>1. QueueInv => OverlapOnlyWhenStopped
  BY DEF QueueInv, LocksRespected, OverlapOnlyWhenStopped, Excluded
<1> QED
  BY <1>1, QueueInvariant, PTL

(* A thread blocked on the queue is the registered one, so the next push   *)
(* wakes it: popBlocking's consumer_lock lets no other consumer register.  *)
THEOREM BlockedIsRegistered == Spec => []BlockedConsumerIsRegistered
<1>1. QueueInv => BlockedConsumerIsRegistered
  BY DEF QueueInv, BlocksRegistered, BlockedConsumerIsRegistered
<1> QED
  BY <1>1, QueueInvariant, PTL

-----------------------------------------------------------------------------
(* From here on the timer switches nobody: only yields do.                 *)

(* What every step of an operation does to the locks.                      *)
LEMMA OperationKinds ==
  ASSUME QueueInv, NEW t \in Slots, QueueOperation(t)
  PROVE  \E m \in {queue_lock, consumer_lock}, label \in Labels :
           \/ TakesLock(t, m, label)
           \/ WaitsForLock(t, m, label)
           \/ KeepsLock(t, label)
           \/ GivesLock(t, m, label)
<1>0. /\ QueueLockLabels \subseteq Labels /\ ConsumerLockLabels \subseteq Labels
      /\ QueueLockWaits \subseteq Labels /\ "user" \in Labels
      /\ "popBlocking locks" \in Labels /\ "popBlocking waits for consumer_lock" \in Labels
  BY LabelFacts DEF Labels
<1> USE <1>0
<1>1. CASE push(t) \/ pop(t) \/ popBlocking(t)
  BY <1>1, PushCases, PopCases, PopBlockingCases
     DEF QueueLockLabels, ConsumerLockLabels, QueueLockWaits
<1>2. CASE PushStep(t)
  BY <1>2, WokenSteps, PushFullStep, PushStoreStep, PushWakeStep, PushUnlockStep
     DEF PushStep, QueueLockLabels
<1>3. CASE PopStep(t)
  <2>1. ASSUME pop_take(t) PROVE GivesLock(t, queue_lock, "user")
    BY <2>1, TakeHeadStep DEF pop_take
  <2> QED
    BY <1>3, <2>1, WokenSteps, PopEmptyStep DEF PopStep, QueueLockLabels
<1>4. CASE PopBlockingStep(t)
  <2>1. ASSUME popBlocking_take(t) PROVE GivesLock(t, queue_lock, "user")
    BY <2>1, TakeHeadStep DEF popBlocking_take
  <2>2. ASSUME popBlocking_test(t)
        PROVE  \E label \in Labels : KeepsLock(t, label)
    BY <2>2, TestStep DEF ConsumerLockLabels
  <2> QED
    BY <1>4, <2>1, <2>2, WokenSteps, RegisterStep, BlockStep, LeaveStep,
       PopBlockingLockCases
       DEF PopBlockingStep, QueueLockLabels, ConsumerLockLabels, QueueLockWaits
<1> QED
  BY <1>1, <1>2, <1>3, <1>4 DEF QueueOperation

OneInsideInv == QueueInv /\ OneInside /\ QueueLockFree

(* Whoever has queue_lock is in the middle of a call.                      *)
LEMMA HolderInside ==
  ASSUME OneInsideInv, NEW t \in Slots, queue_lock \in held[t]
  PROVE  t = current_thread /\ t \notin yielding /\ pc[t] \in QueueLockLabels
<1>1. held[t] = ReliedOn(pc[t]) /\ pc[t] \in Labels /\ queue_lock # consumer_lock
  BY QueueTypes DEF OneInsideInv, QueueInv, HeldByLabel
<1>2. pc[t] \in QueueLockLabels
  BY <1>1 DEF ReliedOn
<1>3. pc[t] \notin WaitingLabels
  BY <1>2 DEF QueueLockLabels, WaitingLabels
<1> QED
  BY <1>2, <1>3 DEF OneInsideInv, OneInside

(* So a thread about to lock queue_lock finds it free.                     *)
LEMMA QueueLockIsFree ==
  ASSUME OneInsideInv, NEW t \in Slots, At(t, pc[t]), ReliedOn(pc[t]) = {}
  PROVE  word[queue_lock] = MUTEX_UNLOCKED
<1>1. SUFFICES ASSUME NEW u \in Slots, queue_lock \in held[u]
               PROVE  FALSE
  BY DEF OneInsideInv, QueueLockFree
<1>2. u = t
  BY <1>1, HolderInside DEF At
<1> QED
  BY <1>1, <1>2 DEF OneInsideInv, QueueInv, HeldByLabel

LEMMA OneInsideOperation ==
  ASSUME OneInsideInv, NEW t \in Slots, QueueOperation(t)
  PROVE  OneInsideInv'
<1>0. QueueInv' /\ QueueInv /\ OneInside /\ QueueLockFree
  BY OperationStep DEF OneInsideInv
<1> USE QueueTypes DEF QueueInv
<1>1. PICK m \in {queue_lock, consumer_lock}, label \in Labels :
        \/ TakesLock(t, m, label)
        \/ WaitsForLock(t, m, label)
        \/ KeepsLock(t, label)
        \/ GivesLock(t, m, label)
  BY <1>0, OperationKinds
<1>2. /\ t = current_thread /\ t \notin yielding /\ UNCHANGED current_thread
      /\ yielding \subseteq {t}
      /\ pc'[t] = label /\ \A u \in Slots \ {t} : pc'[u] = pc[u]
  BY <1>0, <1>1 DEF TakesLock, WaitsForLock, KeepsLock, GivesLock, At, YieldThen,
                    BlockOn, OneInside
<1>3. \A u \in Slots \ {t} : pc[u] \in WaitingLabels /\ pc[u] \notin QueueLockWaits
  BY <1>0, <1>2 DEF OneInside
<1>4. ASSUME label \notin QueueLockWaits, yielding' \subseteq {t},
             label \in WaitingLabels \/ t \notin yielding'
      PROVE  OneInside'
  BY <1>2, <1>3, <1>4 DEF OneInside
<1>5. CASE TakesLock(t, m, label)
  <2>1. OneInside'
    BY <1>2, <1>4, <1>5, LabelFacts DEF TakesLock
  <2>2. QueueLockFree'
    BY <1>0, <1>5 DEF TakesLock, QueueLockFree, Acquired, Write
  <2> QED
    BY <1>0, <2>1, <2>2 DEF OneInsideInv
<1>6. CASE WaitsForLock(t, m, label)
  <2>1. m # queue_lock
    BY <1>6, QueueLockIsFree DEF WaitsForLock, BlockOn
  <2>2. label = "popBlocking waits for consumer_lock"
    BY <1>6, <2>1 DEF WaitsForLock
  <2>3. yielding' = yielding \cup {t} /\ UNCHANGED <<word, held>>
    BY <1>6 DEF WaitsForLock, YieldThen, BlockOn
  <2>4. OneInside'
    BY <1>2, <1>4, <2>2, <2>3 DEF QueueLockWaits, WaitingLabels
  <2>5. QueueLockFree'
    BY <1>0, <2>3 DEF QueueLockFree
  <2> QED
    BY <1>0, <2>4, <2>5 DEF OneInsideInv
<1>7. CASE KeepsLock(t, label)
  <2>1. OneInside'
    BY <1>2, <1>4, <1>7, LabelFacts DEF KeepsLock, WaitingLabels
  <2>2. QueueLockFree'
    BY <1>0, <1>7 DEF KeepsLock, QueueLockFree
  <2> QED
    BY <1>0, <2>1, <2>2 DEF OneInsideInv
<1>8. CASE GivesLock(t, m, label)
  <2>1. OneInside'
    BY <1>2, <1>4, <1>8 DEF GivesLock, QueueLockWaits
  <2>2. QueueLockFree'
    <3>1. CASE m = queue_lock
      BY <1>0, <1>8, <3>1 DEF GivesLock, GiveBack, Write, QueueLockFree
    <3>2. CASE m # queue_lock
      BY <1>0, <1>8, <3>2 DEF GivesLock, GiveBack, Write, QueueLockFree
    <3> QED
      BY <3>1, <3>2
  <2> QED
    BY <1>0, <2>1, <2>2 DEF OneInsideInv
<1> QED
  BY <1>1, <1>5, <1>6, <1>7, <1>8

LEMMA OneInsideApplication ==
  ASSUME ~Preemptive, OneInsideInv, ApplicationNext, UNCHANGED <<held, queueVars>>
  PROVE  OneInsideInv'
<1>0. QueueInv' /\ QueueInv /\ OneInside /\ QueueLockFree
  BY ApplicationStep DEF OneInsideInv
<1>1. ApplicationFrame /\ (Switches \/ Sleeps \/ Stays)
  BY <1>0, ApplicationCases, QueueTypes DEF QueueInv
<1>2. OneInside'
  <2>1. CASE Stays
    BY <1>0, <1>1, <2>1 DEF Stays, OneInside, ApplicationFrame
  <2>2. CASE Switches \/ Sleeps
    <3>1. \A u \in Slots : pc[u] \in WaitingLabels /\ pc[u] \notin QueueLockWaits
      BY <1>0, <2>2 DEF OneInside, Switches, Sleeps, WaitingLabels
    <3>2. yielding' \subseteq {current_thread'}
      BY <1>0, <2>2 DEF OneInside, Switches, Sleeps
    <3> QED
      BY <1>1, <3>1, <3>2 DEF OneInside, ApplicationFrame
  <2> QED
    BY <1>1, <2>1, <2>2
<1>3. QueueLockFree'
  BY <1>0, <1>1 DEF QueueLockFree, ApplicationFrame
<1> QED
  BY <1>0, <1>2, <1>3 DEF OneInsideInv

LEMMA OneInsideStep ==
  ASSUME ~Preemptive
  PROVE  OneInsideInv /\ [Next]_vars => OneInsideInv'
<1> SUFFICES ASSUME OneInsideInv, [Next]_vars PROVE OneInsideInv'
  OBVIOUS
<1>0. QueueInv'
  BY QueueStep DEF OneInsideInv
<1>1. CASE UNCHANGED vars \/ init
  <2>1. UNCHANGED <<current_thread, pc, yielding, word, held>>
    BY <1>1 DEF vars, init, lockVars, threadVars, kernelVars
  <2> QED
    BY <1>0, <2>1 DEF OneInsideInv, OneInside, QueueLockFree
<1> QED
  BY <1>1, OneInsideApplication, OneInsideOperation DEF Next

LEMMA OneInsideInit == Init => OneInsideInv
  BY QueueInit, LocksAssumption
     DEF Init, ApplicationInit, KernelInit, OneInsideInv, OneInside, QueueLockFree,
         WaitingLabels, QueueLockWaits, MUTEX_UNLOCKED

(* Without the timer no thread is switched out while it has queue_lock,    *)
(* whatever the application calls.                                         *)
THEOREM QueueLockNeverAcrossSwitch ==
  ASSUME ~Preemptive
  PROVE  Spec => []QueueLockOnlyWhileRunning
<1>1. OneInsideInv => QueueLockOnlyWhileRunning
  BY HolderInside DEF QueueLockOnlyWhileRunning
<1>2. OneInsideInv /\ [Next]_vars => OneInsideInv'
  BY OneInsideStep
<1> QED
  BY <1>1, <1>2, OneInsideInit, PTL DEF Spec

-----------------------------------------------------------------------------
(* And from here on nobody resumes a thread that waits, either.            *)
LEMMA CoopFacts ==
  ASSUME CoopInv
  PROVE  /\ OneInsideInv /\ QueueInv /\ TypeOK
         /\ current_active_state = "STARTED"
         /\ Excluded /\ LockedIffHeld
         /\ \A t \in Slots : flags(t) = "BLOCKED_QUEUE" =>
              /\ pc[t] = "popBlocking leaves"
              /\ consumer_thread_ptr = t
              /\ t = current_thread => t \in yielding
         /\ \A t \in Slots : pc[t] = "popBlocking blocks" => consumer_thread_ptr = t
BY DEF CoopInv, OneInsideInv, QueueInv, LocksRespected, BlocksRegistered

(* The thread of an operation is the only one in the middle of a call, and *)
(* its slot is in use.                                                     *)
LEMMA ActorFacts ==
  ASSUME CoopInv, NEW t \in Slots, At(t, pc[t]), t # Main
  PROVE  /\ t = current_thread /\ yielding = {}
         /\ ~FreeSlot(t)
         /\ \A u \in Slots \ {t} : pc[u] \in WaitingLabels
         /\ \A u \in Slots \ {t} :
              pc[u] = "popBlocking waits for consumer_lock" =>
                flags(u) \in {"BLOCKED_MUTEX", "SUSPENDED"}
<1>1. t = current_thread /\ t \notin yielding /\ yielding \subseteq {t}
  BY DEF At, CoopInv, OneInside
<1> QED
  BY <1>1 DEF CoopInv, OneInside, FreeSlotsUnused, WaiterFindsFree

LEMMA ActorNotMain ==
  ASSUME CoopInv, NEW t \in Slots, QueueOperation(t)
  PROVE  t # Main /\ At(t, pc[t])
<1>1. CASE push(t) \/ pop(t) \/ popBlocking(t)
  BY <1>1 DEF push, pop, popBlocking, Using, Calling, At
<1>2. CASE PushStep(t) \/ PopStep(t) \/ PopBlockingStep(t)
  <2>1. pc[t] # "user" /\ At(t, pc[t])
    BY <1>2 DEF PushStep, push_lock_resume, push_full, push_store, push_wake, push_unlock,
       PopStep, pop_lock_resume, pop_empty, pop_take, PopBlockingStep,
       popBlocking_consumer_resume, popBlocking_test, popBlocking_register,
       popBlocking_block, popBlocking_leave, popBlocking_lock, popBlocking_lock_resume,
       popBlocking_take, LockWoken, At
  <2> QED
    BY <2>1 DEF CoopInv, FreeSlotsUnused
<1> QED
  BY <1>1, <1>2 DEF QueueOperation

(* What a step of an operation of t has to show of t, the other threads    *)
(* being where they were.                                                  *)
LEMMA CoopOperation ==
  ASSUME CoopInv, OneInsideInv', NEW t \in Slots, t # Main, At(t, pc[t]),
         NEW label \in Labels,
         pc' = [pc EXCEPT ![t] = label],
         UNCHANGED <<current_thread, current_active_state>>,
         yielding' \subseteq {t},
         \A u \in Slots \ {t} : flags(u)' = flags(u) \/ u = consumer_thread_ptr,
         \A u \in Slots : ~(FreeSlot(u)' /\ ~FreeSlot(u)),
         label = "popBlocking waits for consumer_lock" =>
           t \in yielding' /\ flags(t)' = "BLOCKED_MUTEX",
         RegisteredInside', EmptyWhenBlocking',
         label \in {"popBlocking locks", "popBlocking takes"} =>
           word'[consumer_lock] = MUTEX_UNLOCKED
  PROVE  CoopInv'
<1> USE CoopFacts, QueueTypes, ActorFacts
<1>1. pc'[t] = label /\ \A u \in Slots \ {t} : pc'[u] = pc[u]
  OBVIOUS
<1>2. FreeSlotsUnused'
  BY <1>1 DEF CoopInv, FreeSlotsUnused
<1>3. WaiterFindsFree'
  <2> SUFFICES ASSUME NEW u \in Slots,
                      pc'[u] = "popBlocking waits for consumer_lock"
               PROVE  IF u \in yielding' THEN flags(u)' = "BLOCKED_MUTEX"
                      ELSE IF u = current_thread' THEN word'[consumer_lock] = MUTEX_UNLOCKED
                      ELSE flags(u)' \in {"BLOCKED_MUTEX", "SUSPENDED"}
    BY DEF WaiterFindsFree
  <2>1. CASE u = t
    BY <1>1, <2>1
  <2>2. CASE u # t
    <3>1. u # consumer_thread_ptr
      BY <1>1, <2>2 DEF CoopInv, RegisteredInside
    <3>2. flags(u)' \in {"BLOCKED_MUTEX", "SUSPENDED"}
      BY <1>1, <2>2, <3>1
    <3>3. u # current_thread' /\ u \notin yielding'
      BY <2>2
    <3> QED
      BY <3>2, <3>3
  <2> QED
    BY <2>1, <2>2
<1>4. LeaverReleased'
  BY <1>1 DEF LeaverReleased, WaitingLabels
<1> QED
  BY <1>2, <1>3, <1>4 DEF CoopInv, OneInsideInv

(* Nobody but the actor can be about to wake the consumer, or to block.    *)
LEMMA OthersWait ==
  ASSUME CoopInv, NEW t \in Slots, t # Main, At(t, pc[t]), pc[t] # "push wakes",
         NEW u \in Slots, flags(u) = "BLOCKED_QUEUE"
  PROVE  current_elements = 0
BY ActorFacts DEF CoopInv, EmptyWhenBlocking, WaitingLabels

(* A step that touches neither the flags nor the registration.             *)
LEMMA CoopPlain ==
  ASSUME CoopInv, OneInsideInv', NEW t \in Slots, t # Main, At(t, pc[t]),
         NEW label \in Labels,
         pc' = [pc EXCEPT ![t] = label],
         UNCHANGED <<current_thread, current_active_state, consumer_thread_ptr,
                     system_threads>>,
         yielding' \subseteq {t},
         pc[t] \notin {"push wakes", "popBlocking blocks", "popBlocking leaves"},
         label \notin {"popBlocking waits for consumer_lock", "popBlocking blocks"},
         label = "popBlocking registers" => current_elements' = 0,
         \/ current_elements' = current_elements
         \/ \A u \in Slots : flags(u) # "BLOCKED_QUEUE"
         \/ label = "push wakes",
         label \in {"popBlocking locks", "popBlocking takes"} =>
           word'[consumer_lock] = MUTEX_UNLOCKED
  PROVE  CoopInv'
<1> USE CoopFacts, QueueTypes, ActorFacts
<1>1. pc'[t] = label /\ \A u \in Slots \ {t} : pc'[u] = pc[u]
  OBVIOUS
<1>2. RegisteredInside'
  BY <1>1 DEF CoopInv, RegisteredInside
<1>3. EmptyWhenBlocking'
  <2>1. ASSUME NEW u \in Slots, pc'[u] \in {"popBlocking registers", "popBlocking blocks"}
        PROVE  current_elements' = 0
    BY <1>1, <2>1 DEF WaitingLabels
  <2>2. ASSUME NEW u \in Slots, flags(u) = "BLOCKED_QUEUE"
        PROVE  current_elements' = 0 \/ \E v \in Slots : pc'[v] = "push wakes"
    <3>1. current_elements = 0
      BY <2>2, OthersWait
    <3> QED
      BY <1>1, <2>2, <3>1
  <2> QED
    BY <2>1, <2>2 DEF EmptyWhenBlocking, flags
<1>4. /\ \A u \in Slots : flags(u)' = flags(u)
      /\ \A u \in Slots : ~(FreeSlot(u)' /\ ~FreeSlot(u))
  BY DEF flags, FreeSlot
<1> QED
  BY <1>2, <1>3, <1>4, CoopOperation

LEMMA CoopTakes ==
  ASSUME CoopInv, OneInsideInv', NEW t \in Slots, t # Main,
         NEW m \in {queue_lock, consumer_lock}, NEW label \in Labels,
         TakesLock(t, m, label), word[m] = MUTEX_UNLOCKED,
         label \notin {"push wakes", "popBlocking registers"},
         label \in {"popBlocking locks", "popBlocking takes"} =>
           m = queue_lock /\ pc[t] = "popBlocking locks"
  PROVE  CoopInv'
<1> USE CoopFacts, QueueTypes
<1>1. /\ At(t, pc[t]) /\ pc' = [pc EXCEPT ![t] = label]
      /\ UNCHANGED <<current_thread, current_active_state, consumer_thread_ptr,
                     system_threads, current_elements, yielding>>
      /\ word' = [word EXCEPT ![m] = MUTEX_LOCKED]
  BY DEF TakesLock, queueVars, Write
<1>2. /\ pc[t] \notin {"push wakes", "popBlocking blocks", "popBlocking leaves"}
      /\ label # "popBlocking waits for consumer_lock" /\ label # "popBlocking blocks"
  BY LabelFacts DEF TakesLock, ReliedOn, QueueLockLabels, ConsumerLockLabels
<1>3. label \in {"popBlocking locks", "popBlocking takes"} =>
        word'[consumer_lock] = MUTEX_UNLOCKED
  BY <1>1 DEF CoopInv, LeaverReleased
<1>4. yielding' \subseteq {t}
  BY <1>1, ActorFacts
<1> QED
  BY <1>1, <1>2, <1>3, <1>4, CoopPlain

LEMMA CoopWaits ==
  ASSUME CoopInv, OneInsideInv', NEW t \in Slots, t # Main,
         WaitsForLock(t, consumer_lock, "popBlocking waits for consumer_lock")
  PROVE  CoopInv'
<1> USE CoopFacts, QueueTypes
<1> DEFINE label == "popBlocking waits for consumer_lock"
<1>0. label \in Labels
  BY DEF Labels
<1>1. /\ At(t, pc[t]) /\ pc' = [pc EXCEPT ![t] = label]
      /\ pc'[t] = label /\ \A u \in Slots \ {t} : pc'[u] = pc[u]
      /\ UNCHANGED <<current_thread, current_active_state, consumer_thread_ptr,
                     current_elements>>
      /\ yielding' = yielding \cup {t}
  BY DEF WaitsForLock, BlockOn, YieldThen, queueVars
<1>2. flags(t)' = "BLOCKED_MUTEX" /\ \A u \in Slots \ {t} : flags(u)' = flags(u)
  <2>2. system_threads' = [system_threads EXCEPT
          ![t] = [@ EXCEPT !.mutex_semaphore = consumer_lock, !.flags = "BLOCKED_MUTEX"]]
    BY DEF WaitsForLock, BlockOn
  <2>3. [system_threads[t] EXCEPT !.mutex_semaphore = consumer_lock,
                                  !.flags = "BLOCKED_MUTEX"].flags = "BLOCKED_MUTEX"
    BY DEF thread_t
  <2> QED
    BY <2>2, <2>3 DEF flags
<1>3. /\ pc[t] \notin {"push wakes", "popBlocking blocks", "popBlocking leaves"}
  BY DEF WaitsForLock, ReliedOn, QueueLockLabels, ConsumerLockLabels
<1>4. RegisteredInside'
  BY <1>1, <1>3 DEF CoopInv, RegisteredInside
<1>5. EmptyWhenBlocking'
  <2>1. ASSUME NEW u \in Slots, pc'[u] \in {"popBlocking registers", "popBlocking blocks"}
        PROVE  current_elements' = 0
    BY <1>1, <2>1, ActorFacts DEF WaitingLabels
  <2>2. ASSUME NEW u \in Slots, flags(u)' = "BLOCKED_QUEUE"
        PROVE  current_elements' = 0
    <3>1. flags(u) = "BLOCKED_QUEUE"
      BY <1>2, <2>2
    <3> QED
      BY <1>1, <1>3, <3>1, OthersWait
  <2> QED
    BY <2>1, <2>2 DEF EmptyWhenBlocking
<1>6. \A u \in Slots : ~(FreeSlot(u)' /\ ~FreeSlot(u))
  BY <1>2 DEF FreeSlot
<1>7. yielding' \subseteq {t} /\ t \in yielding'
  BY <1>1, ActorFacts
<1> HIDE DEF label
<1>8. /\ label \notin {"popBlocking locks", "popBlocking takes"}
  BY DEF label
<1> QED
  BY <1>0, <1>1, <1>2, <1>4, <1>5, <1>6, <1>7, <1>8, CoopOperation

(* push.                                                                   *)
LEMMA CoopPush ==
  ASSUME CoopInv, NEW t \in Slots, t # Main, push(t) \/ PushStep(t)
  PROVE  CoopInv'
<1> USE CoopFacts, QueueTypes
<1>0. OneInsideInv'
  BY OneInsideOperation DEF QueueOperation
<1>l. /\ "push stores" \in Labels /\ "push wakes" \in Labels
      /\ "push unlocks" \in Labels /\ "user" \in Labels
  BY DEF Labels
<1>1. CASE push(t)
  <2>1. /\ At(t, "user")
        /\ \/ TakesLock(t, queue_lock, "push stores") /\ word[queue_lock] = MUTEX_UNLOCKED
           \/ /\ WaitsForLock(t, queue_lock, "push waits")
              /\ word[queue_lock] # MUTEX_UNLOCKED
    BY <1>1, PushCases
  <2>2. word[queue_lock] = MUTEX_UNLOCKED
    BY <2>1, QueueLockIsFree, LabelFacts DEF At
  <2> QED
    BY <1>0, <1>l, <2>1, <2>2, CoopTakes
<1>2. CASE push_lock_resume(t)
  <2>1. pc[t] = "push waits"
    BY <1>2, WokenSteps
  <2> QED
    BY <2>1 DEF CoopInv, OneInside, QueueLockWaits
<1>3. CASE push_full(t) \/ push_unlock(t)
  <2>1. /\ At(t, pc[t]) /\ pc[t] \in {"push stores", "push unlocks"}
        /\ pc' = [pc EXCEPT ![t] = "user"]
        /\ UNCHANGED <<current_thread, current_active_state, consumer_thread_ptr,
                       system_threads, current_elements, yielding>>
    BY <1>3 DEF push_full, push_unlock, Unlock, Goto, queueVars, At
  <2>2. yielding' \subseteq {t}
    BY <2>1, ActorFacts
  <2> QED
    BY <1>0, <1>l, <2>1, <2>2, CoopPlain
<1>4. CASE push_store(t)
  <2>1. /\ At(t, pc[t]) /\ pc[t] = "push stores"
        /\ pc' = [pc EXCEPT ![t] = "push wakes"]
        /\ UNCHANGED <<current_thread, current_active_state, consumer_thread_ptr,
                       system_threads, yielding>>
    BY <1>4 DEF push_store, Goto, kernelVars, At
  <2>2. yielding' \subseteq {t}
    BY <2>1, ActorFacts
  <2> QED
    BY <1>0, <1>l, <2>1, <2>2, CoopPlain
<1>5. CASE push_wake(t)
  <2>1. /\ At(t, pc[t]) /\ pc[t] = "push wakes"
        /\ pc' = [pc EXCEPT ![t] = "push unlocks"]
        /\ pc'[t] = "push unlocks" /\ \A u \in Slots \ {t} : pc'[u] = pc[u]
        /\ UNCHANGED <<current_thread, current_active_state, yielding, queueVars>>
    BY <1>5 DEF push_wake, Goto, At
  <2>2. \A u \in Slots :
          flags(u)' = IF u = consumer_thread_ptr THEN "RUNNING" ELSE flags(u)
    BY <1>5, PushWakeStep
  <2>3. \A u \in Slots : flags(u)' # "BLOCKED_QUEUE"
    BY <2>2
  <2>4. RegisteredInside'
    BY <2>1 DEF CoopInv, RegisteredInside, queueVars
  <2>5. EmptyWhenBlocking'
    BY <2>1, <2>3, ActorFacts DEF EmptyWhenBlocking, WaitingLabels
  <2>6. \A u \in Slots : ~(FreeSlot(u)' /\ ~FreeSlot(u))
    BY <2>2 DEF FreeSlot
  <2>7. yielding' \subseteq {t} /\ \A u \in Slots \ {t} :
                                     flags(u)' = flags(u) \/ u = consumer_thread_ptr
    BY <2>1, <2>2, ActorFacts
  <2> QED
    BY <1>0, <1>l, <2>1, <2>4, <2>5, <2>6, <2>7, CoopOperation
<1> QED
  BY <1>1, <1>2, <1>3, <1>4, <1>5 DEF PushStep

(* pop, and the end of popBlocking.                                        *)
LEMMA CoopTakeHead ==
  ASSUME CoopInv, NEW t \in Slots, t # Main, OneInsideInv',
         NEW from \in {"pop takes", "popBlocking takes"},
         At(t, from), TakeHead(t),
         from = "pop takes" => current_elements # 0
  PROVE  CoopInv'
<1> USE CoopFacts, QueueTypes
<1>1. /\ At(t, pc[t]) /\ pc[t] = from
      /\ pc' = [pc EXCEPT ![t] = "user"]
      /\ UNCHANGED <<current_thread, current_active_state, consumer_thread_ptr,
                     system_threads, yielding>>
  BY DEF TakeHead, Unlock, Goto, At
<1>2. \A u \in Slots : flags(u) # "BLOCKED_QUEUE"
  <2> SUFFICES ASSUME NEW u \in Slots, flags(u) = "BLOCKED_QUEUE" PROVE FALSE
    OBVIOUS
  <2>1. current_elements = 0
    BY <1>1, OthersWait
  <2>2. from = "popBlocking takes" /\ word[consumer_lock] = MUTEX_UNLOCKED
    BY <1>1, <2>1 DEF CoopInv, LeaverReleased
  <2>3. held[u] = {consumer_lock}
    BY DEF QueueInv, HeldByLabel, ReliedOn, ConsumerLockLabels, QueueLockLabels
  <2> QED
    BY <2>2, <2>3 DEF LockedIffHeld
<1>3. yielding' \subseteq {t} /\ "user" \in Labels
  BY <1>1, ActorFacts DEF Labels
<1> QED
  BY <1>1, <1>2, <1>3, CoopPlain

LEMMA CoopPop ==
  ASSUME CoopInv, NEW t \in Slots, t # Main, pop(t) \/ PopStep(t)
  PROVE  CoopInv'
<1> USE CoopFacts, QueueTypes
<1>0. OneInsideInv'
  BY OneInsideOperation DEF QueueOperation
<1>1. CASE pop(t)
  <2>1. /\ At(t, "user")
        /\ \/ TakesLock(t, queue_lock, "pop takes") /\ word[queue_lock] = MUTEX_UNLOCKED
           \/ /\ WaitsForLock(t, queue_lock, "pop waits")
              /\ word[queue_lock] # MUTEX_UNLOCKED
    BY <1>1, PopCases
  <2>2. word[queue_lock] = MUTEX_UNLOCKED
    BY <2>1, QueueLockIsFree, LabelFacts DEF At
  <2>3. "pop takes" \in Labels
    BY DEF Labels
  <2> QED
    BY <1>0, <2>1, <2>2, <2>3, CoopTakes
<1>2. CASE pop_lock_resume(t)
  <2>1. pc[t] = "pop waits"
    BY <1>2, WokenSteps
  <2> QED
    BY <2>1 DEF CoopInv, OneInside, QueueLockWaits
<1>3. CASE pop_empty(t)
  <2>1. /\ At(t, pc[t]) /\ pc[t] = "pop takes" /\ "user" \in Labels
        /\ pc' = [pc EXCEPT ![t] = "user"]
        /\ UNCHANGED <<current_thread, current_active_state, consumer_thread_ptr,
                       system_threads, current_elements, yielding>>
    BY <1>3 DEF pop_empty, Unlock, Goto, At, Labels
  <2>2. yielding' \subseteq {t}
    BY <2>1, ActorFacts
  <2> QED
    BY <1>0, <2>1, <2>2, CoopPlain
<1>4. CASE pop_take(t)
  BY <1>0, <1>4, CoopTakeHead DEF pop_take
<1> QED
  BY <1>1, <1>2, <1>3, <1>4 DEF PopStep

(* popBlocking, up to its end.                                             *)
LEMMA CoopConsumer ==
  ASSUME CoopInv, NEW t \in Slots, t # Main,
         \/ popBlocking(t) \/ popBlocking_consumer_resume(t) \/ popBlocking_test(t)
         \/ popBlocking_lock(t) \/ popBlocking_lock_resume(t)
  PROVE  CoopInv'
<1> USE CoopFacts, QueueTypes
<1>0. OneInsideInv'
  BY OneInsideOperation DEF QueueOperation, PopBlockingStep
<1>l. /\ "popBlocking tests" \in Labels /\ "popBlocking takes" \in Labels
      /\ "popBlocking registers" \in Labels /\ "popBlocking leaves" \in Labels
  BY DEF Labels
<1>1. CASE popBlocking(t)
  <2>1. \/ /\ TakesLock(t, consumer_lock, "popBlocking tests")
           /\ word[consumer_lock] = MUTEX_UNLOCKED
        \/ WaitsForLock(t, consumer_lock, "popBlocking waits for consumer_lock")
    BY <1>1, PopBlockingCases
  <2>2. CASE /\ TakesLock(t, consumer_lock, "popBlocking tests")
             /\ word[consumer_lock] = MUTEX_UNLOCKED
    BY <1>0, <1>l, <2>2, CoopTakes
  <2>3. CASE WaitsForLock(t, consumer_lock, "popBlocking waits for consumer_lock")
    BY <1>0, <2>3, CoopWaits
  <2> QED
    BY <2>1, <2>2, <2>3
<1>2. CASE popBlocking_consumer_resume(t)
  <2>1. /\ TakesLock(t, consumer_lock, "popBlocking tests")
        /\ At(t, "popBlocking waits for consumer_lock")
    BY <1>2, WokenSteps
  <2>2. word[consumer_lock] = MUTEX_UNLOCKED
    BY <2>1 DEF CoopInv, WaiterFindsFree, At
  <2> QED
    BY <1>0, <1>l, <2>1, <2>2, CoopTakes
<1>3. CASE popBlocking_test(t)
  <2> DEFINE label == IF current_elements = 0 THEN "popBlocking registers"
                                              ELSE "popBlocking leaves"
  <2>1. /\ At(t, pc[t]) /\ pc[t] = "popBlocking tests"
        /\ pc' = [pc EXCEPT ![t] = label]
        /\ UNCHANGED <<current_thread, current_active_state, consumer_thread_ptr,
                       system_threads, current_elements, yielding>>
    BY <1>3 DEF popBlocking_test, Goto, kernelVars, queueVars, At
  <2>2. /\ label \in Labels
        /\ label \notin {"popBlocking waits for consumer_lock", "popBlocking blocks",
                         "popBlocking locks", "popBlocking takes"}
        /\ label = "popBlocking registers" => current_elements' = 0
    BY <1>l, <2>1
  <2>3. yielding' \subseteq {t}
    BY <2>1, ActorFacts
  <2> HIDE DEF label
  <2> QED
    BY <1>0, <2>1, <2>2, <2>3, CoopPlain
<1>4. CASE popBlocking_lock(t)
  <2>1. /\ At(t, "popBlocking locks")
        /\ \/ /\ TakesLock(t, queue_lock, "popBlocking takes")
              /\ word[queue_lock] = MUTEX_UNLOCKED
           \/ /\ WaitsForLock(t, queue_lock, "popBlocking waits")
              /\ word[queue_lock] # MUTEX_UNLOCKED
    BY <1>4, PopBlockingLockCases
  <2>2. /\ At(t, pc[t]) /\ pc[t] = "popBlocking locks" /\ ReliedOn(pc[t]) = {}
    BY <2>1 DEF At, ReliedOn, QueueLockLabels, ConsumerLockLabels
  <2>3. word[queue_lock] = MUTEX_UNLOCKED
    BY <2>2, QueueLockIsFree
  <2> QED
    BY <1>0, <1>l, <2>1, <2>2, <2>3, CoopTakes
<1>5. CASE popBlocking_lock_resume(t)
  <2>1. pc[t] = "popBlocking waits"
    BY <1>5, WokenSteps
  <2> QED
    BY <2>1 DEF CoopInv, OneInside, QueueLockWaits
<1> QED
  BY <1>1, <1>2, <1>3, <1>4, <1>5

(* The consumer registers, blocks, and leaves once it runs again.          *)
LEMMA CoopRegister ==
  ASSUME CoopInv, NEW t \in Slots, t # Main,
         popBlocking_register(t) \/ popBlocking_block(t) \/ popBlocking_leave(t)
  PROVE  CoopInv'
<1> USE CoopFacts, QueueTypes
<1>0. OneInsideInv'
  BY OneInsideOperation DEF QueueOperation, PopBlockingStep
<1>1. ASSUME NEW label \in Labels, At(t, pc[t]), pc' = [pc EXCEPT ![t] = label],
             UNCHANGED <<current_thread, current_active_state, current_elements>>,
             yielding' \subseteq {t},
             pc[t] # "push wakes", label # "popBlocking waits for consumer_lock",
             \A u \in Slots \ {t} : flags(u)' = flags(u),
             ~FreeSlot(t)',
             label = "popBlocking blocks" \/ flags(t)' = "BLOCKED_QUEUE" =>
               current_elements = 0,
             label # "popBlocking registers",
             label \in {"popBlocking locks", "popBlocking takes"} =>
               word'[consumer_lock] = MUTEX_UNLOCKED,
             RegisteredInside'
      PROVE  CoopInv'
  <2>1. EmptyWhenBlocking'
    <3>1. ASSUME NEW u \in Slots, pc'[u] \in {"popBlocking registers", "popBlocking blocks"}
          PROVE  current_elements' = 0
      BY <1>1, <3>1, ActorFacts DEF WaitingLabels
    <3>2. ASSUME NEW u \in Slots, flags(u)' = "BLOCKED_QUEUE"
          PROVE  current_elements' = 0
      <4>1. CASE u = t
        BY <1>1, <3>2, <4>1
      <4>2. CASE u # t
        <5>1. flags(u) = "BLOCKED_QUEUE"
          BY <1>1, <3>2, <4>2
        <5> QED
          BY <1>1, <5>1, OthersWait
      <4> QED
        BY <4>1, <4>2
    <3> QED
      BY <3>1, <3>2 DEF EmptyWhenBlocking
  <2>2. \A u \in Slots : ~(FreeSlot(u)' /\ ~FreeSlot(u))
    BY <1>1 DEF FreeSlot
  <2> QED
    BY <1>0, <1>1, <2>1, <2>2, CoopOperation
<1>l. /\ "popBlocking blocks" \in Labels /\ "popBlocking leaves" \in Labels
      /\ "popBlocking locks" \in Labels
  BY DEF Labels
<1>2. CASE popBlocking_register(t)
  <2>1. /\ At(t, pc[t]) /\ pc[t] = "popBlocking registers"
        /\ pc' = [pc EXCEPT ![t] = "popBlocking blocks"]
        /\ consumer_thread_ptr' = t
        /\ UNCHANGED <<current_thread, current_active_state, system_threads,
                       current_elements, yielding>>
    BY <1>2 DEF popBlocking_register, Goto, kernelVars, At
  <2>2. current_elements = 0
    BY <2>1 DEF CoopInv, EmptyWhenBlocking
  <2>3. RegisteredInside'
    BY <2>1 DEF RegisteredInside
  <2>4. /\ \A u \in Slots : flags(u)' = flags(u) /\ (FreeSlot(u)' <=> FreeSlot(u))
        /\ yielding' \subseteq {t} /\ ~FreeSlot(t)
    BY <2>1, ActorFacts DEF flags, FreeSlot
  <2> QED
    BY <1>1, <1>l, <2>1, <2>2, <2>3, <2>4
<1>3. CASE popBlocking_block(t)
  <2>1. /\ At(t, pc[t]) /\ pc[t] = "popBlocking blocks"
        /\ pc' = [pc EXCEPT ![t] = "popBlocking leaves"]
        /\ UNCHANGED <<current_thread, current_active_state, current_elements,
                       consumer_thread_ptr>>
        /\ yielding' = yielding \cup {t}
    BY <1>3 DEF popBlocking_block, YieldThen, queueVars, At
  <2>2. \A u \in Slots : flags(u)' = IF u = t THEN "BLOCKED_QUEUE" ELSE flags(u)
    BY <1>3, BlockStep
  <2>3. current_elements = 0
    BY <2>1 DEF CoopInv, EmptyWhenBlocking
  <2>4. RegisteredInside'
    BY <2>1 DEF CoopInv, RegisteredInside
  <2>5. yielding' \subseteq {t} /\ ~FreeSlot(t)'
    BY <2>1, <2>2, ActorFacts DEF FreeSlot
  <2> QED
    BY <1>1, <1>l, <2>1, <2>2, <2>3, <2>4, <2>5
<1>4. CASE popBlocking_leave(t)
  <2>1. /\ At(t, pc[t]) /\ pc[t] = "popBlocking leaves"
        /\ pc' = [pc EXCEPT ![t] = "popBlocking locks"]
        /\ consumer_thread_ptr' = NULL
        /\ word'[consumer_lock] = MUTEX_UNLOCKED
        /\ UNCHANGED <<current_thread, current_active_state, system_threads,
                       current_elements, yielding>>
    BY <1>4 DEF popBlocking_leave, Unlock, Goto, GiveBack, Write, At
  <2>2. RegisteredInside'
    BY <2>1 DEF RegisteredInside
  <2>3. /\ \A u \in Slots : flags(u)' = flags(u) /\ (FreeSlot(u)' <=> FreeSlot(u))
        /\ yielding' \subseteq {t} /\ ~FreeSlot(t)
    BY <2>1, ActorFacts DEF flags, FreeSlot
  <2>4. flags(t)' # "BLOCKED_QUEUE"
    BY <2>1, <2>3, ActorFacts DEF At
  <2> QED
    BY <1>1, <1>l, <2>1, <2>2, <2>3, <2>4
<1> QED
  BY <1>2, <1>3, <1>4

(* The application's own steps: who waits stays blocked until its lock is  *)
(* free.                                                                   *)
LEMMA CoopApplication ==
  ASSUME ~Preemptive, "resume" \notin Calls,
         CoopInv, ApplicationNext, UNCHANGED <<held, queueVars>>
  PROVE  CoopInv'
<1> USE CoopFacts, QueueTypes
<1>0. OneInsideInv'
  BY OneInsideApplication
<1>1. ApplicationFrame /\ (Switches \/ Sleeps \/ Stays)
  BY ApplicationCases
<1>2. /\ UNCHANGED <<pc, word, current_active_state, consumer_thread_ptr, current_elements>>
      /\ \A u \in Slots : this(u)' = this(u)
  BY <1>1 DEF ApplicationFrame, queueVars
<1>3. yielding \subseteq {current_thread}
  BY DEF CoopInv, OneInside
<1>4. ASSUME NEW u \in Slots
      PROVE  /\ FreeSlot(u)' => FreeSlot(u) /\ (u = current_thread' => u = current_thread)
             /\ flags(u)' = "BLOCKED_QUEUE" => flags(u) = "BLOCKED_QUEUE"
  <2>1. CASE Switches
    BY <2>1 DEF Switches, FreeSlot
  <2>2. CASE Sleeps
    BY <2>2 DEF Sleeps, FreeSlot
  <2>3. CASE Stays
    BY <2>3 DEF Stays, FreeSlot
  <2> QED
    BY <1>1, <2>1, <2>2, <2>3
<1>5. FreeSlotsUnused'
  BY <1>2, <1>4 DEF CoopInv, FreeSlotsUnused
<1>6. WaiterFindsFree'
  <2> SUFFICES ASSUME NEW u \in Slots, pc[u] = "popBlocking waits for consumer_lock"
               PROVE  IF u \in yielding' THEN flags(u)' = "BLOCKED_MUTEX"
                      ELSE IF u = current_thread' THEN word[consumer_lock] = MUTEX_UNLOCKED
                      ELSE flags(u)' \in {"BLOCKED_MUTEX", "SUSPENDED"}
    BY <1>2 DEF WaiterFindsFree
  <2>1. /\ u \in yielding => flags(u) = "BLOCKED_MUTEX"
        /\ u \notin yielding /\ u = current_thread => word[consumer_lock] = MUTEX_UNLOCKED
        /\ u # current_thread => flags(u) \in {"BLOCKED_MUTEX", "SUSPENDED"}
    BY <1>3 DEF CoopInv, WaiterFindsFree
  <2>2. CASE Switches
    <3>1. /\ u \notin yielding' /\ flags(u) \in {"BLOCKED_MUTEX", "SUSPENDED"}
      BY <1>3, <2>1, <2>2 DEF Switches
    <3>2. CASE u = current_thread'
      <4>1. Ready(u)
        BY <2>2, <3>2 DEF Switches
      <4>2. flags(u) = "BLOCKED_MUTEX" /\ MutexReleased(system_threads[u])
        BY <3>1, <4>1 DEF Ready, CanWake, flags
      <4>3. this(u) = consumer_lock
        BY DEF QueueInv, WaitsForItsLock
      <4> QED
        BY <3>1, <3>2, <4>2, <4>3 DEF MutexReleased, this, MUTEX_UNLOCKED
    <3>3. CASE u # current_thread'
      BY <2>2, <3>1, <3>3 DEF Switches
    <3> QED
      BY <3>2, <3>3
  <2>3. CASE Sleeps
    BY <1>3, <2>1, <2>3 DEF Sleeps
  <2>4. CASE Stays
    <3>1. flags(u)' = flags(u) \/
            (u # current_thread /\ flags(u)' = "SUSPENDED")
      BY <2>1, <2>4 DEF Stays, FreeSlot, CoopInv, FreeSlotsUnused
    <3> QED
      BY <1>3, <2>1, <2>4, <3>1 DEF Stays
  <2> QED
    BY <1>1, <2>2, <2>3, <2>4
<1>7. RegisteredInside' /\ LeaverReleased' /\ EmptyWhenBlocking'
  BY <1>2, <1>4 DEF CoopInv, RegisteredInside, LeaverReleased, EmptyWhenBlocking
<1> QED
  BY <1>0, <1>2, <1>5, <1>6, <1>7 DEF CoopInv, OneInsideInv

(* The invariant is inductive.                                             *)
LEMMA CoopStep ==
  ASSUME ~Preemptive, "resume" \notin Calls
  PROVE  CoopInv /\ [Next]_vars => CoopInv'
<1> SUFFICES ASSUME CoopInv, [Next]_vars PROVE CoopInv'
  OBVIOUS
<1>1. CASE UNCHANGED vars \/ init
  <2>1. OneInsideInv'
    BY <1>1, CoopFacts, OneInsideStep DEF Next
  <2>2. UNCHANGED <<lockVars, consumer_thread_ptr, current_elements>>
    BY <1>1 DEF vars, queueVars, init
  <2> QED
    BY <2>1, <2>2
       DEF CoopInv, OneInsideInv, lockVars, threadVars, kernelVars, FreeSlotsUnused,
           FreeSlot, WaiterFindsFree, RegisteredInside, LeaverReleased,
           EmptyWhenBlocking, flags
<1>2. ASSUME NEW t \in Slots, QueueOperation(t) PROVE CoopInv'
  <2>1. t # Main
    BY <1>2, ActorNotMain
  <2>2. ASSUME popBlocking_take(t) PROVE CoopInv'
    <3>1. OneInsideInv'
      BY <1>2, CoopFacts, OneInsideOperation
    <3> QED
      BY <2>1, <2>2, <3>1, CoopTakeHead DEF popBlocking_take
  <2> QED
    BY <1>2, <2>1, <2>2, CoopPush, CoopPop, CoopConsumer, CoopRegister
       DEF QueueOperation, PopBlockingStep
<1> QED
  BY <1>1, <1>2, CoopApplication DEF Next

LEMMA CoopInit == Init => CoopInv
<1> SUFFICES ASSUME Init PROVE CoopInv
  OBVIOUS
<1>1. OneInsideInv
  BY OneInsideInit
<1>2. /\ \A t \in Slots : pc[t] = "user"
      /\ current_thread = Main /\ consumer_thread_ptr = NULL
      /\ current_active_state = "STARTED" /\ current_elements = 0
  BY DEF Init, ApplicationInit, KernelInit
<1>3. NULL \notin Slots
  BY ThreadsAssumption, NullAssumption DEF Slots
<1> QED
  BY <1>1, <1>2, <1>3
     DEF CoopInv, OneInsideInv, FreeSlotsUnused, WaiterFindsFree, RegisteredInside,
         LeaverReleased, EmptyWhenBlocking

LEMMA CoopInvariant ==
  ASSUME ~Preemptive, "resume" \notin Calls
  PROVE  Spec => []CoopInv
<1>1. CoopInv /\ [Next]_vars => CoopInv'
  BY CoopStep
<1> QED
  BY <1>1, CoopInit, PTL DEF Spec

(* No push passes a blocked consumer by: while a thread is blocked on the  *)
(* queue, the queue is empty or the push that filled it is about to wake   *)
(* the thread.                                                             *)
THEOREM WakeUpsAreNotLost ==
  ASSUME ~Preemptive, "resume" \notin Calls
  PROVE  Spec => []NoLostWakeup
<1>1. CoopInv => NoLostWakeup
  BY DEF CoopInv, EmptyWhenBlocking, NoLostWakeup
<1> QED
  BY <1>1, CoopInvariant, PTL

-----------------------------------------------------------------------------
(* The ring: from here on the application uses one kind of pop.            *)
LEMMA ElementFacts ==
  ASSUME ElementInv
  PROVE  /\ CoopInv /\ OneInsideInv /\ QueueInv /\ TypeOK /\ QueueFieldsOK
         /\ RingInv /\ OneKindOfPop /\ ElementThere /\ LeaverHasElement
         /\ QUEUE_LEN \in Nat /\ QUEUE_LEN >= 1 /\ COUNT_MOD \in Nat
         /\ COUNT_MOD > QUEUE_LEN
         /\ current_elements \in Nat /\ head \in 0 .. QUEUE_LEN - 1
         /\ tail \in 0 .. QUEUE_LEN - 1
<1>1. CoopInv /\ RingInv /\ OneKindOfPop /\ ElementThere /\ LeaverHasElement
  BY DEF ElementInv
<1>2. OneInsideInv /\ QueueInv /\ TypeOK
  BY <1>1, CoopFacts
<1>3. QueueFieldsOK
  BY <1>2, TypeParts
<1>4. /\ QUEUE_LEN \in Nat /\ QUEUE_LEN >= 1 /\ COUNT_MOD \in Nat
      /\ COUNT_MOD > QUEUE_LEN
  BY QueueAssumption
<1>5. head \in 0 .. QUEUE_LEN - 1 /\ tail \in 0 .. QUEUE_LEN - 1
  BY <1>3 DEF QueueFieldsOK, Indices
<1>6. current_elements \in Nat
  BY <1>1, <1>4 DEF RingInv
<1> QED
  BY <1>1, <1>2, <1>3, <1>4, <1>5, <1>6

(* The place behind n elements, with one more of them and with one less.   *)
LEMMA PlaceAfterPush ==
  ASSUME NEW N \in Nat, NEW n \in 0 .. N, n # N, NEW h \in 0 .. N - 1,
         NEW place, place = IF h + n < N THEN h + n ELSE h + n - N
  PROVE  /\ n < N /\ n + 1 \in 0 .. N
         /\ (IF place + 1 = N THEN 0 ELSE place + 1)
              = IF h + (n + 1) < N THEN h + (n + 1) ELSE h + (n + 1) - N
<1>1. n \in Int /\ 0 <= n /\ n < N /\ h \in Int /\ 0 <= h /\ h <= N - 1 /\ N \in Int
  OBVIOUS
<1>2. place \in Int
  BY <1>1
<1> QED
  BY <1>1, <1>2

LEMMA PlaceAfterTake ==
  ASSUME NEW N \in Nat, NEW n \in 0 .. N, n # 0, NEW h \in 0 .. N - 1,
         NEW place, place = IF h + n < N THEN h + n ELSE h + n - N,
         NEW next, next = IF h + 1 = N THEN 0 ELSE h + 1
  PROVE  /\ n - 1 \in 0 .. N
         /\ place = IF next + (n - 1) < N THEN next + (n - 1) ELSE next + (n - 1) - N
<1>1. n \in Int /\ 0 < n /\ n <= N /\ h \in Int /\ 0 <= h /\ h <= N - 1 /\ N \in Int
  OBVIOUS
<1>2. place \in Int /\ next \in Int
  BY <1>1
<1> QED
  BY <1>1, <1>2

(* One element stored behind the last.                                     *)
LEMMA RingPush ==
  ASSUME ElementInv, NEW t \in Slots, push_store(t)
  PROVE  /\ RingInv' /\ current_elements' = current_elements + 1
         /\ current_elements < QUEUE_LEN /\ UNCHANGED head
<1> DEFINE N == QUEUE_LEN
           n == current_elements
           Place(i) == IF head + i < N THEN head + i ELSE head + i - N
<1>0. /\ QueueInv /\ N \in Nat /\ N >= 1 /\ COUNT_MOD \in Nat /\ COUNT_MOD > N
      /\ head \in 0 .. N - 1 /\ n \in 0 .. N
      /\ tail = Place(n)
  BY ElementFacts DEF RingInv
<1>1. /\ queue_len = N /\ data_buffer \in [Indices -> Data \cup {NULL}]
  BY <1>0, InsideUses DEF push_store
<1>2. n # N
  BY <1>1 DEF push_store
<1>3. current_elements' = n + 1
  <2>1. n # COUNT_MOD - 1
    <3> HIDE DEF n, N
    <3> QED
      BY <1>0, <1>2
  <2> QED
    BY <2>1 DEF push_store, Incremented
<1>4. /\ UNCHANGED head
      /\ tail' = IF tail + 1 = N THEN 0 ELSE tail + 1
  BY <1>1 DEF push_store, Advanced
<1>5. data_buffer' # NULL
  <2>1. data_buffer' \in [Indices -> Data \cup {NULL}]
    BY <1>1 DEF push_store
  <2> QED
    BY <2>1, BufferAssumption
<1>6. tail' = Place(n + 1) /\ n + 1 \in 0 .. N /\ n < N
  BY <1>0, <1>2, <1>4, PlaceAfterPush
<1> QED
  BY <1>3, <1>4, <1>5, <1>6 DEF RingInv

(* One element taken from the front.                                       *)
LEMMA RingTake ==
  ASSUME ElementInv, NEW t \in Slots, pc[t] # "user", TakeHead(t)
  PROVE  current_elements # 0 =>
           /\ RingInv' /\ current_elements' = current_elements - 1
           /\ head' = IF head + 1 = QUEUE_LEN THEN 0 ELSE head + 1
           /\ data_buffer \in [Indices -> Data \cup {NULL}]
           /\ UNCHANGED data_buffer
<1> DEFINE N == QUEUE_LEN
           n == current_elements
<1>0. /\ QueueInv /\ N \in Nat /\ N >= 1
      /\ head \in 0 .. N - 1 /\ n \in 0 .. N
      /\ tail = IF head + n < N THEN head + n ELSE head + n - N
  BY ElementFacts DEF RingInv
<1>1. /\ queue_len = N /\ data_buffer \in [Indices -> Data \cup {NULL}]
      /\ data_buffer # NULL
  BY <1>0 DEF QueueInv, BufferInUse, TypeOK
<1>2. /\ n # 0 => current_elements' = n - 1
      /\ head' = IF head + 1 = N THEN 0 ELSE head + 1
      /\ UNCHANGED <<tail, data_buffer>>
  BY <1>1 DEF TakeHead, Decremented, Advanced
<1>3. n # 0 => /\ n - 1 \in 0 .. N
               /\ tail = IF head' + (n - 1) < N THEN head' + (n - 1)
                         ELSE head' + (n - 1) - N
  BY <1>0, <1>2, PlaceAfterTake
<1> QED
  BY <1>1, <1>2, <1>3 DEF RingInv

-----------------------------------------------------------------------------
(* What a step of an operation of t has to show.                           *)
LEMMA ElementOperation ==
  ASSUME ElementInv, CoopInv', RingInv', NEW t \in Slots, t # Main, At(t, pc[t]),
         NEW label \in Labels, pc' = [pc EXCEPT ![t] = label],
         UNCHANGED current_thread, yielding' \subseteq {t},
         label \in PopLabels => "pop" \in Calls,
         label \in PopBlockingLabels => "popBlocking" \in Calls,
         label \in {"push wakes", "popBlocking locks", "popBlocking takes"} =>
           current_elements' # 0,
         label = "popBlocking leaves" =>
           IF t \in yielding' THEN flags(t)' = "BLOCKED_QUEUE" ELSE current_elements' # 0,
         \/ current_elements' # 0
         \/ \A u \in Slots \ {t} : pc[u] # "popBlocking leaves"
         \/ /\ UNCHANGED current_elements
            /\ \A u \in Slots \ {t} : flags(u)' = flags(u)
  PROVE  ElementInv'
<1> USE ElementFacts, QueueTypes, ActorFacts
<1>1. /\ pc'[t] = label /\ \A u \in Slots \ {t} : pc'[u] = pc[u]
      /\ t = current_thread /\ yielding = {}
      /\ \A u \in Slots \ {t} : pc[u] \in WaitingLabels /\ u \notin yielding'
  OBVIOUS
<1>2. OneKindOfPop'
  BY <1>1 DEF OneKindOfPop
<1>3. ElementThere'
  BY <1>1 DEF ElementThere, WaitingLabels
<1>4. LeaverHasElement'
  <2> SUFFICES ASSUME NEW u \in Slots, pc'[u] = "popBlocking leaves"
               PROVE  IF u \in yielding' THEN flags(u)' = "BLOCKED_QUEUE"
                      ELSE current_elements' = 0 =>
                             u # current_thread' /\ flags(u)' \in {"BLOCKED_QUEUE", "SUSPENDED"}
    BY DEF LeaverHasElement
  <2>1. CASE u = t
    BY <1>1, <2>1
  <2>2. CASE u # t
    BY <1>1, <2>2 DEF LeaverHasElement
  <2> QED
    BY <2>1, <2>2
<1> QED
  BY <1>2, <1>3, <1>4 DEF ElementInv

(* A step that leaves the ring alone.                                      *)
LEMMA RingSame ==
  ASSUME RingInv, UNCHANGED <<current_elements, head, tail, data_buffer>>
  PROVE  RingInv'
BY DEF RingInv

LEMMA ElementTakesLock ==
  ASSUME ElementInv, CoopInv', NEW t \in Slots, t # Main,
         NEW m \in {queue_lock, consumer_lock}, NEW label \in Labels,
         TakesLock(t, m, label) \/ WaitsForLock(t, m, label),
         label \in PopLabels => "pop" \in Calls,
         label \in PopBlockingLabels => "popBlocking" \in Calls,
         label \notin {"push wakes", "popBlocking leaves", "popBlocking locks"},
         label = "popBlocking takes" => pc[t] = "popBlocking locks"
  PROVE  ElementInv'
<1> USE ElementFacts, QueueTypes
<1>1. /\ At(t, pc[t]) /\ pc' = [pc EXCEPT ![t] = label]
      /\ UNCHANGED <<current_thread, queueVars>>
      /\ yielding' \subseteq yielding \cup {t}
  BY DEF TakesLock, WaitsForLock, BlockOn, YieldThen
<1>2. \A u \in Slots \ {t} : flags(u)' = flags(u)
  BY DEF TakesLock, WaitsForLock, BlockOn, flags
<1>3. RingInv' /\ UNCHANGED current_elements
  BY <1>1, RingSame DEF queueVars
<1>4. label = "popBlocking takes" => current_elements' # 0
  BY <1>3 DEF ElementThere
<1>5. yielding' \subseteq {t}
  BY <1>1, ActorFacts
<1> QED
  BY <1>1, <1>2, <1>3, <1>4, <1>5, ElementOperation

(* push.                                                                   *)
LEMMA ElementPush ==
  ASSUME ElementInv, CoopInv', NEW t \in Slots, t # Main, push(t) \/ PushStep(t)
  PROVE  ElementInv'
<1> USE ElementFacts, QueueTypes
<1>l. \A label \in {"push waits", "push stores", "push wakes", "push unlocks", "user"} :
        label \in Labels /\ label \notin PopLabels /\ label \notin PopBlockingLabels
  BY DEF Labels, PopLabels, PopBlockingLabels, ConsumerLockLabels
<1>1. CASE push(t)
  <2>1. \/ TakesLock(t, queue_lock, "push stores")
        \/ WaitsForLock(t, queue_lock, "push waits")
    BY <1>1, PushCases
  <2> QED
    BY <1>l, <2>1, ElementTakesLock
<1>2. CASE push_lock_resume(t)
  <2>1. TakesLock(t, queue_lock, "push stores")
    BY <1>2, WokenSteps
  <2> QED
    BY <1>l, <2>1, ElementTakesLock
<1>3. CASE push_full(t) \/ push_unlock(t)
  <2>1. /\ At(t, pc[t]) /\ pc' = [pc EXCEPT ![t] = "user"]
        /\ UNCHANGED <<current_thread, system_threads, yielding, queueVars>>
    BY <1>3 DEF push_full, push_unlock, Unlock, Goto, At
  <2>2. /\ yielding' \subseteq {t} /\ UNCHANGED current_elements
        /\ \A u \in Slots : flags(u)' = flags(u)
        /\ RingInv'
    BY <2>1, ActorFacts, RingSame DEF queueVars, flags
  <2> QED
    BY <1>l, <2>1, <2>2, ElementOperation
<1>4. CASE push_store(t)
  <2>1. /\ At(t, pc[t]) /\ pc' = [pc EXCEPT ![t] = "push wakes"]
        /\ UNCHANGED <<current_thread, yielding>>
    BY <1>4 DEF push_store, Goto, kernelVars, At
  <2>2. RingInv' /\ current_elements' # 0
    BY <1>4, RingPush
  <2>3. yielding' \subseteq {t}
    BY <2>1, ActorFacts
  <2> QED
    BY <1>l, <2>1, <2>2, <2>3, ElementOperation
<1>5. CASE push_wake(t)
  <2>1. /\ At(t, pc[t]) /\ pc[t] = "push wakes"
        /\ pc' = [pc EXCEPT ![t] = "push unlocks"]
        /\ UNCHANGED <<current_thread, yielding, queueVars>>
    BY <1>5 DEF push_wake, Goto, At
  <2>2. current_elements' # 0 /\ RingInv'
    BY <2>1, RingSame DEF ElementThere, queueVars
  <2>3. yielding' \subseteq {t}
    BY <2>1, ActorFacts
  <2> QED
    BY <1>l, <2>1, <2>2, <2>3, ElementOperation
<1> QED
  BY <1>1, <1>2, <1>3, <1>4, <1>5 DEF PushStep

(* While a consumer takes, no other is on its way out of popBlocking.      *)
LEMMA TakerAlone ==
  ASSUME "pop" \notin Calls \/ "popBlocking" \notin Calls,
         ElementInv, NEW t \in Slots, pc[t] \in {"pop takes", "popBlocking takes"},
         NEW u \in Slots, u # t
  PROVE  pc[u] # "popBlocking leaves"
<1> USE ElementFacts, CoopFacts, QueueTypes
<1> SUFFICES ASSUME pc[u] = "popBlocking leaves" PROVE FALSE
  OBVIOUS
<1>1. "popBlocking" \in Calls
  BY DEF OneKindOfPop, PopBlockingLabels, ConsumerLockLabels
<1>2. pc[t] = "popBlocking takes"
  BY <1>1 DEF OneKindOfPop, PopLabels
<1>3. word[consumer_lock] = MUTEX_UNLOCKED
  BY <1>2 DEF CoopInv, LeaverReleased
<1>4. held[u] = {consumer_lock}
  BY DEF QueueInv, HeldByLabel, ReliedOn, ConsumerLockLabels, QueueLockLabels
<1> QED
  BY <1>3, <1>4 DEF LockedIffHeld

(* pop, and the end of popBlocking.                                        *)
LEMMA ElementTake ==
  ASSUME "pop" \notin Calls \/ "popBlocking" \notin Calls,
         ElementInv, CoopInv', NEW t \in Slots, t # Main,
         NEW from \in {"pop takes", "popBlocking takes"}, At(t, from), TakeHead(t),
         current_elements # 0
  PROVE  ElementInv'
<1> USE ElementFacts, QueueTypes
<1>1. /\ At(t, pc[t]) /\ pc[t] = from
      /\ pc' = [pc EXCEPT ![t] = "user"]
      /\ UNCHANGED <<current_thread, yielding>>
  BY DEF TakeHead, Unlock, Goto, At
<1>2. RingInv'
  <2>1. pc[t] # "user"
    BY <1>1
  <2> QED
    BY <2>1, RingTake
<1>3. yielding' \subseteq {t}
  BY <1>1, ActorFacts
<1>4. "user" \in Labels /\ "user" \notin PopLabels /\ "user" \notin PopBlockingLabels
  BY DEF Labels, PopLabels, PopBlockingLabels, ConsumerLockLabels
<1>5. \A u \in Slots \ {t} : pc[u] # "popBlocking leaves"
  BY <1>1, TakerAlone
<1> QED
  BY <1>1, <1>2, <1>3, <1>4, <1>5, ElementOperation

LEMMA ElementPop ==
  ASSUME "pop" \notin Calls \/ "popBlocking" \notin Calls,
         ElementInv, CoopInv', NEW t \in Slots, t # Main, pop(t) \/ PopStep(t)
  PROVE  ElementInv'
<1> USE ElementFacts, QueueTypes
<1>l. \A label \in {"pop waits", "pop takes", "user"} :
        label \in Labels /\ label \notin PopBlockingLabels
  BY DEF Labels, PopBlockingLabels, ConsumerLockLabels
<1>1. CASE pop(t)
  <2>1. /\ "pop" \in Calls
        /\ \/ TakesLock(t, queue_lock, "pop takes")
           \/ WaitsForLock(t, queue_lock, "pop waits")
    BY <1>1, PopCases
  <2> QED
    BY <1>l, <2>1, ElementTakesLock
<1>2. CASE pop_lock_resume(t)
  <2>1. TakesLock(t, queue_lock, "pop takes") /\ pc[t] = "pop waits"
    BY <1>2, WokenSteps
  <2>2. "pop" \in Calls
    BY <2>1 DEF OneKindOfPop, PopLabels
  <2> QED
    BY <1>l, <2>1, <2>2, ElementTakesLock
<1>3. CASE pop_empty(t)
  <2>1. /\ At(t, pc[t]) /\ pc' = [pc EXCEPT ![t] = "user"]
        /\ UNCHANGED <<current_thread, system_threads, yielding, current_elements,
                       head, tail, data_buffer>>
    BY <1>3 DEF pop_empty, Unlock, Goto, At
  <2>2. /\ yielding' \subseteq {t} /\ \A u \in Slots : flags(u)' = flags(u)
        /\ RingInv' /\ "user" \notin PopLabels
    BY <2>1, ActorFacts, RingSame DEF flags, PopLabels
  <2> QED
    BY <1>l, <2>1, <2>2, ElementOperation
<1>4. CASE pop_take(t)
  BY <1>4, ElementTake DEF pop_take
<1> QED
  BY <1>1, <1>2, <1>3, <1>4 DEF PopStep

(* popBlocking.                                                            *)
LEMMA ElementPopBlocking ==
  ASSUME "pop" \notin Calls \/ "popBlocking" \notin Calls,
         ElementInv, CoopInv', NEW t \in Slots, t # Main,
         popBlocking(t) \/ PopBlockingStep(t)
  PROVE  ElementInv'
<1> USE ElementFacts, QueueTypes
<1>l. \A label \in PopBlockingLabels : label \in Labels /\ label \notin PopLabels
  BY DEF Labels, PopLabels, PopBlockingLabels, ConsumerLockLabels
<1>p. /\ "popBlocking tests" \in PopBlockingLabels
      /\ "popBlocking registers" \in PopBlockingLabels
      /\ "popBlocking blocks" \in PopBlockingLabels
      /\ "popBlocking leaves" \in PopBlockingLabels
      /\ "popBlocking locks" \in PopBlockingLabels
      /\ "popBlocking takes" \in PopBlockingLabels
      /\ "popBlocking waits" \in PopBlockingLabels
      /\ "popBlocking waits for consumer_lock" \in PopBlockingLabels
  BY DEF PopBlockingLabels, ConsumerLockLabels
<1>k. pc[t] \in PopBlockingLabels => "popBlocking" \in Calls
  BY DEF OneKindOfPop
<1>1. CASE popBlocking(t)
  <2>1. /\ "popBlocking" \in Calls
        /\ \/ TakesLock(t, consumer_lock, "popBlocking tests")
           \/ WaitsForLock(t, consumer_lock, "popBlocking waits for consumer_lock")
    BY <1>1, PopBlockingCases
  <2> QED
    BY <1>l, <1>p, <2>1, ElementTakesLock
<1>2. CASE popBlocking_consumer_resume(t) \/ popBlocking_lock_resume(t)
  <2>1. CASE popBlocking_lock_resume(t)
    <3>1. pc[t] = "popBlocking waits"
      BY <2>1, WokenSteps
    <3> QED
      BY <3>1 DEF CoopInv, OneInside, QueueLockWaits
  <2>2. CASE popBlocking_consumer_resume(t)
    <3>1. /\ TakesLock(t, consumer_lock, "popBlocking tests")
          /\ pc[t] = "popBlocking waits for consumer_lock"
      BY <2>2, WokenSteps DEF At
    <3> QED
      BY <1>l, <1>p, <1>k, <3>1, ElementTakesLock
  <2> QED
    BY <1>2, <2>1, <2>2
<1>3. CASE popBlocking_lock(t)
  <2>1. /\ At(t, "popBlocking locks")
        /\ \/ TakesLock(t, queue_lock, "popBlocking takes")
           \/ WaitsForLock(t, queue_lock, "popBlocking waits")
    BY <1>3, PopBlockingLockCases
  <2>2. pc[t] = "popBlocking locks"
    BY <2>1 DEF At
  <2> QED
    BY <1>l, <1>p, <1>k, <2>1, <2>2, ElementTakesLock
<1>4. ASSUME NEW label \in PopBlockingLabels,
             At(t, pc[t]), pc[t] \in PopBlockingLabels,
             pc' = [pc EXCEPT ![t] = label],
             UNCHANGED <<current_thread, current_elements, head, tail, data_buffer>>,
             yielding' \subseteq {t},
             \A u \in Slots \ {t} : flags(u)' = flags(u),
             label \in {"popBlocking locks", "popBlocking takes"} => current_elements # 0,
             label = "popBlocking leaves" =>
               IF t \in yielding' THEN flags(t)' = "BLOCKED_QUEUE" ELSE current_elements # 0
      PROVE  ElementInv'
  <2>1. RingInv' /\ label # "push wakes"
    BY <1>4, RingSame DEF PopBlockingLabels, ConsumerLockLabels
  <2> QED
    BY <1>l, <1>k, <1>4, <2>1, ElementOperation
<1>5. CASE popBlocking_test(t)
  <2> DEFINE label == IF current_elements = 0 THEN "popBlocking registers"
                                              ELSE "popBlocking leaves"
  <2>1. /\ At(t, pc[t]) /\ pc[t] = "popBlocking tests"
        /\ pc' = [pc EXCEPT ![t] = label]
        /\ UNCHANGED <<current_thread, system_threads, yielding, current_elements,
                       head, tail, data_buffer>>
    BY <1>5 DEF popBlocking_test, Goto, kernelVars, queueVars, At
  <2>2. /\ label \in PopBlockingLabels
        /\ label \notin {"popBlocking locks", "popBlocking takes"}
        /\ label = "popBlocking leaves" => current_elements # 0
    BY <1>p
  <2>3. /\ yielding' \subseteq {t} /\ t \notin yielding'
        /\ \A u \in Slots : flags(u)' = flags(u)
    BY <2>1, ActorFacts DEF flags
  <2> HIDE DEF label
  <2> QED
    BY <1>4, <1>p, <2>1, <2>2, <2>3
<1>6. CASE popBlocking_register(t)
  <2>1. /\ At(t, pc[t]) /\ pc[t] = "popBlocking registers"
        /\ pc' = [pc EXCEPT ![t] = "popBlocking blocks"]
        /\ UNCHANGED <<current_thread, system_threads, yielding, current_elements,
                       head, tail, data_buffer>>
    BY <1>6 DEF popBlocking_register, Goto, kernelVars, At
  <2>2. yielding' \subseteq {t} /\ \A u \in Slots : flags(u)' = flags(u)
    BY <2>1, ActorFacts DEF flags
  <2> QED
    BY <1>4, <1>p, <2>1, <2>2
<1>7. CASE popBlocking_block(t)
  <2>1. /\ At(t, pc[t]) /\ pc[t] = "popBlocking blocks"
        /\ pc' = [pc EXCEPT ![t] = "popBlocking leaves"]
        /\ yielding' = yielding \cup {t}
        /\ UNCHANGED <<current_thread, current_elements, head, tail, data_buffer>>
    BY <1>7 DEF popBlocking_block, YieldThen, queueVars, At
  <2>2. \A u \in Slots : flags(u)' = IF u = t THEN "BLOCKED_QUEUE" ELSE flags(u)
    BY <1>7, BlockStep
  <2>3. yielding' \subseteq {t} /\ t \in yielding'
    BY <2>1, ActorFacts
  <2> QED
    BY <1>4, <1>p, <2>1, <2>2, <2>3
<1>8. CASE popBlocking_leave(t)
  <2>1. /\ At(t, pc[t]) /\ pc[t] = "popBlocking leaves"
        /\ pc' = [pc EXCEPT ![t] = "popBlocking locks"]
        /\ UNCHANGED <<current_thread, system_threads, yielding, current_elements,
                       head, tail, data_buffer>>
    BY <1>8 DEF popBlocking_leave, Unlock, Goto, At
  <2>2. yielding' \subseteq {t} /\ \A u \in Slots : flags(u)' = flags(u)
    BY <2>1, ActorFacts DEF flags
  <2>3. current_elements # 0
    BY <2>1 DEF LeaverHasElement, At
  <2> QED
    BY <1>4, <1>p, <2>1, <2>2, <2>3
<1>9. CASE popBlocking_take(t)
  <2>1. At(t, "popBlocking takes") /\ TakeHead(t) /\ current_elements # 0
    BY <1>9 DEF popBlocking_take, ElementThere, At
  <2> QED
    BY <2>1, ElementTake
<1> QED
  BY <1>1, <1>2, <1>3, <1>5, <1>6, <1>7, <1>8, <1>9 DEF PopBlockingStep

(* The application's own steps.                                            *)
LEMMA ElementApplication ==
  ASSUME ~Preemptive, "resume" \notin Calls,
         ElementInv, ApplicationNext, UNCHANGED <<held, queueVars>>
  PROVE  ElementInv'
<1> USE ElementFacts, QueueTypes
<1>0. CoopInv'
  BY CoopApplication
<1>1. ApplicationFrame /\ (Switches \/ Sleeps \/ Stays)
  BY ApplicationCases
<1>2. /\ UNCHANGED <<pc, current_elements, head, tail, data_buffer>>
      /\ yielding \subseteq {current_thread}
  BY <1>1 DEF ApplicationFrame, queueVars, CoopInv, OneInside
<1>3. RingInv' /\ OneKindOfPop' /\ ElementThere'
  BY <1>2, RingSame DEF OneKindOfPop, ElementThere
<1>4. LeaverHasElement'
  <2> SUFFICES ASSUME NEW u \in Slots, pc[u] = "popBlocking leaves"
               PROVE  IF u \in yielding' THEN flags(u)' = "BLOCKED_QUEUE"
                      ELSE current_elements = 0 =>
                             u # current_thread' /\ flags(u)' \in {"BLOCKED_QUEUE", "SUSPENDED"}
    BY <1>2 DEF LeaverHasElement
  <2>1. /\ u \in yielding => flags(u) = "BLOCKED_QUEUE" /\ u = current_thread
        /\ u \notin yielding /\ current_elements = 0 =>
             u # current_thread /\ flags(u) \in {"BLOCKED_QUEUE", "SUSPENDED"}
    BY <1>2 DEF LeaverHasElement
  <2>2. CASE Switches
    <3>1. u \notin yielding'
      BY <1>2, <2>2 DEF Switches
    <3>2. flags(u) \in {"BLOCKED_QUEUE", "SUSPENDED"} =>
            u # current_thread' /\ flags(u)' = flags(u)
      <4>1. flags(u) \in {"BLOCKED_QUEUE", "SUSPENDED"} => ~Ready(u)
        BY DEF Ready, CanWake, flags
      <4>2. current_active_state = "STARTED"
        BY DEF CoopInv
      <4> QED
        BY <2>2, <4>1, <4>2 DEF Switches
    <3> QED
      BY <2>1, <3>1, <3>2
  <2>3. CASE Sleeps
    BY <1>2, <2>1, <2>3 DEF Sleeps
  <2>4. CASE Stays
    <3>1. flags(u)' = flags(u) \/ (current_thread \notin yielding /\ flags(u)' = "SUSPENDED")
      BY <2>4 DEF Stays, FreeSlot, CoopInv, FreeSlotsUnused
    <3> QED
      BY <2>1, <2>4, <3>1 DEF Stays
  <2> QED
    BY <1>1, <2>2, <2>3, <2>4
<1> QED
  BY <1>0, <1>3, <1>4 DEF ElementInv

(* The invariant is inductive.                                             *)
LEMMA ElementStep ==
  ASSUME ~Preemptive, "resume" \notin Calls,
         "pop" \notin Calls \/ "popBlocking" \notin Calls
  PROVE  ElementInv /\ [Next]_vars => ElementInv'
<1> SUFFICES ASSUME ElementInv, [Next]_vars PROVE ElementInv'
  OBVIOUS
<1>0. CoopInv' /\ CoopInv
  BY CoopStep DEF ElementInv
<1>1. CASE UNCHANGED vars \/ init
  <2>1. /\ UNCHANGED <<lockVars, current_elements, head, tail>>
        /\ data_buffer' = data_buffer \/ data_buffer = NULL
    BY <1>1 DEF vars, queueVars, init
  <2>2. RingInv'
    BY <2>1 DEF ElementInv, RingInv
  <2> QED
    BY <1>0, <2>1, <2>2
       DEF ElementInv, OneKindOfPop, ElementThere, LeaverHasElement, lockVars,
           threadVars, kernelVars, flags
<1>2. ASSUME NEW t \in Slots, QueueOperation(t) PROVE ElementInv'
  <2>1. t # Main
    BY <1>0, <1>2, ActorNotMain
  <2> QED
    BY <1>0, <1>2, <2>1, ElementPush, ElementPop, ElementPopBlocking DEF QueueOperation
<1> QED
  BY <1>1, <1>2, ElementApplication DEF Next

LEMMA ElementInit == Init => ElementInv
<1> SUFFICES ASSUME Init PROVE ElementInv
  OBVIOUS
<1>1. CoopInv
  BY CoopInit
<1>2. /\ \A t \in Slots : pc[t] = "user"
      /\ current_elements = 0 /\ head = 0 /\ tail = 0
  BY DEF Init, ApplicationInit
<1>3. RingInv
  BY <1>2, QueueAssumption DEF RingInv
<1>4. "user" \notin PopLabels /\ "user" \notin PopBlockingLabels
  BY DEF PopLabels, PopBlockingLabels, ConsumerLockLabels
<1> QED
  BY <1>1, <1>2, <1>3, <1>4 DEF ElementInv, OneKindOfPop, ElementThere, LeaverHasElement

LEMMA ElementInvariant ==
  ASSUME ~Preemptive, "resume" \notin Calls,
         "pop" \notin Calls \/ "popBlocking" \notin Calls
  PROVE  Spec => []ElementInv
<1>1. ElementInv /\ [Next]_vars => ElementInv'
  BY ElementStep
<1> QED
  BY <1>1, ElementInit, PTL DEF Spec

-----------------------------------------------------------------------------
(* The place of the i-th value from h on, and the n values from h on.      *)
PlaceOf(h, i) ==
  IF h + i - 1 < QUEUE_LEN THEN h + i - 1 ELSE h + i - 1 - QUEUE_LEN

Ring(h, n, buffer) == [i \in 1 .. n |-> buffer[PlaceOf(h, i)]]

Values == Data \cup {NULL}

(* Each value has a place of its own; the first is at h, the one behind    *)
(* the last at p, and from the next index g on they are one place nearer.  *)
LEMMA Places ==
  ASSUME NEW h \in Indices, NEW n \in 0 .. QUEUE_LEN
  PROVE  /\ \A i \in 1 .. n : PlaceOf(h, i) \in Indices
         /\ n # 0 => PlaceOf(h, 1) = h
         /\ n # QUEUE_LEN =>
              LET p == IF h + n < QUEUE_LEN THEN h + n ELSE h + n - QUEUE_LEN
              IN  /\ n + 1 \in 0 .. QUEUE_LEN /\ p \in Indices
                  /\ PlaceOf(h, n + 1) = p
                  /\ \A i \in 1 .. n : PlaceOf(h, i) # p
         /\ n # 0 =>
              LET g == IF h + 1 = QUEUE_LEN THEN 0 ELSE h + 1
              IN  /\ n - 1 \in 0 .. QUEUE_LEN /\ g \in Indices
                  /\ \A i \in 1 .. n - 1 : PlaceOf(g, i) = PlaceOf(h, i + 1)
BY QueueAssumption DEF PlaceOf, Indices

LEMMA RingFacts ==
  ASSUME NEW h \in Indices, NEW n \in 0 .. QUEUE_LEN, NEW buffer \in [Indices -> Values]
  PROVE  /\ Ring(h, n, buffer) \in Seq(Values)
         /\ Len(Ring(h, n, buffer)) = n
         /\ \A i \in 1 .. n : Ring(h, n, buffer)[i] = buffer[PlaceOf(h, i)]
<1>1. \A i \in 1 .. n : buffer[PlaceOf(h, i)] \in Values
  BY Places
<1>2. n \in Nat
  BY QueueAssumption
<1> QED
  BY <1>1, <1>2 DEF Ring

LEMMA RingEmpty ==
  ASSUME NEW h, NEW n, n = 0, NEW buffer
  PROVE  Ring(h, n, buffer) = <<>>
<1>1. 1 .. n = {}
  OBVIOUS
<1> QED
  BY <1>1 DEF Ring

(* A value stored behind the last is appended to the values.               *)
LEMMA RingAppend ==
  ASSUME NEW h \in Indices, NEW n \in 0 .. QUEUE_LEN, n # QUEUE_LEN,
         NEW buffer \in [Indices -> Values], NEW d \in Values,
         NEW p, p = IF h + n < QUEUE_LEN THEN h + n ELSE h + n - QUEUE_LEN
  PROVE  Ring(h, n + 1, [buffer EXCEPT ![p] = d]) = Append(Ring(h, n, buffer), d)
<1> DEFINE b == [buffer EXCEPT ![p] = d]
           s == Ring(h, n, buffer)
           t == Ring(h, n + 1, b)
<1>0. n \in Nat
  BY QueueAssumption
<1>1. /\ n + 1 \in 0 .. QUEUE_LEN /\ p \in Indices /\ PlaceOf(h, n + 1) = p
      /\ \A i \in 1 .. n : PlaceOf(h, i) \in Indices /\ PlaceOf(h, i) # p
  BY Places
<1>2. /\ b \in [Indices -> Values] /\ b[p] = d
      /\ \A i \in Indices : i # p => b[i] = buffer[i]
  BY <1>1
<1> HIDE DEF b
<1>3. /\ s \in Seq(Values) /\ Len(s) = n
      /\ \A i \in 1 .. n : s[i] = buffer[PlaceOf(h, i)]
  BY RingFacts
<1>4. /\ t \in Seq(Values) /\ Len(t) = n + 1
      /\ \A i \in 1 .. n + 1 : t[i] = b[PlaceOf(h, i)]
  BY <1>1, <1>2, RingFacts
<1> HIDE DEF s, t
<1>5. /\ Append(s, d) \in Seq(Values) /\ Len(Append(s, d)) = n + 1
      /\ Append(s, d)[n + 1] = d /\ \A i \in 1 .. n : Append(s, d)[i] = s[i]
  BY <1>0, <1>3
<1>6. ASSUME NEW i \in 1 .. n + 1 PROVE t[i] = Append(s, d)[i]
  <2>1. CASE i = n + 1
    BY <1>1, <1>2, <1>4, <1>5, <2>1
  <2>2. CASE i # n + 1
    <3>1. i \in 1 .. n
      BY <1>0, <2>2
    <3> QED
      BY <1>1, <1>2, <1>3, <1>4, <1>5, <3>1
  <2> QED
    BY <2>1, <2>2
<1>7. t = Append(s, d)
  BY <1>0, <1>4, <1>5, <1>6
<1> QED
  BY <1>7 DEF b, s, t

(* Taking one from the head drops the first value.                         *)
LEMMA RingTail ==
  ASSUME NEW h \in Indices, NEW n \in 0 .. QUEUE_LEN, n # 0,
         NEW buffer \in [Indices -> Values],
         NEW g, g = IF h + 1 = QUEUE_LEN THEN 0 ELSE h + 1
  PROVE  /\ Ring(h, n, buffer) # <<>>
         /\ Head(Ring(h, n, buffer)) = buffer[h]
         /\ Tail(Ring(h, n, buffer)) = Ring(g, n - 1, buffer)
<1> DEFINE s == Ring(h, n, buffer)
           t == Ring(g, n - 1, buffer)
<1>0. n \in Nat /\ n >= 1
  BY QueueAssumption
<1>1. /\ n - 1 \in 0 .. QUEUE_LEN /\ g \in Indices /\ PlaceOf(h, 1) = h
      /\ \A i \in 1 .. n - 1 : PlaceOf(g, i) = PlaceOf(h, i + 1)
  BY Places
<1>2. /\ s \in Seq(Values) /\ Len(s) = n
      /\ \A i \in 1 .. n : s[i] = buffer[PlaceOf(h, i)]
  BY RingFacts
<1>3. /\ t \in Seq(Values) /\ Len(t) = n - 1
      /\ \A i \in 1 .. n - 1 : t[i] = buffer[PlaceOf(g, i)]
  BY <1>1, RingFacts
<1> HIDE DEF s, t
<1>4. /\ s # <<>> /\ Head(s) = s[1] /\ s[1] = buffer[h]
      /\ Tail(s) \in Seq(Values) /\ Len(Tail(s)) = n - 1
      /\ \A i \in 1 .. n - 1 : Tail(s)[i] = s[i + 1]
  BY <1>0, <1>1, <1>2
<1>5. \A i \in 1 .. n - 1 : t[i] = s[i + 1]
  <2> TAKE i \in 1 .. n - 1
  <2>1. i + 1 \in 1 .. n
    BY <1>0
  <2> QED
    BY <1>1, <1>2, <1>3, <2>1
<1>6. Tail(s) = t
  BY <1>0, <1>3, <1>4, <1>5
<1> QED
  BY <1>4, <1>6 DEF s, t

LEMMA ContentsRing ==
  /\ Contents = Ring(head, current_elements, data_buffer)
  /\ Contents' = Ring(head', current_elements', data_buffer')
BY DEF Contents, Ring, PlaceOf

(* What push stores is appended to the contents.                           *)
LEMMA PushIsAbstract ==
  ASSUME ElementInv, NEW t \in Slots, push_store(t)
  PROVE  Abstract!Next
<1> DEFINE n == current_elements
<1>0. /\ QueueInv /\ QUEUE_LEN \in Nat /\ head \in Indices
      /\ n \in 0 .. QUEUE_LEN
      /\ tail = IF head + n < QUEUE_LEN THEN head + n ELSE head + n - QUEUE_LEN
  BY ElementFacts DEF RingInv, Indices
<1>1. data_buffer \in [Indices -> Values]
  BY <1>0, InsideUses DEF push_store, Values
<1>2. PICK d \in Data : data_buffer' = [data_buffer EXCEPT ![tail] = d]
  BY DEF push_store
<1>3. n' = n + 1 /\ n < QUEUE_LEN /\ UNCHANGED <<head, received>>
  <2>1. UNCHANGED received
    BY DEF push_store
  <2> QED
    BY <2>1, RingPush
<1>4. Ring(head, n + 1, data_buffer')
        = Append(Ring(head, n, data_buffer), d)
  <2>1. n # QUEUE_LEN /\ d \in Values
    BY <1>0, <1>3 DEF Values
  <2> QED
    BY <1>0, <1>1, <1>2, <2>1, RingAppend
<1>5. Contents' = Append(Contents, d)
  BY <1>3, <1>4, ContentsRing
<1>6. Len(Contents) < QUEUE_LEN
  BY <1>0, <1>1, <1>3, RingFacts, ContentsRing
<1>7. Abstract!Push(d)
  BY <1>3, <1>5, <1>6 DEF Abstract!Push
<1> QED
  BY <1>7 DEF Abstract!Next

(* What a pop returns is the oldest of the contents.                       *)
LEMMA TakeIsAbstract ==
  ASSUME ElementInv, NEW t \in Slots, pc[t] # "user", TakeHead(t)
  PROVE  current_elements # 0 => Abstract!Next
<1> SUFFICES ASSUME current_elements \notin {0} PROVE Abstract!Next
  OBVIOUS
<1> DEFINE n == current_elements
<1>0. /\ QUEUE_LEN \in Nat /\ head \in Indices
      /\ n \in 0 .. QUEUE_LEN
  BY ElementFacts DEF RingInv, Indices
<1>1. /\ n' = n - 1
      /\ head' = IF head + 1 = QUEUE_LEN THEN 0 ELSE head + 1
      /\ data_buffer \in [Indices -> Values]
      /\ UNCHANGED data_buffer
  BY RingTake DEF Values
<1>2. received' = [received EXCEPT ![t] = data_buffer[head]]
  BY DEF TakeHead
<1>3. /\ Contents # <<>> /\ Head(Contents) = data_buffer[head]
      /\ Tail(Contents) = Contents'
  <2> DEFINE items == Ring(head, n, data_buffer)
  <2>1. n # 0
    OBVIOUS
  <2>2. /\ items # <<>> /\ Head(items) = data_buffer[head]
        /\ Tail(items) = Ring(head', n - 1, data_buffer)
    BY <1>0, <1>1, <2>1, RingTail
  <2>3. Contents = items /\ Contents' = Ring(head', n - 1, data_buffer)
    BY <1>1, ContentsRing
  <2> QED
    BY <2>2, <2>3
<1>4. Abstract!Pop(t)
  BY <1>2, <1>3 DEF Abstract!Pop
<1> QED
  BY <1>4 DEF Abstract!Next

LEMMA AbstractStep ==
  ASSUME ElementInv, [Next]_vars
  PROVE  [Abstract!Next]_<<Contents, received>>
<1>1. ASSUME UNCHANGED <<current_elements, head, data_buffer, received>>
      PROVE  UNCHANGED <<Contents, received>>
  BY <1>1, ContentsRing
<1>2. CASE init
  <2>1. /\ UNCHANGED <<current_elements, received>> /\ current_elements = 0
    BY <1>2 DEF init, ElementInv, RingInv
  <2>2. Contents = <<>> /\ Contents' = <<>>
    BY <2>1, ContentsRing, RingEmpty
  <2> QED
    BY <2>1, <2>2
<1>3. ASSUME NEW t \in Slots, QueueOperation(t)
      PROVE  [Abstract!Next]_<<Contents, received>>
  <2>1. CASE push(t) \/ pop(t) \/ popBlocking(t)
    BY <1>1, <2>1 DEF push, pop, popBlocking, Lock, queueVars
  <2>2. CASE PushStep(t)
    <3>1. CASE push_store(t)
      BY <3>1, PushIsAbstract
    <3>2. CASE push_lock_resume(t) \/ push_full(t) \/ push_wake(t) \/ push_unlock(t)
      BY <1>1, <3>2 DEF push_lock_resume, push_full, push_wake, push_unlock, LockWoken,
                        queueVars
    <3> QED
      BY <2>2, <3>1, <3>2 DEF PushStep
  <2>3. CASE PopStep(t)
    <3>1. CASE pop_take(t)
      <4>1. pc[t] # "user" /\ current_elements # 0 /\ TakeHead(t)
        BY <3>1 DEF pop_take, At
      <4> QED
        BY <4>1, TakeIsAbstract
    <3>2. CASE pop_empty(t)
      <4>1. /\ current_elements = 0 /\ received' = [received EXCEPT ![t] = NULL]
            /\ UNCHANGED <<current_elements, head, data_buffer>>
        BY <3>2 DEF pop_empty
      <4>2. Contents = <<>> /\ Contents' = <<>>
        BY <4>1, ContentsRing, RingEmpty
      <4>3. Abstract!PopEmpty(t)
        BY <4>1, <4>2 DEF Abstract!PopEmpty
      <4> QED
        BY <4>3 DEF Abstract!Next
    <3>3. CASE pop_lock_resume(t)
      BY <1>1, <3>3 DEF pop_lock_resume, LockWoken, queueVars
    <3> QED
      BY <2>3, <3>1, <3>2, <3>3 DEF PopStep
  <2>4. CASE PopBlockingStep(t)
    <3>1. CASE popBlocking_take(t)
      <4>1. pc[t] = "popBlocking takes" /\ TakeHead(t)
        BY <3>1 DEF popBlocking_take, At
      <4>2. current_elements # 0 /\ pc[t] # "user"
        BY <4>1 DEF ElementInv, ElementThere
      <4> QED
        BY <4>1, <4>2, TakeIsAbstract
    <3>2. CASE ~popBlocking_take(t)
      BY <1>1, <2>4, <3>2
         DEF PopBlockingStep, popBlocking_consumer_resume, popBlocking_test,
             popBlocking_register, popBlocking_block, popBlocking_leave,
             popBlocking_lock, popBlocking_lock_resume, Lock, LockWoken, queueVars
    <3> QED
      BY <3>1, <3>2
  <2> QED
    BY <1>3, <2>1, <2>2, <2>3, <2>4 DEF QueueOperation
<1>4. CASE ApplicationNext /\ UNCHANGED <<held, queueVars>>
  BY <1>1, <1>4 DEF queueVars
<1>5. CASE UNCHANGED vars
  BY <1>1, <1>5 DEF vars, queueVars
<1> QED
  BY <1>2, <1>3, <1>4, <1>5 DEF Next

(* Values come out of the queue in the order in which they went in, each   *)
(* of them once, and popBlocking never returns without one.                *)
THEOREM ImplementsAbstractQueue ==
  ASSUME ~Preemptive, "resume" \notin Calls,
         "pop" \notin Calls \/ "popBlocking" \notin Calls
  PROVE  Spec => AbstractSpec
<1>1. Init => Abstract!Init
  <2> SUFFICES ASSUME Init PROVE Abstract!Init
    OBVIOUS
  <2>1. Contents = <<>>
    BY ContentsRing, RingEmpty DEF Init
  <2> QED
    BY <2>1 DEF Init, Abstract!Init
<1>2. ElementInv /\ [Next]_vars => [Abstract!Next]_<<Contents, received>>
  BY AbstractStep
<1> QED
  BY <1>1, <1>2, ElementInvariant, PTL DEF Spec, AbstractSpec, Abstract!Spec
=============================================================================
