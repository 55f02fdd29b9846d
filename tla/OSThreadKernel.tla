--------------------------- MODULE OSThreadKernel ---------------------------
(***************************************************************************)
(* The part of the WillOS kernel that every other component runs on: the   *)
(* table of threads, the priority list the scheduler walks, the wake-up    *)
(* conditions it evaluates on the way, the context switch and the passing  *)
(* of time (OS/OSThreadKernel.cpp, OS/TeensyThreads-asm.S).                *)
(*                                                                         *)
(* This module has state and operators but no Next: the modules that       *)
(* extend it add the code that runs in threads.                            *)
(*                                                                         *)
(* One processor executes one thread, `current_thread'.  A step of a       *)
(* module that extends this one is a piece of that thread's code which no  *)
(* other thread can observe half done: a section between os_stop() and     *)
(* os_start(), or a single assignment.                                     *)
(***************************************************************************)
EXTENDS PriorityList

CONSTANTS
  MAX_THREADS,   \* slots of the thread table (24 in the code)
  MAX_PRIORITY,  \* largest thread priority (255 in the code)
  MAX_INTERVAL,  \* bound: longest sleep or timeout, in milliseconds
  Words,         \* addresses of mutex states and semaphore counters
  WORD_MOD,      \* bound: such a word holds 0 .. WORD_MOD-1 (2^32 in the code)
  Signals,       \* addresses of signal words
  Bits,          \* bits of a signal word (32 in the code)
  NULL,          \* the null pointer
  Preemptive     \* TRUE: a timer interrupt also switches threads

ASSUME ThreadsAssumption == MAX_THREADS \in Nat /\ MAX_THREADS >= 2
ASSUME BoundsAssumption == MAX_PRIORITY \in Nat /\ MAX_INTERVAL \in Nat
ASSUME WordAssumption == WORD_MOD \in Nat /\ WORD_MOD >= 2
ASSUME NullAssumption == NULL \notin Words /\ NULL \notin Signals /\ NULL \notin Int
ASSUME PreemptiveAssumption == Preemptive \in BOOLEAN

VARIABLES
  system_threads,        \* the thread table
  thread_priorities,     \* the scheduler's list, head first
  current_thread,        \* slot whose code runs; NULL: the scan left the list
  current_active_state,  \* whether context switches are enabled
  thread_count,
  word,                  \* contents of Words
  bits                   \* contents of Signals, as the set of bits that are set

kernelVars == <<system_threads, thread_priorities, current_thread,
                current_active_state, thread_count, word, bits>>

os_state_t == {"STARTED", "STOPPED", "FIRST_RUN", "UNINITIALIZED"}

thread_state_t == {"EMPTY", "RUNNING", "ENDED", "ENDING", "SUSPENDED",
                   "SLEEPING", "BLOCKED_SEMAPHORE",
                   "BLOCKED_SEMAPHORE_TIMEOUT", "BLOCKED_MUTEX",
                   "BLOCKED_MUTEX_TIMEOUT", "BLOCKED_SIGNAL",
                   "BLOCKED_SIGNAL_TIMEOUT", "BLOCKED_QUEUE"}

Slots == 0 .. MAX_THREADS - 1

(* What the scheduler reads of a thread_t.  `remaining' stands for the     *)
(* pair previous_millis, interval: the milliseconds until                  *)
(* millis() - previous_millis >= interval.  Saved registers and stacks are *)
(* in OSThreadLifecycle, the only module whose properties tell them apart. *)
thread_t == [flags : thread_state_t,
             thread_priority : 0 .. MAX_PRIORITY,
             remaining : 0 .. MAX_INTERVAL,
             mutex_semaphore : Words \cup {NULL},
             semaphore_max_count : 0 .. WORD_MOD - 1,
             signal_bit : Signals \cup {NULL},
             signal_bits_compare : SUBSET Bits]

PriorityQueueNaiveNode == [ptr : Slots, priority : 0 .. MAX_PRIORITY]

KernelTypeOK ==
  /\ system_threads \in [Slots -> thread_t]
  /\ thread_priorities \in Seq(PriorityQueueNaiveNode)
  /\ current_thread \in Slots \cup {NULL}
  /\ current_active_state \in os_state_t
  /\ thread_count \in Int
  /\ word \in [Words -> 0 .. WORD_MOD - 1]
  /\ bits \in [Signals -> SUBSET Bits]

flags(t) == system_threads[t].flags

Listed(t) == \E i \in DOMAIN thread_priorities : thread_priorities[i].ptr = t

-----------------------------------------------------------------------------
(* A slot as static storage leaves it, and one that os_add_thread filled.  *)
EmptySlot == [flags |-> "EMPTY", thread_priority |-> 0, remaining |-> 0,
              mutex_semaphore |-> NULL, semaphore_max_count |-> 0,
              signal_bit |-> NULL, signal_bits_compare |-> {}]

AddedSlot(slot, priority) ==
  [slot EXCEPT !.flags = "RUNNING", !.thread_priority = priority]

InsertNode_LosesTail(node) ==  \* mutant: the new node's next pointer is not set
  \E last \in 0 .. Len(thread_priorities) :
    /\ InsertsAfter(thread_priorities, node, last)
    /\ thread_priorities' = SubSeq(thread_priorities, 1, last) \o <<node>>

InsertNode(node) ==
  \E last \in 0 .. Len(thread_priorities) :
    /\ InsertsAfter(thread_priorities, node, last)
    /\ thread_priorities' = SubSeq(thread_priorities, 1, last) \o <<node>>
         \o SubSeq(thread_priorities, last + 1, Len(thread_priorities))

(* os_add_thread takes the first slot that is free.                        *)
FreeSlot_Suspended(i) == flags(i) \in {"ENDED", "EMPTY", "SUSPENDED"}  \* mutant

FreeSlot(i) == flags(i) \in {"ENDED", "EMPTY"}

FirstFreeSlot(i) ==
  i \in Slots \ {0} /\ FreeSlot(i) /\ \A j \in 1 .. i - 1 : ~FreeSlot(j)

(* All of os_add_thread, for callers that nothing can interrupt.           *)
AddThread(priority) ==
  \E i \in Slots :
    /\ FirstFreeSlot(i)
    /\ system_threads' = [system_threads EXCEPT ![i] = AddedSlot(@, priority)]
    /\ InsertNode([ptr |-> i, priority |-> priority])
    /\ thread_count' = thread_count + 1

(* The id os_current_id() returns and the index the *_thread functions use *)
(* for "the current thread": no assignment to current_thread_id exists.    *)
current_thread_id == 0

(* threads_init(): slot 0 (the main thread) is counted but EMPTY and in no *)
(* list; the idle thread takes slot 1 with priority 0.                     *)
Main == 0
Idle == 1

KernelInit ==
  /\ system_threads = [t \in Slots |-> IF t = Idle THEN AddedSlot(EmptySlot, 0)
                                                   ELSE EmptySlot]
  /\ thread_priorities = <<[ptr |-> Idle, priority |-> 0]>>
  /\ current_thread = Main
  /\ current_active_state = "STARTED"
  /\ thread_count = 2
  /\ word = [w \in Words |-> 0]
  /\ bits = [s \in Signals |-> {}]

-----------------------------------------------------------------------------
(* The wake-up conditions of check_thread_flags, as written: a mutex wait  *)
(* with a timeout compares the pointer with 0 and not the word; a signal   *)
(* wait asks whether both masks are non-zero; a semaphore wait compares    *)
(* the capacity with the number of entrants by >=.                         *)
TimeoutOccurred_Inverted(th) == th.remaining > 0  \* mutant

TimeoutOccurred(th) == th.remaining = 0

SemaphoreAvailable_Swapped(th) ==  \* mutant: the operands of >= swapped
  word[th.mutex_semaphore] >= th.semaphore_max_count

SemaphoreAvailable(th) == th.semaphore_max_count >= word[th.mutex_semaphore]

(* Mutant: compares the pointer, as the branch with a timeout does.        *)
MutexReleased_Pointer(th) == th.mutex_semaphore # NULL

MutexReleased(th) == word[th.mutex_semaphore] = 0

SignalSet_Equal(th) == bits[th.signal_bit] = th.signal_bits_compare  \* mutant

SignalSet(th) == th.signal_bits_compare # {} /\ bits[th.signal_bit] # {}

CanWake(th) ==
  \/ th.flags = "SLEEPING" /\ TimeoutOccurred(th)
  \/ th.flags = "BLOCKED_SEMAPHORE" /\ SemaphoreAvailable(th)
  \/ th.flags = "BLOCKED_SEMAPHORE_TIMEOUT"
       /\ (SemaphoreAvailable(th) \/ TimeoutOccurred(th))
  \/ th.flags = "BLOCKED_MUTEX" /\ MutexReleased(th)
  \/ th.flags = "BLOCKED_MUTEX_TIMEOUT"
       /\ (th.mutex_semaphore = NULL \/ TimeoutOccurred(th))
  \/ th.flags = "BLOCKED_SIGNAL" /\ SignalSet(th)
  \/ th.flags = "BLOCKED_SIGNAL_TIMEOUT" /\ (SignalSet(th) \/ TimeoutOccurred(th))

(* RUNNING once check_thread_flags has looked at the thread.               *)
Ready(t) == flags(t) = "RUNNING" \/ CanWake(system_threads[t])

ReadyAt(i) == Ready(thread_priorities[i].ptr)

(* os_get_next_thread walks the list from its head, lets                   *)
(* check_thread_flags wake each thread it passes, and takes the first that *)
(* is RUNNING.  It has no end-of-list test: with no ready thread it        *)
(* dereferences a null node.  The stack-overflow test at its top is        *)
(* guarded by current_thread_id, hence never taken.                        *)
os_get_next_thread ==
  IF \E i \in DOMAIN thread_priorities : ReadyAt(i)
  THEN \E i \in DOMAIN thread_priorities :
         /\ ReadyAt(i)
         /\ \A j \in 1 .. i - 1 : ~ReadyAt(j)
         /\ current_thread' = thread_priorities[i].ptr
         /\ system_threads' =
              [system_threads EXCEPT ![thread_priorities[i].ptr].flags = "RUNNING"]
  ELSE current_thread' = NULL /\ UNCHANGED system_threads

(* _os_yield(): the SVC handler reaches context_switch_direct, which does  *)
(* nothing unless the kernel is started.                                   *)
ContextSwitch ==
  /\ IF current_active_state = "STARTED"
     THEN os_get_next_thread
     ELSE UNCHANGED <<current_thread, system_threads>>
  /\ UNCHANGED <<thread_priorities, current_active_state, thread_count, word, bits>>

(* The timer interrupt.  The tick count-down does not delay the switch:    *)
(* the branch that would leave early is commented out.  No code attaches   *)
(* the interrupt, so the committed build has Preemptive = FALSE.           *)
TimerSwitch ==
  /\ Preemptive
  /\ current_active_state = "STARTED"
  /\ os_get_next_thread
  /\ UNCHANGED <<thread_priorities, current_active_state, thread_count, word, bits>>

(* One millisecond passes for every thread that has time left to wait.     *)
Tick ==
  /\ \E t \in Slots : system_threads[t].remaining > 0
  /\ system_threads' =
       [t \in Slots |->
          IF system_threads[t].remaining > 0
          THEN [system_threads[t] EXCEPT !.remaining = @ - 1]
          ELSE system_threads[t]]
  /\ UNCHANGED <<thread_priorities, current_thread, current_active_state,
                 thread_count, word, bits>>

(* os_thread_sleep_ms up to its _os_yield.                                 *)
PrepareSleep_OneMore(t, millisecond) ==  \* mutant: > for >= in the wake-up test
  system_threads' = [system_threads EXCEPT ![t].remaining = millisecond + 1,
                                           ![t].flags = "SLEEPING"]

PrepareSleep(t, millisecond) ==
  system_threads' = [system_threads EXCEPT ![t].remaining = millisecond,
                                           ![t].flags = "SLEEPING"]

(* The id test of os_suspend_thread, os_resume_thread, os_kill_thread...   *)
Exists(target_thread_id) == target_thread_id < thread_count

SetFlags(target_thread_id, f) ==
  IF Exists(target_thread_id)
  THEN system_threads' = [system_threads EXCEPT ![target_thread_id].flags = f]
  ELSE UNCHANGED system_threads
=============================================================================
