-------------------------- MODULE OSThreadLifecycle --------------------------
(***************************************************************************)
(* The life of threads: creation, suspension, killing, return from the     *)
(* thread function, sleeping, yielding, and user sections between          *)
(* os_stop() and os_start() (OS/OSThreadKernel.cpp).                       *)
(*                                                                         *)
(* What executes is a stack: 0 is the main stack (setup() and loop()), 1   *)
(* the idle thread's, and every os_add_thread that finds a slot makes the  *)
(* next one.  `psp' is the stack the processor is on, whatever slot the    *)
(* kernel believes is current; the two are kept apart because a slot can   *)
(* be given a new stack while the code on its old one still runs.          *)
(***************************************************************************)
EXTENDS OSThreadKernel, FiniteSets

CONSTANTS
  MAX_STACKS,   \* bound: stacks made in a run, the first two included
  MAX_RETURNS,  \* bound: how far thread functions' returns lower thread_count
  Calls         \* kernel calls the application makes

AllCalls == {"add", "suspend", "resume", "kill", "kill_own", "kill_self",
             "return", "sleep", "yield", "stop"}

ASSUME CallsAssumption == Calls \subseteq AllCalls
ASSUME StacksAssumption == MAX_STACKS \in Nat /\ MAX_STACKS >= 2
ASSUME ReturnsAssumption == MAX_RETURNS \in Nat

VARIABLES
  stack,       \* slot -> the stack os_add_thread gave it
  sp,          \* slot -> the stack its saved stack pointer points into
  psp,         \* the stack the processor executes on
  next_stack,  \* stacks made so far
  pc,          \* stack -> where its code is
  pending,     \* stack -> node its os_add_thread has yet to insert
  handles,     \* ids os_add_thread returned to the application
  critical     \* stack inside a user os_stop() .. os_start(), or NULL

stackVars == <<stack, sp, psp, next_stack>>
codeVars == <<pc, pending, handles, critical>>
vars == <<kernelVars, stackVars, codeVars>>

Stacks == 0 .. MAX_STACKS - 1

TypeOK ==
  /\ KernelTypeOK
  /\ stack \in [Slots -> Stacks \cup {NULL}]
  /\ sp \in [Slots -> Stacks \cup {NULL}]
  /\ psp \in Stacks \cup {NULL}
  /\ next_stack \in 2 .. MAX_STACKS
  /\ pc \in [Stacks -> {"user", "yield", "insert"}]
  /\ pending \in [Stacks -> PriorityQueueNaiveNode \cup {NULL}]
  /\ handles \subseteq Slots \cup {-1}
  /\ critical \in Stacks \cup {NULL}

(* After threads_init(); the id of the idle thread is dropped.             *)
Init ==
  /\ KernelInit
  /\ stack = [t \in Slots |-> IF t \in {Main, Idle} THEN t ELSE NULL]
  /\ sp = [t \in Slots |-> IF t = Idle THEN Idle ELSE NULL]
  /\ psp = Main
  /\ next_stack = 2
  /\ pc = [s \in Stacks |-> "user"]
  /\ pending = [s \in Stacks |-> NULL]
  /\ handles = {}
  /\ critical = NULL

-----------------------------------------------------------------------------
(* The stack half of a context switch: the interrupted stack pointer is    *)
(* saved in the slot the kernel believes is current (the main stack's is   *)
(* never saved) and the next thread's is loaded.                           *)
SwitchStacks ==
  IF current_active_state = "STARTED"
  THEN /\ sp' = [sp EXCEPT ![current_thread] = IF psp = Main THEN NULL ELSE psp]
       /\ psp' = IF current_thread' = NULL THEN NULL ELSE sp'[current_thread']
  ELSE UNCHANGED <<sp, psp>>

Goto(label) == pc' = [pc EXCEPT ![psp] = label]

(* The code on the running stack is between two kernel calls.              *)
Calling(call) ==
  /\ call \in Calls
  /\ current_thread # NULL /\ psp # NULL /\ psp # Idle
  /\ pc[psp] = "user"

(* Ids an application can pass: those it was given, and os_current_id().   *)
Targets == (handles \cap Slots) \cup {current_thread_id}

(* How os_add_thread leaves its stopped section: what os_stop() found is   *)
(* put back, and a kernel that had not run yet is started.                 *)
Restored_Started(prev_state) == "STARTED"  \* mutant

Restored(prev_state) == IF prev_state = "FIRST_RUN" THEN "STARTED" ELSE prev_state

(* os_add_thread up to its os_start(): the slot is filled and counted.     *)
os_add_thread ==
  /\ Calling("add")
  /\ next_stack < MAX_STACKS
  /\ \E i \in Slots, thread_priority \in 0 .. MAX_PRIORITY :
       /\ FirstFreeSlot(i)
       /\ system_threads' = [system_threads EXCEPT
                               ![i] = AddedSlot(@, thread_priority)]
       /\ stack' = [stack EXCEPT ![i] = next_stack]
       /\ sp' = [sp EXCEPT ![i] = next_stack]
       /\ pending' = [pending EXCEPT ![psp] =
                        [ptr |-> i, priority |-> thread_priority]]
  /\ next_stack' = next_stack + 1
  /\ thread_count' = thread_count + 1
  /\ current_active_state' = Restored(current_active_state)
  /\ Goto("insert")
  /\ UNCHANGED <<thread_priorities, current_thread, word, bits, psp,
                 handles, critical>>

(* The tail of os_add_thread, after its os_start(): the node enters the    *)
(* scheduler's list and the caller gets the id.                            *)
os_add_thread_insert ==
  /\ current_thread # NULL /\ psp # NULL
  /\ pc[psp] = "insert"
  /\ InsertNode(pending[psp])
  /\ handles' = handles \cup {pending[psp].ptr}
  /\ pending' = [pending EXCEPT ![psp] = NULL]
  /\ Goto("user")
  /\ UNCHANGED <<system_threads, current_thread, current_active_state,
                 thread_count, word, bits, stackVars, critical>>

(* os_add_thread with every slot taken returns -1.                         *)
os_add_thread_full ==
  /\ Calling("add")
  /\ \A i \in Slots \ {0} : ~FreeSlot(i)
  /\ handles' = handles \cup {-1}
  /\ UNCHANGED <<kernelVars, stackVars, pc, pending, critical>>

os_suspend_thread ==
  /\ Calling("suspend")
  /\ \E target_thread_id \in Targets : SetFlags(target_thread_id, "SUSPENDED")
  /\ UNCHANGED <<thread_priorities, current_thread, current_active_state,
                 thread_count, word, bits, stackVars, codeVars>>

os_resume_thread ==
  /\ Calling("resume")
  /\ \E target_thread_id \in Targets : SetFlags(target_thread_id, "RUNNING")
  /\ UNCHANGED <<thread_priorities, current_thread, current_active_state,
                 thread_count, word, bits, stackVars, codeVars>>

(* A thread may hold its own id: killing itself that way is "kill_own".    *)
os_kill_thread ==
  /\ Calling("kill")
  /\ \E target_thread_id \in Targets :
       /\ target_thread_id = current_thread => "kill_own" \in Calls
       /\ SetFlags(target_thread_id, "ENDED")
  /\ UNCHANGED <<thread_priorities, current_thread, current_active_state,
                 thread_count, word, bits, stackVars, codeVars>>

(* os_kill_self_thread: kills os_current_id(), then yields.                *)
os_kill_self_thread ==
  /\ Calling("kill_self")
  /\ SetFlags(current_thread_id, "ENDED")
  /\ Goto("yield")
  /\ UNCHANGED <<thread_priorities, current_thread, current_active_state,
                 thread_count, word, bits, stackVars, pending, handles, critical>>

(* A thread function returns into os_del_process, which ends slot          *)
(* current_thread_id and itself returns: through whatever the link         *)
(* register holds, the stack goes on executing.                            *)
os_del_process ==
  /\ Calling("return")
  /\ psp # Main
  /\ thread_count > 2 - MAX_RETURNS
  /\ thread_count' = thread_count - 1
  /\ system_threads' = [system_threads EXCEPT ![current_thread_id].flags = "ENDED"]
  /\ UNCHANGED <<thread_priorities, current_thread, current_active_state,
                 word, bits, stackVars, codeVars>>

(* os_thread_sleep_ms up to its _os_yield().                               *)
os_thread_sleep_ms ==
  /\ Calling("sleep")
  /\ \E millisecond \in 0 .. MAX_INTERVAL : PrepareSleep(current_thread, millisecond)
  /\ Goto("yield")
  /\ UNCHANGED <<thread_priorities, current_thread, current_active_state,
                 thread_count, word, bits, stackVars, pending, handles, critical>>

(* _os_yield(), called by the application, at the end of a kernel call,    *)
(* or by the idle thread, which does nothing else.                         *)
os_yield ==
  /\ Calling("yield")
  /\ ContextSwitch /\ SwitchStacks
  /\ UNCHANGED <<stack, next_stack, codeVars>>

os_yield_in_call ==
  /\ current_thread # NULL /\ psp # NULL
  /\ pc[psp] = "yield"
  /\ ContextSwitch /\ SwitchStacks
  /\ Goto("user")
  /\ UNCHANGED <<stack, next_stack, pending, handles, critical>>

idle_thread_handler ==
  /\ current_thread # NULL
  /\ psp = Idle
  /\ ContextSwitch /\ SwitchStacks
  /\ UNCHANGED <<stack, next_stack, codeVars>>

context_switch_pit_isr ==
  /\ current_thread # NULL /\ psp # NULL
  /\ TimerSwitch /\ SwitchStacks
  /\ UNCHANGED <<stack, next_stack, codeVars>>

systick == Tick /\ UNCHANGED <<stackVars, codeVars>>

os_stop ==
  /\ Calling("stop")
  /\ critical = NULL
  /\ current_active_state' = "STOPPED"
  /\ critical' = psp
  /\ UNCHANGED <<system_threads, thread_priorities, current_thread,
                 thread_count, word, bits, stackVars, pc, pending, handles>>

os_start ==
  /\ Calling("stop")
  /\ critical = psp
  /\ current_active_state' = "STARTED"
  /\ critical' = NULL
  /\ UNCHANGED <<system_threads, thread_priorities, current_thread,
                 thread_count, word, bits, stackVars, pc, pending, handles>>

Next ==
  \/ os_add_thread
  \/ os_add_thread_insert
  \/ os_add_thread_full
  \/ os_suspend_thread
  \/ os_resume_thread
  \/ os_kill_thread
  \/ os_kill_self_thread
  \/ os_del_process
  \/ os_thread_sleep_ms
  \/ os_yield
  \/ os_yield_in_call
  \/ idle_thread_handler
  \/ context_switch_pit_isr
  \/ systick
  \/ os_stop
  \/ os_start

Spec == Init /\ [][Next]_vars

(* The processor and the clock never stop; a running thread eventually     *)
(* finishes the kernel call it is in and, if it stopped the kernel, starts *)
(* it again after finitely many calls.  Running code comes to give the     *)
(* processor up outside such a section, as cooperative scheduling asks of  *)
(* the application; the idle thread does nothing but yield.                *)
Fairness ==
  /\ WF_vars(systick)
  /\ WF_vars(idle_thread_handler)
  /\ WF_vars(os_yield_in_call)
  /\ WF_vars(os_add_thread_insert)
  /\ SF_vars(os_start)
  /\ SF_vars(critical = NULL /\ (os_thread_sleep_ms \/ os_yield))

FairSpec == Spec /\ Fairness

-----------------------------------------------------------------------------
BeingInserted(t) == psp # NULL /\ pc[psp] = "insert" /\ pending[psp].ptr = t

Live(t) == flags(t) \notin {"EMPTY", "ENDED"}

(* The scheduler's walk always ends at a ready thread: whatever the        *)
(* application suspends, kills or lets sleep, the idle thread stays in the *)
(* list and RUNNING ("there's no termination code", OSThreadKernel.cpp).   *)
SchedulerFindsThread == current_thread # NULL

(* The list stays ordered by priority through every insertion, so the      *)
(* first ready node is one of highest priority among the nodes.            *)
PrioritiesSorted ==
  \A i, j \in DOMAIN thread_priorities :
    i < j => thread_priorities[i].priority >= thread_priorities[j].priority

(* No thread is lost to the scheduler: a slot that holds a thread has a    *)
(* node, or the running code is about to insert it.                        *)
EveryLiveThreadListed ==
  \A t \in Slots \ {0} : Live(t) => Listed(t) \/ BeingInserted(t)

(* A slot's saved stack pointer points into the stack the slot was given,  *)
(* and the processor is on the current thread's stack: reusing slots never *)
(* makes one thread resume on another's stack.                             *)
SpInOwnStack ==
  /\ current_thread # NULL => psp = stack[current_thread]
  /\ \A t \in Slots \ {0, current_thread} : sp[t] = stack[t]

(* Between a thread's os_stop() and its os_start() no other thread runs,   *)
(* whatever kernel calls it makes in between.                              *)
ExclusiveWhileStopped ==
  critical # NULL => psp = critical /\ current_active_state = "STOPPED"

(* A switch goes to a thread no ready thread in the list has a higher      *)
(* priority than ("The highest priority thread runs first!").              *)
HighestPriorityRuns ==
  [][current_thread' # current_thread =>
       \A t \in Slots : Listed(t) /\ Ready(t) =>
         system_threads[t].thread_priority
           <= system_threads[current_thread'].thread_priority]_vars

(* A sleeping thread at the head of the list runs again, unless another    *)
(* thread is put in front of it or it is suspended or killed.              *)
HeadSleeperRuns ==
  \A t \in Slots :
    (thread_priorities[1].ptr = t /\ flags(t) = "SLEEPING")
      ~> (\/ current_thread = t
          \/ thread_priorities[1].ptr # t
          \/ flags(t) \in {"SUSPENDED", "ENDED"})

-----------------------------------------------------------------------------
(* What comments and documentation say and the code does not do.           *)

(* os_kill_self_thread "Kills and closes out current thread", and a        *)
(* thread's return goes to "Setting our current thread to an "ended"       *)
(* state": the running thread's slot is the one that ends.                 *)
CurrentThreadEnds ==
  [][os_kill_self_thread \/ os_del_process
       => system_threads'[current_thread].flags = "ENDED"]_vars
=============================================================================
