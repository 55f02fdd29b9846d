---------------------------- MODULE OSApplication ----------------------------
(***************************************************************************)
(* Application threads on the WillOS scheduler, for the modules about the  *)
(* objects they share (mutexes, semaphores, signals, queues): the main     *)
(* thread creates threads and goes to sleep; the threads sleep, yield and  *)
(* suspend each other between the calls those modules add.                 *)
(*                                                                         *)
(* A call that blocks sets the thread's flags and yields.  `yielding' has  *)
(* the threads that are on their way to that yield, and pc says what the   *)
(* call does when the scheduler comes back to the thread.                  *)
(***************************************************************************)
EXTENDS OSThreadKernel

CONSTANT Calls  \* what the application does

VARIABLES
  pc,       \* slot -> where its thread's code is
  yielding  \* threads inside a kernel call that has yet to yield

threadVars == <<kernelVars, pc, yielding>>

ApplicationTypeOK(labels) ==
  /\ KernelTypeOK
  /\ pc \in [Slots -> labels]
  /\ yielding \subseteq Slots

ApplicationInit ==
  /\ KernelInit
  /\ pc = [t \in Slots |-> "user"]
  /\ yielding = {}

-----------------------------------------------------------------------------
At(t, label) == current_thread = t /\ t \notin yielding /\ pc[t] = label

Goto(t, label) == pc' = [pc EXCEPT ![t] = label] /\ UNCHANGED yielding

YieldThen(t, label) ==
  pc' = [pc EXCEPT ![t] = label] /\ yielding' = yielding \cup {t}

Calling(t, call) == call \in Calls /\ At(t, "user") /\ t \notin {Main, Idle}

(* setup() on the main thread creates a thread.                            *)
setup ==
  /\ At(Main, "user")
  /\ \E priority \in 0 .. MAX_PRIORITY : AddThread(priority)
  /\ UNCHANGED <<current_thread, current_active_state, word, bits, pc, yielding>>

(* os_thread_sleep_ms up to its yield; the main thread does nothing else   *)
(* in loop().                                                              *)
os_thread_sleep_ms(t) ==
  /\ Calling(t, "sleep") \/ (t = Main /\ At(Main, "user"))
  /\ \E millisecond \in 0 .. MAX_INTERVAL : PrepareSleep(t, millisecond)
  /\ YieldThen(t, "user")
  /\ UNCHANGED <<thread_priorities, current_thread, current_active_state,
                 thread_count, word, bits>>

(* The yield inside a kernel call.                                         *)
os_yield_in_call(t) ==
  /\ current_thread = t
  /\ t \in yielding
  /\ ContextSwitch
  /\ yielding' = yielding \ {t}
  /\ UNCHANGED pc

os_yield(t) ==
  /\ Calling(t, "yield")
  /\ ContextSwitch
  /\ UNCHANGED <<pc, yielding>>

idle_thread_handler ==
  /\ At(Idle, "user")
  /\ ContextSwitch
  /\ UNCHANGED <<pc, yielding>>

context_switch_pit_isr ==
  /\ current_thread # NULL
  /\ TimerSwitch
  /\ UNCHANGED <<pc, yielding>>

systick == Tick /\ UNCHANGED <<pc, yielding>>

(* os_suspend_thread on an application thread, and os_resume_thread on one *)
(* that was suspended.                                                     *)
os_suspend_thread(t, target) ==
  /\ Calling(t, "suspend")
  /\ target \notin {Main, Idle} /\ ~FreeSlot(target)
  /\ SetFlags(target, "SUSPENDED")
  /\ UNCHANGED <<thread_priorities, current_thread, current_active_state,
                 thread_count, word, bits, pc, yielding>>

os_resume_thread(t, target) ==
  /\ Calling(t, "resume")
  /\ target \notin {Main, Idle} /\ flags(target) = "SUSPENDED"
  /\ SetFlags(target, "RUNNING")
  /\ UNCHANGED <<thread_priorities, current_thread, current_active_state,
                 thread_count, word, bits, pc, yielding>>

KernelOperation(t) ==
  \/ os_thread_sleep_ms(t)
  \/ os_yield_in_call(t)
  \/ os_yield(t)
  \/ \E target \in Slots : os_suspend_thread(t, target) \/ os_resume_thread(t, target)

ApplicationNext ==
  \/ setup
  \/ \E t \in Slots : KernelOperation(t)
  \/ idle_thread_handler
  \/ context_switch_pit_isr
  \/ systick
=============================================================================
