------------------------- MODULE OSSignalKernelProofs -------------------------
(***************************************************************************)
(* Theorems about OSSignal, for any number of threads, words, bits and     *)
(* priorities, with or without the timer interrupt and whatever the        *)
(* application calls.                                                      *)
(***************************************************************************)
EXTENDS OSSignalKernel, OSThreadKernelProofs

(* The thread that executes its own code is not marked blocked.            *)
RunnerAwake ==
  \A t \in Slots : current_thread = t /\ t \notin yielding => ~Blocked(t)

(* What the scheduler compares of a blocked thread is what its call asked  *)
(* for.                                                                    *)
Compared(t) ==
  /\ awaits[t] \in thread_signals
  /\ system_threads[t].signal_bit = awaits[t].signal
  /\ system_threads[t].signal_bits_compare = {awaits[t].bit}

BlockedRecorded == \A t \in Slots : Blocked(t) => Compared(t)

(* A thread inside a wait has the bit it waits for.                        *)
CallRecorded == \A t \in Slots : pc[t] # "user" => awaits[t] \in thread_signals

SignalInv ==
  /\ TypeOK
  /\ current_active_state = "STARTED"
  /\ RunnerAwake
  /\ BlockedRecorded
  /\ CallRecorded

(* The two slots every system has.                                         *)
LEMMA SlotFacts == Main \in Slots /\ Idle \in Slots /\ NULL \notin Slots
BY ThreadsAssumption, NullAssumption DEF Main, Idle, Slots

(* What the invariant says of the types, for the steps to cite.            *)
LEMMA SignalTypes ==
  ASSUME SignalInv
  PROVE  /\ ApplicationTypeOK(Labels) /\ KernelTypeOK
         /\ system_threads \in [Slots -> thread_t]
         /\ bits \in [Signals -> SUBSET Bits]
         /\ pc \in [Slots -> Labels] /\ yielding \subseteq Slots
         /\ awaits \in [Slots -> thread_signals \cup {NULL}]
BY DEF SignalInv, TypeOK, ApplicationTypeOK, KernelTypeOK

(* The initial state.                                                      *)
LEMMA SignalInit == Init => SignalInv
<1> SUFFICES ASSUME Init PROVE SignalInv
  OBVIOUS
<1>1. KernelTypeOK /\ \A t \in Slots : ~Blocked(t)
  BY KernelInitFacts DEF Init, ApplicationInit, Blocked
<1>2. TypeOK
  BY <1>1 DEF Init, ApplicationInit, TypeOK, ApplicationTypeOK, Labels
<1> QED
  BY <1>1, <1>2 DEF Init, ApplicationInit, KernelInit, SignalInv, RunnerAwake,
                    BlockedRecorded, CallRecorded

(* A step after which no thread is newly blocked, what the blocked ones    *)
(* wait for is as before and the same thread runs keeps the invariant.     *)
LEMMA QuietStep ==
  ASSUME SignalInv, TypeOK', UNCHANGED <<current_thread, current_active_state, awaits>>,
         \A t \in Slots :
           /\ Blocked(t)' => Blocked(t)
           /\ Blocked(t) /\ Blocked(t)' =>
                /\ system_threads'[t].signal_bit = system_threads[t].signal_bit
                /\ system_threads'[t].signal_bits_compare
                     = system_threads[t].signal_bits_compare
           /\ pc'[t] # "user" => pc[t] # "user"
           /\ t \in yielding /\ t \notin yielding' => current_thread # t
  PROVE  SignalInv'
<1>1. BlockedRecorded'
  BY DEF SignalInv, BlockedRecorded, Compared
<1>2. RunnerAwake' /\ CallRecorded'
  BY DEF SignalInv, RunnerAwake, CallRecorded
<1> QED
  BY <1>1, <1>2 DEF SignalInv

(* A switch keeps the invariant: the thread it chooses is RUNNING.         *)
LEMMA SwitchStep ==
  ASSUME SignalInv, ContextSwitch \/ TimerSwitch, UNCHANGED <<pc, awaits>>,
         yielding' \subseteq yielding,
         \A t \in Slots : t \in yielding \ yielding' => t = current_thread
  PROVE  SignalInv'
<1> USE SlotFacts, SignalTypes
<1>1. /\ os_get_next_thread
      /\ UNCHANGED <<thread_priorities, current_active_state, thread_count, word, bits>>
  BY DEF ContextSwitch, TimerSwitch, SignalInv
<1>2. TypeOK'
  BY ContextSwitchType DEF TypeOK, ApplicationTypeOK
<1>3. ASSUME NEW t \in Slots
      PROVE  IF current_thread' = t THEN ~Blocked(t)'
                                    ELSE system_threads'[t] = system_threads[t]
  <2>1. CASE current_thread' = t
    BY <1>1, <2>1, Schedule DEF Blocked
  <2>2. CASE current_thread' # t
    BY <1>1, <2>2, Schedule
  <2> QED
    BY <2>1, <2>2
<1>4. RunnerAwake'
  BY <1>3 DEF RunnerAwake
<1>5. BlockedRecorded'
  BY <1>3 DEF SignalInv, BlockedRecorded, Compared, Blocked, flags
<1> QED
  BY <1>1, <1>2, <1>4, <1>5 DEF SignalInv, CallRecorded

(* The threads' own steps in the kernel.                                   *)
LEMMA KernelOperationStep ==
  ASSUME SignalInv, NEW t \in Slots, KernelOperation(t), UNCHANGED awaits
  PROVE  SignalInv'
<1> USE SlotFacts, SignalTypes
<1>1. CASE os_thread_sleep_ms(t)
  <2>1. /\ pc' = [pc EXCEPT ![t] = "user"] /\ yielding' = yielding \cup {t}
        /\ UNCHANGED <<thread_priorities, current_thread, current_active_state,
                       thread_count, word, bits>>
    BY <1>1 DEF os_thread_sleep_ms, YieldThen
  <2>2. /\ system_threads' \in [Slots -> thread_t] /\ flags(t)' = "SLEEPING"
        /\ \A u \in Slots \ {t} : system_threads'[u] = system_threads[u]
    BY <1>1, SleepUpdate DEF os_thread_sleep_ms
  <2>3. TypeOK'
    BY <2>1, <2>2 DEF TypeOK, ApplicationTypeOK, KernelTypeOK, Labels
  <2>4. ~Blocked(t)' /\ \A u \in Slots \ {t} : Blocked(u)' = Blocked(u)
    BY <2>2 DEF Blocked, flags
  <2> QED
    BY <2>1, <2>2, <2>3, <2>4, QuietStep DEF SignalInv
<1>2. CASE os_yield_in_call(t) \/ os_yield(t)
  <2>1. /\ ContextSwitch /\ current_thread = t /\ UNCHANGED pc
        /\ yielding' \in {yielding, yielding \ {t}}
    BY <1>2 DEF os_yield_in_call, os_yield, Calling, At
  <2> QED
    BY <2>1, SwitchStep
<1>3. ASSUME NEW target \in Slots,
             os_suspend_thread(t, target) \/ os_resume_thread(t, target)
      PROVE  SignalInv'
  <2>1. PICK f \in {"SUSPENDED", "RUNNING"} :
          /\ SetFlags(target, f)
          /\ UNCHANGED <<thread_priorities, current_thread, current_active_state,
                         thread_count, word, bits, pc, yielding>>
    BY <1>3 DEF os_suspend_thread, os_resume_thread
  <2>2. f \in thread_state_t
    BY DEF thread_state_t
  <2>3. /\ system_threads' \in [Slots -> thread_t]
        /\ \A u \in Slots : u # target => system_threads'[u] = system_threads[u]
        /\ flags(target)' = IF Exists(target) THEN f ELSE flags(target)
    BY <2>1, <2>2, SetFlagsType
  <2>4. ASSUME NEW u \in Slots, Blocked(u)'
        PROVE  system_threads'[u] = system_threads[u]
    <3>1. CASE Exists(u) /\ u = target
      BY <2>3, <2>4, <3>1 DEF Blocked
    <3>2. CASE ~(Exists(u) /\ u = target)
      BY <2>1, <2>3, <3>2 DEF SetFlags
    <3> QED
      BY <3>1, <3>2
  <2>5. TypeOK'
    BY <2>1, <2>3 DEF TypeOK, ApplicationTypeOK, KernelTypeOK
  <2>6. \A u \in Slots : Blocked(u)' => Blocked(u)
    BY <2>4 DEF Blocked, flags
  <2> QED
    BY <1>3, <2>1, <2>4, <2>5, <2>6, QuietStep
<1> QED
  BY <1>1, <1>2, <1>3 DEF KernelOperation

(* The running thread marks itself blocked on its bit.                     *)
LEMMA BlockStep ==
  ASSUME SignalInv, NEW t \in Slots,
         (\E call \in Waits : wait_block(t, call)) \/ wait_notimeout_block(t)
  PROVE  SignalInv'
<1> USE SlotFacts, SignalTypes
<1>1. PICK label \in Waits :
        /\ current_thread = t /\ t \notin yielding /\ pc[t] = Blocks(label)
        /\ pc' = [pc EXCEPT ![t] = label] /\ yielding' = yielding \cup {t}
        /\ UNCHANGED <<thread_priorities, current_thread, current_active_state,
                       thread_count, word, bits, awaits>>
  BY DEF wait_block, wait_notimeout_block, At, YieldThen, Waits, Blocks
<1>2. awaits[t] \in thread_signals
  BY <1>1 DEF SignalInv, CallRecorded, Waits, Blocks
<1>3. PICK f \in {"BLOCKED_SIGNAL", "BLOCKED_SIGNAL_TIMEOUT"}, n \in 0 .. MAX_INTERVAL :
        system_threads' = [system_threads EXCEPT
                             ![t] = [@ EXCEPT !.signal_bit = awaits[t].signal,
                                              !.signal_bits_compare = {awaits[t].bit},
                                              !.remaining = n,
                                              !.flags = f]]
  <2>1. CASE \E call \in Waits : wait_block(t, call)
    <3>1. PICK n \in 0 .. MAX_INTERVAL :
            system_threads' = [system_threads EXCEPT
                                 ![t].signal_bit = awaits[t].signal,
                                 ![t].signal_bits_compare = {awaits[t].bit},
                                 ![t].remaining = n,
                                 ![t].flags = "BLOCKED_SIGNAL_TIMEOUT"]
      BY <2>1 DEF wait_block
    <3>2. system_threads' = [system_threads EXCEPT
                               ![t] = [@ EXCEPT !.signal_bit = awaits[t].signal,
                                                !.signal_bits_compare = {awaits[t].bit},
                                                !.remaining = n,
                                                !.flags = "BLOCKED_SIGNAL_TIMEOUT"]]
      BY <3>1
    <3> QED
      BY <3>2
  <2>2. CASE wait_notimeout_block(t)
    <3>1. system_threads[t].remaining \in 0 .. MAX_INTERVAL
      BY DEF thread_t
    <3>2. [system_threads[t] EXCEPT !.signal_bit = awaits[t].signal,
                                    !.signal_bits_compare = {awaits[t].bit},
                                    !.flags = "BLOCKED_SIGNAL"]
            = [system_threads[t] EXCEPT !.signal_bit = awaits[t].signal,
                                        !.signal_bits_compare = {awaits[t].bit},
                                        !.remaining = system_threads[t].remaining,
                                        !.flags = "BLOCKED_SIGNAL"]
      BY DEF thread_t
    <3>3. system_threads' = [system_threads EXCEPT
                               ![t] = [@ EXCEPT !.signal_bit = awaits[t].signal,
                                                !.signal_bits_compare = {awaits[t].bit},
                                                !.flags = "BLOCKED_SIGNAL"]]
      BY <2>2 DEF wait_notimeout_block
    <3> QED
      BY <3>1, <3>2, <3>3
  <2> QED
    BY <2>1, <2>2
<1> DEFINE slot == [system_threads[t] EXCEPT !.signal_bit = awaits[t].signal,
                                             !.signal_bits_compare = {awaits[t].bit},
                                             !.remaining = n, !.flags = f]
<1>4. /\ slot \in thread_t /\ slot.flags = f
      /\ slot.signal_bit = awaits[t].signal /\ slot.signal_bits_compare = {awaits[t].bit}
  <2>1. system_threads[t] \in thread_t /\ f \in thread_state_t
    BY DEF thread_state_t
  <2>2. awaits[t].signal \in Signals /\ {awaits[t].bit} \in SUBSET Bits
    BY <1>2 DEF thread_signals
  <2> QED
    BY <2>1, <2>2 DEF thread_t
<1>5. system_threads' = [system_threads EXCEPT ![t] = slot]
  BY <1>3
<1> HIDE DEF slot
<1>6. /\ system_threads' \in [Slots -> thread_t] /\ system_threads'[t] = slot
      /\ \A u \in Slots \ {t} : system_threads'[u] = system_threads[u]
  BY <1>4, <1>5
<1>7. label \in Labels
  BY DEF Labels
<1>8. TypeOK'
  BY <1>1, <1>6, <1>7 DEF TypeOK, ApplicationTypeOK, KernelTypeOK
<1>9. RunnerAwake'
  BY <1>1, <1>6 DEF SignalInv, RunnerAwake, Blocked, flags
<1>10. BlockedRecorded'
  BY <1>1, <1>2, <1>4, <1>6 DEF SignalInv, BlockedRecorded, Compared, Blocked, flags
<1>11. CallRecorded'
  BY <1>1, <1>2 DEF SignalInv, CallRecorded
<1> QED
  BY <1>1, <1>8, <1>9, <1>10, <1>11 DEF SignalInv

(* The calls that set and clear bits, and the looks at a bit.              *)
LEMMA BitStep ==
  ASSUME SignalInv, NEW t \in Slots,
         \/ \E b \in thread_signals :
              \/ signal(t, b) \/ clear(t, b)
              \/ \E call \in Waits : firstCheck(t, call, b)
         \/ wait_check(t) \/ wait_n_clear_clear(t) \/ wait_notimeout_return(t)
  PROVE  SignalInv'
<1> USE SlotFacts, SignalTypes
<1>1. /\ current_thread = t /\ t \notin yielding
      /\ UNCHANGED <<system_threads, thread_priorities, current_thread,
                     current_active_state, thread_count, word, yielding>>
  BY DEF signal, clear, firstCheck, wait_check, wait_n_clear_clear,
         wait_notimeout_return, Calling, At, Goto, Unscheduled, kernelVars
<1>2. \A u \in Slots : Blocked(u)' = Blocked(u)
  BY <1>1 DEF Blocked, flags
<1>3. bits' \in [Signals -> SUBSET Bits]
  <2>1. bits' = bits \/ \E b \in thread_signals : SetBit(b) \/ ClearBit(b)
    BY DEF signal, clear, firstCheck, wait_check, wait_n_clear_clear,
           wait_notimeout_return, kernelVars, At, SignalInv, CallRecorded
  <2>2. ASSUME NEW b \in thread_signals, SetBit(b) \/ ClearBit(b)
        PROVE  bits' \in [Signals -> SUBSET Bits]
    BY <2>2 DEF SetBit, ClearBit, thread_signals
  <2> QED
    BY <2>1, <2>2
<1>4. CASE \E b \in thread_signals, call \in Waits : firstCheck(t, call, b)
  <2>1. PICK b \in thread_signals, call \in Waits : firstCheck(t, call, b)
    BY <1>4
  <2>2. \A u \in Slots \ {t} : awaits'[u] = awaits[u] /\ pc'[u] = pc[u]
    BY <2>1 DEF firstCheck, Goto
  <2>3. awaits'[t] = b /\ awaits' \in [Slots -> thread_signals \cup {NULL}]
    BY <2>1 DEF firstCheck
  <2>4. pc' \in [Slots -> Labels]
    BY <2>1 DEF firstCheck, Goto, Labels
  <2>5. TypeOK'
    BY <1>1, <1>3, <2>3, <2>4 DEF TypeOK, ApplicationTypeOK, KernelTypeOK
  <2>6. ~Blocked(t)
    BY <1>1 DEF SignalInv, RunnerAwake
  <2>7. RunnerAwake'
    BY <1>1, <1>2 DEF SignalInv, RunnerAwake
  <2>8. BlockedRecorded'
    BY <1>1, <1>2, <2>2, <2>6 DEF SignalInv, BlockedRecorded, Compared
  <2>9. CallRecorded'
    BY <2>2, <2>3 DEF SignalInv, CallRecorded
  <2> QED
    BY <1>1, <2>5, <2>7, <2>8, <2>9 DEF SignalInv
<1>5. CASE ~ \E b \in thread_signals, call \in Waits : firstCheck(t, call, b)
  <2>1. /\ UNCHANGED awaits
        /\ \/ UNCHANGED pc
           \/ /\ pc[t] # "user"
              /\ pc' \in {[pc EXCEPT ![t] = "user"],
                          [pc EXCEPT ![t] = "wait_n_clear clears"]}
    BY <1>5
      DEF signal, clear, wait_check, wait_n_clear_clear, wait_notimeout_return, Goto, At
  <2>2. /\ pc' \in [Slots -> Labels]
        /\ \A u \in Slots : pc'[u] # "user" => pc[u] # "user"
    BY <2>1 DEF Labels
  <2>3. TypeOK'
    BY <1>1, <1>3, <2>1, <2>2 DEF TypeOK, ApplicationTypeOK, KernelTypeOK
  <2> QED
    BY <1>1, <1>2, <2>1, <2>2, <2>3, QuietStep
<1> QED
  BY <1>4, <1>5

(* setup() creates a thread in a slot nobody is blocked in.                *)
LEMMA SetupStep ==
  ASSUME SignalInv, setup, UNCHANGED awaits
  PROVE  SignalInv'
<1> USE SlotFacts, SignalTypes
<1>1. PICK priority \in 0 .. MAX_PRIORITY : AddThread(priority)
  BY DEF setup
<1>2. UNCHANGED <<current_thread, current_active_state, word, bits, pc, yielding>>
  BY DEF setup
<1>3. PICK i \in Slots :
        /\ flags(i)' = "RUNNING"
        /\ \A u \in Slots : u # i => system_threads'[u] = system_threads[u]
  BY <1>1, AddThreadEffect
<1>4. TypeOK'
  BY <1>1, <1>2, AddThreadEffect DEF TypeOK, ApplicationTypeOK, KernelTypeOK
<1>5. ~Blocked(i)' /\ \A u \in Slots : u # i => Blocked(u)' = Blocked(u)
  BY <1>3 DEF Blocked, flags
<1> QED
  BY <1>2, <1>3, <1>4, <1>5, QuietStep

(* Time passes: what a thread is blocked for does not change.              *)
LEMMA ClockStep ==
  ASSUME SignalInv, systick, UNCHANGED awaits
  PROVE  SignalInv'
<1> USE SlotFacts, SignalTypes
<1>1. KernelTypeOK' /\ \A u \in Slots : flags(u)' = flags(u)
  BY TickType DEF systick
<1>2. UNCHANGED <<current_thread, current_active_state, pc, yielding>>
  BY DEF systick, Tick
<1>3. \A u \in Slots :
        /\ system_threads'[u].signal_bit = system_threads[u].signal_bit
        /\ system_threads'[u].signal_bits_compare = system_threads[u].signal_bits_compare
  BY DEF systick, Tick, thread_t
<1>4. TypeOK'
  BY <1>1, <1>2 DEF TypeOK, ApplicationTypeOK
<1>5. \A u \in Slots : Blocked(u)' = Blocked(u)
  BY <1>1 DEF Blocked
<1> QED
  BY <1>2, <1>3, <1>4, <1>5, QuietStep

(* The invariant is inductive.                                             *)
LEMMA SignalStep == SignalInv /\ [Next]_vars => SignalInv'
<1> SUFFICES ASSUME SignalInv, [Next]_vars PROVE SignalInv'
  OBVIOUS
<1>1. CASE (idle_thread_handler \/ context_switch_pit_isr) /\ UNCHANGED awaits
  BY <1>1, SwitchStep DEF idle_thread_handler, context_switch_pit_isr
<1>2. ASSUME NEW t \in Slots, SignalOperation(t) PROVE SignalInv'
  BY <1>2, BlockStep, BitStep DEF SignalOperation, WaitStep
<1>3. CASE UNCHANGED vars
  <2>1. TypeOK'
    BY <1>3 DEF vars, threadVars, kernelVars, SignalInv, TypeOK, ApplicationTypeOK,
                KernelTypeOK
  <2> QED
    BY <1>3, <2>1
      DEF vars, threadVars, kernelVars, SignalInv, RunnerAwake, Blocked, flags,
                      BlockedRecorded, Compared, CallRecorded
<1> QED
  BY <1>1, <1>2, <1>3, KernelOperationStep, SetupStep, ClockStep
     DEF Next, ApplicationNext

(* Every reachable state satisfies the invariant.                          *)
THEOREM SignalInvariant == Spec => []SignalInv
  BY SignalInit, SignalStep, PTL DEF Spec

(* No signal is lost on a waiter: a thread blocked for a bit that is set   *)
(* is one the scheduler may choose, even when the timer interrupt comes    *)
(* between its look at the bit and its blocking.                           *)
THEOREM SignalsWakeWaiters == Spec => []SignalWakesWaiter
<1>1. ASSUME SignalInv, NEW t \in Slots, Blocked(t), IsSet(awaits[t])
      PROVE  Ready(t)
  <2>1. Compared(t)
    BY <1>1 DEF SignalInv, BlockedRecorded
  <2>2. SignalSet(system_threads[t])
    BY <1>1, <2>1 DEF Compared, SignalSet, IsSet
  <2> QED
    BY <1>1, <2>2 DEF Ready, CanWake, Blocked, flags
<1>2. SignalInv => SignalWakesWaiter
  BY <1>1 DEF SignalWakesWaiter
<1> QED
  BY <1>2, SignalInvariant, PTL

-----------------------------------------------------------------------------
(* Without the timer interrupt, a thread that saw its bit keeps the        *)
(* processor until it has cleared it.                                      *)
ClearerRuns ==
  \A t \in Slots :
    pc[t] = "wait_n_clear clears" =>
      current_thread = t /\ t \notin yielding /\ IsSet(awaits[t])

(* Only the thread itself moves, and it clears the bit.                    *)
LEMMA ClearerStep ==
  ASSUME ~Preemptive
  PROVE  SignalInv /\ ClearerRuns /\ [Next]_vars => ClearerRuns'
<1> SUFFICES ASSUME SignalInv, ClearerRuns, [Next]_vars,
                    NEW t \in Slots, pc'[t] = "wait_n_clear clears"
             PROVE  (current_thread = t /\ t \notin yielding /\ IsSet(awaits[t]))'
  BY DEF ClearerRuns
<1> USE SlotFacts, SignalTypes
<1>1. CASE pc[t] = "wait_n_clear clears"
  <2>1. current_thread = t /\ t \notin yielding /\ IsSet(awaits[t])
    BY <1>1 DEF ClearerRuns
  <2>2. ~ \E u \in Slots : KernelOperation(u) /\ ~ \E target \in Slots :
            os_suspend_thread(u, target) \/ os_resume_thread(u, target)
    BY <1>1, <2>1 DEF KernelOperation, os_thread_sleep_ms, os_yield_in_call, os_yield,
                      Calling, At
  <2>3. ~ \E u, target \in Slots : os_suspend_thread(u, target) \/ os_resume_thread(u, target)
    BY <1>1, <2>1 DEF os_suspend_thread, os_resume_thread, Calling, At
  <2>4. ~setup /\ ~idle_thread_handler /\ ~context_switch_pit_isr
    BY <1>1, <2>1 DEF setup, idle_thread_handler, context_switch_pit_isr, TimerSwitch, At
  <2>5. ASSUME NEW u \in Slots, SignalOperation(u)
        PROVE  FALSE
    <3>1. u = t
      BY <2>1, <2>5
         DEF SignalOperation, WaitStep, signal, clear, firstCheck, wait_block,
             wait_notimeout_block, wait_check, wait_n_clear_clear, wait_notimeout_return,
             Calling, At
    <3>2. wait_n_clear_clear(t)
      BY <1>1, <2>5, <3>1
         DEF SignalOperation, WaitStep, signal, clear, firstCheck, wait_block,
             wait_notimeout_block, wait_check, wait_notimeout_return, Calling, At, Blocks,
             Waits
    <3> QED
      BY <3>2 DEF wait_n_clear_clear, Goto
  <2>6. UNCHANGED <<current_thread, yielding, bits, awaits>>
    BY <2>2, <2>3, <2>4, <2>5
       DEF Next, ApplicationNext, vars, threadVars, kernelVars, systick, Tick
  <2> QED
    BY <2>1, <2>6 DEF IsSet
<1>2. CASE pc[t] # "wait_n_clear clears"
  <2>1. UNCHANGED pc => FALSE
    BY <1>2
  <2>2. ~setup /\ ~idle_thread_handler /\ ~context_switch_pit_isr /\ ~systick
    BY <2>1 DEF setup, idle_thread_handler, context_switch_pit_isr, systick
  <2>3. ~ \E u \in Slots : KernelOperation(u)
    BY <1>2 DEF KernelOperation, os_thread_sleep_ms, os_yield_in_call, os_yield,
                os_suspend_thread, os_resume_thread, YieldThen
  <2>4. PICK u \in Slots : SignalOperation(u)
    BY <2>1, <2>2, <2>3 DEF Next, ApplicationNext, vars, threadVars
  <2>5. \/ \E b \in thread_signals, call \in Waits : firstCheck(u, call, b)
        \/ wait_check(u)
    BY <1>2, <2>4 DEF SignalOperation, WaitStep, signal, clear, wait_block,
                      wait_notimeout_block, wait_n_clear_clear, wait_notimeout_return,
                      YieldThen, Goto, Waits
  <2>6. CASE wait_check(u)
    BY <1>2, <2>6 DEF wait_check, At, Goto, IsSet, kernelVars
  <2>7. ASSUME NEW b \in thread_signals, NEW call \in Waits, firstCheck(u, call, b)
        PROVE  (current_thread = t /\ t \notin yielding /\ IsSet(awaits[t]))'
    <3>1. current_thread = u /\ u \notin yielding
      BY <2>7 DEF firstCheck, Calling, At
    <3>2. u = t
      BY <1>2, <2>7 DEF firstCheck, Goto
    <3>3. IsSet(b) /\ awaits'[t] = b /\ UNCHANGED <<current_thread, yielding, bits>>
      BY <2>7, <3>2 DEF firstCheck, Goto, kernelVars, Blocks, Waits
    <3> QED
      BY <3>1, <3>2, <3>3 DEF IsSet
  <2> QED
    BY <2>5, <2>6, <2>7
<1> QED
  BY <1>1, <1>2

(* Without the timer interrupt a signal goes to one wait_n_clear: what a   *)
(* thread is about to clear nobody has taken since it saw it set.          *)
THEOREM ClearersFindTheirBit ==
  ASSUME ~Preemptive
  PROVE  Spec => []ClearerFindsBit
<1>1. Init => ClearerRuns
  BY DEF Init, ApplicationInit, ClearerRuns
<1>2. SignalInv /\ ClearerRuns /\ [Next]_vars => ClearerRuns'
  BY ClearerStep
<1>3. ClearerRuns => ClearerFindsBit
  BY DEF ClearerRuns, ClearerFindsBit
<1> QED
  BY <1>1, <1>2, <1>3, SignalInvariant, PTL DEF Spec
=============================================================================
