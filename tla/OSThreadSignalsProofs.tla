------------------------ MODULE OSThreadSignalsProofs ------------------------
(***************************************************************************)
(* Theorems about the threads' signal bits, for any number of threads,     *)
(* bits and priorities, with or without the timer interrupt and whatever   *)
(* the application calls.                                                  *)
(***************************************************************************)
EXTENDS OSThreadSignals, OSThreadKernelProofs

Awake == {"RUNNING", "SUSPENDED"}

(* A thread that polls, or whose own code runs, waits for nothing: the     *)
(* main thread apart, whose slot is EMPTY, it is RUNNING unless suspended. *)
PollersAwake ==
  \A t \in Slots \ {Main} :
    pc[t] = "polls" \/ (current_thread = t /\ t \notin yielding) => flags(t) \in Awake

PollInv ==
  /\ TypeOK
  /\ current_active_state = "STARTED"
  /\ Listed(Idle)
  /\ ~Listed(Main)
  /\ PollersAwake

(* Constants used in every step.                                           *)
LEMMA TwoSlots == Main \in Slots /\ Idle \in Slots /\ Main # Idle
BY ThreadsAssumption DEF Main, Idle, Slots

(* Creating a thread does not list the main thread.                        *)
LEMMA MainStaysUnlisted ==
  ASSUME KernelTypeOK, NEW priority \in 0 .. MAX_PRIORITY, AddThread(priority),
         ~Listed(Main)
  PROVE  ~Listed(Main)'
<1>1. PICK i \in Slots : FirstFreeSlot(i) /\ InsertNode([ptr |-> i, priority |-> priority])
  BY DEF AddThread
<1>2. i # Main
  BY <1>1 DEF FirstFreeSlot, Main
<1>3. [ptr |-> i, priority |-> priority] \in PriorityQueueNaiveNode
  BY DEF PriorityQueueNaiveNode
<1> QED
  BY <1>1, <1>2, <1>3, TwoSlots, InsertLists DEF KernelTypeOK

(* A switch keeps the invariant: the thread it chooses is RUNNING.         *)
LEMMA SwitchStep ==
  ASSUME PollInv, ContextSwitch \/ TimerSwitch, UNCHANGED <<pc, signalVars>>,
         yielding' \subseteq yielding,
         \A t \in Slots : t \in yielding \ yielding' => t = current_thread
  PROVE  PollInv'
<1>t. ApplicationTypeOK(Labels) /\ KernelTypeOK
  BY DEF PollInv, TypeOK, ApplicationTypeOK
<1>1. /\ os_get_next_thread
      /\ UNCHANGED <<thread_priorities, current_active_state, thread_count, word, bits>>
  BY DEF ContextSwitch, TimerSwitch, PollInv
<1>2. TypeOK'
  BY <1>t, ContextSwitchType DEF PollInv, TypeOK, ApplicationTypeOK, signalVars
<1>3. PollersAwake'
  <2> SUFFICES ASSUME NEW t \in Slots \ {Main},
                      pc'[t] = "polls" \/ (current_thread' = t /\ t \notin yielding')
               PROVE  flags(t)' \in Awake
    BY DEF PollersAwake
  <2>0. NULL \notin Slots
    BY ThreadsAssumption, NullAssumption DEF Slots
  <2>1. CASE current_thread' = t
    BY <1>t, <1>1, <2>0, <2>1, Schedule DEF flags, Awake
  <2>2. CASE current_thread' # t
    <3>1. system_threads'[t] = system_threads[t]
      BY <1>t, <1>1, <2>2, Schedule
    <3>2. pc[t] = "polls"
      BY <2>2
    <3> QED
      BY <3>1, <3>2 DEF PollInv, PollersAwake, flags
  <2> QED
    BY <2>1, <2>2
<1>4. Listed(Idle)' /\ ~Listed(Main)'
  BY <1>1 DEF PollInv, Listed
<1> QED
  BY <1>1, <1>2, <1>3, <1>4 DEF PollInv

(* A step that leaves flags, list and processor alone keeps the invariant  *)
(* if it keeps types and only running threads begin to poll.               *)
LEMMA QuietStep ==
  ASSUME PollInv, TypeOK', NEW t \in Slots, t = current_thread, t \notin yielding,
         UNCHANGED <<thread_priorities, current_thread, current_active_state>>,
         \A u \in Slots : flags(u)' = flags(u),
         \A u \in Slots \ {t} : pc'[u] = pc[u],
         yielding' = yielding \/ yielding' = yielding \cup {t}
  PROVE  PollInv'
BY DEF PollInv, PollersAwake, Listed

(* The initial state.                                                      *)
LEMMA PollInit == Init => PollInv
<1> SUFFICES ASSUME Init PROVE PollInv
  OBVIOUS
<1>1. KernelTypeOK /\ Listed(Idle) /\ ~Listed(Main)
  BY KernelInitFacts, TwoSlots DEF Init, ApplicationInit
<1>2. TypeOK
  BY <1>1 DEF Init, ApplicationInit, TypeOK, ApplicationTypeOK, Labels
<1>3. PollersAwake
  BY TwoSlots DEF PollersAwake, Init, ApplicationInit, KernelInit
<1> QED
  BY <1>1, <1>2, <1>3 DEF PollInv, Init, ApplicationInit, KernelInit

(* The threads' own steps.                                                 *)
LEMMA KernelOperationStep ==
  ASSUME PollInv, NEW t \in Slots, KernelOperation(t), UNCHANGED signalVars
  PROVE  PollInv'
<1>t. /\ ApplicationTypeOK(Labels) /\ KernelTypeOK
      /\ system_threads \in [Slots -> thread_t]
      /\ pc \in [Slots -> Labels] /\ yielding \subseteq Slots
      /\ current_active_state = "STARTED" /\ Listed(Idle) /\ ~Listed(Main)
      /\ PollersAwake
      /\ UNCHANGED <<thread_set_flags, thread_signal, patience>>
  BY DEF PollInv, TypeOK, ApplicationTypeOK, KernelTypeOK, signalVars
<1>1. CASE os_thread_sleep_ms(t)
  <2>1. /\ system_threads' \in [Slots -> thread_t]
        /\ \A u \in Slots \ {t} : system_threads'[u] = system_threads[u]
    BY <1>1, <1>t, SleepUpdate DEF os_thread_sleep_ms
  <2>2. /\ pc[t] = "user" /\ current_thread = t
        /\ pc' = [pc EXCEPT ![t] = "user"] /\ yielding' = yielding \cup {t}
        /\ UNCHANGED <<thread_priorities, current_thread, current_active_state,
                       thread_count, word, bits>>
    BY <1>1 DEF os_thread_sleep_ms, YieldThen, Calling, At
  <2>3. TypeOK'
    BY <1>t, <2>1, <2>2 DEF PollInv, TypeOK, ApplicationTypeOK, KernelTypeOK, Labels
  <2>4. PollersAwake'
    BY <1>t, <2>1, <2>2 DEF PollersAwake, flags
  <2> QED
    BY <1>t, <2>2, <2>3, <2>4 DEF PollInv, Listed
<1>2. CASE os_yield_in_call(t) \/ os_yield(t)
  <2>1. /\ ContextSwitch /\ current_thread = t /\ UNCHANGED pc
        /\ yielding' \in {yielding, yielding \ {t}}
    BY <1>2 DEF os_yield_in_call, os_yield, Calling, At
  <2> QED
    BY <2>1, SwitchStep DEF signalVars
<1>3. ASSUME NEW target \in Slots,
             os_suspend_thread(t, target) \/ os_resume_thread(t, target)
      PROVE  PollInv'
  <2>1. PICK f \in Awake :
          /\ SetFlags(target, f)
          /\ UNCHANGED <<thread_priorities, current_thread, current_active_state,
                         thread_count, word, bits, pc, yielding>>
    BY <1>3 DEF os_suspend_thread, os_resume_thread, Awake
  <2>2. f \in thread_state_t
    BY DEF Awake, thread_state_t
  <2>3. /\ system_threads' \in [Slots -> thread_t]
        /\ \A u \in Slots : flags(u)' = flags(u) \/ flags(u)' \in Awake
    BY <1>t, <2>1, <2>2, SetFlagsType DEF flags
  <2>4. TypeOK'
    BY <1>t, <2>1, <2>3 DEF PollInv, TypeOK, ApplicationTypeOK, KernelTypeOK
  <2>5. PollersAwake'
    BY <1>t, <2>1, <2>3 DEF PollersAwake
  <2> QED
    BY <1>t, <2>1, <2>4, <2>5 DEF PollInv, Listed
<1> QED
  BY <1>1, <1>2, <1>3 DEF KernelOperation

(* The calls about signal bits.                                            *)
LEMMA SignalOperationStep ==
  ASSUME PollInv, NEW t \in Slots, SignalOperation(t)
  PROVE  PollInv'
<1>t. /\ ApplicationTypeOK(Labels) /\ KernelTypeOK
      /\ pc \in [Slots -> Labels] /\ yielding \subseteq Slots
      /\ thread_set_flags \in [Slots -> SUBSET Bits]
      /\ thread_signal \in [Slots -> Bits \cup {NULL}]
      /\ patience \in [Slots -> 0 .. MAX_INTERVAL + 1 \cup {NULL}]
  BY DEF PollInv, TypeOK, ApplicationTypeOK
<1>1. current_thread = t /\ t \notin yielding
  BY DEF SignalOperation, WaitStep, os_thread_signal, os_thread_clear, os_signal_thread,
         os_signal_thread_clear, waitbits, poll_set, poll_timeout, poll_again, take,
         CallsSignals, At
<1>2. UNCHANGED kernelVars
  BY DEF SignalOperation, WaitStep, os_thread_signal, os_thread_clear, os_signal_thread,
         os_signal_thread_clear, waitbits, poll_set, poll_timeout, poll_again, take,
         threadVars
<1>3. ASSUME NEW bit \in Bits, NEW target \in Slots,
             \/ os_thread_signal(t, bit) \/ os_thread_clear(t, bit)
             \/ os_signal_thread(t, bit, target) \/ os_signal_thread_clear(t, bit, target)
      PROVE  TypeOK' /\ UNCHANGED <<pc, yielding>>
  <2>1. /\ \E slot \in Slots : SetBit(slot, bit) \/ ClearBit(slot, bit)
        /\ UNCHANGED <<threadVars, thread_signal, patience>>
    BY <1>3, TwoSlots DEF os_thread_signal, os_thread_clear, os_signal_thread,
                          os_signal_thread_clear, current_thread_id, Main
  <2>2. thread_set_flags' \in [Slots -> SUBSET Bits]
    BY <1>t, <2>1 DEF SetBit, ClearBit
  <2> QED
    BY <1>t, <2>1, <2>2
      DEF TypeOK, ApplicationTypeOK, KernelTypeOK, threadVars, kernelVars
<1>4. ASSUME NEW bit \in Bits, waitbits(t, bit)
      PROVE  TypeOK' /\ (\A u \in Slots \ {t} : pc'[u] = pc[u]) /\ UNCHANGED yielding
  <2>1. \A timeout_ms \in 0 .. MAX_INTERVAL : Patience(timeout_ms) \in 0 .. MAX_INTERVAL + 1 \cup {NULL}
    BY BoundsAssumption DEF Patience
  <2>2. patience' \in [Slots -> 0 .. MAX_INTERVAL + 1 \cup {NULL}]
    BY <1>t, <1>4, <2>1 DEF waitbits
  <2>3. /\ thread_signal' = [thread_signal EXCEPT ![t] = bit]
        /\ pc' = [pc EXCEPT ![t] = "polls"]
        /\ UNCHANGED <<yielding, thread_set_flags>>
    BY <1>4 DEF waitbits, Goto
  <2> QED
    BY <1>t, <1>2, <2>2, <2>3
       DEF TypeOK, ApplicationTypeOK, KernelTypeOK, kernelVars, Labels
<1>5. CASE poll_set(t) \/ poll_timeout(t) \/ poll_again(t) \/ take(t)
  <2>1. PICK label \in Labels :
          /\ pc' = [pc EXCEPT ![t] = label]
          /\ yielding' = yielding \/ yielding' = yielding \cup {t}
    BY <1>5 DEF poll_set, poll_timeout, poll_again, take, Return, Goto, YieldThen, Labels
  <2>2. /\ thread_set_flags' = thread_set_flags \/ ClearBit(current_thread_id, thread_signal[t])
        /\ thread_signal' \in {thread_signal, [thread_signal EXCEPT ![t] = NULL]}
        /\ patience' \in {patience, [patience EXCEPT ![t] = NULL]}
    BY <1>5 DEF poll_set, poll_timeout, poll_again, take, Return, signalVars
  <2>3. thread_set_flags' \in [Slots -> SUBSET Bits]
    BY <1>t, <2>2 DEF ClearBit
  <2>4. TypeOK'
    BY <1>t, <1>2, <2>1, <2>2, <2>3
      DEF TypeOK, ApplicationTypeOK, KernelTypeOK, kernelVars
  <2>5. \A u \in Slots \ {t} : pc'[u] = pc[u]
    BY <1>t, <2>1
  <2> QED
    BY <1>1, <1>2, <2>1, <2>4, <2>5, QuietStep DEF kernelVars, flags
<1>6. ASSUME TypeOK', \A u \in Slots \ {t} : pc'[u] = pc[u], UNCHANGED yielding
      PROVE  PollInv'
  BY <1>1, <1>2, <1>6, QuietStep DEF kernelVars, flags
<1> QED
  BY <1>3, <1>4, <1>5, <1>6, TwoSlots DEF SignalOperation, WaitStep

(* Time passes.                                                            *)
LEMMA MillisecondStep ==
  ASSUME PollInv, millisecond
  PROVE  PollInv'
<1>t. /\ ApplicationTypeOK(Labels) /\ KernelTypeOK
      /\ patience \in [Slots -> 0 .. MAX_INTERVAL + 1 \cup {NULL}]
  BY DEF PollInv, TypeOK, ApplicationTypeOK
<1>1. KernelTypeOK' /\ \A t \in Slots : flags(t)' = flags(t)
  BY <1>t, TickType DEF millisecond, systick, threadVars, kernelVars, KernelTypeOK, flags
<1>2. UNCHANGED <<thread_priorities, current_thread, current_active_state, pc, yielding,
                  thread_set_flags, thread_signal>>
  BY DEF millisecond, systick, Tick, threadVars, kernelVars
<1>3. patience' \in [Slots -> 0 .. MAX_INTERVAL + 1 \cup {NULL}]
  BY <1>t, BoundsAssumption DEF millisecond, Impatient
<1>4. TypeOK'
  BY <1>1, <1>2, <1>3 DEF PollInv, TypeOK, ApplicationTypeOK
<1> QED
  BY <1>1, <1>2, <1>4 DEF PollInv, PollersAwake, Listed

(* The invariant is inductive.                                             *)
LEMMA PollStep == PollInv /\ [Next]_vars => PollInv'
<1> SUFFICES ASSUME PollInv, [Next]_vars PROVE PollInv'
  OBVIOUS
<1>1. CASE setup /\ UNCHANGED signalVars
  <2>1. PICK priority \in 0 .. MAX_PRIORITY : AddThread(priority)
    BY <1>1 DEF setup
  <2>2. current_thread = Main
        /\ UNCHANGED <<current_thread, current_active_state, word, bits, pc, yielding>>
    BY <1>1 DEF setup, At
  <2>3. KernelTypeOK
    BY DEF PollInv, TypeOK, ApplicationTypeOK
  <2>4. TypeOK'
    BY <1>1, <2>1, <2>2, <2>3, AddThreadEffect
       DEF PollInv, TypeOK, ApplicationTypeOK, KernelTypeOK, signalVars
  <2>5. Listed(Idle)' /\ ~Listed(Main)'
    BY <2>1, <2>3, TwoSlots, AddThreadEffect, MainStaysUnlisted DEF PollInv
  <2>6. \A t \in Slots : flags(t)' = flags(t) \/ flags(t)' = "RUNNING"
    BY <2>1, <2>3, AddThreadEffect DEF flags
  <2>7. PollersAwake'
    BY <2>2, <2>6 DEF PollInv, PollersAwake, Awake
  <2> QED
    BY <2>2, <2>4, <2>5, <2>7 DEF PollInv
<1>2. CASE (idle_thread_handler \/ context_switch_pit_isr) /\ UNCHANGED signalVars
  BY <1>2, SwitchStep DEF idle_thread_handler, context_switch_pit_isr
<1>3. CASE (\E t \in Slots : KernelOperation(t)) /\ UNCHANGED signalVars
  BY <1>3, KernelOperationStep
<1>4. CASE UNCHANGED vars
  BY <1>4 DEF vars, threadVars, kernelVars, signalVars, PollInv, TypeOK,
              ApplicationTypeOK, KernelTypeOK, PollersAwake, Listed, flags
<1> QED
  BY <1>1, <1>2, <1>3, <1>4, SignalOperationStep, MillisecondStep DEF Next

(* Every reachable state satisfies the invariant.                          *)
THEOREM PollInvariant == Spec => []PollInv
  BY PollInit, PollStep, PTL DEF Spec

(* The thread signals are well typed in every state.                       *)
THEOREM SignalsTypeCorrect == Spec => []TypeOK
<1>1. PollInv => TypeOK
  BY DEF PollInv
<1> QED
  BY <1>1, PollInvariant, PTL

-----------------------------------------------------------------------------
(* A ready thread at the head of the list is the one a switch chooses.     *)
LEMMA HeadIsChosen ==
  ASSUME KernelTypeOK, Listed(Idle), NEW t \in Slots, AtHead(t), flags(t) = "RUNNING",
         os_get_next_thread
  PROVE  current_thread' = t
<1>1. 1 \in DOMAIN thread_priorities
  <2>1. PICK i \in DOMAIN thread_priorities : thread_priorities[i].ptr = Idle
    BY DEF Listed
  <2>2. thread_priorities \in Seq(PriorityQueueNaiveNode)
    BY DEF KernelTypeOK
  <2> QED
    BY <2>1, <2>2
<1>2. ReadyAt(1)
  BY DEF ReadyAt, Ready, AtHead
<1>3. PICK i \in DOMAIN thread_priorities :
        /\ current_thread' = thread_priorities[i].ptr
        /\ \A j \in 1 .. i - 1 : ~ReadyAt(j)
  BY <1>1, <1>2 DEF os_get_next_thread
<1>4. i \in Nat /\ i >= 1
  BY <1>3, LenProperties DEF KernelTypeOK
<1>5. i = 1
  BY <1>2, <1>3, <1>4
<1> QED
  BY <1>3, <1>5 DEF AtHead

(* While the thread at the head of the list polls, without timeout, for a  *)
(* bit that is clear in slot 0, it keeps the processor and the bit stays   *)
(* clear: its yields come back to it, so nobody runs who could set it, and *)
(* the wait never ends, with the timer interrupt or without.               *)
HeadPollKeepsProcessor ==
  [][\A t \in Slots :
       (/\ AtHead(t) /\ Polls(t) /\ current_thread = t
        /\ patience[t] = NULL /\ ~os_thread_checkbits(thread_signal[t]))
         => current_thread' = t /\ ~os_thread_checkbits(thread_signal[t])']_vars

(* A wait without timeout at the head of the list never ends.              *)
THEOREM PollerKeepsProcessor == Spec => HeadPollKeepsProcessor
<1> DEFINE Stuck(t) == /\ AtHead(t) /\ Polls(t) /\ current_thread = t
                       /\ patience[t] = NULL /\ ~os_thread_checkbits(thread_signal[t])
<1>1. ASSUME PollInv, Next, NEW t \in Slots, Stuck(t)
      PROVE  current_thread' = t /\ ~os_thread_checkbits(thread_signal[t])'
  <2>t. KernelTypeOK /\ Listed(Idle)
    BY <1>1 DEF PollInv, TypeOK, ApplicationTypeOK
  <2>0. t # Main
    <3>1. 1 \in DOMAIN thread_priorities
      <4>1. thread_priorities \in Seq(PriorityQueueNaiveNode)
        BY <2>t DEF KernelTypeOK
      <4>2. DOMAIN thread_priorities # {}
        BY <2>t DEF Listed
      <4> QED
        BY <4>1, <4>2
    <3> QED
      BY <1>1, <3>1 DEF AtHead, PollInv, Listed
  <2>1. flags(t) = "RUNNING"
    BY <1>1, <2>0 DEF PollInv, PollersAwake, Awake, Polls
  <2>2. pc[t] = "polls"
    BY <1>1 DEF Polls
  <2>3. ASSUME ContextSwitch \/ TimerSwitch, UNCHANGED signalVars
        PROVE  current_thread' = t /\ ~os_thread_checkbits(thread_signal[t])'
    <3>1. os_get_next_thread
      BY <1>1, <2>3 DEF ContextSwitch, TimerSwitch, PollInv
    <3> QED
      BY <1>1, <2>t, <2>1, <2>3, <3>1, HeadIsChosen DEF signalVars, os_thread_checkbits
  <2>4. CASE setup
    BY <1>1, <2>0, <2>4 DEF setup, At
  <2>5. CASE (idle_thread_handler \/ context_switch_pit_isr) /\ UNCHANGED signalVars
    BY <2>3, <2>5 DEF idle_thread_handler, context_switch_pit_isr
  <2>6. ASSUME NEW u \in Slots, KernelOperation(u), UNCHANGED signalVars
        PROVE  current_thread' = t /\ ~os_thread_checkbits(thread_signal[t])'
    <3>1. u = t
      BY <1>1, <2>6 DEF KernelOperation, os_thread_sleep_ms, os_yield_in_call, os_yield,
                        os_suspend_thread, os_resume_thread, Calling, At
    <3>2. os_yield_in_call(t)
      BY <2>2, <2>6, <3>1 DEF KernelOperation, os_thread_sleep_ms, os_yield,
                              os_suspend_thread, os_resume_thread, Calling, At
    <3> QED
      BY <2>3, <2>6, <3>2 DEF os_yield_in_call
  <2>7. ASSUME NEW u \in Slots, SignalOperation(u)
        PROVE  current_thread' = t /\ ~os_thread_checkbits(thread_signal[t])'
    <3>1. u = t
      BY <1>1, <2>7
         DEF SignalOperation, WaitStep, os_thread_signal, os_thread_clear,
             os_signal_thread, os_signal_thread_clear, waitbits, poll_set, poll_timeout,
             poll_again, take, CallsSignals, At
    <3>2. WaitStep(t)
      BY <2>2, <2>7, <3>1
         DEF SignalOperation, os_thread_signal, os_thread_clear, os_signal_thread,
             os_signal_thread_clear, waitbits, CallsSignals, At
    <3>3. ~TimedOut(t)
      BY <1>1, NullAssumption DEF TimedOut
    <3>4. poll_again(t)
      BY <1>1, <2>2, <3>2, <3>3 DEF WaitStep, poll_set, poll_timeout, take, At
    <3> QED
      BY <1>1, <3>4 DEF poll_again, kernelVars, signalVars, os_thread_checkbits
  <2>8. CASE millisecond
    BY <1>1, <2>8 DEF millisecond, systick, Tick, threadVars, kernelVars,
                      os_thread_checkbits
  <2> QED
    BY <1>1, <2>4, <2>5, <2>6, <2>7, <2>8 DEF Next
<1>2. ASSUME PollInv, [Next]_vars
      PROVE  [\A t \in Slots :
                Stuck(t) => current_thread' = t /\ ~os_thread_checkbits(thread_signal[t])']_vars
  BY <1>1, <1>2
<1> QED
  BY <1>2, PollInvariant, PTL DEF Spec, HeadPollKeepsProcessor

-----------------------------------------------------------------------------
(* Without the timer interrupt: a thread that is about to take its bit has *)
(* not left the processor since it saw the bit set.                        *)
TakerRuns ==
  \A t \in Slots :
    pc[t] = "takes" => /\ current_thread = t /\ t \notin yielding
                       /\ os_thread_checkbits(thread_signal[t])

(* Only the running thread's own calls can disturb it, and a thread about  *)
(* to take its bit is in no call that sets, clears or waits.               *)
LEMMA TakerStep ==
  ASSUME ~Preemptive, PollInv, TakerRuns, [Next]_vars
  PROVE  TakerRuns'
<1>t. /\ pc \in [Slots -> Labels] /\ yielding \subseteq Slots
      /\ thread_signal \in [Slots -> Bits \cup {NULL}]
  BY DEF PollInv, TypeOK, ApplicationTypeOK
<1> SUFFICES ASSUME NEW t \in Slots, pc'[t] = "takes"
             PROVE  /\ current_thread' = t /\ t \notin yielding'
                    /\ os_thread_checkbits(thread_signal[t])'
  BY DEF TakerRuns
<1> DEFINE Kept == /\ current_thread' = current_thread /\ yielding' = yielding
                   /\ thread_set_flags' = thread_set_flags
                   /\ thread_signal' = thread_signal
<1>1. CASE pc[t] = "takes"
  <2>1. At(t, "takes") /\ os_thread_checkbits(thread_signal[t])
    BY <1>1 DEF TakerRuns, At
  <2>2. ASSUME Kept
        PROVE  /\ current_thread' = t /\ t \notin yielding'
               /\ os_thread_checkbits(thread_signal[t])'
    BY <2>1, <2>2 DEF At, os_thread_checkbits, current_thread_id
  <2>3. CASE setup \/ idle_thread_handler
    BY <1>1, <2>1, <2>3 DEF setup, idle_thread_handler, At
  <2>4. CASE context_switch_pit_isr
    BY <2>4 DEF context_switch_pit_isr, TimerSwitch
  <2>5. ASSUME NEW u \in Slots, KernelOperation(u)
        PROVE  FALSE
    <3>1. u = t
      BY <2>1, <2>5 DEF KernelOperation, os_thread_sleep_ms, os_yield_in_call, os_yield,
                        os_suspend_thread, os_resume_thread, Calling, At
    <3> QED
      BY <1>1, <2>1, <2>5, <3>1
         DEF KernelOperation, os_thread_sleep_ms, os_yield_in_call, os_yield,
             os_suspend_thread, os_resume_thread, Calling, At
  <2>6. ASSUME NEW u \in Slots, SignalOperation(u)
        PROVE  FALSE
    <3>1. u = t
      BY <2>1, <2>6
         DEF SignalOperation, WaitStep, os_thread_signal, os_thread_clear,
             os_signal_thread, os_signal_thread_clear, waitbits, poll_set, poll_timeout,
             poll_again, take, CallsSignals, At
    <3>2. take(t)
      BY <1>1, <2>6, <3>1
         DEF SignalOperation, WaitStep, os_thread_signal, os_thread_clear,
             os_signal_thread, os_signal_thread_clear, waitbits, poll_set, poll_timeout,
             poll_again, CallsSignals, At
    <3>3. pc'[t] = "user"
      BY <1>t, <3>2 DEF take, Return, Goto
    <3> QED
      BY <3>3
  <2>7. CASE millisecond
    BY <2>2, <2>7 DEF millisecond, systick, Tick, threadVars, kernelVars
  <2>8. CASE UNCHANGED vars
    BY <2>2, <2>8 DEF vars, threadVars, kernelVars, signalVars
  <2> QED
    BY <2>3, <2>4, <2>5, <2>6, <2>7, <2>8 DEF Next
<1>2. CASE pc[t] # "takes"
  <2>1. ASSUME UNCHANGED pc PROVE FALSE
    BY <1>2, <2>1
  <2>2. ASSUME NEW u \in Slots, KernelOperation(u)
        PROVE  FALSE
    <3>1. pc' = pc \/ pc' = [pc EXCEPT ![u] = "user"]
      BY <2>2 DEF KernelOperation, os_thread_sleep_ms, os_yield_in_call, os_yield,
                  os_suspend_thread, os_resume_thread, YieldThen
    <3> QED
      BY <1>t, <1>2, <3>1
  <2>3. ASSUME NEW u \in Slots, SignalOperation(u)
        PROVE  poll_set(t)
    <3>1. \/ UNCHANGED pc
          \/ pc' = [pc EXCEPT ![u] = "polls"]
          \/ pc' = [pc EXCEPT ![u] = "user"]
          \/ poll_set(u)
      BY <2>3 DEF SignalOperation, WaitStep, os_thread_signal, os_thread_clear,
                  os_signal_thread, os_signal_thread_clear, waitbits, poll_timeout,
                  poll_again, take, Return, Goto, YieldThen, threadVars
    <3>2. poll_set(u)
      BY <1>t, <1>2, <3>1
    <3>3. u = t
      BY <1>t, <1>2, <3>2 DEF poll_set, Goto
    <3> QED
      BY <3>2, <3>3
  <2>4. ~(setup \/ idle_thread_handler \/ context_switch_pit_isr \/ millisecond)
    BY <2>1 DEF setup, idle_thread_handler, context_switch_pit_isr, millisecond, systick,
                threadVars
  <2>5. ~UNCHANGED vars
    BY <2>1 DEF vars, threadVars
  <2>6. poll_set(t)
    BY <2>2, <2>3, <2>4, <2>5 DEF Next
  <2> QED
    BY <2>6 DEF poll_set, At, Goto, kernelVars, os_thread_checkbits, current_thread_id
<1> QED
  BY <1>1, <1>2

(* In a cooperative kernel one signal has one taker: the bit a thread      *)
(* waited for is still set when the thread clears it.                      *)
THEOREM TakersFindTheirBit ==
  ASSUME ~Preemptive
  PROVE  Spec => []TakerFindsBit
<1>1. Init => TakerRuns
  BY DEF Init, ApplicationInit, TakerRuns
<1>2. PollInv /\ TakerRuns /\ [Next]_vars => TakerRuns'
  BY TakerStep
<1>3. TakerRuns => TakerFindsBit
  BY DEF TakerRuns, TakerFindsBit
<1> QED
  BY <1>1, <1>2, <1>3, PollInvariant, PTL DEF Spec
=============================================================================
