----------------------- MODULE OSThreadLifecycleProofs -----------------------
(***************************************************************************)
(* Theorems about the life of threads, for any number of threads, stacks,  *)
(* priorities and calls, with or without the timer interrupt.              *)
(***************************************************************************)
EXTENDS OSThreadLifecycle, OSThreadKernelProofs

(* The two fixed slots, their stacks, and NULL, which is neither.          *)
LEMMA SlotFacts ==
  /\ Main \in Slots /\ Idle \in Slots
  /\ Main \in Stacks /\ Idle \in Stacks
  /\ NULL \notin Slots /\ NULL \notin Stacks
BY ThreadsAssumption, StacksAssumption, NullAssumption DEF Main, Idle, Slots, Stacks

-----------------------------------------------------------------------------
(* Type correctness, with the one fact it needs about control: a stack     *)
(* that has yet to insert has a node to insert.                            *)
TypeInv ==
  /\ TypeOK
  /\ \A s \in Stacks : pc[s] = "insert" => pending[s] \in PriorityQueueNaiveNode

(* A context switch saves and restores stacks within their types.          *)
LEMMA SwitchStacksType ==
  ASSUME TypeInv, SwitchStacks, current_thread # NULL,
         current_thread' \in Slots \cup {NULL}
  PROVE  /\ sp' \in [Slots -> Stacks \cup {NULL}]
         /\ psp' \in Stacks \cup {NULL}
<1>1. /\ current_thread \in Slots
      /\ sp \in [Slots -> Stacks \cup {NULL}]
      /\ psp \in Stacks \cup {NULL}
  BY DEF TypeInv, TypeOK, KernelTypeOK
<1>2. CASE current_active_state = "STARTED"
  <2>1. sp' \in [Slots -> Stacks \cup {NULL}]
    BY <1>1, <1>2 DEF SwitchStacks
  <2> QED
    BY <1>2, <2>1 DEF SwitchStacks
<1>3. CASE current_active_state # "STARTED"
  BY <1>1, <1>3 DEF SwitchStacks
<1> QED
  BY <1>2, <1>3

(* A context switch keeps the types of the kernel and of the stacks.       *)
LEMMA SwitchType ==
  ASSUME TypeInv, ContextSwitch \/ TimerSwitch, SwitchStacks, current_thread # NULL,
         UNCHANGED <<stack, next_stack, pending, handles, critical>>
  PROVE  /\ KernelTypeOK'
         /\ sp' \in [Slots -> Stacks \cup {NULL}]
         /\ psp' \in Stacks \cup {NULL}
<1>1. KernelTypeOK'
  BY ContextSwitchType DEF TypeInv, TypeOK
<1> QED
  BY <1>1, SwitchStacksType DEF KernelTypeOK

(* Initially every variable has its type.                                  *)
LEMMA TypeInit == Init => TypeInv
<1> SUFFICES ASSUME Init PROVE TypeInv
  OBVIOUS
<1>1. KernelTypeOK
  BY KernelInitFacts DEF Init
<1> QED
  BY <1>1, SlotFacts, StacksAssumption DEF Init, TypeInv, TypeOK

(* Every action keeps the types.                                           *)
LEMMA TypeStep == TypeInv /\ [Next]_vars => TypeInv'
<1> SUFFICES ASSUME TypeInv, [Next]_vars PROVE TypeInv'
  OBVIOUS
<1> USE SlotFacts
<1> USE DEF TypeInv, TypeOK, vars, kernelVars, stackVars, codeVars
<1>1. CASE os_add_thread
  <2>1. PICK i \in Slots, priority \in 0 .. MAX_PRIORITY :
          /\ system_threads' = [system_threads EXCEPT ![i] = AddedSlot(@, priority)]
          /\ stack' = [stack EXCEPT ![i] = next_stack]
          /\ sp' = [sp EXCEPT ![i] = next_stack]
          /\ pending' = [pending EXCEPT ![psp] = [ptr |-> i, priority |-> priority]]
    BY <1>1 DEF os_add_thread
  <2>2. system_threads' \in [Slots -> thread_t]
    BY <2>1, AddedSlotType DEF KernelTypeOK
  <2>3. [ptr |-> i, priority |-> priority] \in PriorityQueueNaiveNode
    BY DEF PriorityQueueNaiveNode
  <2>4. next_stack \in Stacks /\ next_stack' \in 2 .. MAX_STACKS
    BY <1>1, StacksAssumption DEF os_add_thread, Stacks
  <2>5. KernelTypeOK'
    BY <1>1, <2>2 DEF os_add_thread, KernelTypeOK, os_state_t, Restored
  <2>6. pending' \in [Stacks -> PriorityQueueNaiveNode \cup {NULL}]
    BY <2>1, <2>3
  <2>7. psp \in Stacks /\ pc' = [pc EXCEPT ![psp] = "insert"]
    BY <1>1 DEF os_add_thread, Calling, Goto
  <2> QED
    BY <1>1, <2>1, <2>3, <2>4, <2>5, <2>6, <2>7 DEF os_add_thread
<1>2. CASE os_add_thread_insert
  BY <1>2, InsertNodeKeeps, NodeSlot DEF os_add_thread_insert, Goto, KernelTypeOK
<1>3. CASE os_add_thread_full
  BY <1>3 DEF os_add_thread_full, Calling, KernelTypeOK, os_state_t
<1>4. CASE os_suspend_thread
  BY <1>4, SetFlagsType
    DEF os_suspend_thread, Calling, Goto, Targets, current_thread_id, KernelTypeOK,
        thread_state_t, Main
<1>5. CASE os_resume_thread
  BY <1>5, SetFlagsType
    DEF os_resume_thread, Calling, Goto, Targets, current_thread_id, KernelTypeOK,
        thread_state_t, Main
<1>6. CASE os_kill_thread
  BY <1>6, SetFlagsType
    DEF os_kill_thread, Calling, Goto, Targets, current_thread_id, KernelTypeOK,
        thread_state_t, Main
<1>7. CASE os_kill_self_thread
  BY <1>7, SetFlagsType
    DEF os_kill_self_thread, Calling, Goto, Targets, current_thread_id, KernelTypeOK,
        thread_state_t, Main
<1>8. CASE os_del_process
  <2>1. system_threads' = [system_threads EXCEPT ![Main].flags = "ENDED"]
    BY <1>8 DEF os_del_process, current_thread_id, Main
  <2>2. system_threads \in [Slots -> thread_t] /\ "ENDED" \in thread_state_t
    BY DEF KernelTypeOK, thread_state_t
  <2>3. system_threads' \in [Slots -> thread_t]
    BY <2>1, <2>2, FlagsUpdate
  <2> QED
    BY <1>8, <2>3 DEF os_del_process, KernelTypeOK
<1>9. CASE os_thread_sleep_ms
  BY <1>9, SleepUpdate DEF os_thread_sleep_ms, Calling, Goto, KernelTypeOK
<1>10. CASE os_yield
  BY <1>10, SwitchType DEF os_yield, Calling, Goto
<1>11. CASE os_yield_in_call
  BY <1>11, SwitchType DEF os_yield_in_call, Calling, Goto
<1>12. CASE idle_thread_handler
  BY <1>12, SwitchType DEF idle_thread_handler, Calling, Goto
<1>13. CASE context_switch_pit_isr
  BY <1>13, SwitchType DEF context_switch_pit_isr, Calling, Goto
<1>14. CASE systick
  BY <1>14, TickType DEF systick
<1>15. CASE os_stop
  BY <1>15 DEF os_stop, Calling, KernelTypeOK, os_state_t
<1>16. CASE os_start
  BY <1>16 DEF os_start, Calling, KernelTypeOK, os_state_t
<1>17. CASE UNCHANGED vars
  BY <1>17 DEF KernelTypeOK
<1> QED
  BY <1>1, <1>2, <1>3, <1>4, <1>5, <1>6, <1>7, <1>8, <1>9, <1>10, <1>11, <1>12, <1>13,
     <1>14, <1>15, <1>16, <1>17
    DEF Next

(* Every variable keeps its type.                                          *)
THEOREM TypeCorrect == Spec => []TypeOK
<1>1. Init => TypeInv
  BY TypeInit
<1>2. TypeInv /\ [Next]_vars => TypeInv'
  BY TypeStep
<1>3. TypeInv => TypeOK
  BY DEF TypeInv
<1> QED
  BY <1>1, <1>2, <1>3, PTL DEF Spec

-----------------------------------------------------------------------------
(* The scheduler always finds a thread.  The walk ends at the idle thread, *)
(* which must therefore stay listed and RUNNING: nobody holds its id, so   *)
(* nobody suspends or kills it, and its stack is never taken for another   *)
(* slot's, so no other code runs in its name.                              *)
AliveInv ==
  /\ current_thread # NULL /\ psp # NULL
  /\ current_thread = Idle <=> psp = Idle
  /\ psp = Main => current_thread = Main
  /\ Listed(Idle) /\ flags(Idle) = "RUNNING"
  /\ sp[Idle] = Idle /\ \A t \in Slots \ {Idle} : sp[t] # Idle
  /\ ~Listed(Main)
  /\ \A t \in Slots : Listed(t) => sp[t] \notin {NULL, Main}
  /\ \A s \in Stacks : pc[s] = "insert" =>
       /\ pending[s].ptr \notin {Main, Idle}
       /\ sp[pending[s].ptr] \notin {NULL, Main}
  /\ Idle \notin handles

(* A context switch leaves the idle thread on its own stack, and every     *)
(* other thread with a stack to go back to.                                *)
LEMMA SwitchAlive ==
  ASSUME TypeInv, AliveInv, ContextSwitch \/ TimerSwitch, SwitchStacks
  PROVE  /\ current_thread' # NULL /\ psp' # NULL
         /\ (current_thread = Idle <=> psp = Idle)'
         /\ (psp = Main => current_thread = Main)'
         /\ flags(Idle)' = "RUNNING"
         /\ sp'[Idle] = Idle /\ \A t \in Slots \ {Idle} : sp'[t] # Idle
         /\ \A t \in Slots : t # Main /\ sp[t] \notin {NULL, Main} => sp'[t] \notin {NULL, Main}
<1> USE SlotFacts
<1>1. CASE current_active_state # "STARTED"
  BY <1>1 DEF ContextSwitch, TimerSwitch, SwitchStacks, AliveInv, flags
<1>2. CASE current_active_state = "STARTED"
  <2>1. os_get_next_thread
    BY <1>2 DEF ContextSwitch, TimerSwitch
  <2>2. KernelTypeOK
    BY DEF TypeInv, TypeOK
  <2>3. current_thread' # NULL
    BY <2>1, <2>2, IdleEndsWalk DEF AliveInv
  <2>4. /\ current_thread' \in Slots
        /\ \E i \in DOMAIN thread_priorities :
             thread_priorities[i].ptr = current_thread'
        /\ flags(current_thread)' = "RUNNING"
        /\ \A t \in Slots : t # current_thread' =>
             system_threads'[t] = system_threads[t]
    BY <2>1, <2>2, <2>3, Schedule
  <2>5. flags(Idle)' = "RUNNING"
    BY <2>4 DEF flags, AliveInv
  <2>6. /\ sp' = [sp EXCEPT ![current_thread] = IF psp = Main THEN NULL ELSE psp]
        /\ psp' = sp'[current_thread']
        /\ current_thread \in Slots
        /\ sp \in [Slots -> Stacks \cup {NULL}]
    BY <1>2, <2>3 DEF SwitchStacks, AliveInv, TypeInv, TypeOK, KernelTypeOK
  <2>7. sp'[Idle] = Idle /\ \A t \in Slots \ {Idle} : sp'[t] # Idle
    BY <2>6 DEF AliveInv, Main, Idle
  <2>8. \A t \in Slots : t # Main /\ sp[t] \notin {NULL, Main} => sp'[t] \notin {NULL, Main}
    BY <2>6 DEF AliveInv
  <2>9. current_thread' # Main /\ sp[current_thread'] \notin {NULL, Main}
    BY <2>4 DEF AliveInv, Listed
  <2>10. psp' \notin {NULL, Main} /\ (current_thread' = Idle <=> psp' = Idle)
    BY <2>4, <2>6, <2>7, <2>8, <2>9
  <2> QED
    BY <2>3, <2>5, <2>7, <2>8, <2>10
<1> QED
  BY <1>1, <1>2

(* Steps that touch neither the list nor the stacks only have to leave the *)
(* idle thread alone.                                                      *)
LEMMA AliveFrame ==
  ASSUME TypeInv, AliveInv, flags(Idle)' = "RUNNING",
         UNCHANGED <<thread_priorities, current_thread, sp, psp, pending>>,
         Idle \notin handles',
         \A s \in Stacks : pc'[s] = "insert" => pc[s] = "insert"
  PROVE  AliveInv'
BY SlotFacts DEF AliveInv, Listed

(* So a context switch keeps the idle thread listed and RUNNING.           *)
LEMMA AliveSwitchFrame ==
  ASSUME TypeInv, AliveInv, ContextSwitch \/ TimerSwitch, SwitchStacks,
         UNCHANGED <<pending, handles>>,
         \A s \in Stacks : pc'[s] = "insert" => pc[s] = "insert"
  PROVE  AliveInv'
<1>1. UNCHANGED thread_priorities
  BY DEF ContextSwitch, TimerSwitch
<1>2. \A t \in Slots : Listed(t)' <=> Listed(t)
  BY <1>1 DEF Listed
<1>3. ASSUME NEW s \in Stacks, pc'[s] = "insert"
      PROVE  /\ pending'[s].ptr \notin {Main, Idle}
             /\ sp'[pending'[s].ptr] \notin {NULL, Main}
  <2>1. pc[s] = "insert" /\ pending'[s] = pending[s] /\ pending[s].ptr \in Slots
    BY <1>3, NodeSlot DEF TypeInv
  <2> QED
    BY <2>1, SwitchAlive DEF AliveInv
<1>4. \A t \in Slots : Listed(t)' => sp'[t] \notin {NULL, Main}
  BY <1>2, SwitchAlive DEF AliveInv
<1>5. Listed(Idle)' /\ ~Listed(Main)' /\ Idle \notin handles'
  BY <1>2, SlotFacts DEF AliveInv
<1> QED
  BY <1>3, <1>4, <1>5, SwitchAlive DEF AliveInv

(* threads_init() leaves the idle thread listed and RUNNING.               *)
LEMMA AliveInit == Init => AliveInv
<1> SUFFICES ASSUME Init PROVE AliveInv
  OBVIOUS
<1> USE SlotFacts
<1> QED
  BY KernelInitFacts DEF Init, KernelInit, AliveInv, Main, Idle

(* Every action keeps the idle thread listed and RUNNING.                  *)
LEMMA AliveStep == TypeInv /\ AliveInv /\ [Next]_vars => AliveInv'
<1> SUFFICES ASSUME TypeInv, AliveInv, [Next]_vars PROVE AliveInv'
  OBVIOUS
<1> USE SlotFacts
<1>t. /\ KernelTypeOK /\ system_threads \in [Slots -> thread_t]
      /\ psp \in Stacks /\ pc \in [Stacks -> {"user", "yield", "insert"}]
      /\ current_thread \in Slots /\ Idle \notin handles
      /\ flags(Idle) = "RUNNING"
  BY DEF TypeInv, TypeOK, KernelTypeOK, AliveInv
<1>0. ASSUME NEW t \in Slots \ {Idle}, NEW f \in thread_state_t, SetFlags(t, f)
      PROVE  flags(Idle)' = "RUNNING"
  BY <1>t, <1>0, SetFlagsType DEF flags
<1>1. CASE os_add_thread
  <2>1. PICK i \in Slots, priority \in 0 .. MAX_PRIORITY :
          /\ FirstFreeSlot(i)
          /\ system_threads' = [system_threads EXCEPT ![i] = AddedSlot(@, priority)]
          /\ sp' = [sp EXCEPT ![i] = next_stack]
          /\ pending' = [pending EXCEPT ![psp] = [ptr |-> i, priority |-> priority]]
    BY <1>1 DEF os_add_thread
  <2>2. i \notin {Main, Idle}
    BY <1>t, <2>1 DEF FirstFreeSlot, FreeSlot, Main
  <2>3. next_stack \in Stacks \ {Main, Idle, NULL}
    BY <1>1, StacksAssumption DEF os_add_thread, TypeInv, TypeOK, Stacks, Main, Idle
  <2>4. flags(Idle)' = "RUNNING"
    BY <1>t, <2>1, <2>2 DEF flags
  <2>5. UNCHANGED <<thread_priorities, current_thread, psp, handles>>
    BY <1>1 DEF os_add_thread
  <2>6. pc' = [pc EXCEPT ![psp] = "insert"]
    BY <1>1 DEF os_add_thread, Goto
  <2>7. /\ sp \in [Slots -> Stacks \cup {NULL}]
        /\ pending \in [Stacks -> PriorityQueueNaiveNode \cup {NULL}]
        /\ \A s \in Stacks : pc[s] = "insert" => pending[s].ptr \in Slots
    BY NodeSlot DEF TypeInv, TypeOK
  <2>8. \A t \in Slots : sp[t] \notin {NULL, Main} => sp'[t] \notin {NULL, Main}
    BY <2>1, <2>3, <2>7
  <2>9. sp'[i] \notin {NULL, Main} /\ pending'[psp].ptr = i
    BY <1>t, <2>1, <2>3, <2>7
  <2>10. ASSUME NEW s \in Stacks, pc'[s] = "insert"
         PROVE  /\ pending'[s].ptr \notin {Main, Idle}
                /\ sp'[pending'[s].ptr] \notin {NULL, Main}
    <3>1. CASE s = psp
      BY <2>2, <2>9, <3>1
    <3>2. CASE s # psp
      BY <1>t, <2>1, <2>6, <2>7, <2>8, <2>10, <3>2 DEF AliveInv
    <3> QED
      BY <3>1, <3>2
  <2>11. sp'[Idle] = Idle /\ \A t \in Slots \ {Idle} : sp'[t] # Idle
    BY <2>1, <2>2, <2>3, <2>7 DEF AliveInv
  <2>12. \A t \in Slots : Listed(t)' <=> Listed(t)
    BY <2>5 DEF Listed
  <2> QED
    BY <2>4, <2>5, <2>8, <2>10, <2>11, <2>12 DEF AliveInv
<1>2. CASE os_add_thread_insert
  <2>1. pending[psp] \in PriorityQueueNaiveNode /\ pc[psp] = "insert"
    BY <1>t, <1>2 DEF os_add_thread_insert, TypeInv
  <2>2. pending[psp].ptr \in Slots \ {Main, Idle} /\ sp[pending[psp].ptr] \notin {NULL, Main}
    BY <1>t, <2>1, NodeSlot DEF AliveInv
  <2>3. \A t \in Slots : Listed(t)' <=> Listed(t) \/ t = pending[psp].ptr
    BY <1>2, <1>t, <2>1, InsertLists DEF os_add_thread_insert, KernelTypeOK
  <2>4. \A s \in Stacks : pc'[s] = "insert" => pc[s] = "insert" /\ pending'[s] = pending[s]
    BY <1>2, <1>t DEF os_add_thread_insert, Goto, TypeInv, TypeOK
  <2>5. /\ UNCHANGED <<system_threads, current_thread, sp, psp>>
        /\ Idle \notin handles'
    BY <1>2, <1>t, <2>2 DEF os_add_thread_insert, stackVars
  <2> QED
    BY <2>2, <2>3, <2>4, <2>5 DEF AliveInv, flags
<1>3. CASE os_add_thread_full
  <2>1. Idle \notin handles'
    BY <1>3, <1>t DEF os_add_thread_full, Idle
  <2> QED
    BY <1>3, <1>t, <2>1, AliveFrame
       DEF os_add_thread_full, kernelVars, stackVars, flags
<1>i. Targets \subseteq Slots \ {Idle}
  BY <1>t DEF Targets, current_thread_id, Main, Idle
<1>f. {"RUNNING", "SUSPENDED", "ENDED", "SLEEPING"} \subseteq thread_state_t
  BY DEF thread_state_t
<1>4. CASE os_suspend_thread
  BY <1>4, <1>0, <1>i, <1>f, <1>t, AliveFrame DEF os_suspend_thread, stackVars, codeVars
<1>5. CASE os_resume_thread
  BY <1>5, <1>0, <1>i, <1>f, <1>t, AliveFrame DEF os_resume_thread, stackVars, codeVars
<1>6. CASE os_kill_thread
  BY <1>6, <1>0, <1>i, <1>f, <1>t, AliveFrame DEF os_kill_thread, stackVars, codeVars
<1>7. CASE os_kill_self_thread
  <2>1. current_thread_id \in Slots \ {Idle}
    BY DEF current_thread_id, Main, Idle
  <2> QED
    BY <1>7, <2>1, <1>0, <1>f, <1>t, AliveFrame DEF os_kill_self_thread, stackVars, Goto
<1>8. CASE os_del_process
  <2>1. flags(Idle)' = "RUNNING"
    BY <1>8, <1>t DEF os_del_process, current_thread_id, flags, Idle
  <2> QED
    BY <1>8, <2>1, <1>t, AliveFrame DEF os_del_process, stackVars, codeVars
<1>9. CASE os_thread_sleep_ms
  <2>1. current_thread # Idle
    BY <1>9 DEF os_thread_sleep_ms, Calling, AliveInv
  <2>2. flags(Idle)' = "RUNNING"
    BY <1>9, <1>t, <2>1, SleepUpdate DEF os_thread_sleep_ms, flags
  <2> QED
    BY <1>9, <2>2, <1>t, AliveFrame DEF os_thread_sleep_ms, stackVars, Goto
<1>10. CASE os_yield
  BY <1>10, <1>t, AliveSwitchFrame DEF os_yield, codeVars
<1>11. CASE os_yield_in_call
  BY <1>11, <1>t, AliveSwitchFrame DEF os_yield_in_call, Goto
<1>12. CASE idle_thread_handler
  BY <1>12, <1>t, AliveSwitchFrame DEF idle_thread_handler, codeVars
<1>13. CASE context_switch_pit_isr
  BY <1>13, <1>t, AliveSwitchFrame DEF context_switch_pit_isr, codeVars
<1>14. CASE systick
  <2>1. flags(Idle)' = "RUNNING"
    BY <1>14, <1>t, TickType DEF systick
  <2> QED
    BY <1>14, <1>t, <2>1, AliveFrame DEF systick, Tick, stackVars, codeVars
<1>15. CASE os_stop
  BY <1>15, <1>t, AliveFrame DEF os_stop, stackVars, flags
<1>16. CASE os_start
  BY <1>16, <1>t, AliveFrame DEF os_start, stackVars, flags
<1>17. CASE UNCHANGED vars
  BY <1>17, <1>t, AliveFrame DEF vars, kernelVars, stackVars, codeVars, flags
<1> QED
  BY <1>1, <1>2, <1>3, <1>4, <1>5, <1>6, <1>7, <1>8, <1>9, <1>10, <1>11,
     <1>12, <1>13, <1>14, <1>15, <1>16, <1>17 DEF Next

(* The walk of the list in os_get_next_thread, which has no termination    *)
(* code, always ends at a ready thread.                                    *)
THEOREM SchedulerAlwaysFindsThread == Spec => []SchedulerFindsThread
<1>1. Init => TypeInv /\ AliveInv
  BY TypeInit, AliveInit
<1>2. TypeInv /\ AliveInv /\ [Next]_vars => (TypeInv /\ AliveInv)'
  BY TypeStep, AliveStep
<1>3. AliveInv => SchedulerFindsThread
  BY DEF AliveInv, SchedulerFindsThread
<1> QED
  BY <1>1, <1>2, <1>3, PTL DEF Spec

-----------------------------------------------------------------------------
(* A section between os_stop() and os_start() excludes all other threads:  *)
(* a stopped kernel ignores yields and timer interrupts, and no kernel     *)
(* call made inside the section starts it.                                 *)
LEMMA ExclusiveStep == ExclusiveWhileStopped /\ [Next]_vars => ExclusiveWhileStopped'
<1> SUFFICES ASSUME ExclusiveWhileStopped, [Next]_vars PROVE ExclusiveWhileStopped'
  OBVIOUS
<1> USE DEF ExclusiveWhileStopped
<1>1. CASE os_add_thread
  BY <1>1 DEF os_add_thread, Restored
<1>2. CASE os_add_thread_insert \/ os_add_thread_full
  BY <1>2 DEF os_add_thread_insert, os_add_thread_full, kernelVars, stackVars
<1>3. CASE os_suspend_thread \/ os_resume_thread \/ os_kill_thread
  BY <1>3 DEF os_suspend_thread, os_resume_thread, os_kill_thread, stackVars, codeVars
<1>4. CASE os_kill_self_thread \/ os_del_process \/ os_thread_sleep_ms
  BY <1>4 DEF os_kill_self_thread, os_del_process, os_thread_sleep_ms, stackVars, codeVars
<1>5. CASE os_yield \/ os_yield_in_call
  BY <1>5 DEF os_yield, os_yield_in_call, ContextSwitch, SwitchStacks, codeVars
<1>6. CASE idle_thread_handler \/ context_switch_pit_isr
  BY <1>6 DEF idle_thread_handler, context_switch_pit_isr, ContextSwitch,
              TimerSwitch, SwitchStacks, codeVars
<1>7. CASE systick
  BY <1>7 DEF systick, Tick, stackVars, codeVars
<1>8. CASE os_stop \/ os_start
  BY <1>8 DEF os_stop, os_start, stackVars
<1>9. CASE UNCHANGED vars
  BY <1>9 DEF vars, kernelVars, stackVars, codeVars
<1> QED
  BY <1>1, <1>2, <1>3, <1>4, <1>5, <1>6, <1>7, <1>8, <1>9 DEF Next

(* No other thread runs between a thread's os_stop() and its os_start().   *)
THEOREM StoppedSectionsExclude == Spec => []ExclusiveWhileStopped
<1>1. Init => ExclusiveWhileStopped
  BY DEF Init, ExclusiveWhileStopped
<1> QED
  BY <1>1, ExclusiveStep, PTL DEF Spec

-----------------------------------------------------------------------------
(* Only the tail of os_add_thread changes the scheduler's list.            *)
LEMMA ListChanges ==
  ASSUME [Next]_vars
  PROVE  os_add_thread_insert \/ UNCHANGED thread_priorities
<1>1. CASE os_add_thread \/ os_add_thread_full
  BY <1>1 DEF os_add_thread, os_add_thread_full, kernelVars
<1>2. CASE os_suspend_thread \/ os_resume_thread \/ os_kill_thread
  BY <1>2 DEF os_suspend_thread, os_resume_thread, os_kill_thread
<1>3. CASE os_kill_self_thread \/ os_del_process \/ os_thread_sleep_ms
  BY <1>3 DEF os_kill_self_thread, os_del_process, os_thread_sleep_ms
<1>4. CASE os_yield \/ os_yield_in_call
  BY <1>4 DEF os_yield, os_yield_in_call, ContextSwitch
<1>5. CASE idle_thread_handler \/ context_switch_pit_isr
  BY <1>5 DEF idle_thread_handler, context_switch_pit_isr, ContextSwitch, TimerSwitch
<1>6. CASE systick \/ os_stop \/ os_start \/ UNCHANGED vars
  BY <1>6 DEF systick, Tick, os_stop, os_start, vars, kernelVars
<1> QED
  BY <1>1, <1>2, <1>3, <1>4, <1>5, <1>6 DEF Next

(* Every action keeps the list in order of priority.                       *)
LEMMA SortedStep == TypeInv /\ PrioritiesSorted /\ [Next]_vars => PrioritiesSorted'
<1> SUFFICES ASSUME TypeInv, PrioritiesSorted, [Next]_vars PROVE PrioritiesSorted'
  OBVIOUS
<1>1. CASE UNCHANGED thread_priorities
  BY <1>1 DEF PrioritiesSorted
<1>2. CASE os_add_thread_insert
  <2>1. /\ thread_priorities \in Seq(PriorityQueueNaiveNode)
        /\ pending[psp] \in PriorityQueueNaiveNode
        /\ InsertNode(pending[psp])
    BY <1>2 DEF os_add_thread_insert, TypeInv, TypeOK, KernelTypeOK
  <2>2. DOMAIN thread_priorities = 1 .. Len(thread_priorities)
    BY <2>1, LenProperties
  <2>3. DOMAIN thread_priorities' = 1 .. Len(thread_priorities')
    BY <2>1, InsertNodeKeeps, LenProperties
  <2> QED
    BY <2>1, <2>2, <2>3, InsertNodeSorted DEF PrioritiesSorted
<1> QED
  BY <1>1, <1>2, ListChanges

(* The scheduler's list is always in order of priority.                    *)
THEOREM ListAlwaysSorted == Spec => []PrioritiesSorted
<1>1. Init => TypeInv /\ PrioritiesSorted
  <2>1. Init => PrioritiesSorted
    BY DEF Init, KernelInit, PrioritiesSorted
  <2> QED
    BY <2>1, TypeInit
<1>2. TypeInv /\ PrioritiesSorted /\ [Next]_vars => (TypeInv /\ PrioritiesSorted)'
  BY TypeStep, SortedStep
<1> QED
  BY <1>1, <1>2, PTL DEF Spec

-----------------------------------------------------------------------------
(* Without the timer interrupt no thread is lost to the scheduler: the     *)
(* only stack that can have a node to insert is the one that runs.         *)
ListedInv ==
  /\ current_thread = Main \/ Listed(current_thread)
  /\ \A h \in handles : h = -1 \/ Listed(h)
  /\ \A s \in Stacks : s = Idle \/ s # psp => pc[s] # "insert"
  /\ EveryLiveThreadListed

(* Every action of a cooperative kernel keeps the live threads listed.     *)
LEMMA ListedStep ==
  ASSUME ~Preemptive
  PROVE  TypeInv /\ AliveInv /\ ListedInv /\ [Next]_vars => ListedInv'
<1> SUFFICES ASSUME TypeInv, AliveInv, ListedInv, [Next]_vars PROVE ListedInv'
  OBVIOUS
<1> USE SlotFacts
<1>t. /\ KernelTypeOK /\ system_threads \in [Slots -> thread_t]
      /\ current_thread \in Slots /\ handles \subseteq Slots \cup {-1}
      /\ psp \in Stacks /\ pc \in [Stacks -> {"user", "yield", "insert"}]
      /\ pending \in [Stacks -> PriorityQueueNaiveNode \cup {NULL}]
  BY DEF TypeInv, TypeOK, KernelTypeOK, AliveInv
<1>f. {"RUNNING", "SUSPENDED", "ENDED", "SLEEPING"} \subseteq thread_state_t
  BY DEF thread_state_t
<1>l. UNCHANGED thread_priorities => \A t : Listed(t)' <=> Listed(t)
  BY DEF Listed
<1>1. ASSUME NEW t \in Slots, t = Main \/ Listed(t),
             \A u \in Slots : u # t => flags(u)' = flags(u),
             UNCHANGED <<thread_priorities, current_thread, psp, handles, pending>>,
             pc[psp] = "user", pc'[psp] # "insert",
             \A s \in Stacks : s # psp => pc'[s] = pc[s]
      PROVE  ListedInv'
  BY <1>t, <1>l, <1>1 DEF ListedInv, EveryLiveThreadListed, BeingInserted, Live, Main
<1>2. CASE os_add_thread
  <2>1. PICK i \in Slots, priority \in 0 .. MAX_PRIORITY :
          /\ FirstFreeSlot(i)
          /\ system_threads' = [system_threads EXCEPT ![i] = AddedSlot(@, priority)]
          /\ pending' = [pending EXCEPT ![psp] = [ptr |-> i, priority |-> priority]]
    BY <1>2 DEF os_add_thread
  <2>2. /\ psp # Idle /\ pc[psp] = "user" /\ pc' = [pc EXCEPT ![psp] = "insert"]
        /\ UNCHANGED <<thread_priorities, current_thread, psp, handles>>
    BY <1>2 DEF os_add_thread, Calling, Goto
  <2>3. \A t \in Slots : t # i => flags(t)' = flags(t)
    BY <1>t, <2>1 DEF flags
  <2>4. BeingInserted(i)'
    BY <1>t, <2>1, <2>2 DEF BeingInserted
  <2>5. EveryLiveThreadListed'
    BY <1>t, <1>l, <2>2, <2>3, <2>4
       DEF ListedInv, EveryLiveThreadListed, BeingInserted, Live
  <2> QED
    BY <1>t, <1>l, <2>2, <2>5 DEF ListedInv
<1>3. CASE os_add_thread_insert
  <2>1. pending[psp] \in PriorityQueueNaiveNode /\ pending[psp].ptr \in Slots
    BY <1>t, <1>3, NodeSlot DEF os_add_thread_insert, TypeInv
  <2>2. \A t \in Slots : Listed(t)' <=> Listed(t) \/ t = pending[psp].ptr
    BY <1>3, <1>t, <2>1, InsertLists DEF os_add_thread_insert, KernelTypeOK
  <2>3. /\ pc' = [pc EXCEPT ![psp] = "user"]
        /\ UNCHANGED <<system_threads, current_thread, psp>>
        /\ handles' = handles \cup {pending[psp].ptr}
    BY <1>3 DEF os_add_thread_insert, Goto, stackVars
  <2> QED
    BY <1>t, <2>1, <2>2, <2>3
       DEF ListedInv, EveryLiveThreadListed, BeingInserted, Live, flags
<1>4. CASE os_add_thread_full \/ os_stop \/ os_start
  <2>1. /\ UNCHANGED <<system_threads, thread_priorities, current_thread, psp, pc, pending>>
        /\ handles' \subseteq handles \cup {-1}
    BY <1>4 DEF os_add_thread_full, os_stop, os_start, kernelVars, stackVars
  <2> QED
    BY <1>l, <2>1 DEF ListedInv, EveryLiveThreadListed, BeingInserted, Live, flags
<1>5. CASE os_suspend_thread \/ os_resume_thread \/ os_kill_thread
  <2>1. PICK t \in Targets, f \in thread_state_t : SetFlags(t, f)
    BY <1>5, <1>f DEF os_suspend_thread, os_resume_thread, os_kill_thread
  <2>2. t \in Slots /\ (t = Main \/ Listed(t))
    BY <1>t, <2>1 DEF Targets, current_thread_id, Main, ListedInv, Slots
  <2>3. \A u \in Slots : u # t => flags(u)' = flags(u)
    BY <1>t, <2>1, <2>2, SetFlagsType DEF flags
  <2>4. /\ UNCHANGED <<thread_priorities, current_thread, psp, handles, pending, pc>>
        /\ pc[psp] = "user"
    BY <1>5 DEF os_suspend_thread, os_resume_thread, os_kill_thread, stackVars,
                codeVars, Calling
  <2> QED
    BY <1>1, <2>2, <2>3, <2>4
<1>6. CASE os_kill_self_thread
  <2>1. \A u \in Slots : u # Main => flags(u)' = flags(u)
    BY <1>t, <1>6, <1>f, SetFlagsType
      DEF os_kill_self_thread, current_thread_id, Main, flags
  <2>2. /\ UNCHANGED <<thread_priorities, current_thread, psp, handles, pending>>
        /\ pc[psp] = "user" /\ pc' = [pc EXCEPT ![psp] = "yield"]
    BY <1>6 DEF os_kill_self_thread, stackVars, Calling, Goto
  <2> QED
    BY <1>1, <1>t, <2>1, <2>2
<1>7. CASE os_del_process
  <2>1. \A u \in Slots : u # Main => flags(u)' = flags(u)
    BY <1>t, <1>7 DEF os_del_process, current_thread_id, Main, flags
  <2>2. /\ UNCHANGED <<thread_priorities, current_thread, psp, handles, pending, pc>>
        /\ pc[psp] = "user"
    BY <1>7 DEF os_del_process, stackVars, codeVars, Calling
  <2> QED
    BY <1>1, <2>1, <2>2
<1>8. CASE os_thread_sleep_ms
  <2>1. \A u \in Slots : u # current_thread => flags(u)' = flags(u)
    BY <1>8, <1>t, SleepUpdate DEF os_thread_sleep_ms, flags
  <2>2. /\ UNCHANGED <<thread_priorities, current_thread, psp, handles, pending>>
        /\ pc[psp] = "user" /\ pc' = [pc EXCEPT ![psp] = "yield"]
    BY <1>8 DEF os_thread_sleep_ms, stackVars, Calling, Goto
  <2> QED
    BY <1>1, <1>t, <2>1, <2>2 DEF ListedInv
<1>9. ASSUME ContextSwitch, SwitchStacks, UNCHANGED <<handles, pending>>,
             pc[psp] # "insert",
             \A s \in Stacks : pc'[s] = "insert" => pc[s] = "insert"
      PROVE  ListedInv'
  <2>1. UNCHANGED thread_priorities /\ \A t : Listed(t)' <=> Listed(t)
    BY <1>9, <1>l DEF ContextSwitch
  <2>2. \A s \in Stacks : pc'[s] # "insert"
    BY <1>9 DEF ListedInv
  <2>3. \A t \in Slots \ {0} : Live(t) => Listed(t)
    BY <1>9 DEF ListedInv, EveryLiveThreadListed, BeingInserted
  <2>4. /\ current_thread' = Main \/ Listed(current_thread')
        /\ \A t \in Slots : flags(t)' = flags(t) \/ Listed(t)
    <3>1. CASE UNCHANGED <<current_thread, system_threads>>
      BY <3>1 DEF ListedInv, flags
    <3>2. CASE os_get_next_thread
      <4>1. current_thread' # NULL
        BY <1>9, SwitchAlive
      <4> QED
        BY <1>t, <3>2, <4>1, Schedule DEF Listed, flags
    <3> QED
      BY <1>9, <3>1, <3>2 DEF ContextSwitch
  <2>5. EveryLiveThreadListed'
    BY <2>1, <2>3, <2>4 DEF EveryLiveThreadListed, Live
  <2> QED
    BY <1>9, <2>1, <2>2, <2>4, <2>5 DEF ListedInv
<1>10. CASE os_yield \/ os_yield_in_call
  BY <1>9, <1>10, <1>t DEF os_yield, os_yield_in_call, codeVars, Calling, Goto
<1>11. CASE idle_thread_handler
  BY <1>9, <1>11, <1>t DEF idle_thread_handler, codeVars, ListedInv
<1>12. CASE context_switch_pit_isr
  BY <1>12 DEF context_switch_pit_isr, TimerSwitch
<1>13. CASE systick
  <2>1. /\ \A t \in Slots : flags(t)' = flags(t)
        /\ UNCHANGED <<thread_priorities, current_thread, psp, pc, pending, handles>>
    BY <1>13, <1>t, TickType DEF systick, Tick, stackVars, codeVars
  <2> QED
    BY <1>l, <2>1 DEF ListedInv, EveryLiveThreadListed, BeingInserted, Live
<1>14. CASE UNCHANGED vars
  BY <1>14, <1>l DEF vars, kernelVars, stackVars, codeVars, ListedInv,
                     EveryLiveThreadListed, BeingInserted, Live, flags
<1> QED
  BY <1>2, <1>3, <1>4, <1>5, <1>6, <1>7, <1>8, <1>10, <1>11, <1>12, <1>13, <1>14 DEF Next

(* A cooperative kernel loses no thread: every live slot has a node in the *)
(* scheduler's list, or the running os_add_thread is about to insert it.   *)
THEOREM NoThreadLost ==
  ASSUME ~Preemptive
  PROVE  Spec => []EveryLiveThreadListed
<1>1. Init => TypeInv /\ AliveInv /\ ListedInv
  <2>1. Init => ListedInv
    BY SlotFacts DEF Init, KernelInit, ListedInv, EveryLiveThreadListed, Live, flags,
                     Listed, EmptySlot, AddedSlot, Main, Idle
  <2> QED
    BY <2>1, TypeInit, AliveInit
<1>2. TypeInv /\ AliveInv /\ ListedInv /\ [Next]_vars
        => (TypeInv /\ AliveInv /\ ListedInv)'
  BY TypeStep, AliveStep, ListedStep
<1>3. ListedInv => EveryLiveThreadListed
  BY DEF ListedInv
<1> QED
  BY <1>1, <1>2, <1>3, PTL DEF Spec

-----------------------------------------------------------------------------
(* If no thread kills itself through its own id, no slot is filled while   *)
(* the code on its old stack runs, and the saved stack pointers stay in    *)
(* the stacks of their slots.                                              *)
StackInv ==
  /\ SpInOwnStack
  /\ current_thread = Main \/ ~FreeSlot(current_thread)
  /\ stack[Main] = Main
  /\ \A t \in Slots \ {Main} : stack[t] # Main

(* Every action keeps the stacks apart, if no thread is killed through its *)
(* own id.                                                                 *)
LEMMA StackStep ==
  ASSUME "kill_own" \notin Calls
  PROVE  TypeInv /\ AliveInv /\ StackInv /\ [Next]_vars => StackInv'
<1> SUFFICES ASSUME TypeInv, AliveInv, StackInv, [Next]_vars PROVE StackInv'
  OBVIOUS
<1> USE SlotFacts
<1>t. /\ KernelTypeOK /\ system_threads \in [Slots -> thread_t]
      /\ current_thread \in Slots /\ psp \in Stacks
      /\ stack \in [Slots -> Stacks \cup {NULL}]
      /\ sp \in [Slots -> Stacks \cup {NULL}]
  BY DEF TypeInv, TypeOK, KernelTypeOK, AliveInv
<1>f. {"RUNNING", "SUSPENDED", "ENDED", "SLEEPING"} \subseteq thread_state_t
  BY DEF thread_state_t
<1>1. ASSUME UNCHANGED <<current_thread, stack, sp, psp>>,
             current_thread # Main => ~FreeSlot(current_thread)'
      PROVE  StackInv'
  BY <1>1 DEF StackInv, SpInOwnStack
<1>2. CASE os_add_thread
  <2>1. PICK i \in Slots, priority \in 0 .. MAX_PRIORITY :
          /\ FirstFreeSlot(i)
          /\ system_threads' = [system_threads EXCEPT ![i] = AddedSlot(@, priority)]
          /\ stack' = [stack EXCEPT ![i] = next_stack]
          /\ sp' = [sp EXCEPT ![i] = next_stack]
    BY <1>2 DEF os_add_thread
  <2>2. i # Main /\ i # current_thread
    BY <2>1 DEF FirstFreeSlot, StackInv, Main
  <2>3. next_stack \in Stacks \ {Main}
    BY <1>2, StacksAssumption DEF os_add_thread, TypeInv, TypeOK, Stacks, Main
  <2>4. UNCHANGED <<current_thread, psp>>
    BY <1>2 DEF os_add_thread
  <2>5. FreeSlot(current_thread)' = FreeSlot(current_thread)
    BY <1>t, <2>1, <2>2, <2>4 DEF FreeSlot, flags
  <2>6. SpInOwnStack'
    BY <1>t, <2>1, <2>2, <2>4 DEF StackInv, SpInOwnStack
  <2> QED
    BY <1>t, <2>1, <2>2, <2>3, <2>4, <2>5, <2>6 DEF StackInv
<1>3. CASE os_add_thread_insert \/ os_add_thread_full \/ os_stop \/ os_start \/ UNCHANGED vars
  <2>1. UNCHANGED <<system_threads, current_thread, stack, sp, psp>>
    BY <1>3 DEF os_add_thread_insert, os_add_thread_full, os_stop, os_start, vars,
                kernelVars, stackVars
  <2> QED
    BY <1>1, <2>1 DEF StackInv, FreeSlot, flags
<1>4. CASE os_suspend_thread \/ os_resume_thread
  <2>1. PICK t \in Targets, f \in {"SUSPENDED", "RUNNING"} : SetFlags(t, f)
    BY <1>4 DEF os_suspend_thread, os_resume_thread
  <2>2. t \in Slots
    BY <2>1 DEF Targets, current_thread_id, Main
  <2>3. \A u \in Slots : flags(u)' = flags(u) \/ flags(u)' \in {"SUSPENDED", "RUNNING"}
    BY <1>t, <1>f, <2>1, <2>2, SetFlagsType DEF flags
  <2>4. UNCHANGED <<current_thread, stack, sp, psp>>
    BY <1>4 DEF os_suspend_thread, os_resume_thread, stackVars
  <2> QED
    BY <1>1, <1>t, <2>3, <2>4 DEF StackInv, FreeSlot
<1>5. CASE os_kill_thread
  <2>1. PICK t \in Targets : t # current_thread /\ SetFlags(t, "ENDED")
    BY <1>5 DEF os_kill_thread
  <2>2. t \in Slots
    BY <2>1 DEF Targets, current_thread_id, Main
  <2>3. UNCHANGED <<current_thread, stack, sp, psp>>
    BY <1>5 DEF os_kill_thread, stackVars
  <2>4. flags(current_thread)' = flags(current_thread)
    BY <1>t, <1>f, <2>1, <2>2, <2>3, SetFlagsType DEF flags
  <2> QED
    BY <1>1, <2>3, <2>4 DEF StackInv, FreeSlot
<1>6. CASE os_kill_self_thread
  <2>1. UNCHANGED <<current_thread, stack, sp, psp>>
    BY <1>6 DEF os_kill_self_thread, stackVars
  <2>2. current_thread # Main => flags(current_thread)' = flags(current_thread)
    BY <1>t, <1>f, <1>6, <2>1, SetFlagsType
       DEF os_kill_self_thread, current_thread_id, Main, flags
  <2> QED
    BY <1>1, <2>1, <2>2 DEF StackInv, FreeSlot
<1>7. CASE os_del_process
  <2>1. UNCHANGED <<current_thread, stack, sp, psp>>
    BY <1>7 DEF os_del_process, stackVars
  <2>2. current_thread # Main => flags(current_thread)' = flags(current_thread)
    BY <1>t, <1>7, <2>1 DEF os_del_process, current_thread_id, Main, flags
  <2> QED
    BY <1>1, <2>1, <2>2 DEF StackInv, FreeSlot
<1>8. CASE os_thread_sleep_ms
  <2>1. UNCHANGED <<current_thread, stack, sp, psp>>
    BY <1>8 DEF os_thread_sleep_ms, stackVars
  <2>2. flags(current_thread)' = "SLEEPING"
    BY <1>8, <1>t, <2>1, SleepUpdate DEF os_thread_sleep_ms, flags
  <2> QED
    BY <1>1, <2>1, <2>2 DEF FreeSlot
<1>9. ASSUME ContextSwitch \/ TimerSwitch, SwitchStacks, UNCHANGED stack
      PROVE  StackInv'
  <2>1. CASE current_active_state # "STARTED"
    BY <1>9, <2>1 DEF ContextSwitch, TimerSwitch, SwitchStacks, StackInv,
                      SpInOwnStack, FreeSlot, flags
  <2>2. CASE current_active_state = "STARTED"
    <3>1. os_get_next_thread /\ current_thread' # NULL
      BY <1>9, <2>2, SwitchAlive DEF ContextSwitch, TimerSwitch
    <3>2. /\ current_thread' \in Slots /\ Listed(current_thread')
          /\ flags(current_thread)' = "RUNNING"
      BY <1>t, <3>1, Schedule DEF Listed
    <3>3. /\ sp' = [sp EXCEPT ![current_thread] = IF psp = Main THEN NULL ELSE psp]
          /\ psp' = sp'[current_thread']
      BY <1>9, <2>2, <3>1 DEF SwitchStacks
    <3>4. current_thread' # Main
      BY <3>2 DEF AliveInv
    <3>5. \A t \in Slots \ {Main} : sp'[t] = stack[t]
      BY <1>t, <3>3 DEF StackInv, SpInOwnStack, AliveInv, Main
    <3>6. SpInOwnStack'
      BY <1>9, <3>2, <3>3, <3>4, <3>5 DEF SpInOwnStack, Main
    <3> QED
      BY <1>9, <3>2, <3>6 DEF StackInv, FreeSlot
  <2> QED
    BY <2>1, <2>2
<1>10. CASE os_yield \/ os_yield_in_call \/ idle_thread_handler \/ context_switch_pit_isr
  BY <1>9, <1>10
    DEF os_yield, os_yield_in_call, idle_thread_handler, context_switch_pit_isr
<1>11. CASE systick
  <2>1. /\ \A t \in Slots : flags(t)' = flags(t)
        /\ UNCHANGED <<current_thread, stack, sp, psp>>
    BY <1>11, <1>t, TickType DEF systick, Tick, stackVars
  <2> QED
    BY <1>1, <1>t, <2>1 DEF StackInv, FreeSlot
<1> QED
  BY <1>2, <1>3, <1>4, <1>5, <1>6, <1>7, <1>8, <1>10, <1>11 DEF Next

(* Threads always resume on their own stacks, if none is killed through    *)
(* its own id while it runs.                                               *)
THEOREM StacksNeverMixed ==
  ASSUME "kill_own" \notin Calls
  PROVE  Spec => []SpInOwnStack
<1>1. Init => TypeInv /\ AliveInv /\ StackInv
  <2>1. Init => StackInv
    BY SlotFacts DEF Init, KernelInit, StackInv, SpInOwnStack, Main, Idle
  <2> QED
    BY <2>1, TypeInit, AliveInit
<1>2. TypeInv /\ AliveInv /\ StackInv /\ [Next]_vars
        => (TypeInv /\ AliveInv /\ StackInv)'
  BY TypeStep, AliveStep, StackStep
<1>3. StackInv => SpInOwnStack
  BY DEF StackInv
<1> QED
  BY <1>1, <1>2, <1>3, PTL DEF Spec

-----------------------------------------------------------------------------
(* As long as no thread is killed from outside no node outlives its        *)
(* thread: os_kill_self_thread and a return end slot 0, which has no node. *)
NodeTrue(node) ==
  /\ node.ptr # Main /\ ~FreeSlot(node.ptr)
  /\ node.priority = system_threads[node.ptr].thread_priority

NodesInv ==
  /\ \A i \in DOMAIN thread_priorities : NodeTrue(thread_priorities[i])
  /\ \A s \in Stacks : pc[s] = "insert" => NodeTrue(pending[s])

(* What a step must not do to a slot that is in use.                       *)
UsedSlotsKept ==
  \A t \in Slots \ {Main} :
    ~FreeSlot(t) => /\ ~FreeSlot(t)'
                    /\ system_threads'[t].thread_priority = system_threads[t].thread_priority

(* Setting the flags of a slot frees it only with "ENDED" or "EMPTY".      *)
LEMMA SetFlagsKeepsSlots ==
  ASSUME KernelTypeOK, NEW t \in Slots, NEW f \in thread_state_t,
         t = Main \/ f \notin {"ENDED", "EMPTY"},
         \/ SetFlags(t, f)
         \/ system_threads' = [system_threads EXCEPT ![t].flags = f]
  PROVE  UsedSlotsKept
<1>1. system_threads \in [Slots -> thread_t]
  BY DEF KernelTypeOK
<1>2. CASE UNCHANGED system_threads
  BY <1>2 DEF UsedSlotsKept, FreeSlot, flags
<1>3. CASE system_threads' = [system_threads EXCEPT ![t].flags = f]
  BY <1>1, <1>3, FlagsUpdate DEF UsedSlotsKept, FreeSlot, flags
<1> QED
  BY <1>2, <1>3 DEF SetFlags

(* The scheduler wakes a thread and changes nothing else.                  *)
LEMMA ScheduleKeepsSlots ==
  ASSUME KernelTypeOK, os_get_next_thread
  PROVE  UsedSlotsKept
<1>1. CASE UNCHANGED system_threads
  BY <1>1 DEF UsedSlotsKept, FreeSlot, flags
<1>2. ASSUME NEW i \in DOMAIN thread_priorities,
             system_threads' =
               [system_threads EXCEPT ![thread_priorities[i].ptr].flags = "RUNNING"]
      PROVE  UsedSlotsKept
  <2>1. thread_priorities[i].ptr \in Slots
    BY <1>2, NodeAt DEF KernelTypeOK
  <2>2. "RUNNING" \in thread_state_t
    BY DEF thread_state_t
  <2> QED
    BY <1>2, <2>1, <2>2, SetFlagsKeepsSlots
<1> QED
  BY <1>1, <1>2 DEF os_get_next_thread

(* Sleeping and the clock leave every slot its thread and its priority.    *)
LEMMA TimeKeepsSlots ==
  ASSUME KernelTypeOK,
         \/ Tick
         \/ \E t \in Slots, n \in 0 .. MAX_INTERVAL : PrepareSleep(t, n)
  PROVE  UsedSlotsKept
<1>1. system_threads \in [Slots -> thread_t]
  BY DEF KernelTypeOK
<1>2. CASE Tick
  <2>1. \A t \in Slots : system_threads'[t].thread_priority = system_threads[t].thread_priority
    BY <1>1, <1>2 DEF Tick, thread_t
  <2> QED
    BY <1>2, <2>1, TickType DEF UsedSlotsKept, FreeSlot
<1>3. ASSUME NEW t \in Slots, NEW n \in 0 .. MAX_INTERVAL, PrepareSleep(t, n)
      PROVE  UsedSlotsKept
  <2>1. /\ flags(t)' = "SLEEPING"
        /\ \A u \in Slots \ {t} : system_threads'[u] = system_threads[u]
    BY <1>3, SleepUpdate
  <2>2. system_threads'[t].thread_priority = system_threads[t].thread_priority
    BY <1>1, <1>3 DEF PrepareSleep, thread_t
  <2> QED
    BY <2>1, <2>2 DEF UsedSlotsKept, FreeSlot, flags
<1> QED
  BY <1>2, <1>3

(* Nodes stay true while the slots in use are kept and no node is new.     *)
LEMMA NodesKept ==
  ASSUME TypeInv, NodesInv, UsedSlotsKept, UNCHANGED <<thread_priorities, pending>>,
         \A s \in Stacks : pc'[s] = "insert" => pc[s] = "insert"
  PROVE  NodesInv'
<1>1. ASSUME NEW node \in PriorityQueueNaiveNode, NodeTrue(node)
      PROVE  /\ node.ptr # Main /\ ~FreeSlot(node.ptr)'
             /\ node.priority = system_threads'[node.ptr].thread_priority
  BY <1>1, NodeSlot DEF NodeTrue, UsedSlotsKept
<1>2. ASSUME NEW i \in DOMAIN thread_priorities
      PROVE  NodeTrue(thread_priorities[i])'
  <2>1. thread_priorities[i] \in PriorityQueueNaiveNode
    BY NodeAt DEF TypeInv, TypeOK, KernelTypeOK
  <2> QED
    BY <1>1, <2>1 DEF NodesInv, NodeTrue
<1>3. ASSUME NEW s \in Stacks, pc'[s] = "insert"
      PROVE  NodeTrue(pending[s])'
  <2>1. pending[s] \in PriorityQueueNaiveNode /\ NodeTrue(pending[s])
    BY <1>3 DEF TypeInv, NodesInv
  <2> QED
    BY <1>1, <2>1 DEF NodeTrue
<1> QED
  BY <1>2, <1>3 DEF NodesInv

(* Every action keeps the nodes true, if no thread is killed from outside. *)
LEMMA NodesStep ==
  ASSUME "kill" \notin Calls
  PROVE  TypeInv /\ NodesInv /\ [Next]_vars => NodesInv'
<1> SUFFICES ASSUME TypeInv, NodesInv, [Next]_vars PROVE NodesInv'
  OBVIOUS
<1> USE SlotFacts
<1>t. /\ KernelTypeOK /\ system_threads \in [Slots -> thread_t]
      /\ thread_priorities \in Seq(PriorityQueueNaiveNode)
      /\ pending \in [Stacks -> PriorityQueueNaiveNode \cup {NULL}]
      /\ handles \subseteq Slots \cup {-1}
      /\ pc \in [Stacks -> {"user", "yield", "insert"}]
  BY DEF TypeInv, TypeOK, KernelTypeOK
<1>f. {"RUNNING", "SUSPENDED", "ENDED", "SLEEPING"} \subseteq thread_state_t
  BY DEF thread_state_t
<1>1. CASE os_add_thread
  <2>1. PICK i \in Slots, priority \in 0 .. MAX_PRIORITY :
          /\ FirstFreeSlot(i)
          /\ system_threads' = [system_threads EXCEPT ![i] = AddedSlot(@, priority)]
          /\ pending' = [pending EXCEPT ![psp] = [ptr |-> i, priority |-> priority]]
    BY <1>1 DEF os_add_thread
  <2>2. UNCHANGED thread_priorities /\ i # Main /\ FreeSlot(i)
    BY <1>1, <2>1 DEF os_add_thread, FirstFreeSlot, Main
  <2>3. system_threads'[i].thread_priority = priority /\ ~FreeSlot(i)'
    BY <1>t, <2>1 DEF AddedSlot, FreeSlot, flags, thread_t
  <2>4. /\ psp \in Stacks
        /\ \A s \in Stacks : s # psp => pc'[s] = pc[s] /\ pending'[s] = pending[s]
        /\ pending'[psp] = [ptr |-> i, priority |-> priority]
    BY <1>t, <1>1, <2>1 DEF os_add_thread, Calling, Goto, TypeInv, TypeOK
  <2>5. ASSUME NEW node \in PriorityQueueNaiveNode, NodeTrue(node)
        PROVE  /\ node.ptr # Main /\ ~FreeSlot(node.ptr)'
               /\ node.priority = system_threads'[node.ptr].thread_priority
    <3>1. node.ptr \in Slots /\ node.ptr # i
      BY <2>2, <2>5, NodeSlot DEF NodeTrue
    <3>2. system_threads'[node.ptr] = system_threads[node.ptr]
      BY <1>t, <2>1, <3>1
    <3> QED
      BY <2>5, <3>2 DEF NodeTrue, FreeSlot, flags
  <2>6. ASSUME NEW k \in DOMAIN thread_priorities
        PROVE  NodeTrue(thread_priorities[k])'
    <3>1. thread_priorities[k] \in PriorityQueueNaiveNode
      BY <1>t, NodeAt
    <3> QED
      BY <2>2, <2>5, <3>1 DEF NodesInv, NodeTrue
  <2>7. ASSUME NEW s \in Stacks, pc'[s] = "insert"
        PROVE  NodeTrue(pending[s])'
    <3>1. CASE s = psp
      BY <2>2, <2>3, <2>4, <3>1 DEF NodeTrue
    <3>2. CASE s # psp
      <4>1. pending[s] \in PriorityQueueNaiveNode /\ NodeTrue(pending[s])
        BY <2>4, <2>7, <3>2 DEF TypeInv, NodesInv
      <4> QED
        BY <2>4, <2>5, <3>2, <4>1 DEF NodeTrue
    <3> QED
      BY <3>1, <3>2
  <2> QED
    BY <2>2, <2>6, <2>7 DEF NodesInv
<1>2. CASE os_add_thread_insert
  <2>1. /\ psp \in Stacks /\ pending[psp] \in PriorityQueueNaiveNode
        /\ InsertNode(pending[psp]) /\ NodeTrue(pending[psp])
        /\ pending' = [pending EXCEPT ![psp] = NULL]
        /\ pc' = [pc EXCEPT ![psp] = "user"]
        /\ UNCHANGED system_threads
    BY <1>2 DEF os_add_thread_insert, TypeInv, TypeOK, NodesInv, Goto
  <2>2. ASSUME NEW j \in DOMAIN thread_priorities'
        PROVE  NodeTrue(thread_priorities[j])'
    <3>1. NodeTrue(thread_priorities'[j])
      BY <1>t, <2>1, <2>2, InsertNodeKeeps DEF NodesInv
    <3> QED
      BY <2>1, <3>1 DEF NodeTrue, FreeSlot, flags
  <2>3. ASSUME NEW s \in Stacks, pc'[s] = "insert"
        PROVE  NodeTrue(pending[s])'
    <3>1. pending'[s] = pending[s] /\ NodeTrue(pending[s])
      BY <1>t, <2>1, <2>3 DEF NodesInv, TypeInv, TypeOK
    <3> QED
      BY <2>1, <3>1 DEF NodeTrue, FreeSlot, flags
  <2> QED
    BY <2>2, <2>3 DEF NodesInv
<1>3. CASE os_add_thread_full \/ os_stop \/ os_start \/ UNCHANGED vars
  <2>1. UNCHANGED <<system_threads, thread_priorities, pending, pc>>
    BY <1>3 DEF os_add_thread_full, os_stop, os_start, vars, kernelVars, codeVars
  <2>2. UsedSlotsKept
    BY <2>1 DEF UsedSlotsKept, FreeSlot, flags
  <2> QED
    BY <2>1, <2>2, NodesKept
<1>4. CASE os_suspend_thread \/ os_resume_thread
  <2>1. PICK t \in Targets, f \in {"SUSPENDED", "RUNNING"} : SetFlags(t, f)
    BY <1>4 DEF os_suspend_thread, os_resume_thread
  <2>2. t \in Slots
    BY <2>1 DEF Targets, current_thread_id, Main
  <2>3. UsedSlotsKept
    BY <1>t, <1>f, <2>1, <2>2, SetFlagsKeepsSlots
  <2>4. UNCHANGED <<thread_priorities, pending, pc>>
    BY <1>4 DEF os_suspend_thread, os_resume_thread, codeVars
  <2> QED
    BY <2>3, <2>4, NodesKept
<1>5. CASE os_kill_thread
  BY <1>5 DEF os_kill_thread, Calling
<1>6. CASE os_kill_self_thread \/ os_del_process
  <2>1. /\ \/ SetFlags(Main, "ENDED")
           \/ system_threads' = [system_threads EXCEPT ![Main].flags = "ENDED"]
        /\ UNCHANGED <<thread_priorities, pending>>
        /\ pc' = pc \/ pc' = [pc EXCEPT ![psp] = "yield"]
    BY <1>6 DEF os_kill_self_thread, os_del_process, current_thread_id, Main, codeVars,
                Goto
  <2>2. UsedSlotsKept
    BY <1>t, <1>f, <2>1, SetFlagsKeepsSlots
  <2>3. \A s \in Stacks : pc'[s] = "insert" => pc[s] = "insert"
    BY <1>t, <2>1
  <2> QED
    BY <2>1, <2>2, <2>3, NodesKept
<1>7. CASE os_thread_sleep_ms \/ systick
  <2>1. /\ Tick \/ \E n \in 0 .. MAX_INTERVAL : PrepareSleep(current_thread, n)
        /\ UNCHANGED <<thread_priorities, pending>>
        /\ pc' = pc \/ pc' = [pc EXCEPT ![psp] = "yield"]
        /\ Tick \/ current_thread \in Slots
    BY <1>t, <1>7 DEF os_thread_sleep_ms, systick, Tick, Calling, codeVars, KernelTypeOK,
                      Goto
  <2>2. \A s \in Stacks : pc'[s] = "insert" => pc[s] = "insert"
    BY <1>t, <2>1
  <2>3. UsedSlotsKept
    BY <1>t, <2>1, TimeKeepsSlots
  <2> QED
    BY <2>1, <2>2, <2>3, NodesKept
<1>8. CASE os_yield \/ os_yield_in_call \/ idle_thread_handler \/ context_switch_pit_isr
  <2>1. /\ os_get_next_thread \/ UNCHANGED system_threads
        /\ UNCHANGED <<thread_priorities, pending>>
        /\ pc' = pc \/ pc' = [pc EXCEPT ![psp] = "user"]
    BY <1>8 DEF os_yield, os_yield_in_call, idle_thread_handler, context_switch_pit_isr,
                ContextSwitch, TimerSwitch, codeVars, Goto
  <2>2. UNCHANGED system_threads => UsedSlotsKept
    BY DEF UsedSlotsKept, FreeSlot, flags
  <2>3. \A s \in Stacks : pc'[s] = "insert" => pc[s] = "insert"
    BY <1>t, <2>1
  <2>4. UsedSlotsKept
    BY <1>t, <2>1, <2>2, ScheduleKeepsSlots
  <2> QED
    BY <2>1, <2>3, <2>4, NodesKept
<1> QED
  BY <1>1, <1>2, <1>3, <1>4, <1>5, <1>6, <1>7, <1>8 DEF Next

(* In a sorted list of true nodes the first ready one is of a thread of    *)
(* highest priority among the ready threads.                               *)
LEMMA FirstReadyIsHighest ==
  ASSUME TypeInv, AliveInv, NodesInv, PrioritiesSorted, os_get_next_thread,
         current_thread' # NULL, NEW t \in Slots, Listed(t), Ready(t)
  PROVE  system_threads[t].thread_priority
           <= system_threads[current_thread'].thread_priority
<1>1. PICK j \in DOMAIN thread_priorities : thread_priorities[j].ptr = t
  BY DEF Listed
<1>2. ReadyAt(j)
  BY <1>1 DEF ReadyAt
<1>3. PICK i \in DOMAIN thread_priorities :
        /\ current_thread' = thread_priorities[i].ptr
        /\ \A k \in 1 .. i - 1 : ~ReadyAt(k)
  BY <1>2 DEF os_get_next_thread
<1>4. /\ i \in Nat /\ j \in Nat /\ j >= 1 /\ i <= j
      /\ thread_priorities[i].priority \in Int
  <2>1. thread_priorities \in Seq(PriorityQueueNaiveNode)
    BY DEF TypeInv, TypeOK, KernelTypeOK
  <2>2. /\ i \in 1 .. Len(thread_priorities) /\ j \in 1 .. Len(thread_priorities)
        /\ thread_priorities[i].priority \in 0 .. MAX_PRIORITY
    BY <2>1, NodeAt
  <2> QED
    BY <1>2, <1>3, <2>1, <2>2, BoundsAssumption
<1>5. thread_priorities[i].priority >= thread_priorities[j].priority
  BY <1>4 DEF PrioritiesSorted
<1>6. /\ thread_priorities[i].priority = system_threads[current_thread'].thread_priority
      /\ thread_priorities[j].priority = system_threads[t].thread_priority
  BY <1>1, <1>3 DEF NodesInv, NodeTrue
<1> QED
  BY <1>5, <1>6

(* As long as no thread is killed from outside, the processor goes to a    *)
(* thread no ready thread in the list has a higher priority than.          *)
THEOREM HighestPriorityAlwaysRuns ==
  ASSUME "kill" \notin Calls
  PROVE  Spec => HighestPriorityRuns
<1> DEFINE Inv == TypeInv /\ AliveInv /\ NodesInv /\ PrioritiesSorted
<1> DEFINE Highest == current_thread' # current_thread =>
                        \A t \in Slots : Listed(t) /\ Ready(t) =>
                          system_threads[t].thread_priority
                            <= system_threads[current_thread'].thread_priority
<1>1. Init => Inv
  <2>1. Init => NodesInv
    BY SlotFacts DEF Init, KernelInit, NodesInv, NodeTrue, FreeSlot, flags, EmptySlot,
                     AddedSlot, Main, Idle
  <2>2. Init => PrioritiesSorted
    BY DEF Init, KernelInit, PrioritiesSorted
  <2> QED
    BY <2>1, <2>2, TypeInit, AliveInit
<1>2. Inv /\ [Next]_vars => Inv'
  BY TypeStep, AliveStep, NodesStep, SortedStep
<1>3. Inv /\ Inv' /\ [Next]_vars => [Highest]_vars
  <2> SUFFICES ASSUME Inv, Inv', Next, current_thread' # current_thread PROVE Highest
    OBVIOUS
  <2>1. os_get_next_thread /\ current_thread' # NULL
    <3>1. CASE os_add_thread \/ os_add_thread_insert \/ os_add_thread_full
      BY <3>1 DEF os_add_thread, os_add_thread_insert, os_add_thread_full, kernelVars
    <3>2. CASE os_suspend_thread \/ os_resume_thread \/ os_kill_thread
      BY <3>2 DEF os_suspend_thread, os_resume_thread, os_kill_thread
    <3>3. CASE os_kill_self_thread \/ os_del_process \/ os_thread_sleep_ms
      BY <3>3 DEF os_kill_self_thread, os_del_process, os_thread_sleep_ms
    <3>4. CASE systick \/ os_stop \/ os_start
      BY <3>4 DEF systick, Tick, os_stop, os_start
    <3>5. CASE os_yield \/ os_yield_in_call \/ idle_thread_handler \/ context_switch_pit_isr
      BY <3>5 DEF os_yield, os_yield_in_call, idle_thread_handler,
                  context_switch_pit_isr, ContextSwitch, TimerSwitch, AliveInv
    <3> QED
      BY <3>1, <3>2, <3>3, <3>4, <3>5 DEF Next
  <2> QED
    BY <2>1, FirstReadyIsHighest
<1> QED
  BY <1>1, <1>2, <1>3, PTL DEF Spec, HighestPriorityRuns
=============================================================================
