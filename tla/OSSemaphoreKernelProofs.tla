----------------------- MODULE OSSemaphoreKernelProofs -----------------------
(***************************************************************************)
(* Theorems about SemaphoreLock, for any number of threads, semaphores and *)
(* entries and with or without the timer interrupt, for applications that  *)
(* do not call entryWaitIndefinite and exit only what they have entered.   *)
(***************************************************************************)
EXTENDS OSSemaphoreKernel, OSThreadKernelProofs, FiniteSetTheorems

(* A thread waiting in a call waits in entry, has a semaphore and is not   *)
(* inside it.                                                              *)
WaitersOutside ==
  \A t \in Slots :
    pc[t] # "user" => /\ pc[t] \in {"entry fails", "entry"}
                      /\ this[t] \in Semaphores
                      /\ t \notin inside[this[t]]

SemaphoreInv ==
  /\ TypeOK
  /\ WaitersOutside
  /\ CounterIsEntrants
  /\ EntrantsBounded

(* Sets of threads are finite.                                             *)
LEMMA FiniteInside ==
  ASSUME NEW S, S \subseteq Slots
  PROVE  IsFiniteSet(S) /\ Cardinality(S) \in Nat
<1>1. IsFiniteSet(Slots)
  BY ThreadsAssumption, FS_Interval DEF Slots
<1> QED
  BY <1>1, FS_Subset, FS_CardinalityType

(* The record of a thread blocked on a semaphore.                          *)
LEMMA WaitingRecord ==
  ASSUME NEW th \in thread_t, NEW n \in 0 .. MAX_INTERVAL, NEW s \in Words
  PROVE  [th EXCEPT !.flags = "BLOCKED_SEMAPHORE_TIMEOUT", !.remaining = n,
                    !.mutex_semaphore = s, !.semaphore_max_count = max_entry]
           \in thread_t
<1>1. max_entry \in 0 .. WORD_MOD - 1
  BY EntryAssumption, WordAssumption
<1> QED
  BY <1>1 DEF thread_t, thread_state_t

(* The threads' own steps keep types, and leave the counters and the place *)
(* in every blocking call alone.                                           *)
LEMMA ApplicationStep ==
  ASSUME ApplicationTypeOK(Labels), ApplicationNext
  PROVE  ApplicationTypeOK(Labels)' /\ UNCHANGED <<word, pc>>
<1> USE DEF ApplicationTypeOK
<1>0. system_threads \in [Slots -> thread_t] /\ pc \in [Slots -> Labels]
  BY DEF KernelTypeOK
<1>1. CASE setup
  <2>1. PICK priority \in 0 .. MAX_PRIORITY : AddThread(priority)
    BY <1>1 DEF setup
  <2> QED
    BY <1>1, <2>1, AddThreadEffect DEF setup, KernelTypeOK
<1>2. ASSUME NEW t \in Slots, os_thread_sleep_ms(t)
      PROVE  ApplicationTypeOK(Labels)' /\ UNCHANGED <<word, pc>>
  <2>1. system_threads' \in [Slots -> thread_t]
    BY <1>2, SleepUpdate DEF os_thread_sleep_ms
  <2>2. pc[t] = "user"
    BY <1>2 DEF os_thread_sleep_ms, Calling, At
  <2> QED
    BY <1>0, <1>2, <2>1, <2>2 DEF os_thread_sleep_ms, YieldThen, KernelTypeOK
<1>3. ASSUME NEW t \in Slots,
             os_yield_in_call(t) \/ os_yield(t) \/ idle_thread_handler \/ context_switch_pit_isr
      PROVE  ApplicationTypeOK(Labels)' /\ UNCHANGED <<word, pc>>
  <2>1. ContextSwitch \/ TimerSwitch
    BY <1>3 DEF os_yield_in_call, os_yield, idle_thread_handler, context_switch_pit_isr
  <2>2. KernelTypeOK' /\ UNCHANGED word
    BY <2>1, ContextSwitchType DEF ContextSwitch, TimerSwitch
  <2>3. UNCHANGED pc /\ yielding' \subseteq yielding
    BY <1>3 DEF os_yield_in_call, os_yield, idle_thread_handler, context_switch_pit_isr
  <2> QED
    BY <2>2, <2>3
<1>4. ASSUME NEW t \in Slots, NEW target \in Slots,
             os_suspend_thread(t, target) \/ os_resume_thread(t, target)
      PROVE  ApplicationTypeOK(Labels)' /\ UNCHANGED <<word, pc>>
  <2>1. system_threads' \in [Slots -> thread_t]
    BY <1>4, SetFlagsType DEF os_suspend_thread, os_resume_thread, thread_state_t
  <2> QED
    BY <1>4, <2>1 DEF os_suspend_thread, os_resume_thread, KernelTypeOK
<1>5. CASE systick
  <2>1. KernelTypeOK'
    BY <1>5, TickType DEF systick
  <2>2. UNCHANGED <<word, pc, yielding>>
    BY <1>5 DEF systick, Tick
  <2> QED
    BY <2>1, <2>2
<1>6. Main \in Slots
  BY ThreadsAssumption DEF Main, Slots
<1> QED
  BY <1>1, <1>2, <1>3, <1>4, <1>5, <1>6 DEF ApplicationNext, KernelOperation

(* The initial state.                                                      *)
LEMMA SemaphoreInit == Init => SemaphoreInv
<1> SUFFICES ASSUME Init PROVE SemaphoreInv
  OBVIOUS
<1>1. TypeOK
  BY KernelInitFacts DEF Init, ApplicationInit, TypeOK, ApplicationTypeOK, Labels
<1>2. \A s \in Semaphores : Cardinality(inside[s]) = 0 /\ word[s] = 0
  BY FS_EmptySet DEF Init, ApplicationInit, KernelInit, Semaphores
<1> QED
  BY <1>1, <1>2, EntryAssumption, WordAssumption
     DEF SemaphoreInv, WaitersOutside, CounterIsEntrants, EntrantsBounded, Init,
         ApplicationInit

(* A thread enters a semaphore that has room.                              *)
LEMMA EnterStep ==
  ASSUME SemaphoreInv, NEW t \in Slots, NEW s \in Semaphores,
         t \notin inside[s], Enter(t, s)
  PROVE  /\ word' \in [Words -> 0 .. WORD_MOD - 1]
         /\ inside' \in [Semaphores -> SUBSET Slots]
         /\ CounterIsEntrants'
         /\ EntrantsBounded'
<1> USE EntryAssumption, WordAssumption
<1>1. /\ word \in [Words -> 0 .. WORD_MOD - 1] /\ inside \in [Semaphores -> SUBSET Slots]
      /\ Semaphores = Words
  BY DEF SemaphoreInv, TypeOK, ApplicationTypeOK, KernelTypeOK, Semaphores
<1>2. /\ word' = [word EXCEPT ![s] = @ + 1] /\ word[s] < max_entry
      /\ inside' = [inside EXCEPT ![s] = @ \cup {t}]
  BY DEF Enter, Entered, HasRoom
<1>3. inside' \in [Semaphores -> SUBSET Slots]
  BY <1>1, <1>2
<1>4. word' \in [Words -> 0 .. WORD_MOD - 1] /\ word'[s] = word[s] + 1
  BY <1>1, <1>2
<1>5. word[s] = Cardinality(inside[s])
  BY DEF SemaphoreInv, CounterIsEntrants
<1>6. Cardinality(inside'[s]) = word[s] + 1
  <2>1. inside'[s] = inside[s] \cup {t} /\ inside[s] \subseteq Slots
    BY <1>1, <1>2
  <2> QED
    BY <1>5, <2>1, FiniteInside, FS_AddElement
<1>7. \A u \in Semaphores \ {s} : inside'[u] = inside[u] /\ word'[u] = word[u]
  BY <1>1, <1>2
<1>8. CounterIsEntrants'
  BY <1>4, <1>6, <1>7 DEF SemaphoreInv, CounterIsEntrants
<1>9. EntrantsBounded'
  <2>1. word[s] + 1 <= max_entry
    BY <1>1, <1>2
  <2> QED
    BY <1>6, <1>7, <2>1 DEF SemaphoreInv, EntrantsBounded
<1> QED
  BY <1>3, <1>4, <1>8, <1>9

(* A thread exits a semaphore it is inside.                                *)
LEMMA ExitStep ==
  ASSUME SemaphoreInv, NEW t \in Slots, NEW s \in Semaphores,
         t \in inside[s], exit(t, s)
  PROVE  /\ word' \in [Words -> 0 .. WORD_MOD - 1]
         /\ inside' \in [Semaphores -> SUBSET Slots]
         /\ CounterIsEntrants'
         /\ EntrantsBounded'
<1> USE EntryAssumption, WordAssumption
<1>1. /\ word \in [Words -> 0 .. WORD_MOD - 1] /\ inside \in [Semaphores -> SUBSET Slots]
      /\ Semaphores = Words
  BY DEF SemaphoreInv, TypeOK, ApplicationTypeOK, KernelTypeOK, Semaphores
<1>2. /\ word' = [word EXCEPT ![s] = Decremented(@)]
      /\ inside' = [inside EXCEPT ![s] = @ \ {t}]
  BY DEF exit
<1>3. inside' \in [Semaphores -> SUBSET Slots]
  BY <1>1, <1>2
<1>4. inside[s] \subseteq Slots /\ inside'[s] = inside[s] \ {t}
  BY <1>1, <1>2
<1>5. Cardinality(inside'[s]) = Cardinality(inside[s]) - 1
  BY <1>4, FiniteInside, FS_RemoveElement
<1>6. word[s] = Cardinality(inside[s]) /\ Cardinality(inside[s]) <= max_entry
  BY DEF SemaphoreInv, CounterIsEntrants, EntrantsBounded
<1>7. Cardinality(inside'[s]) \in Nat
  BY <1>3, <1>4, FiniteInside
<1>8. word[s] # 0
  BY <1>5, <1>6, <1>7
<1>9. word[s] - 1 \in 0 .. WORD_MOD - 1 /\ word'[s] = word[s] - 1
  BY <1>1, <1>2, <1>8 DEF Decremented
<1>10. word' \in [Words -> 0 .. WORD_MOD - 1]
  BY <1>1, <1>2, <1>9
<1>11. \A u \in Semaphores \ {s} : inside'[u] = inside[u] /\ word'[u] = word[u]
  BY <1>1, <1>2
<1>12. CounterIsEntrants'
  BY <1>5, <1>6, <1>9, <1>11 DEF SemaphoreInv, CounterIsEntrants
<1>13. EntrantsBounded'
  <2>1. Cardinality(inside[s]) - 1 <= max_entry
    BY <1>4, <1>6, FiniteInside
  <2> QED
    BY <1>5, <1>11, <2>1 DEF SemaphoreInv, EntrantsBounded
<1> QED
  BY <1>3, <1>10, <1>12, <1>13

(* The invariant is inductive.                                             *)
LEMMA SemaphoreStep ==
  ASSUME "entryWaitIndefinite" \notin Calls, "over_exit" \notin Calls
  PROVE  SemaphoreInv /\ [Next]_vars => SemaphoreInv'
<1> SUFFICES ASSUME SemaphoreInv, [Next]_vars PROVE SemaphoreInv'
  OBVIOUS
<1>t. /\ ApplicationTypeOK(Labels) /\ KernelTypeOK
      /\ system_threads \in [Slots -> thread_t]
      /\ pc \in [Slots -> Labels] /\ yielding \subseteq Slots
      /\ this \in [Slots -> Semaphores \cup {NULL}]
      /\ inside \in [Semaphores -> SUBSET Slots]
  BY DEF SemaphoreInv, TypeOK, ApplicationTypeOK, KernelTypeOK
<1>1. CASE ApplicationNext /\ UNCHANGED <<this, inside>>
  BY <1>1, <1>t, ApplicationStep
     DEF SemaphoreInv, TypeOK, WaitersOutside, CounterIsEntrants, EntrantsBounded
<1>2. ASSUME NEW t \in Slots, NEW s \in Semaphores, tryEntry(t, s)
      PROVE  SemaphoreInv'
  <2>1. /\ t \notin inside[s] /\ Enter(t, s) /\ pc[t] = "user"
        /\ UNCHANGED <<system_threads, thread_priorities, current_thread,
                       current_active_state, thread_count, bits, pc, yielding, this>>
    BY <1>2 DEF tryEntry, Calling, At
  <2>2. /\ word' \in [Words -> 0 .. WORD_MOD - 1] /\ inside' \in [Semaphores -> SUBSET Slots]
        /\ CounterIsEntrants' /\ EntrantsBounded'
    BY <2>1, EnterStep
  <2>3. WaitersOutside'
    BY <1>t, <2>1 DEF SemaphoreInv, WaitersOutside, Enter, Entered
  <2> QED
    BY <1>t, <2>1, <2>2, <2>3 DEF SemaphoreInv, TypeOK, ApplicationTypeOK, KernelTypeOK
<1>3. ASSUME NEW t \in Slots, NEW s \in Semaphores, exit(t, s)
      PROVE  SemaphoreInv'
  <2>1. t \in inside[s]
    BY <1>3 DEF exit, Calling
  <2>2. /\ word' \in [Words -> 0 .. WORD_MOD - 1] /\ inside' \in [Semaphores -> SUBSET Slots]
        /\ CounterIsEntrants' /\ EntrantsBounded'
    BY <1>3, <2>1, ExitStep
  <2>3. /\ UNCHANGED <<system_threads, thread_priorities, current_thread,
                       current_active_state, thread_count, bits, pc, yielding, this>>
        /\ inside' = [inside EXCEPT ![s] = @ \ {t}]
    BY <1>3 DEF exit
  <2>4. WaitersOutside'
    BY <1>t, <2>3 DEF SemaphoreInv, WaitersOutside
  <2> QED
    BY <1>t, <2>2, <2>3, <2>4 DEF SemaphoreInv, TypeOK, ApplicationTypeOK, KernelTypeOK
<1>4. ASSUME NEW t \in Slots, NEW s \in Semaphores,
             NEW call \in {"entry", "entryWaitIndefinite"}, firstTryFails(t, s, call)
      PROVE  SemaphoreInv'
  <2>1. /\ this' = [this EXCEPT ![t] = s] /\ t \notin inside[s]
        /\ pc' = [pc EXCEPT ![t] = "entry fails"]
        /\ UNCHANGED <<kernelVars, yielding, inside>>
    BY <1>4 DEF firstTryFails, Goto, Calling
  <2>2. WaitersOutside'
    BY <1>t, <2>1 DEF SemaphoreInv, WaitersOutside
  <2>3. TypeOK'
    BY <1>t, <2>1 DEF TypeOK, ApplicationTypeOK, KernelTypeOK, kernelVars, Labels
  <2> QED
    BY <2>1, <2>2, <2>3 DEF SemaphoreInv, CounterIsEntrants, EntrantsBounded, kernelVars
<1>5. ASSUME NEW t \in Slots, entry_block(t)
      PROVE  SemaphoreInv'
  <2>1. PICK n \in 0 .. MAX_INTERVAL :
          system_threads' = [system_threads EXCEPT
                               ![t] = [@ EXCEPT !.flags = "BLOCKED_SEMAPHORE_TIMEOUT",
                                                !.remaining = n,
                                                !.mutex_semaphore = this[t],
                                                !.semaphore_max_count = max_entry]]
    BY <1>5, <1>t DEF entry_block
  <2>2. /\ pc[t] = "entry fails" /\ this[t] \in Semaphores /\ t \notin inside[this[t]]
        /\ pc' = [pc EXCEPT ![t] = "entry"] /\ yielding' = yielding \cup {t}
        /\ UNCHANGED <<thread_priorities, current_thread, current_active_state,
                       thread_count, word, bits, this, inside>>
    BY <1>5 DEF entry_block, At, YieldThen, SemaphoreInv, WaitersOutside
  <2> DEFINE rec == [system_threads[t] EXCEPT !.flags = "BLOCKED_SEMAPHORE_TIMEOUT",
                                              !.remaining = n,
                                              !.mutex_semaphore = this[t],
                                              !.semaphore_max_count = max_entry]
  <2>3. rec \in thread_t
    <3>1. system_threads[t] \in thread_t /\ n \in 0 .. MAX_INTERVAL /\ this[t] \in Words
      BY <1>t, <2>1, <2>2 DEF Semaphores
    <3> QED
      BY <3>1, WaitingRecord
  <2>4. system_threads' = [system_threads EXCEPT ![t] = rec]
    BY <1>t, <2>1
  <2> HIDE DEF rec
  <2>5. TypeOK'
    BY <1>t, <2>2, <2>3, <2>4 DEF TypeOK, ApplicationTypeOK, KernelTypeOK, Labels
  <2>6. WaitersOutside'
    BY <1>t, <2>2 DEF SemaphoreInv, WaitersOutside
  <2> QED
    BY <2>2, <2>5, <2>6 DEF SemaphoreInv, CounterIsEntrants, EntrantsBounded
<1>6. ASSUME NEW t \in Slots, entry_resume(t)
      PROVE  SemaphoreInv'
  <2>1. /\ this[t] \in Semaphores /\ t \notin inside[this[t]]
        /\ pc' = [pc EXCEPT ![t] = "user"]
        /\ UNCHANGED <<system_threads, thread_priorities, current_thread,
                       current_active_state, thread_count, bits, yielding, this>>
    BY <1>6 DEF entry_resume, At, Goto, SemaphoreInv, WaitersOutside
  <2>2. CASE Enter(t, this[t])
    <3>1. /\ word' \in [Words -> 0 .. WORD_MOD - 1]
          /\ inside' \in [Semaphores -> SUBSET Slots]
          /\ CounterIsEntrants' /\ EntrantsBounded'
      BY <2>1, <2>2, EnterStep
    <3>2. WaitersOutside'
      BY <1>t, <2>1, <2>2 DEF SemaphoreInv, WaitersOutside, Enter, Entered
    <3> QED
      BY <1>t, <2>1, <3>1, <3>2
         DEF SemaphoreInv, TypeOK, ApplicationTypeOK, KernelTypeOK, Labels
  <2>3. CASE UNCHANGED <<word, inside>>
    <3>1. WaitersOutside'
      BY <1>t, <2>1, <2>3 DEF SemaphoreInv, WaitersOutside
    <3> QED
      BY <1>t, <2>1, <2>3, <3>1
         DEF SemaphoreInv, TypeOK, ApplicationTypeOK, KernelTypeOK, Labels,
             CounterIsEntrants, EntrantsBounded
  <2> QED
    BY <1>6, <2>2, <2>3 DEF entry_resume
<1>7. ~ \E t \in Slots : entryWaitIndefinite_block(t) \/ entryWaitIndefinite_resume(t)
  BY DEF entryWaitIndefinite_block, entryWaitIndefinite_resume, At, SemaphoreInv,
         WaitersOutside
<1>8. CASE UNCHANGED vars
  BY <1>8 DEF vars, threadVars, kernelVars, SemaphoreInv, TypeOK, ApplicationTypeOK,
              KernelTypeOK, WaitersOutside, CounterIsEntrants, EntrantsBounded
<1> QED
  BY <1>1, <1>2, <1>3, <1>4, <1>5, <1>6, <1>7, <1>8 DEF Next, SemaphoreOperation

(* Every reachable state satisfies the invariant.                          *)
THEOREM SemaphoreInvariant ==
  ASSUME "entryWaitIndefinite" \notin Calls, "over_exit" \notin Calls
  PROVE  Spec => []SemaphoreInv
<1>1. SemaphoreInv /\ [Next]_vars => SemaphoreInv'
  BY SemaphoreStep
<1> QED
  BY <1>1, SemaphoreInit, PTL DEF Spec

(* Never are more threads inside a semaphore than it admits, even when a   *)
(* timer interrupt switches threads in the middle of a call.               *)
THEOREM SemaphoreAdmits ==
  ASSUME "entryWaitIndefinite" \notin Calls, "over_exit" \notin Calls
  PROVE  Spec => []EntrantsBounded
<1>1. SemaphoreInv => EntrantsBounded
  BY DEF SemaphoreInv
<1> QED
  BY <1>1, SemaphoreInvariant, PTL

(* The counter counts the threads inside.                                  *)
THEOREM SemaphoreCounts ==
  ASSUME "entryWaitIndefinite" \notin Calls, "over_exit" \notin Calls
  PROVE  Spec => []CounterIsEntrants
<1>1. SemaphoreInv => CounterIsEntrants
  BY DEF SemaphoreInv
<1> QED
  BY <1>1, SemaphoreInvariant, PTL

-----------------------------------------------------------------------------
(* A wait that starts or ends changes what one thread asks for.            *)
LEMMA AskingUpdate ==
  ASSUME NEW t \in Slots, pc \in [Slots -> Labels], NEW label \in Labels,
         pc' = [pc EXCEPT ![t] = label],
         \A u \in Slots \ {t} : this'[u] = this[u]
  PROVE  Asking' = [Asking EXCEPT ![t] =
                      IF label \in {"entry fails", "entry"} THEN this'[t] ELSE NULL]
BY DEF Asking

(* The abstract room is the room the counter shows.                        *)
LEMMA RoomIsAbstract ==
  ASSUME SemaphoreInv, NEW s \in Semaphores
  PROVE  HasRoom(s) <=> Abstract!Room(s)
<1>1. Abstract!Cardinality(inside[s]) = Cardinality(inside[s])
  BY DEF Abstract!Cardinality, Cardinality
<1>2. word[s] = Cardinality(inside[s])
  BY DEF SemaphoreInv, CounterIsEntrants
<1> QED
  BY <1>1, <1>2 DEF HasRoom, Abstract!Room

(* Entering is entering the abstract semaphore.                            *)
LEMMA EnterIsAbstract ==
  ASSUME SemaphoreInv, NEW t \in Slots, NEW s \in Semaphores,
         t \notin inside[s], Enter(t, s)
  PROVE  Abstract!Enters(t, s)
BY RoomIsAbstract DEF Enter, Entered, Abstract!Enters

(* Every step of SemaphoreLock is a step of the abstract semaphore.        *)
LEMMA RefinementStep ==
  ASSUME SemaphoreInv, [Next]_vars,
         "entryWaitIndefinite" \notin Calls, "over_exit" \notin Calls
  PROVE  [Abstract!Next]_(Abstract!vars)
<1>0. /\ pc \in [Slots -> Labels] /\ this \in [Slots -> Semaphores \cup {NULL}]
      /\ ApplicationTypeOK(Labels)
  BY DEF SemaphoreInv, TypeOK, ApplicationTypeOK
<1>1. ASSUME UNCHANGED <<pc, this, inside>> PROVE UNCHANGED Abstract!vars
  BY <1>1 DEF Abstract!vars, Asking
<1>2. \A t \in Slots : pc[t] = "user" => Asking[t] = NULL
  BY DEF Asking
<1>3. ASSUME NEW t \in Slots, NEW s \in Semaphores, tryEntry(t, s)
      PROVE  Abstract!Next
  <2>1. UNCHANGED Asking /\ Asking[t] = NULL
    BY <1>2, <1>3 DEF tryEntry, Calling, At, Asking
  <2>2. Abstract!Enters(t, s)
    BY <1>3, EnterIsAbstract DEF tryEntry
  <2> QED
    BY <2>1, <2>2 DEF Abstract!Enter, Abstract!Next
<1>4. ASSUME NEW t \in Slots, NEW s \in Semaphores, exit(t, s)
      PROVE  Abstract!Next
  <2>1. UNCHANGED Asking /\ Asking[t] = NULL
    BY <1>2, <1>4 DEF exit, Calling, At, Asking
  <2>2. Abstract!Leave(t, s)
    BY <1>4, <2>1 DEF exit, Calling, Abstract!Leave
  <2> QED
    BY <2>2 DEF Abstract!Next
<1>5. ASSUME NEW t \in Slots, NEW s \in Semaphores, NEW call \in {"entry", "entryWaitIndefinite"},
             firstTryFails(t, s, call)
      PROVE  Abstract!Next
  <2>1. call = "entry" /\ pc[t] = "user" /\ ~HasRoom(s) /\ UNCHANGED inside
        /\ this' = [this EXCEPT ![t] = s] /\ pc' = [pc EXCEPT ![t] = "entry fails"]
    BY <1>5 DEF firstTryFails, Calling, At, Goto
  <2>2. this'[t] = s /\ \A u \in Slots \ {t} : this'[u] = this[u]
    BY <1>0, <2>1
  <2>3. Asking' = [Asking EXCEPT ![t] = s]
    BY <1>0, <2>1, <2>2, AskingUpdate DEF Labels
  <2>4. Abstract!Ask(t, s)
    BY <1>2, <2>1, <2>3, RoomIsAbstract DEF Abstract!Ask
  <2> QED
    BY <2>4 DEF Abstract!Next
<1>6. ASSUME NEW t \in Slots, entry_block(t) PROVE UNCHANGED Abstract!vars
  <2>1. pc[t] = "entry fails" /\ pc' = [pc EXCEPT ![t] = "entry"] /\ UNCHANGED <<this, inside>>
    BY <1>6 DEF entry_block, At, YieldThen
  <2>2. UNCHANGED Asking
    BY <1>0, <2>1 DEF Asking
  <2> QED
    BY <2>1, <2>2 DEF Abstract!vars
<1>7. ASSUME NEW t \in Slots, entry_resume(t) PROVE Abstract!Next
  <2>1. /\ pc[t] = "entry" /\ this[t] \in Semaphores /\ t \notin inside[this[t]]
        /\ pc' = [pc EXCEPT ![t] = "user"] /\ UNCHANGED this
    BY <1>7 DEF entry_resume, At, Goto, SemaphoreInv, WaitersOutside
  <2>2. Asking' = [Asking EXCEPT ![t] = NULL] /\ Asking[t] = this[t]
    <3>1. Asking' = [Asking EXCEPT ![t] = NULL]
      BY <1>0, <2>1, AskingUpdate DEF Labels
    <3> QED
      BY <2>1, <3>1 DEF Asking
  <2>3. CASE Enter(t, this[t])
    <3>1. Abstract!Grant(t, this[t])
      BY <2>1, <2>2, <2>3, EnterIsAbstract DEF Abstract!Grant
    <3> QED
      BY <2>1, <3>1 DEF Abstract!Next
  <2>4. CASE ~HasRoom(this[t]) /\ UNCHANGED <<word, inside>>
    <3>1. Abstract!Refuse(t, this[t])
      BY <2>1, <2>2, <2>4, RoomIsAbstract DEF Abstract!Refuse
    <3> QED
      BY <2>1, <3>1 DEF Abstract!Next
  <2> QED
    BY <1>7, <2>3, <2>4 DEF entry_resume
<1>8. ~ \E t \in Slots : entryWaitIndefinite_block(t) \/ entryWaitIndefinite_resume(t)
  BY DEF entryWaitIndefinite_block, entryWaitIndefinite_resume, At, SemaphoreInv,
         WaitersOutside
<1>9. ASSUME ApplicationNext, UNCHANGED <<this, inside>> PROVE UNCHANGED Abstract!vars
  BY <1>0, <1>1, <1>9, ApplicationStep
<1>10. CASE UNCHANGED vars
  BY <1>1, <1>10 DEF vars, threadVars
<1> QED
  BY <1>3, <1>4, <1>5, <1>6, <1>7, <1>8, <1>9, <1>10 DEF Next, SemaphoreOperation

(* SemaphoreLock implements the abstract semaphore: entry waits only when  *)
(* there is no room, and what it answers in the end is true.               *)
THEOREM ImplementsAbstractSemaphore ==
  ASSUME "entryWaitIndefinite" \notin Calls, "over_exit" \notin Calls
  PROVE  Spec => AbstractSpec
<1>1. Init => Abstract!Init
  BY DEF Init, ApplicationInit, Abstract!Init, Asking
<1>2. SemaphoreInv /\ [Next]_vars => [Abstract!Next]_(Abstract!vars)
  BY RefinementStep
<1> QED
  BY <1>1, <1>2, SemaphoreInvariant, PTL DEF Spec, AbstractSpec, Abstract!Spec

-----------------------------------------------------------------------------
(* From here on the application may do anything: wait without end, and     *)
(* exit what it has not entered.                                           *)
Blocked(t) == flags(t) \in {"BLOCKED_SEMAPHORE", "BLOCKED_SEMAPHORE_TIMEOUT"}

(* The thread that executes its own code is not marked blocked.            *)
RunnerAwake ==
  \A t \in Slots : current_thread = t /\ t \notin yielding => ~Blocked(t)

(* What the scheduler compares of a blocked thread is its semaphore's.     *)
Compared(t) ==
  /\ this[t] \in Semaphores
  /\ system_threads[t].mutex_semaphore = this[t]
  /\ system_threads[t].semaphore_max_count = max_entry

WakeInv ==
  /\ TypeOK
  /\ current_active_state = "STARTED"
  /\ RunnerAwake
  /\ \A t \in Slots : Blocked(t) => Compared(t)
  /\ \A t \in Slots : pc[t] # "user" => this[t] \in Semaphores

(* What it says of the types.                                              *)
LEMMA WakeTypes ==
  ASSUME WakeInv
  PROVE  /\ ApplicationTypeOK(Labels) /\ KernelTypeOK
         /\ system_threads \in [Slots -> thread_t]
         /\ word \in [Semaphores -> 0 .. WORD_MOD - 1]
         /\ pc \in [Slots -> Labels] /\ yielding \subseteq Slots
         /\ this \in [Slots -> Semaphores \cup {NULL}]
         /\ inside \in [Semaphores -> SUBSET Slots]
         /\ NULL \notin Slots /\ WORD_MOD \in Nat /\ max_entry \in 0 .. WORD_MOD - 1
BY EntryAssumption, WordAssumption, NullAssumption
   DEF WakeInv, TypeOK, ApplicationTypeOK, KernelTypeOK, Semaphores, Slots

(* A step after which no thread is newly blocked and what the blocked ones *)
(* wait for is as before keeps the invariant.                              *)
LEMMA QuietStep ==
  ASSUME WakeInv, TypeOK', UNCHANGED <<current_thread, current_active_state, this>>,
         \A t \in Slots :
           /\ Blocked(t)' => Blocked(t)
           /\ Blocked(t) /\ Blocked(t)' =>
                /\ system_threads'[t].mutex_semaphore = system_threads[t].mutex_semaphore
                /\ system_threads'[t].semaphore_max_count
                     = system_threads[t].semaphore_max_count
           /\ pc'[t] # "user" => pc[t] # "user"
           /\ t \in yielding /\ t \notin yielding' => current_thread # t
  PROVE  WakeInv'
BY DEF WakeInv, RunnerAwake, Compared

(* The threads' own steps in the kernel, the timer and the clock.          *)
LEMMA WakeApplicationStep ==
  ASSUME WakeInv, ApplicationNext, UNCHANGED <<this, inside>>
  PROVE  WakeInv'
<1> USE WakeTypes
<1>1. TypeOK' /\ UNCHANGED <<word, pc>>
  BY ApplicationStep DEF TypeOK
<1>2. ASSUME ContextSwitch \/ TimerSwitch PROVE WakeInv'
  <2>1. os_get_next_thread /\ UNCHANGED current_active_state
    BY <1>2 DEF ContextSwitch, TimerSwitch, WakeInv
  <2>2. ASSUME NEW t \in Slots
        PROVE  IF current_thread' = t THEN ~Blocked(t)'
                                      ELSE system_threads'[t] = system_threads[t]
    <3>1. CASE current_thread' = t
      BY <2>1, <3>1, Schedule DEF Blocked
    <3>2. CASE current_thread' # t
      BY <2>1, <3>2, Schedule
    <3> QED
      BY <3>1, <3>2
  <2>3. RunnerAwake'
    BY <2>2 DEF RunnerAwake
  <2>4. \A t \in Slots : Blocked(t)' => Compared(t)'
    BY <2>2 DEF WakeInv, Compared, Blocked, flags
  <2> QED
    BY <1>1, <2>1, <2>3, <2>4 DEF WakeInv
<1>3. CASE setup
  <2>1. PICK priority \in 0 .. MAX_PRIORITY : AddThread(priority)
    BY <1>3 DEF setup
  <2>2. PICK i \in Slots :
          /\ flags(i)' = "RUNNING"
          /\ \A u \in Slots : u # i => system_threads'[u] = system_threads[u]
    BY <2>1, AddThreadEffect
  <2>3. ~Blocked(i)' /\ \A u \in Slots : u # i => Blocked(u)' = Blocked(u)
    BY <2>2 DEF Blocked, flags
  <2>4. UNCHANGED <<current_thread, current_active_state, yielding>>
    BY <1>3 DEF setup
  <2> QED
    BY <1>1, <2>2, <2>3, <2>4, QuietStep
<1>4. ASSUME NEW t \in Slots, os_thread_sleep_ms(t) PROVE WakeInv'
  <2>1. /\ flags(t)' = "SLEEPING" /\ \A u \in Slots \ {t} : system_threads'[u] = system_threads[u]
    BY <1>4, SleepUpdate DEF os_thread_sleep_ms
  <2>2. UNCHANGED <<current_thread, current_active_state>> /\ yielding' = yielding \cup {t}
    BY <1>4 DEF os_thread_sleep_ms, YieldThen
  <2>3. ~Blocked(t)' /\ \A u \in Slots \ {t} : Blocked(u)' = Blocked(u)
    BY <2>1 DEF Blocked, flags
  <2> QED
    BY <1>1, <2>1, <2>2, <2>3, QuietStep
<1>5. ASSUME NEW t \in Slots, NEW target \in Slots,
             os_suspend_thread(t, target) \/ os_resume_thread(t, target)
      PROVE  WakeInv'
  <2>1. PICK f \in {"SUSPENDED", "RUNNING"} :
          SetFlags(target, f) /\ UNCHANGED <<current_thread, current_active_state, yielding>>
    BY <1>5 DEF os_suspend_thread, os_resume_thread
  <2>2. f \in thread_state_t
    BY DEF thread_state_t
  <2>3. /\ \A u \in Slots : u # target => system_threads'[u] = system_threads[u]
        /\ flags(target)' = IF Exists(target) THEN f ELSE flags(target)
    BY <2>1, <2>2, SetFlagsType
  <2>4. ASSUME NEW u \in Slots, Blocked(u)'
        PROVE  system_threads'[u] = system_threads[u]
    <3>1. CASE Exists(u) /\ u = target
      BY <2>3, <2>4, <3>1 DEF Blocked
    <3>2. CASE ~(Exists(u) /\ u = target)
      BY <2>1, <2>3, <3>2 DEF SetFlags
    <3> QED
      BY <3>1, <3>2
  <2>5. \A u \in Slots : Blocked(u)' => Blocked(u)
    BY <2>4 DEF Blocked, flags
  <2> QED
    BY <1>1, <2>1, <2>4, <2>5, QuietStep
<1>6. CASE systick
  <2>1. Tick /\ UNCHANGED <<current_thread, current_active_state, yielding>>
    BY <1>6 DEF systick, Tick
  <2>2. \A u \in Slots :
          /\ flags(u)' = flags(u)
          /\ system_threads'[u].mutex_semaphore = system_threads[u].mutex_semaphore
          /\ system_threads'[u].semaphore_max_count = system_threads[u].semaphore_max_count
    BY <2>1 DEF Tick, thread_t, flags
  <2>3. \A u \in Slots : Blocked(u)' = Blocked(u)
    BY <2>2 DEF Blocked
  <2> QED
    BY <1>1, <2>1, <2>2, <2>3, QuietStep
<1> QED
  BY <1>2, <1>3, <1>4, <1>5, <1>6
     DEF ApplicationNext, KernelOperation, os_yield_in_call, os_yield,
         idle_thread_handler, context_switch_pit_isr

(* The running thread marks itself blocked on its semaphore.               *)
LEMMA BlockStep ==
  ASSUME WakeInv, NEW t \in Slots, entry_block(t) \/ entryWaitIndefinite_block(t)
  PROVE  WakeInv'
<1> USE WakeTypes
<1>1. PICK label \in {"entry", "entryWaitIndefinite"} :
        /\ current_thread = t /\ t \notin yielding /\ pc[t] # "user"
        /\ pc' = [pc EXCEPT ![t] = label] /\ yielding' = yielding \cup {t}
        /\ UNCHANGED <<thread_priorities, current_thread, current_active_state,
                       thread_count, word, bits, this, inside>>
  BY DEF entry_block, entryWaitIndefinite_block, At, YieldThen
<1>2. this[t] \in Semaphores
  BY <1>1 DEF WakeInv
<1>3. PICK f \in {"BLOCKED_SEMAPHORE", "BLOCKED_SEMAPHORE_TIMEOUT"}, n \in 0 .. MAX_INTERVAL :
        system_threads' = [system_threads EXCEPT
                             ![t] = [@ EXCEPT !.flags = f,
                                              !.remaining = n,
                                              !.mutex_semaphore = this[t],
                                              !.semaphore_max_count = max_entry]]
  <2>1. CASE entry_block(t)
    <3>1. PICK n \in 0 .. MAX_INTERVAL :
            system_threads' = [system_threads EXCEPT
                                 ![t].flags = "BLOCKED_SEMAPHORE_TIMEOUT",
                                 ![t].remaining = n,
                                 ![t].mutex_semaphore = this[t],
                                 ![t].semaphore_max_count = max_entry]
      BY <2>1 DEF entry_block
    <3>2. system_threads' = [system_threads EXCEPT
                               ![t] = [@ EXCEPT !.flags = "BLOCKED_SEMAPHORE_TIMEOUT",
                                                !.remaining = n,
                                                !.mutex_semaphore = this[t],
                                                !.semaphore_max_count = max_entry]]
      BY <3>1
    <3> QED
      BY <3>2
  <2>2. CASE entryWaitIndefinite_block(t)
    <3>1. system_threads[t].remaining \in 0 .. MAX_INTERVAL
      BY DEF thread_t
    <3>2. [system_threads[t] EXCEPT !.flags = "BLOCKED_SEMAPHORE",
                                    !.mutex_semaphore = this[t],
                                    !.semaphore_max_count = max_entry]
            = [system_threads[t] EXCEPT !.flags = "BLOCKED_SEMAPHORE",
                                        !.remaining = system_threads[t].remaining,
                                        !.mutex_semaphore = this[t],
                                        !.semaphore_max_count = max_entry]
      BY DEF thread_t
    <3>3. system_threads' = [system_threads EXCEPT
                               ![t] = [@ EXCEPT !.flags = "BLOCKED_SEMAPHORE",
                                                !.mutex_semaphore = this[t],
                                                !.semaphore_max_count = max_entry]]
      BY <2>2 DEF entryWaitIndefinite_block
    <3> QED
      BY <3>1, <3>2, <3>3
  <2> QED
    BY <2>1, <2>2
<1> DEFINE slot == [system_threads[t] EXCEPT !.flags = f, !.remaining = n,
                                             !.mutex_semaphore = this[t],
                                             !.semaphore_max_count = max_entry]
<1>4. /\ slot \in thread_t /\ slot.flags = f
      /\ slot.mutex_semaphore = this[t] /\ slot.semaphore_max_count = max_entry
  <2>1. system_threads[t] \in thread_t /\ f \in thread_state_t
    BY DEF thread_state_t
  <2>2. this[t] \in Words
    BY <1>2 DEF Semaphores
  <2> QED
    BY <2>1, <2>2 DEF thread_t
<1>5. system_threads' = [system_threads EXCEPT ![t] = slot]
  BY <1>3
<1> HIDE DEF slot
<1>6. /\ system_threads' \in [Slots -> thread_t] /\ system_threads'[t] = slot
      /\ \A u \in Slots \ {t} : system_threads'[u] = system_threads[u]
  BY <1>4, <1>5
<1>7. TypeOK'
  BY <1>1, <1>6 DEF TypeOK, ApplicationTypeOK, KernelTypeOK, Labels
<1>8. RunnerAwake'
  BY <1>1, <1>6 DEF WakeInv, RunnerAwake, Blocked, flags
<1>9. \A u \in Slots : Blocked(u)' => Compared(u)'
  BY <1>1, <1>2, <1>4, <1>6 DEF WakeInv, Compared, Blocked, flags
<1> QED
  BY <1>1, <1>2, <1>7, <1>8, <1>9 DEF WakeInv

(* Entering and leaving change the counter, never who is blocked.          *)
LEMMA CountStep ==
  ASSUME WakeInv, NEW t \in Slots,
         \/ \E s \in Semaphores :
              \/ tryEntry(t, s) \/ exit(t, s)
              \/ \E call \in {"entry", "entryWaitIndefinite"} : firstTryFails(t, s, call)
         \/ entry_resume(t) \/ entryWaitIndefinite_resume(t)
  PROVE  WakeInv'
<1> USE WakeTypes
<1>1. /\ current_thread = t /\ t \notin yielding
      /\ UNCHANGED <<system_threads, thread_priorities, current_thread,
                     current_active_state, thread_count, bits, yielding>>
  BY DEF tryEntry, exit, firstTryFails, entry_resume, entryWaitIndefinite_resume,
         Calling, At, Goto, kernelVars
<1>2. \A n \in 0 .. WORD_MOD - 1 : Decremented(n) \in 0 .. WORD_MOD - 1
  BY DEF Decremented
<1>3. \A s \in Semaphores : HasRoom(s) => word[s] + 1 \in 0 .. WORD_MOD - 1
  BY DEF HasRoom
<1>4. word' \in [Semaphores -> 0 .. WORD_MOD - 1]
  <2>1. \/ UNCHANGED word
        \/ \E s \in Semaphores :
             \/ HasRoom(s) /\ word' = [word EXCEPT ![s] = word[s] + 1]
             \/ word' = [word EXCEPT ![s] = Decremented(word[s])]
             \/ word' = [word EXCEPT ![s] = word[s]]
    BY DEF tryEntry, exit, firstTryFails, entry_resume, entryWaitIndefinite_resume,
           Enter, At, WakeInv, kernelVars
  <2> QED
    BY <1>2, <1>3, <2>1
<1>5. inside' \in [Semaphores -> SUBSET Slots]
  <2>1. \/ UNCHANGED inside
        \/ \E s \in Semaphores :
             inside' \in {[inside EXCEPT ![s] = inside[s] \cup {t}],
                         [inside EXCEPT ![s] = inside[s] \ {t}]}
    BY DEF tryEntry, exit, firstTryFails, entry_resume, entryWaitIndefinite_resume,
           Enter, Entered, At, WakeInv
  <2> QED
    BY <2>1
<1>6. \A u \in Slots : Blocked(u)' = Blocked(u)
  BY <1>1 DEF Blocked, flags
<1>7. CASE \E s \in Semaphores, call \in {"entry", "entryWaitIndefinite"} :
             firstTryFails(t, s, call)
  <2>1. PICK s \in Semaphores, label \in Labels :
          this' = [this EXCEPT ![t] = s] /\ pc' = [pc EXCEPT ![t] = label]
    BY <1>7 DEF firstTryFails, Goto, Labels
  <2>2. TypeOK'
    BY <1>1, <1>4, <1>5, <2>1 DEF TypeOK, ApplicationTypeOK, KernelTypeOK, Semaphores
  <2>3. ~Blocked(t)
    BY <1>1 DEF WakeInv, RunnerAwake
  <2>4. RunnerAwake' /\ \A u \in Slots : Blocked(u)' => Compared(u)'
    BY <1>1, <1>6, <2>1, <2>3 DEF WakeInv, RunnerAwake, Compared
  <2> QED
    BY <1>1, <2>1, <2>2, <2>4 DEF WakeInv
<1>8. CASE ~ \E s \in Semaphores, call \in {"entry", "entryWaitIndefinite"} :
             firstTryFails(t, s, call)
  <2>1. UNCHANGED this /\ pc' \in {pc, [pc EXCEPT ![t] = "user"]}
    BY <1>8 DEF tryEntry, exit, entry_resume, entryWaitIndefinite_resume, Goto
  <2>2. TypeOK'
    BY <1>1, <1>4, <1>5, <2>1
      DEF TypeOK, ApplicationTypeOK, KernelTypeOK, Semaphores, Labels
  <2> QED
    BY <1>1, <1>6, <2>1, <2>2, QuietStep
<1> QED
  BY <1>7, <1>8

(* The invariant is inductive.                                             *)
LEMMA WakeStep == WakeInv /\ [Next]_vars => WakeInv'
<1> SUFFICES ASSUME WakeInv, [Next]_vars PROVE WakeInv'
  OBVIOUS
<1>1. CASE UNCHANGED vars
  BY <1>1 DEF vars, threadVars, kernelVars, WakeInv, TypeOK, ApplicationTypeOK,
              KernelTypeOK, RunnerAwake, Blocked, Compared, flags
<1> QED
  BY <1>1, WakeApplicationStep, BlockStep, CountStep DEF Next, SemaphoreOperation

(* Every reachable state satisfies the invariant.                          *)
THEOREM WakeInvariant == Spec => []WakeInv
<1>1. Init => WakeInv
  <2> SUFFICES ASSUME Init PROVE WakeInv
    OBVIOUS
  <2>1. \A t \in Slots : ~Blocked(t)
    BY KernelInitFacts DEF Init, ApplicationInit, Blocked
  <2>2. TypeOK
    BY KernelInitFacts DEF Init, ApplicationInit, TypeOK, ApplicationTypeOK, Labels
  <2> QED
    BY <2>1, <2>2 DEF Init, ApplicationInit, KernelInit, WakeInv, RunnerAwake
<1> QED
  BY <1>1, WakeStep, PTL DEF Spec

(* No wake-up is lost: a thread blocked on a semaphore that has room is    *)
(* one the scheduler may choose, whatever calls made the room.             *)
THEOREM RoomWakesWaiters == Spec => []RoomWakesWaiter
<1>1. ASSUME WakeInv, NEW t \in Slots, Blocked(t), HasRoom(this[t])
      PROVE  Ready(t)
  <2>1. Compared(t)
    BY <1>1 DEF WakeInv
  <2>2. word[this[t]] \in Nat /\ max_entry \in Nat /\ word[this[t]] < max_entry
    BY <1>1, <2>1, WakeTypes DEF Compared, HasRoom
  <2>3. SemaphoreAvailable(system_threads[t])
    BY <2>1, <2>2 DEF Compared, SemaphoreAvailable
  <2> QED
    BY <1>1, <2>3 DEF Ready, CanWake, Blocked, flags
<1>2. WakeInv => RoomWakesWaiter
  BY <1>1 DEF RoomWakesWaiter, Blocked
<1> QED
  BY <1>2, WakeInvariant, PTL
=============================================================================
