-------------------------- MODULE OSSemaphoreKernel --------------------------
(***************************************************************************)
(* SemaphoreLock (OS/OSSemaphoreKernel.cpp) used by application threads.   *)
(* A thread enters a semaphore at most once before it exits; the call      *)
(* "over_exit" lets a thread exit a semaphore it is not inside.            *)
(***************************************************************************)
EXTENDS OSApplication, FiniteSets

CONSTANT max_entry  \* capacity of every semaphore

AllCalls == {"tryEntry", "entry", "entryWaitIndefinite", "exit", "over_exit",
             "sleep", "yield", "suspend", "resume"}

ASSUME CallsAssumption == Calls \subseteq AllCalls
ASSUME EntryAssumption == max_entry \in 1 .. WORD_MOD - 1

VARIABLES
  this,   \* slot -> semaphore its thread's blocking call is about
  inside  \* semaphore -> threads whose code relies on having entered it

vars == <<threadVars, this, inside>>

Semaphores == Words

(* "... fails" labels: the first attempt has failed and the kernel runs    *)
(* again; "entry", "entryWaitIndefinite": the thread comes back.           *)
Labels == {"user", "entry fails", "entry",
           "entryWaitIndefinite fails", "entryWaitIndefinite"}

TypeOK ==
  /\ ApplicationTypeOK(Labels)
  /\ this \in [Slots -> Semaphores \cup {NULL}]
  /\ inside \in [Semaphores -> SUBSET Slots]

Init ==
  /\ ApplicationInit
  /\ this = [t \in Slots |-> NULL]
  /\ inside = [s \in Semaphores |-> {}]

-----------------------------------------------------------------------------
HasRoom_WhenFull(s) == word[s] <= max_entry  \* mutant

HasRoom(s) == word[s] < max_entry

Entered(t, s) == inside' = [inside EXCEPT ![s] = @ \cup {t}]

(* A successful tryEntry; a failed one changes nothing.                    *)
Enter(t, s) ==
  /\ HasRoom(s)
  /\ word' = [word EXCEPT ![s] = @ + 1]
  /\ Entered(t, s)

(* Each way in starts with tryEntry...                                     *)
tryEntry(t, s) ==
  /\ \E call \in {"tryEntry", "entry", "entryWaitIndefinite"} : Calling(t, call)
  /\ t \notin inside[s]
  /\ Enter(t, s)
  /\ UNCHANGED <<system_threads, thread_priorities, current_thread,
                 current_active_state, thread_count, bits, pc, yielding, this>>

(* ... and two of them go on to wait when it fails.                        *)
firstTryFails(t, s, call) ==
  /\ Calling(t, call)
  /\ t \notin inside[s]
  /\ ~HasRoom(s)
  /\ this' = [this EXCEPT ![t] = s]
  /\ Goto(t, IF call = "entry" THEN "entry fails" ELSE "entryWaitIndefinite fails")
  /\ UNCHANGED <<kernelVars, inside>>

(* entry(timeout_ms): blocked until the timeout or until the scheduler     *)
(* sees the counter at or below the capacity, then one more attempt.       *)
entry_block(t) ==
  /\ At(t, "entry fails")
  /\ \E timeout_ms \in 0 .. MAX_INTERVAL :
       system_threads' = [system_threads EXCEPT
                            ![t].flags = "BLOCKED_SEMAPHORE_TIMEOUT",
                            ![t].remaining = timeout_ms,
                            ![t].mutex_semaphore = this[t],
                            ![t].semaphore_max_count = max_entry]
  /\ YieldThen(t, "entry")
  /\ UNCHANGED <<thread_priorities, current_thread, current_active_state,
                 thread_count, word, bits, this, inside>>

entry_resume_GivesUp(t) ==  \* mutant: no second attempt
  /\ At(t, "entry")
  /\ Goto(t, "user")
  /\ UNCHANGED <<kernelVars, this, inside>>

entry_resume(t) ==
  /\ At(t, "entry")
  /\ Enter(t, this[t]) \/ (~HasRoom(this[t]) /\ UNCHANGED <<word, inside>>)
  /\ Goto(t, "user")
  /\ UNCHANGED <<system_threads, thread_priorities, current_thread,
                 current_active_state, thread_count, bits, this>>

(* entryWaitIndefinite returns a count and no status: its caller relies on *)
(* having entered, whatever the second attempt says.                       *)
entryWaitIndefinite_block(t) ==
  /\ At(t, "entryWaitIndefinite fails")
  /\ system_threads' = [system_threads EXCEPT
                          ![t].flags = "BLOCKED_SEMAPHORE",
                          ![t].mutex_semaphore = this[t],
                          ![t].semaphore_max_count = max_entry]
  /\ YieldThen(t, "entryWaitIndefinite")
  /\ UNCHANGED <<thread_priorities, current_thread, current_active_state,
                 thread_count, word, bits, this, inside>>

entryWaitIndefinite_resume(t) ==
  /\ At(t, "entryWaitIndefinite")
  /\ word' = [word EXCEPT ![this[t]] = IF HasRoom(this[t]) THEN @ + 1 ELSE @]
  /\ Entered(t, this[t])
  /\ Goto(t, "user")
  /\ UNCHANGED <<system_threads, thread_priorities, current_thread,
                 current_active_state, thread_count, bits, this>>

(* The counter is unsigned: below 0 it wraps around.                       *)
Decremented_Unchanged(n) == n  \* mutant

Decremented(n) == IF n = 0 THEN WORD_MOD - 1 ELSE n - 1

(* exit decrements the counter even when it reports SEMAPHORE_EXIT_FAIL.   *)
exit(t, s) ==
  /\ IF t \in inside[s] THEN Calling(t, "exit") ELSE Calling(t, "over_exit")
  /\ word' = [word EXCEPT ![s] = Decremented(@)]
  /\ inside' = [inside EXCEPT ![s] = @ \ {t}]
  /\ UNCHANGED <<system_threads, thread_priorities, current_thread,
                 current_active_state, thread_count, bits, pc, yielding, this>>

SemaphoreOperation(t) ==
  \/ \E s \in Semaphores :
       \/ tryEntry(t, s)
       \/ exit(t, s)
       \/ \E call \in {"entry", "entryWaitIndefinite"} : firstTryFails(t, s, call)
  \/ entry_block(t)
  \/ entry_resume(t)
  \/ entryWaitIndefinite_block(t)
  \/ entryWaitIndefinite_resume(t)

Next ==
  \/ ApplicationNext /\ UNCHANGED <<this, inside>>
  \/ \E t \in Slots : SemaphoreOperation(t)

Spec == Init /\ [][Next]_vars

-----------------------------------------------------------------------------
(* Never are more threads inside than the semaphore admits.                *)
EntrantsBounded == \A s \in Semaphores : Cardinality(inside[s]) <= max_entry

(* The counter is the number of threads inside: no entry is lost, and no   *)
(* exit is counted twice.                                                  *)
CounterIsEntrants == \A s \in Semaphores : word[s] = Cardinality(inside[s])

(* No wake-up is lost: a thread blocked on a semaphore that has room is    *)
(* one the scheduler may choose, whatever calls made the room.             *)
RoomWakesWaiter ==
  \A t \in Slots :
    flags(t) \in {"BLOCKED_SEMAPHORE", "BLOCKED_SEMAPHORE_TIMEOUT"} /\ HasRoom(this[t])
      => Ready(t)

(* The abstract semaphore's waiting threads: those inside entry whose      *)
(* first attempt has failed.                                               *)
Asking == [t \in Slots |-> IF pc[t] \in {"entry fails", "entry"} THEN this[t] ELSE NULL]

Abstract == INSTANCE AbstractSemaphore
              WITH Threads <- Slots, Entries <- max_entry, asking <- Asking

(* SemaphoreLock implements the abstract semaphore: beyond the bound on    *)
(* entrants, entry waits only when it finds no room, and what it answers   *)
(* in the end is true at that moment, whoever ran in between.              *)
AbstractSpec == Abstract!Spec
=============================================================================
