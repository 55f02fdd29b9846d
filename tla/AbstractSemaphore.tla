-------------------------- MODULE AbstractSemaphore --------------------------
(***************************************************************************)
(* What a semaphore promises: at most `Entries' threads are inside at a    *)
(* time; a thread waits only while there is no room, and when its wait is  *)
(* over it enters if there is room then, and is refused only if there is   *)
(* none.                                                                   *)
(***************************************************************************)
EXTENDS FiniteSets, Integers

CONSTANTS Threads, Semaphores, Entries, NULL

VARIABLES
  inside,  \* semaphore -> the threads that have entered it
  asking   \* thread -> the semaphore it waits for, or NULL

vars == <<inside, asking>>

Init ==
  /\ inside = [s \in Semaphores |-> {}]
  /\ asking = [t \in Threads |-> NULL]

Room(s) == Cardinality(inside[s]) < Entries

Enters(t, s) ==
  /\ t \notin inside[s]
  /\ Room(s)
  /\ inside' = [inside EXCEPT ![s] = @ \cup {t}]

Enter(t, s) ==
  /\ asking[t] = NULL
  /\ Enters(t, s)
  /\ UNCHANGED asking

Ask(t, s) ==
  /\ asking[t] = NULL
  /\ ~Room(s)
  /\ asking' = [asking EXCEPT ![t] = s]
  /\ UNCHANGED inside

Grant(t, s) ==
  /\ asking[t] = s
  /\ Enters(t, s)
  /\ asking' = [asking EXCEPT ![t] = NULL]

Refuse(t, s) ==
  /\ asking[t] = s
  /\ ~Room(s)
  /\ asking' = [asking EXCEPT ![t] = NULL]
  /\ UNCHANGED inside

Leave(t, s) ==
  /\ asking[t] = NULL
  /\ t \in inside[s]
  /\ inside' = [inside EXCEPT ![s] = @ \ {t}]
  /\ UNCHANGED asking

Next ==
  \E t \in Threads, s \in Semaphores :
    Enter(t, s) \/ Ask(t, s) \/ Grant(t, s) \/ Refuse(t, s) \/ Leave(t, s)

Spec == Init /\ [][Next]_vars
=============================================================================
