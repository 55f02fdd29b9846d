---------------------------- MODULE AbstractMutex ----------------------------
(***************************************************************************)
(* What a mutex promises its users: a lock is granted to one thread at a   *)
(* time and given back by the thread that has it; a thread that waits does *)
(* nothing else, is granted the mutex when it is free, and is refused only *)
(* while another thread has it, and only if it asked with a timeout.       *)
(***************************************************************************)
CONSTANTS Threads, Mutexes, NULL

VARIABLES
  held,    \* thread -> the mutexes it may rely on having locked
  asking,  \* thread -> the mutex it waits for, or NULL
  timed    \* the threads that wait with a timeout

vars == <<held, asking, timed>>

Init ==
  /\ held = [t \in Threads |-> {}]
  /\ asking = [t \in Threads |-> NULL]
  /\ timed = {}

Free(m) == \A t \in Threads : m \notin held[t]

Locks(t, m) == held' = [held EXCEPT ![t] = @ \cup {m}]

Answered(t) ==
  /\ asking' = [asking EXCEPT ![t] = NULL]
  /\ timed' = timed \ {t}

Lock(t, m) ==
  /\ asking[t] = NULL
  /\ Free(m)
  /\ Locks(t, m)
  /\ UNCHANGED <<asking, timed>>

(* Without a timeout a thread waits only for a mutex that is taken.        *)
Ask(t, m) ==
  /\ asking[t] = NULL
  /\ asking' = [asking EXCEPT ![t] = m]
  /\ timed' = timed \cup {t} \/ (~Free(m) /\ UNCHANGED timed)
  /\ UNCHANGED held

Grant(t, m) ==
  /\ asking[t] = m
  /\ Free(m)
  /\ Locks(t, m)
  /\ Answered(t)

Refuse(t, m) ==
  /\ asking[t] = m
  /\ t \in timed
  /\ ~Free(m)
  /\ Answered(t)
  /\ UNCHANGED held

Unlock(t, m) ==
  /\ asking[t] = NULL
  /\ m \in held[t]
  /\ held' = [held EXCEPT ![t] = @ \ {m}]
  /\ UNCHANGED <<asking, timed>>

Next ==
  \E t \in Threads, m \in Mutexes :
    Lock(t, m) \/ Ask(t, m) \/ Grant(t, m) \/ Refuse(t, m) \/ Unlock(t, m)

Spec == Init /\ [][Next]_vars
=============================================================================
