---------------------------- MODULE AbstractQueue ----------------------------
(***************************************************************************)
(* What a bounded queue promises: values come out in the order in which    *)
(* they went in, each of them once, and a thread that gets none has found  *)
(* the queue empty.                                                        *)
(***************************************************************************)
EXTENDS Integers, Sequences

CONSTANTS Threads, Data, Capacity, None

VARIABLES
  items,    \* values in the queue, oldest first
  received  \* thread -> what its last pop returned

Init == items = <<>> /\ received = [t \in Threads |-> None]

Push(data) ==
  /\ Len(items) < Capacity
  /\ items' = Append(items, data)
  /\ UNCHANGED received

Pop(t) ==
  /\ items # <<>>
  /\ items' = Tail(items)
  /\ received' = [received EXCEPT ![t] = Head(items)]

PopEmpty(t) ==
  /\ items = <<>>
  /\ received' = [received EXCEPT ![t] = None]
  /\ UNCHANGED items

Next ==
  \/ \E data \in Data : Push(data)
  \/ \E t \in Threads : Pop(t) \/ PopEmpty(t)

Spec == Init /\ [][Next]_<<items, received>>
=============================================================================
