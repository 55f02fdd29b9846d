---------------------------- MODULE PriorityList ----------------------------
(***************************************************************************)
(* Where PriorityQueuePointerNaive (DS_HELPER/priority_queue.cpp) puts a   *)
(* new node: the scheduler's list and the container share it.              *)
(***************************************************************************)
EXTENDS Integers, Sequences

(* PriorityQueuePointerNaive::insert, as the number of nodes in front of   *)
(* the new one.  A node whose priority is at least the head's becomes the  *)
(* head; any other walks past the head and on while the next node's        *)
(* priority is at least its own.                                           *)
InsertsAfter_AlwaysHead(list, node, last) == last = 0  \* mutant

InsertsAfter(list, node, last) ==
  IF list = <<>> \/ list[1].priority <= node.priority
  THEN last = 0
  ELSE /\ last >= 1
       /\ \A j \in 2 .. last : list[j].priority >= node.priority
       /\ last < Len(list) => list[last + 1].priority < node.priority
=============================================================================
