---------------------- MODULE PriorityQueuePointerNaive ----------------------
(***************************************************************************)
(* PriorityQueuePointerNaive (DS_HELPER/priority_queue.cpp) as a container *)
(* of its own: the linked list, head first.                                *)
(***************************************************************************)
EXTENDS PriorityList, SequencesExt

CONSTANTS
  Items,      \* PriorityQueueNaiveNode without its next pointer
  MAX_NODES,  \* bound: memory for nodes
  NULL

VARIABLES
  list,
  popped  \* what the last pop returned

vars == <<list, popped>>

Init == list = <<>> /\ popped = NULL

insert(item) ==
  /\ Len(list) < MAX_NODES
  /\ \E last \in 0 .. Len(list) :
       InsertsAfter(list, item, last) /\ list' = InsertAt(list, last + 1, item)
  /\ UNCHANGED popped

pop_empty == list = <<>> /\ popped' = NULL /\ UNCHANGED list

pop ==
  /\ list # <<>>
  /\ popped' = Head(list).ptr
  /\ list' = Tail(list)

(* The test for an empty list assigns: the list is lost and -1 returned.   *)
check_exists == list' = <<>> /\ UNCHANGED popped

Next == pop_empty \/ pop \/ check_exists \/ \E item \in Items : insert(item)

Spec == Init /\ [][Next]_vars

Contents == [x \in ToSet(list) |-> Cardinality({i \in DOMAIN list : list[i] = x})]
=============================================================================
