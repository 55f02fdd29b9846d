----------------------------- MODULE PointerQueue -----------------------------
(***************************************************************************)
(* PointerQueue (DS_HELPER/queue.cpp): a linked list of pointers with a    *)
(* head, a tail and a count.                                               *)
(*                                                                         *)
(* enque on a non-empty queue moves tail to the new node before it links   *)
(* the old one, so the new node is linked to itself and nothing reaches    *)
(* it; on an empty queue it leaves the new node's next pointer unset: the  *)
(* next head may be any address, a freed node's included.                  *)
(***************************************************************************)
EXTENDS Integers

CONSTANTS
  Nodes,      \* bound: memory for QueueLinkedList nodes
  Pointers,
  NULL,
  GARBAGE,    \* an address that is no node's
  QUEUE_MOD   \* size counts modulo this (2^16 in the code)

VARIABLES
  head,
  tail,
  ptr,    \* node -> its pointer
  next,   \* node -> its next pointer
  inUse,  \* nodes allocated and not freed
  size

vars == <<head, tail, ptr, next, inUse, size>>

Init ==
  /\ head = NULL /\ tail = NULL
  /\ ptr = [n \in Nodes |-> NULL] /\ next = [n \in Nodes |-> NULL]
  /\ inUse = {}
  /\ size = 0

(* What an unset pointer may hold.                                        *)
Targets == Nodes \cup {NULL, GARBAGE}

Allocated(node) == node \in Nodes \ inUse /\ inUse' = inUse \cup {node}

enque_first(node, p) ==
  /\ tail = NULL
  /\ Allocated(node)
  /\ tail' = node /\ head' = node
  /\ ptr' = [ptr EXCEPT ![node] = p]
  /\ \E unset \in Targets : next' = [next EXCEPT ![node] = unset]
  /\ size' = (size + 1) % QUEUE_MOD

enque_next(node, p) ==
  /\ tail # NULL
  /\ Allocated(node)
  /\ tail' = node
  /\ ptr' = [ptr EXCEPT ![node] = p]
  /\ next' = [next EXCEPT ![node] = node]
  /\ size' = (size + 1) % QUEUE_MOD
  /\ UNCHANGED head

(* What is read as the head's next pointer.  Where the head is not a node  *)
(* in use that can be anything; freeing it again is taken to do no harm.   *)
NewHead == IF head \in inUse THEN {next[head]} ELSE Targets

(* An empty queue is left alone, with NULL returned.                       *)
deque_KeepsTail ==  \* mutant: tail stays at the node just freed
  /\ head # NULL
  /\ inUse' = inUse \ {head}
  /\ head' \in NewHead
  /\ size' = (size - 1) % QUEUE_MOD
  /\ UNCHANGED <<tail, ptr, next>>

deque ==
  /\ head # NULL
  /\ inUse' = inUse \ {head}
  /\ head' \in NewHead
  /\ tail' = IF head' = NULL THEN NULL ELSE tail
  /\ size' = (size - 1) % QUEUE_MOD
  /\ UNCHANGED <<ptr, next>>

Next ==
  \/ \E node \in Nodes, p \in Pointers : enque_first(node, p) \/ enque_next(node, p)
  \/ deque

Spec == Init /\ [][Next]_vars

-----------------------------------------------------------------------------
(* "The assumption is that if the tail is null, so is the head", and the   *)
(* other way round: wherever an unset pointer leads, the queue is empty at *)
(* both ends or at neither.                                                *)
EndsTogether == tail = NULL <=> head = NULL
=============================================================================
