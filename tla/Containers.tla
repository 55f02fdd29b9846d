------------------------------ MODULE Containers ------------------------------
(***************************************************************************)
(* The containers of DS_HELPER side by side: both priority queues, the two *)
(* rings, the linked queue, the search tree and the allocator.             *)
(***************************************************************************)
EXTENDS Integers, FiniteSets

CONSTANTS
  Pointers,
  nullptr,
  Priorities, MAX_NODES,  \* PriorityQueuePointerNaive
  max_node_size,          \* PriorityQueuePointerHeap
  buffer_length,          \* both rings
  MAX_POSITION,           \* CircularBufferString
  Nodes, QUEUE_MOD,       \* PointerQueue
  GARBAGE,                \* what fresh memory holds
  Numbers,                \* RedBlackTree
  HEADER, POOL, SIZE_MOD, Requests, Owners  \* FastMalloc

ASSUME PrioritiesAssumption == Priorities \subseteq Int
ASSUME SizeAssumption == max_node_size \in Nat
ASSUME LengthAssumption == buffer_length \in Nat \ {0}
ASSUME NumbersAssumption == Numbers \subseteq Int /\ IsFiniteSet(Numbers)

(* The array has room for a header, and size_t counts from 0.              *)
ASSUME PoolAssumption ==
  /\ HEADER \in Nat \ {0} /\ POOL \in Nat /\ HEADER <= POOL
  /\ SIZE_MOD \in Nat \ {0}
  /\ Requests \subseteq Nat

Items == [ptr : Pointers, priority : Priorities]

(* The null pointer is neither a ring's or a heap's memory nor a node.     *)
ASSUME BlankAssumption ==
  /\ nullptr \notin [0 .. buffer_length - 1 -> Pointers \cup {nullptr}]
  /\ nullptr \notin [0 .. max_node_size - 1 -> Items \cup {GARBAGE}]
ASSUME NodesAssumption == nullptr \notin Nodes /\ nullptr \notin Numbers

VARIABLES
  list, list_popped,
  node_list, total_nodes, heap_popped,
  buffer, current_position, freed,
  string, string_position, string_written,
  head, tail, ptr, next, inUse, size,
  root, tree,
  blocks, held, corrupted, sound

List == INSTANCE PriorityQueuePointerNaive WITH popped <- list_popped, NULL <- nullptr
Heap == INSTANCE PriorityQueuePointerHeap WITH popped <- heap_popped, NULL <- nullptr
Ring == INSTANCE CircularBufferPointer WITH NULL <- nullptr
String == INSTANCE CircularBufferString
          WITH buffer <- string, current_position <- string_position,
               written <- string_written
Queue == INSTANCE PointerQueue WITH NULL <- nullptr
Tree == INSTANCE RedBlackTree WITH head <- root, NULL <- nullptr
Malloc == INSTANCE FastMalloc WITH NULL <- nullptr

-----------------------------------------------------------------------------
ListQueue ==
  INSTANCE AbstractPriorityQueue
  WITH contents <- List!Contents, popped <- list_popped, NULL <- nullptr

HeapQueue ==
  INSTANCE AbstractPriorityQueue
  WITH contents <- Heap!Contents, popped <- heap_popped, NULL <- nullptr

(* Both priority queues of priority_queue.cpp keep what is inserted and pop*)
(* an element of highest priority, at capacity and with equal priorities;  *)
(* the heap loses nothing, the list only what check_exists drops: all.     *)
PriorityQueueImplemented == ListQueue!ClearingSpec /\ HeapQueue!Spec

(* Whatever is inserted, the ring holds the latest pointers in their order. *)
SlidingWindow == Ring!SlidingWindow

(* A string that starts inside the buffer is written inside it.            *)
InsertStaysInside == String!InsertStaysInside

(* The linked queue is empty at both ends or at neither.                   *)
EndsTogether == Queue!EndsTogether

(* What was inserted into the tree is found.                               *)
InsertedIsFound == Tree!InsertedIsFound

(* The allocator's list goes up through the array, and until a known flaw  *)
(* has been met users' memory is apart.                                    *)
ListedBlocksApart == Malloc!ListedBlocksApart
LiveAreasApart == Malloc!LiveAreasApart
=============================================================================
