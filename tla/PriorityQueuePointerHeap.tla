----------------------- MODULE PriorityQueuePointerHeap -----------------------
(***************************************************************************)
(* PriorityQueuePointerHeap (DS_HELPER/priority_queue.cpp): a max-heap in  *)
(* an array.  pop tests nothing, so callers ask num_elemnts first; neither *)
(* deinit nor init_priority_queue resets total_nodes, so they empty the    *)
(* heap before they give its memory back.                                  *)
(***************************************************************************)
EXTENDS Integers, FiniteSets

CONSTANTS
  Items,          \* PriorityQueueHeapNode
  max_node_size,  \* the size every init asks for
  GARBAGE,        \* what fresh memory holds
  NULL

VARIABLES
  node_list,    \* index -> node; NULL: no memory
  total_nodes,
  popped        \* what the last pop returned

vars == <<node_list, total_nodes, popped>>

Init == node_list = NULL /\ total_nodes = 0 /\ popped = NULL

init_priority_queue ==
  /\ node_list = NULL
  /\ node_list' = [i \in 0 .. max_node_size - 1 |-> GARBAGE]
  /\ UNCHANGED <<total_nodes, popped>>

deinit ==
  /\ node_list # NULL /\ total_nodes = 0
  /\ node_list' = NULL
  /\ UNCHANGED <<total_nodes, popped>>

parent(i) == (i - 1) \div 2
left_child(i) == 2 * i + 1
right_child_Left(i) == 2 * i + 1  \* mutant

right_child(i) == 2 * i + 2

swap(nodes, i, j) == [nodes EXCEPT ![i] = nodes[j], ![j] = nodes[i]]

(* One turn of insert's loop at <<nodes, m>>.  Turns after its end change   *)
(* nothing, and m turns lead past it.                                      *)
Raised(at) ==
  LET nodes == at[1]
      m == at[2]
  IN IF m # 0 /\ nodes[parent(m)].priority < nodes[m].priority
     THEN <<swap(nodes, parent(m), m), parent(m)>>
     ELSE at

SiftUp(nodes, m) ==
  LET turn[k \in 0 .. m] == IF k = 0 THEN <<nodes, m>> ELSE Raised(turn[k - 1])
  IN turn[m][1]

(* The larger one of `largest' and a child.  The test lets the child lie   *)
(* one past the end, where the element being moved down was before.        *)
Larger(nodes, total, child, largest) ==
  IF child <= total /\ nodes[child].priority > nodes[largest].priority
  THEN child ELSE largest

Largest(nodes, total, n) ==
  Larger(nodes, total, right_child(n), Larger(nodes, total, left_child(n), n))

(* One call of max_heapify at <<nodes, n>>: the recursive call is the last *)
(* thing it does.  A call that finds nothing larger is followed by others  *)
(* that change nothing.                                                    *)
Lowered(at, total) ==
  LET nodes == at[1]
      n == at[2]
      largest == Largest(nodes, total, n)
  IN IF largest # n THEN <<swap(nodes, n, largest), largest>> ELSE at

max_heapify(nodes, total, n) ==
  LET turn[k \in 0 .. total] == IF k = 0 THEN <<nodes, n>> ELSE Lowered(turn[k - 1], total)
  IN turn[total][1]

insert(item) ==
  /\ node_list # NULL /\ total_nodes < max_node_size
  /\ node_list' = SiftUp([node_list EXCEPT ![total_nodes] = item], total_nodes)
  /\ total_nodes' = total_nodes + 1
  /\ UNCHANGED popped

insert_full ==
  /\ node_list # NULL /\ total_nodes = max_node_size
  /\ UNCHANGED vars

pop ==
  /\ total_nodes > 0
  /\ popped' = node_list[0].ptr
  /\ total_nodes' = total_nodes - 1
  /\ LET last == total_nodes - 1
     IN node_list' = max_heapify([node_list EXCEPT ![0] = node_list[last]], last, 0)

Next ==
  \/ init_priority_queue \/ deinit \/ insert_full \/ pop
  \/ \E item \in Items : insert(item)

Spec == Init /\ [][Next]_vars

Used == 0 .. total_nodes - 1

Contents ==
  [x \in {node_list[i] : i \in Used} |-> Cardinality({i \in Used : node_list[i] = x})]
=============================================================================
