----------------------------- MODULE RedBlackTree -----------------------------
(***************************************************************************)
(* RedBlackTreePointerModule (DS_HELPER/red_black_tree.cpp): a search tree *)
(* by reference number, which names its node.  insert colours and does not *)
(* balance: the call that would is commented out.  Parent links are left   *)
(* out, as only that function reads them.                                  *)
(*                                                                         *)
(* insertion_helper returns the new node to the frame above its parent's,  *)
(* which links it in the parent's place: the parent is lost.               *)
(***************************************************************************)
EXTENDS Integers, FiniteSets

CONSTANTS
  Numbers,   \* reference numbers
  Pointers,
  NULL

VARIABLES
  head,
  tree  \* reference number -> the node made for it last, or NULL

vars == <<head, tree>>

Init == head = NULL /\ tree = [k \in Numbers |-> NULL]

(* Where a search or an insertion of k goes from a node.                   *)
Below_SmallerRight(node, k) ==  \* mutant
  IF node > k THEN tree[node].right ELSE tree[node].left

Below(node, k) == IF node < k THEN tree[node].right ELSE tree[node].left

(* The helpers call themselves for nodes further down; no path has more    *)
(* nodes than there are.                                                   *)
Depth == Cardinality(Numbers)

search_helper(node, k) ==
  LET at[d \in 0 .. Depth] ==
        IF d = 0 THEN node
        ELSE IF at[d - 1] \in {NULL, k} THEN at[d - 1] ELSE Below(at[d - 1], k)
  IN at[Depth]

search(k) == search_helper(head, k)

(* A node's ptr is unset until it is assigned: NULL stands for that.       *)
RedBlackTreePointerNode(ptr, red) ==
  [ptr |-> ptr, red |-> red, left |-> NULL, right |-> NULL]

(* The node's link on k's side, set to a child.                            *)
Linked_RightOnly(nodes, node, k, child) ==  \* mutant
  [nodes EXCEPT ![node].right = child]

Linked(nodes, node, k, child) ==
  IF k < node THEN [nodes EXCEPT ![node].left = child]
              ELSE [nodes EXCEPT ![node].right = child]

(* The nodes after a call for a node, and what it returns; `below' is what *)
(* the calls for the nodes further down do.                                *)
Called(node, k, below) ==
  IF k = node THEN <<tree, node>>
  ELSE IF Below(node, k) = NULL
  THEN <<Linked([tree EXCEPT ![k] = RedBlackTreePointerNode(NULL, TRUE)], node, k, k), k>>
  ELSE LET returned == below[Below(node, k)]
       IN <<Linked(returned[1], node, k, returned[2]), node>>

insertion_helper(node, k) ==
  LET call[d \in 0 .. Depth] ==
        IF d = 0 THEN [n \in Numbers |-> <<tree, n>>]
        ELSE [n \in Numbers |-> Called(n, k, call[d - 1])]
  IN call[Depth][node]

insert_first(p, k) ==
  /\ head = NULL
  /\ head' = k
  /\ tree' = [tree EXCEPT ![k] = RedBlackTreePointerNode(p, FALSE)]

(* The pointer goes to what the outermost call returned: the head, unless  *)
(* the new node is the head's child.                                       *)
insert(p, k) ==
  /\ head # NULL
  /\ LET inserted == insertion_helper(head, k)
     IN tree' = [inserted[1] EXCEPT ![inserted[2]].ptr = p, ![inserted[2]].red = TRUE]
  /\ UNCHANGED head

Next == \E p \in Pointers, k \in Numbers : insert_first(p, k) \/ insert(p, k)

Spec == Init /\ [][Next]_vars

-----------------------------------------------------------------------------
(* What was inserted last is found, and whatever an insert loses, it is    *)
(* neither the head nor anything on the other side of it.                  *)
InsertedIsFound ==
  [][\A p \in Pointers, k \in Numbers : insert(p, k) =>
       /\ search(k)' = k /\ search(head)' = head
       /\ \A j \in Numbers : (j < head <=> k > head) /\ j # head => search(j)' = search(j)]_vars
=============================================================================
