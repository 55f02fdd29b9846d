------------------------ MODULE AbstractPriorityQueue ------------------------
(* What a priority queue promises: it keeps what was inserted, as often as  *)
(* it was, and pop takes an element that no other one precedes.             *)
EXTENDS Integers, BagsExt

CONSTANTS Items, NULL  \* records with a ptr and a priority

VARIABLES
  contents,  \* a bag: how often it holds each item
  popped  \* what the last pop returned

Nothing == [item \in {} |-> 0]

Init == contents = Nothing /\ popped = NULL

Insert(item) == contents' = BagAdd(contents, item) /\ UNCHANGED popped

Pop(item) ==
  /\ item \in DOMAIN contents
  /\ \A other \in DOMAIN contents : other.priority <= item.priority
  /\ contents' = BagRemove(contents, item)
  /\ popped' = item.ptr

PopEmpty == contents = Nothing /\ popped' = NULL /\ UNCHANGED contents

Clear == contents' = Nothing /\ UNCHANGED popped

Next == PopEmpty \/ \E item \in Items : Insert(item) \/ Pop(item)

vars == <<contents, popped>>

Spec == Init /\ [][Next]_vars

(* A queue that may also lose all it holds at once.                        *)
ClearingSpec == Init /\ [][Next \/ Clear]_vars
=============================================================================
