------------------------------ MODULE MCLibrary ------------------------------
(***************************************************************************)
(* What the kernel does not use, for TLC: the data structures of DS_HELPER *)
(* and the motion sensor's driver.  They are independent: an execution     *)
(* chooses one at the start and calls its operations.                      *)
(***************************************************************************)
EXTENDS Containers, MPU6050

VARIABLES
  chosen

ringVars == <<buffer, current_position, freed>>
listVars == <<list, list_popped>>
heapVars == <<node_list, total_nodes, heap_popped>>
stringVars == <<string, string_position, string_written>>
queueVars == <<head, tail, ptr, next, inUse, size>>
treeVars == <<root, tree>>
mallocVars == <<blocks, held, corrupted, sound>>

LibraryInit ==
  /\ chosen \in {"list", "heap", "ring", "string", "queue", "tree", "malloc", "imu"}
  /\ Init
  /\ List!Init /\ Heap!Init /\ Ring!Init /\ String!Init /\ Queue!Init /\ Tree!Init /\ Malloc!Init

LibraryNext ==
  /\ UNCHANGED chosen
  /\ chosen # "list" => UNCHANGED listVars
  /\ chosen # "heap" => UNCHANGED heapVars
  /\ chosen # "ring" => UNCHANGED ringVars
  /\ chosen # "string" => UNCHANGED stringVars
  /\ chosen # "queue" => UNCHANGED queueVars
  /\ chosen # "tree" => UNCHANGED treeVars
  /\ chosen # "malloc" => UNCHANGED mallocVars
  /\ chosen # "imu" => UNCHANGED vars
  /\ \/ chosen = "list" /\ List!Next
     \/ chosen = "heap" /\ Heap!Next
     \/ chosen = "ring" /\ Ring!Next
     \/ chosen = "string" /\ String!Next
     \/ chosen = "queue" /\ Queue!Next
     \/ chosen = "tree" /\ Tree!Next
     \/ chosen = "malloc" /\ Malloc!Next
     \/ chosen = "imu" /\ Next

LibrarySpec ==
  LibraryInit
  /\ [][LibraryNext]_<<chosen, listVars, heapVars, ringVars, stringVars, queueVars, treeVars,
                       mallocVars, vars>>
=============================================================================
