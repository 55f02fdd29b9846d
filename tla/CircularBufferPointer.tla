------------------------ MODULE CircularBufferPointer ------------------------
(***************************************************************************)
(* CircularBufferPointer (DS_HELPER/circular_buffer.cpp): a ring of        *)
(* pointers that overwrites the oldest.                                    *)
(*                                                                         *)
(* deinit gives the memory back and keeps the pointer to it: a caller may  *)
(* only call init after it.  get_entire_buffer hands out the ring without  *)
(* current_position.                                                       *)
(***************************************************************************)
EXTENDS Integers, Sequences

CONSTANTS
  buffer_length,  \* the size every init asks for
  Pointers,
  NULL

VARIABLES
  buffer,            \* NULL, or what the cells hold; NULL: not written yet
  current_position,
  freed              \* whether buffer is left over from a deinit

vars == <<buffer, current_position, freed>>

Cells == 0 .. buffer_length - 1

TypeOK ==
  /\ buffer \in [Cells -> Pointers \cup {NULL}] \cup {NULL}
  /\ current_position \in Cells
  /\ freed \in BOOLEAN

Unwritten == [i \in Cells |-> NULL]

Init == buffer = NULL /\ current_position = 0 /\ freed = FALSE

(* Allocation may fail; memory passed by the caller is there.              *)
init ==
  /\ buffer' \in {NULL, Unwritten}
  /\ current_position' = 0
  /\ freed' = FALSE

Following(position) == IF position + 1 = buffer_length THEN 0 ELSE position + 1

insert_null == buffer = NULL /\ UNCHANGED vars

insert_StoresNext(ptr) ==  \* mutant: advances before it stores
  /\ buffer # NULL /\ ~freed
  /\ buffer' = [buffer EXCEPT ![Following(current_position)] = ptr]
  /\ current_position' = Following(current_position)
  /\ UNCHANGED freed

insert(ptr) ==
  /\ buffer # NULL /\ ~freed
  /\ buffer' = [buffer EXCEPT ![current_position] = ptr]
  /\ current_position' = Following(current_position)
  /\ UNCHANGED freed

deinit ==
  /\ ~freed
  /\ freed' = (buffer # NULL)
  /\ UNCHANGED <<buffer, current_position>>

Next == init \/ insert_null \/ deinit \/ \E ptr \in Pointers : insert(ptr)

Spec == Init /\ [][Next]_vars

-----------------------------------------------------------------------------
(* Read from current_position on, the ring is the latest pointers stored,  *)
(* oldest first: no insert loses a younger one or changes their order.     *)
From(offset) ==
  IF current_position + offset < buffer_length THEN current_position + offset
  ELSE current_position + offset - buffer_length

Window ==
  [i \in 1 .. buffer_length |-> IF buffer = NULL THEN NULL ELSE buffer[From(i - 1)]]

Recent == INSTANCE AbstractRecent
            WITH Length <- buffer_length, Values <- Pointers, Blank <- NULL,
                 recent <- Window

SlidingWindow == Recent!Spec
=============================================================================
