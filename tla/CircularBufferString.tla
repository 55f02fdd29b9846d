------------------------ MODULE CircularBufferString ------------------------
(***************************************************************************)
(* CircularBufferString (DS_HELPER/circular_buffer.cpp): a ring of         *)
(* characters into which strings are copied, each followed by a NUL.  Of   *)
(* the characters the model keeps where they are written.                  *)
(***************************************************************************)
EXTENDS Integers

CONSTANTS
  buffer_length,  \* the size every init asks for
  MAX_POSITION    \* bound: no insert from beyond it

VARIABLES
  buffer,            \* "null", "allocated", or "freed" by deinit
  current_position,
  written            \* the offsets the last insert wrote at

vars == <<buffer, current_position, written>>

Init == buffer = "null" /\ current_position = 0 /\ written = {}

(* Allocation may fail; memory passed by the caller is there.              *)
init ==
  /\ buffer' \in {"null", "allocated"}
  /\ current_position' = 0
  /\ written' = {}

(* One character of the copy loop, on <<position, offsets written>>.       *)
Put_EarlyTest(at) ==  \* mutant: the wrap is tested before the increment
  <<IF at[1] = buffer_length THEN 0 ELSE at[1] + 1, at[2] \cup {at[1]}>>

Put(at) ==
  <<IF at[1] + 1 = buffer_length THEN 0 ELSE at[1] + 1, at[2] \cup {at[1]}>>

Copied(len) ==
  LET at[n \in 0 .. len] == IF n = 0 THEN <<current_position, {}>> ELSE Put(at[n - 1])
  IN at[len]

(* The NUL goes after the last character, and no wrap follows it.          *)
insert(len) ==
  /\ buffer = "allocated" /\ len <= buffer_length
  /\ current_position <= MAX_POSITION
  /\ LET at == Copied(len)
     IN /\ written' = at[2] \cup {at[1]}
        /\ current_position' = at[1] + 1
  /\ UNCHANGED buffer

insert_refused(len) ==
  /\ buffer = "null" \/ (buffer = "allocated" /\ len > buffer_length)
  /\ UNCHANGED vars

(* The memory is given back and the pointer kept: the caller may only call *)
(* init after that.                                                        *)
deinit ==
  /\ buffer # "freed"
  /\ buffer' = IF buffer = "null" THEN "null" ELSE "freed"
  /\ UNCHANGED <<current_position, written>>

Next ==
  \/ init
  \/ \E len \in 0 .. buffer_length + 1 : insert(len) \/ insert_refused(len)
  \/ deinit

Spec == Init /\ [][Next]_vars

-----------------------------------------------------------------------------
(* An insert writes inside the buffer exactly if it starts inside: the one *)
(* way out is a NUL in the last cell, after which the position is the      *)
(* length and the wrap test never succeeds again.                          *)
InsertStaysInside ==
  [][written' # written /\ written' # {} =>
       (written' \subseteq 0 .. buffer_length - 1 <=> current_position < buffer_length)]_vars
=============================================================================
