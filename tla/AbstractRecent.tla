--------------------------- MODULE AbstractRecent ---------------------------
(* What a ring buffer promises: it keeps the latest Length values stored,   *)
(* oldest first, and forgets the oldest for each new one.                   *)
EXTENDS Integers, Sequences

CONSTANTS Length, Values, Blank

VARIABLE recent

Nothing == [i \in 1 .. Length |-> Blank]

Init == recent = Nothing

Reset == recent' = Nothing

Store(x) == recent' = Append(Tail(recent), x)

Next == Reset \/ \E x \in Values : Store(x)

Spec == Init /\ [][Next]_recent
=============================================================================
