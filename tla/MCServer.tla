------------------------------ MODULE MCServer ------------------------------
(* The server on small instances. *)
EXTENDS Server, TLC

CONSTANTS s1   \* one of the sessions

\* A table with one row in its second slot: the first one is free.
OneRow == <<[rid |-> 1, key |-> 1]>>

\* An empty table.
NoRow == <<>>

\* Bounds on the requests of the sessions.
Two == [s \in Sessions |-> 2]
Three == [s \in Sessions |-> 3]
FourAndThree == [s \in Sessions |-> IF s = s1 THEN 4 ELSE 3]

SessionSymmetry == Permutations(Sessions)

=============================================================================
