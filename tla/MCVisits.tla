------------------------------ MODULE MCVisits ------------------------------
(* Visits on a small instance. *)
EXTENDS Visits

CONSTANT v1

Two == [target |-> 2, rewards |-> 1, active |-> TRUE]
Pair == [target |-> 1, rewards |-> 2, active |-> TRUE]
Off == [target |-> 2, rewards |-> 1, active |-> FALSE]

\* A director who changes the target and the number of gifts, or switches the program off.
Changing == {Two, Pair, Off}
Fixed == {Two}
=============================================================================
