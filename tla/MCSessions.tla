----------------------------- MODULE MCSessions -----------------------------
(* A small instance of Sessions for TLC. *)
EXTENDS Sessions, TLC

Symmetry == Permutations(Threads)

\* A second token is issued only while the row is as it was at the start: no statement reads
\* the row and the tokens both.
RowOrTokens ==
    \/ Len(tokens) <= 1
    \/ /\ user = [pin |-> 1, failed |-> 0, lockedUntil |-> None, qr |-> 1]
       /\ made = [pin |-> 1, qr |-> 1]
       /\ \A t \in Threads : threads[t].phase \notin {"count", "patch"}

=============================================================================
