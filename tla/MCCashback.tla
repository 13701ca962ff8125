----------------------------- MODULE MCCashback -----------------------------
(* Small instances of Cashback for TLC. *)
EXTENDS Cashback

CONSTANTS w1, w2, v1

\* With Amounts = {1, 3} only 3 is a purchase: it earns 2, or 1 beside a spend of 1,
\* so a spend of 3 crosses lots and leaves one of them partly spent.
Short == [rate |-> 7000, maxSpend |-> 10000, expiry |-> 1, minPurchase |-> 3, active |-> TRUE]
Long == [Short EXCEPT !.expiry = 2]

\* Half a purchase at most.
Half == [Long EXCEPT !.maxSpend = 5000]

ShortAndLong == {Short, Long}
JustHalf == {Half}

=============================================================================
