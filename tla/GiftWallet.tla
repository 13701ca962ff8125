----------------------------- MODULE GiftWallet -----------------------------
(***************************************************************************)
(* What a VISIT program promises its client, without targets, settings,     *)
(* clamps or jobs: gifts that come with visits, are asked for by one        *)
(* request at a time, used once and taken away only with their visit, and   *)
(* counters that move with them.  Every change but asking and dropping is   *)
(* an entry of the ledger, and an entry is reversed at most once.  Visits   *)
(* implements it (Visits!KeepsWallet).                                     *)
(***************************************************************************)
EXTENDS Integers, Sequences, FiniteSets

CONSTANT Rewards \* how many gifts a visit may bring

VARIABLES
    gifts,    \* "FREE", "HELD" by a request, "USED" or "VOID"
    requests, \* the gift the client was asked about, and what became of it
    ledger,   \* the entries: what they brought or used, what they reverse
    counters  \* visits, earned, used and available gifts, as the client is shown

vars == <<gifts, requests, ledger, counters>>

Entry(kind, what) == [kind |-> kind, gifts |-> what, request |-> 0, reverses |-> 0]

Reversal(e) == [Entry("reversal", {}) EXCEPT !.reverses = e]

\* An entry can be reversed as long as no other reverses it.
Stands(e, kind) ==
    /\ ledger[e].kind = kind
    /\ \A f \in DOMAIN ledger : ledger[f].reverses # e

\* What the client is shown moves by these amounts.
Count(visits, earned, used, available) ==
    counters' = [visits    |-> counters.visits + visits,
                 earned    |-> counters.earned + earned,
                 used      |-> counters.used + used,
                 available |-> counters.available + available]

\* A visit brings n gifts, each with an entry of its own.
Visit(n) ==
    /\ gifts' = gifts \o [i \in 1..n |-> "FREE"]
    /\ ledger' = Append(ledger, Entry("visit", Len(gifts) + 1 .. Len(gifts) + n))
                    \o [i \in 1..n |-> Entry("gift", {Len(gifts) + i})]
    /\ Count(1, n, 0, n)
    /\ UNCHANGED requests

\* A free gift is promised to a request.
Ask(g) ==
    /\ gifts[g] = "FREE"
    /\ gifts' = [gifts EXCEPT ![g] = "HELD"]
    /\ requests' = Append(requests, [gift |-> g, status |-> "PENDING"])
    /\ UNCHANGED <<ledger, counters>>

\* An open request uses the gift that is held for it.
Settle(r) ==
    LET g == requests[r].gift IN
    /\ requests[r].status = "PENDING"
    /\ gifts[g] = "HELD"
    /\ gifts' = [gifts EXCEPT ![g] = "USED"]
    /\ requests' = [requests EXCEPT ![r].status = "SETTLED"]
    /\ ledger' = Append(ledger, [Entry("redeem", {g}) EXCEPT !.request = r])
    /\ Count(0, 0, 1, -1)

\* An open request is dropped, and the gift that was held for it is free again.
Drop(r) ==
    LET g == requests[r].gift IN
    /\ requests[r].status = "PENDING"
    /\ gifts[g] = "HELD"
    /\ gifts' = [gifts EXCEPT ![g] = "FREE"]
    /\ requests' = [requests EXCEPT ![r].status = "DROPPED"]
    /\ UNCHANGED <<ledger, counters>>

\* A redemption is reversed: its gift comes back.
TakeBack(e, g) ==
    /\ Stands(e, "redeem")
    /\ ledger[e].gifts = {g}
    /\ gifts[g] = "USED"
    /\ gifts' = [gifts EXCEPT ![g] = "FREE"]
    /\ ledger' = Append(ledger, Reversal(e))
    /\ Count(0, 0, -1, 1)
    /\ UNCHANGED requests

\* A visit is reversed: every gift it brought is still free, and all of them go.
Void(e) ==
    LET gone == ledger[e].gifts IN
    /\ Stands(e, "visit")
    /\ \A g \in gone : gifts[g] = "FREE"
    /\ gifts' = [g \in DOMAIN gifts |-> IF g \in gone THEN "VOID" ELSE gifts[g]]
    /\ ledger' = Append(ledger, Reversal(e))
    /\ Count(-1, -Cardinality(gone), 0, -Cardinality(gone))
    /\ UNCHANGED requests

Init ==
    /\ gifts = <<>>
    /\ requests = <<>>
    /\ ledger = <<>>
    /\ counters = [visits |-> 0, earned |-> 0, used |-> 0, available |-> 0]

Next ==
    \/ \E n \in Rewards : Visit(n)
    \/ \E g \in DOMAIN gifts : Ask(g)
    \/ \E r \in DOMAIN requests : Settle(r) \/ Drop(r)
    \/ \E e \in DOMAIN ledger : Void(e) \/ \E g \in ledger[e].gifts : TakeBack(e, g)

Spec == Init /\ [][Next]_vars

=============================================================================
