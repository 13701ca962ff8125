--------------------------- MODULE LoyaltyAccount ---------------------------
(***************************************************************************)
(* What a CASHBACK program promises its client, without lots, programs,     *)
(* locks or jobs: an account that is never overdrawn, whose balance moves   *)
(* only together with an entry of the same amount, and whose redemption     *)
(* requests and reversals happen once.  Cashback implements it              *)
(* (Cashback!KeepsAccount).                                                *)
(***************************************************************************)
EXTENDS Integers, Sequences

CONSTANT Accruals \* what a purchase may earn

VARIABLES
    balance, \* what the client may spend
    ledger,  \* the entries, with signed amounts
    requests \* what the client was asked to spend, and what became of it

vars == <<balance, ledger, requests>>

Entry(kind, amount) == [kind |-> kind, amount |-> amount, request |-> 0, reverses |-> 0]

\* A purchase is rewarded.
Accrue(n) ==
    /\ n > 0
    /\ balance' = balance + n
    /\ ledger' = Append(ledger, Entry("accrual", n))
    /\ UNCHANGED requests

\* The client is asked for no more than he has.
Ask(n) ==
    /\ requests' = Append(requests, [spend |-> n, status |-> "PENDING"])
    /\ UNCHANGED <<balance, ledger>>

\* An open request is settled for the amount asked, and the cash part may earn n.
Settle(r, n) ==
    LET spend == [Entry("spend", -requests[r].spend) EXCEPT !.request = r]
        accrual == [Entry("accrual", n) EXCEPT !.request = r]
    IN
    /\ requests[r].status = "PENDING"
    /\ requests[r].spend <= balance
    /\ balance' = balance - requests[r].spend + n
    /\ ledger' = ledger \o IF n > 0 THEN <<spend, accrual>> ELSE <<spend>>
    /\ requests' = [requests EXCEPT ![r].status = "SETTLED"]

\* An open request is dropped: rejected, withdrawn or out of date.
Drop(r) ==
    /\ requests[r].status = "PENDING"
    /\ requests' = [requests EXCEPT ![r].status = "DROPPED"]
    /\ UNCHANGED <<balance, ledger>>

\* Value past its date is lost.
Burn(n) ==
    /\ balance' = balance - n
    /\ ledger' = Append(ledger, Entry("burn", -n))
    /\ UNCHANGED requests

\* The entries that one reversal may take back by n: accruals as far as they are still on
\* the account, spends as far as they can be given back.
ReversibleBy(e, n) ==
    /\ \A f \in DOMAIN ledger : ledger[f].reverses # e
    /\ \/ ledger[e].kind = "accrual" /\ n \in -ledger[e].amount .. 0 /\ balance + n >= 0
       \/ ledger[e].kind = "spend" /\ n \in 0 .. -ledger[e].amount

Reverse(e, n) ==
    /\ ReversibleBy(e, n)
    /\ balance' = balance + n
    /\ ledger' = Append(ledger, [Entry("reversal", n) EXCEPT !.reverses = e])
    /\ UNCHANGED requests

Init ==
    /\ balance = 0
    /\ ledger = <<>>
    /\ requests = <<>>

Next ==
    \/ \E n \in Accruals : Accrue(n)
    \/ \E n \in 1..balance : Ask(n) \/ Burn(n)
    \/ \E r \in DOMAIN requests : Drop(r) \/ \E n \in Accruals : Settle(r, n)
    \/ \E e \in DOMAIN ledger :
          LET most == IF ledger[e].amount < 0 THEN -ledger[e].amount ELSE ledger[e].amount
          IN  \E n \in -most .. most : Reverse(e, n)

Spec == Init /\ [][Next]_vars

=============================================================================
