---------------------------- MODULE AccountProofs ----------------------------
(***************************************************************************)
(* Theorems about the lots and the requests of Cashback, for all values of  *)
(* its constants: no part of a lot is spent twice, a lot burns at most      *)
(* once, nothing flows back into a dead one, and Cashback implements        *)
(* LoyaltyAccount: what the client sees of the rows is a plain account.     *)
(*                                                                         *)
(* LotsOK, on top of CashbackProofs!MoneyOK, is the inductive invariant of  *)
(* the lots.  Its parts are stated of any table of lots and any ledger, so  *)
(* that a confirmation can be taken apart: the spend first, and then an     *)
(* earning like that of a purchase.                                        *)
(*                                                                         *)
(* AccountOK, on top of LotsOK and LockedPending, is that of the account.    *)
(* Records, its last part, relates requests and ledger: a request has      *)
(* exactly the entries it answers with (ConfirmedOnce follows), an entry   *)
(* that was compensated is marked, a spend is what it took from the lots,  *)
(* and a request earns what some quote said.                               *)
(***************************************************************************)
EXTENDS CashbackProofs, FiniteSetTheorems

\* A lot and its earning name each other.
Linked(rows, ledger) ==
    /\ \A l \in DOMAIN rows :
          /\ rows[l].source \in DOMAIN ledger
          /\ ledger[rows[l].source].type = "CASHBACK_EARN"
          /\ ledger[rows[l].source].lot = l
          /\ ledger[rows[l].source].amount = rows[l].original
          /\ rows[l].status = "CANCELLED" <=> ledger[rows[l].source].status = "REVERSED"
    /\ \A t \in DOMAIN ledger : ledger[t].type = "CASHBACK_EARN" =>
          /\ ledger[t].lot \in DOMAIN rows
          /\ rows[ledger[t].lot].source = t

\* What the standing spends of a ledger have consumed of a lot.
Share(tx, l) ==
    IF tx.type = "CASHBACK_SPEND" /\ tx.status = "COMPLETED" THEN tx.consumed[l] ELSE 0
Consumed(ledger, l) == SumTo([t \in DOMAIN ledger |-> Share(ledger[t], l)], Len(ledger))

\* A spend has consumed only lots that exist.
SharesKnown(rows, ledger) ==
    \A t \in DOMAIN ledger, l \in LotId :
        ledger[t].type = "CASHBACK_SPEND" /\ l \notin DOMAIN rows => ledger[t].consumed[l] = 0

\* No part of a lot is spent twice, and of a lot that can be spent nothing is missing.
Conserved(rows, ledger, at) ==
    \A l \in DOMAIN rows :
        /\ rows[l].remaining + Consumed(ledger, l) <= rows[l].original
        /\ rows[l].status \in {"ACTIVE", "SPENT"} /\ rows[l].expiresAt > at
              => rows[l].remaining + Consumed(ledger, l) = rows[l].original

\* A burn is of a lot that exists, is past its date and is dead for good; a lot that says
\* EXPIRED has one, and no lot has two.
Dead == {"EXPIRED", "CANCELLED"}
Burnt(rows, ledger, at) ==
    /\ \A t \in DOMAIN ledger : ledger[t].type = "CASHBACK_EXPIRE" =>
          /\ ledger[t].lot \in DOMAIN rows
          /\ rows[ledger[t].lot].status \in Dead
          /\ rows[ledger[t].lot].expiresAt <= at
    /\ \A t, u \in DOMAIN ledger :
          /\ ledger[t].type = "CASHBACK_EXPIRE"
          /\ ledger[u].type = "CASHBACK_EXPIRE"
          /\ ledger[t].lot = ledger[u].lot
          => t = u
    /\ \A l \in DOMAIN rows : rows[l].status = "EXPIRED" =>
          \E t \in DOMAIN ledger : ledger[t].type = "CASHBACK_EXPIRE" /\ ledger[t].lot = l

LotsSound(rows, ledger, at) ==
    /\ Linked(rows, ledger)
    /\ SharesKnown(rows, ledger)
    /\ Conserved(rows, ledger, at)
    /\ Burnt(rows, ledger, at)

\* The inductive invariant.
LotsOK == MoneyOK /\ LotsSound(lots, txs, now)

-----------------------------------------------------------------------------
(* What was consumed of a lot *)

\* What an entry has consumed of a lot is a natural.
LEMMA ShareType ==
    ASSUME NEW tx \in Tx, NEW l \in LotId
    PROVE  Share(tx, l) \in Nat
<1>1. tx.consumed \in Split
  BY DEF Tx
<1> QED BY <1>1 DEF Share, Split

\* What was consumed of a lot is a natural, and covers each entry's part.
LEMMA ConsumedCovers ==
    ASSUME NEW ledger \in Seq(Tx), NEW l \in LotId
    PROVE  /\ Consumed(ledger, l) \in Nat
           /\ \A t \in DOMAIN ledger : Share(ledger[t], l) <= Consumed(ledger, l)
<1> DEFINE n == Len(ledger)
           f == [t \in DOMAIN ledger |-> Share(ledger[t], l)]
<1>1. n \in Nat /\ DOMAIN ledger = 1..n /\ \A t \in 1..n : ledger[t] \in Tx
  OBVIOUS
<1>2. \A t \in 1..n : f[t] = Share(ledger[t], l) /\ f[t] \in Nat
  BY <1>1, ShareType
<1> HIDE DEF f
<1>3. SumTo(f, n) \in Nat /\ \A t \in 1..n : f[t] <= SumTo(f, n)
  BY <1>1, <1>2, SumToNonNegative
<1> QED BY <1>1, <1>2, <1>3 DEF Consumed, f

\* An entry is added.
LEMMA ConsumedAppended ==
    ASSUME NEW ledger \in Seq(Tx), NEW e \in Tx, NEW l \in LotId
    PROVE  Consumed(Append(ledger, e), l) = Consumed(ledger, l) + Share(e, l)
<1> DEFINE n == Len(ledger)
           after == Append(ledger, e)
           f == [t \in DOMAIN ledger |-> Share(ledger[t], l)]
           g == [t \in DOMAIN after |-> Share(after[t], l)]
<1>1. /\ n \in Nat /\ Len(after) = n + 1 /\ DOMAIN after = 1..(n + 1) /\ DOMAIN ledger = 1..n
      /\ after[n + 1] = e /\ \A t \in 1..n : after[t] = ledger[t]
  BY Appended
<1>2. (\A t \in 1..n : g[t] = f[t]) /\ g[n + 1] = Share(e, l)
  BY <1>1
<1> HIDE DEF f, g, n, after
<1>3. SumTo(g, n + 1) = SumTo(f, n) + Share(e, l)
  BY <1>1, <1>2, SumAppended
<1>4. Consumed(after, l) = SumTo(g, n + 1) /\ Consumed(ledger, l) = SumTo(f, n)
  BY <1>1 DEF Consumed, f, g, n
<1> QED BY <1>3, <1>4 DEF after

\* The parts of an entry that is reversed no longer count.
LEMMA ConsumedReversed ==
    ASSUME TypeOK, NEW t \in DOMAIN txs, NEW c \in Tx, c.type = "REVERSAL", NEW l \in LotId
    PROVE  Consumed(Reversed(t, c), l) = Consumed(txs, l) - Share(txs[t], l)
<1> DEFINE n == Len(txs)
           after == Reversed(t, c)
           f == [u \in DOMAIN txs |-> Share(txs[u], l)]
           g == [u \in DOMAIN after |-> Share(after[u], l)]
           d == -Share(txs[t], l)
<1>1. n \in Nat /\ DOMAIN txs = 1..n /\ t \in 1..n /\ txs[t] \in Tx
  BY TxFields DEF TypeOK
<1>2. /\ Len(after) = n + 1 /\ DOMAIN after = 1..(n + 1)
      /\ \A u \in 1..n : u # t => after[u] = txs[u]
      /\ after[t] = [txs[t] EXCEPT !.status = "REVERSED"] /\ after[n + 1] = c
  BY <1>1, ReversedType
<1>3. after[t].status = "REVERSED"
  BY <1>1, <1>2, MarkedFields
<1>4. \A u \in 1..n : f[u] = Share(txs[u], l) /\ f[u] \in Nat
  BY <1>1, TxFields, ShareType
<1>5. d \in Int /\ f[t] + d = 0
  BY <1>1, <1>4
<1> HIDE DEF after, d, n
<1>6. \A u \in 1..n : u # t => g[u] = f[u]
  BY <1>1, <1>2
<1>7. g[t] = 0 /\ g[n + 1] = 0
  <2>1. Share(after[t], l) = 0 /\ Share(after[n + 1], l) = 0
    BY <1>2, <1>3 DEF Share
  <2>2. t \in DOMAIN after /\ n + 1 \in DOMAIN after
    BY <1>1, <1>2
  <2> QED BY <2>1, <2>2
<1> HIDE DEF f, g
<1>8. SumTo(g, n) = SumTo(f, n) + d
  <2>1. g[t] = f[t] + d /\ \A u \in 1..n : f[u] \in Int
    BY <1>4, <1>5, <1>7
  <2> QED BY <1>1, <1>5, <1>6, <2>1, SumMoved
<1>9. SumTo(f, n) \in Nat
  BY <1>1, <1>4, SumToNonNegative
<1>10. SumTo(g, n + 1) = SumTo(f, n) + d
  BY <1>1, <1>5, <1>7, <1>8, <1>9, SumToStep
<1>11. Consumed(after, l) = SumTo(g, n + 1) /\ Consumed(txs, l) = SumTo(f, n)
  BY <1>2 DEF Consumed, f, g, n
<1>12. Share(txs[t], l) \in Nat
  BY <1>1, ShareType
<1> QED BY <1>9, <1>10, <1>11, <1>12 DEF after, d

\* Nothing was consumed of a lot that does not exist yet.
LEMMA ConsumedNothing ==
    ASSUME NEW ledger \in Seq(Tx), NEW rows, SharesKnown(rows, ledger), NEW l \in LotId,
           l \notin DOMAIN rows
    PROVE  Consumed(ledger, l) = 0
<1> DEFINE n == Len(ledger)
           f == [t \in DOMAIN ledger |-> Share(ledger[t], l)]
<1>1. n \in Nat /\ DOMAIN ledger = 1..n
  OBVIOUS
<1>2. \A t \in 1..n : f[t] = 0
  BY <1>1 DEF SharesKnown, Share
<1> HIDE DEF f, n
<1>3. SumTo(f, n) = SumTo(f, 0)
  BY <1>1, <1>2, SumToLonger
<1>4. SumTo(f, 0) = 0
  BY SumToZero
<1> QED BY <1>3, <1>4 DEF Consumed, f, n

-----------------------------------------------------------------------------
(* An earning: a lot and its entry are added to any sound tables *)

\* Adding a lot and the entry that names it.
LEMMA EarnedSound ==
    ASSUME NEW rows \in Seq(Lot), NEW ledger \in Seq(Tx), NEW at \in Nat,
           LotsSound(rows, ledger, at), Len(rows) + 1 <= MaxLots,
           NEW lot \in Lot, NEW e \in Tx, NEW amount \in Nat,
           lot.remaining = amount, lot.original = amount, lot.status = "ACTIVE",
           lot.source = Len(ledger) + 1,
           e.type = "CASHBACK_EARN", e.status = "COMPLETED", e.amount = amount,
           e.lot = Len(rows) + 1
    PROVE  LotsSound(Append(rows, lot), Append(ledger, e), at)
<1> DEFINE m == Len(rows)
           n == Len(ledger)
           R == Append(rows, lot)
           L == Append(ledger, e)
<1>1. /\ m \in Nat /\ DOMAIN rows = 1..m /\ DOMAIN R = 1..(m + 1)
      /\ R[m + 1] = lot /\ \A l \in 1..m : R[l] = rows[l]
  BY Appended
<1>2. /\ n \in Nat /\ DOMAIN ledger = 1..n /\ DOMAIN L = 1..(n + 1)
      /\ L[n + 1] = e /\ \A t \in 1..n : L[t] = ledger[t]
  BY Appended
<1>3. /\ Linked(rows, ledger) /\ SharesKnown(rows, ledger)
      /\ Conserved(rows, ledger, at) /\ Burnt(rows, ledger, at)
  BY DEF LotsSound
<1>4. MaxLots \in Nat /\ LotId = 1..MaxLots
  BY ConstantTypes DEF LotId
<1>5. ASSUME NEW l \in LotId PROVE Consumed(L, l) = Consumed(ledger, l) /\ Consumed(ledger, l) \in Nat
  <2>1. Share(e, l) = 0
    BY DEF Share
  <2> QED BY <2>1, ConsumedAppended, ConsumedCovers
<1>6. Consumed(ledger, m + 1) = 0
  <2>1. m + 1 \in LotId /\ m + 1 \notin DOMAIN rows
    BY <1>1, <1>4
  <2> QED BY <1>3, <2>1, ConsumedNothing
<1>7. lot.source = n + 1 /\ e.lot = m + 1
  OBVIOUS
<1> HIDE DEF m, n, R, L
<1>8. Linked(R, L)
  <2>1. ASSUME NEW l \in DOMAIN R
        PROVE  /\ R[l].source \in DOMAIN L
               /\ L[R[l].source].type = "CASHBACK_EARN"
               /\ L[R[l].source].lot = l
               /\ L[R[l].source].amount = R[l].original
               /\ R[l].status = "CANCELLED" <=> L[R[l].source].status = "REVERSED"
    <3>1. CASE l = m + 1
      BY <1>1, <1>2, <1>7, <3>1
    <3>2. CASE l # m + 1
      <4>1. l \in 1..m /\ R[l] = rows[l]
        BY <1>1, <3>2
      <4>2. rows[l].source \in 1..n /\ L[rows[l].source] = ledger[rows[l].source]
        BY <1>1, <1>2, <1>3, <4>1 DEF Linked
      <4> QED BY <1>1, <1>2, <1>3, <4>1, <4>2 DEF Linked
    <3> QED BY <3>1, <3>2
  <2>2. ASSUME NEW t \in DOMAIN L, L[t].type = "CASHBACK_EARN"
        PROVE  L[t].lot \in DOMAIN R /\ R[L[t].lot].source = t
    <3>1. CASE t = n + 1
      BY <1>1, <1>2, <1>7, <3>1
    <3>2. CASE t # n + 1
      <4>1. t \in 1..n /\ L[t] = ledger[t]
        BY <1>2, <3>2
      <4>2. ledger[t].lot \in 1..m /\ rows[ledger[t].lot].source = t
        BY <1>1, <1>2, <1>3, <2>2, <4>1 DEF Linked
      <4> QED BY <1>1, <4>1, <4>2
    <3> QED BY <3>1, <3>2
  <2> QED BY <2>1, <2>2 DEF Linked
<1>9. SharesKnown(R, L)
  <2>1. ASSUME NEW t \in DOMAIN L, NEW l \in LotId, L[t].type = "CASHBACK_SPEND", l \notin DOMAIN R
        PROVE  L[t].consumed[l] = 0
    <3>1. t # n + 1
      BY <1>2, <2>1
    <3>2. t \in 1..n /\ L[t] = ledger[t] /\ l \notin 1..m
      BY <1>1, <1>2, <2>1, <3>1
    <3> QED BY <1>1, <1>2, <1>3, <2>1, <3>2 DEF SharesKnown
  <2> QED BY <2>1 DEF SharesKnown
<1>10. Conserved(R, L, at)
  <2>1. ASSUME NEW l \in DOMAIN R
        PROVE  /\ R[l].remaining + Consumed(L, l) <= R[l].original
               /\ R[l].status \in {"ACTIVE", "SPENT"} /\ R[l].expiresAt > at
                     => R[l].remaining + Consumed(L, l) = R[l].original
    <3>0. l \in LotId
      BY <1>1, <1>4, <2>1 DEF m
    <3>1. CASE l = m + 1
      BY <1>1, <1>5, <1>6, <3>0, <3>1
    <3>2. CASE l # m + 1
      <4>1. l \in 1..m /\ R[l] = rows[l]
        BY <1>1, <3>2
      <4> QED BY <1>1, <1>3, <1>5, <3>0, <4>1 DEF Conserved
    <3> QED BY <3>1, <3>2
  <2> QED BY <2>1 DEF Conserved
<1>11. Burnt(R, L, at)
  <2>1. ASSUME NEW t \in DOMAIN L, L[t].type = "CASHBACK_EXPIRE"
        PROVE  t \in DOMAIN ledger /\ L[t] = ledger[t]
    <3>1. t # n + 1
      BY <1>2, <2>1
    <3> QED BY <1>2, <3>1
  <2>2. ASSUME NEW t \in DOMAIN L, L[t].type = "CASHBACK_EXPIRE"
        PROVE  /\ L[t].lot \in DOMAIN R
               /\ R[L[t].lot].status \in Dead
               /\ R[L[t].lot].expiresAt <= at
    <3>1. t \in DOMAIN ledger /\ L[t] = ledger[t]
      BY <2>1, <2>2
    <3>2. ledger[t].lot \in 1..m
      BY <1>1, <1>3, <2>2, <3>1 DEF Burnt
    <3> QED BY <1>1, <1>3, <2>2, <3>1, <3>2 DEF Burnt
  <2>3. ASSUME NEW t \in DOMAIN L, NEW u \in DOMAIN L, L[t].type = "CASHBACK_EXPIRE",
               L[u].type = "CASHBACK_EXPIRE", L[t].lot = L[u].lot
        PROVE  t = u
    BY <1>3, <2>1, <2>3 DEF Burnt
  <2>4. ASSUME NEW l \in DOMAIN R, R[l].status = "EXPIRED"
        PROVE  \E t \in DOMAIN L : L[t].type = "CASHBACK_EXPIRE" /\ L[t].lot = l
    <3>1. l # m + 1
      BY <1>1, <2>4
    <3>2. l \in DOMAIN rows /\ R[l] = rows[l]
      BY <1>1, <3>1
    <3>3. PICK t \in DOMAIN ledger : ledger[t].type = "CASHBACK_EXPIRE" /\ ledger[t].lot = l
      BY <1>3, <2>4, <3>2 DEF Burnt
    <3>4. t \in DOMAIN L /\ L[t] = ledger[t]
      BY <1>2
    <3> QED BY <3>3, <3>4
  <2> QED BY <2>2, <2>3, <2>4 DEF Burnt
<1> QED BY <1>8, <1>9, <1>10, <1>11 DEF LotsSound, R, L

-----------------------------------------------------------------------------
(* Lots and entries that are changed in place *)

\* Lots that keep their earnings, in a ledger that keeps its entries and gets no earning.
LEMMA LinkedKept ==
    ASSUME NEW rows, NEW R, NEW ledger, NEW L, Linked(rows, ledger), DOMAIN R = DOMAIN rows,
           \A l \in DOMAIN rows : R[l].source = rows[l].source /\ R[l].original = rows[l].original,
           DOMAIN ledger \subseteq DOMAIN L,
           \A t \in DOMAIN ledger : /\ L[t].type = ledger[t].type
                                    /\ L[t].lot = ledger[t].lot
                                    /\ L[t].amount = ledger[t].amount,
           \A t \in DOMAIN L : t \notin DOMAIN ledger => L[t].type # "CASHBACK_EARN",
           \A l \in DOMAIN rows : R[l].status = "CANCELLED" <=> L[rows[l].source].status = "REVERSED"
    PROVE  Linked(R, L)
<1>1. ASSUME NEW l \in DOMAIN R
      PROVE  /\ R[l].source \in DOMAIN L
             /\ L[R[l].source].type = "CASHBACK_EARN"
             /\ L[R[l].source].lot = l
             /\ L[R[l].source].amount = R[l].original
             /\ R[l].status = "CANCELLED" <=> L[R[l].source].status = "REVERSED"
  <2>1. rows[l].source \in DOMAIN ledger /\ R[l].source = rows[l].source
    BY DEF Linked
  <2> QED BY <2>1 DEF Linked
<1>2. ASSUME NEW t \in DOMAIN L, L[t].type = "CASHBACK_EARN"
      PROVE  L[t].lot \in DOMAIN R /\ R[L[t].lot].source = t
  <2>1. t \in DOMAIN ledger
    BY <1>2
  <2>2. ledger[t].lot \in DOMAIN rows /\ rows[ledger[t].lot].source = t /\ L[t].lot = ledger[t].lot
    BY <1>2, <2>1 DEF Linked
  <2> QED BY <2>2
<1> QED BY <1>1, <1>2 DEF Linked

\* Lots that keep their dates and, when they are dead, stay so, in a ledger that keeps its
\* entries and gets no burn.
LEMMA BurntKept ==
    ASSUME NEW rows, NEW R, NEW ledger, NEW L, NEW at, Burnt(rows, ledger, at),
           DOMAIN R = DOMAIN rows,
           \A l \in DOMAIN rows : /\ R[l].expiresAt = rows[l].expiresAt
                                  /\ rows[l].status \in Dead => R[l].status \in Dead
                                  /\ R[l].status = "EXPIRED" => rows[l].status = "EXPIRED",
           DOMAIN ledger \subseteq DOMAIN L,
           \A t \in DOMAIN ledger : L[t].type = ledger[t].type /\ L[t].lot = ledger[t].lot,
           \A t \in DOMAIN L : t \notin DOMAIN ledger => L[t].type # "CASHBACK_EXPIRE"
    PROVE  Burnt(R, L, at)
<1>1. ASSUME NEW t \in DOMAIN L, L[t].type = "CASHBACK_EXPIRE"
      PROVE  /\ t \in DOMAIN ledger /\ ledger[t].type = "CASHBACK_EXPIRE"
             /\ L[t].lot = ledger[t].lot
  BY <1>1
<1>2. ASSUME NEW t \in DOMAIN L, L[t].type = "CASHBACK_EXPIRE"
      PROVE  /\ L[t].lot \in DOMAIN R
             /\ R[L[t].lot].status \in Dead
             /\ R[L[t].lot].expiresAt <= at
  <2>1. /\ t \in DOMAIN ledger /\ ledger[t].type = "CASHBACK_EXPIRE"
        /\ L[t].lot = ledger[t].lot
    BY <1>1, <1>2
  <2>2. /\ ledger[t].lot \in DOMAIN rows
        /\ rows[ledger[t].lot].status \in Dead
        /\ rows[ledger[t].lot].expiresAt <= at
    BY <2>1 DEF Burnt
  <2> QED BY <2>1, <2>2
<1>3. ASSUME NEW t \in DOMAIN L, NEW u \in DOMAIN L, L[t].type = "CASHBACK_EXPIRE",
             L[u].type = "CASHBACK_EXPIRE", L[t].lot = L[u].lot
      PROVE  t = u
  BY <1>1, <1>3 DEF Burnt
<1>4. ASSUME NEW l \in DOMAIN R, R[l].status = "EXPIRED"
      PROVE  \E t \in DOMAIN L : L[t].type = "CASHBACK_EXPIRE" /\ L[t].lot = l
  <2>1. PICK t \in DOMAIN ledger : ledger[t].type = "CASHBACK_EXPIRE" /\ ledger[t].lot = l
    BY <1>4 DEF Burnt
  <2> QED BY <2>1
<1> QED BY <1>2, <1>3, <1>4 DEF Burnt

\* Spends that keep what they consumed; a new one consumes lots that exist.
LEMMA SharesKept ==
    ASSUME NEW rows, NEW R, NEW ledger, NEW L, SharesKnown(rows, ledger),
           DOMAIN R = DOMAIN rows, DOMAIN ledger \subseteq DOMAIN L,
           \A t \in DOMAIN ledger : L[t].type = ledger[t].type /\ L[t].consumed = ledger[t].consumed,
           \A t \in DOMAIN L : t \notin DOMAIN ledger /\ L[t].type = "CASHBACK_SPEND" =>
               \A l \in LotId : l \notin DOMAIN rows => L[t].consumed[l] = 0
    PROVE  SharesKnown(R, L)
<1>1. ASSUME NEW t \in DOMAIN L, NEW l \in LotId, L[t].type = "CASHBACK_SPEND", l \notin DOMAIN R
      PROVE  L[t].consumed[l] = 0
  <2>1. CASE t \in DOMAIN ledger
    BY <1>1, <2>1 DEF SharesKnown
  <2>2. CASE t \notin DOMAIN ledger
    BY <1>1, <2>2
  <2> QED BY <2>1, <2>2
<1> QED BY <1>1 DEF SharesKnown

\* Lots that keep what they were made for and their dates.  What a lot has and what was
\* consumed of it never grow together, and stay the same for a lot that can be spent.
LEMMA ConservedKept ==
    ASSUME NEW rows \in Seq(Lot), NEW R \in Seq(Lot), NEW ledger \in Seq(Tx), NEW L \in Seq(Tx),
           NEW at, Conserved(rows, ledger, at), DOMAIN R = DOMAIN rows, Len(rows) <= MaxLots,
           \A l \in DOMAIN rows :
              /\ R[l].original = rows[l].original /\ R[l].expiresAt = rows[l].expiresAt
              /\ R[l].remaining + Consumed(L, l) <= rows[l].remaining + Consumed(ledger, l)
              /\ R[l].status \in {"ACTIVE", "SPENT"} /\ R[l].expiresAt > at =>
                    /\ rows[l].status \in {"ACTIVE", "SPENT"}
                    /\ R[l].remaining + Consumed(L, l) = rows[l].remaining + Consumed(ledger, l)
    PROVE  Conserved(R, L, at)
<1>1. ASSUME NEW l \in DOMAIN R
      PROVE  /\ R[l].remaining + Consumed(L, l) <= R[l].original
             /\ R[l].status \in {"ACTIVE", "SPENT"} /\ R[l].expiresAt > at
                   => R[l].remaining + Consumed(L, l) = R[l].original
  <2>1. l \in LotId
    <3>1. MaxLots \in Nat /\ Len(rows) \in Nat /\ DOMAIN rows = 1..Len(rows)
      BY ConstantTypes
    <3> QED BY <3>1 DEF LotId
  <2>2. /\ R[l].remaining \in Nat /\ rows[l].remaining \in Nat /\ rows[l].original \in Nat
        /\ Consumed(L, l) \in Nat /\ Consumed(ledger, l) \in Nat
    <3>1. rows[l] \in Lot
      OBVIOUS
    <3>2. rows[l].original \in Nat
      BY <3>1 DEF Lot
    <3> QED BY <2>1, <3>2, RowHolds, ConsumedCovers
  <2>3. /\ rows[l].remaining + Consumed(ledger, l) <= rows[l].original
        /\ rows[l].status \in {"ACTIVE", "SPENT"} /\ rows[l].expiresAt > at
              => rows[l].remaining + Consumed(ledger, l) = rows[l].original
    BY DEF Conserved
  <2>4. /\ R[l].original = rows[l].original /\ R[l].expiresAt = rows[l].expiresAt
        /\ R[l].remaining + Consumed(L, l) <= rows[l].remaining + Consumed(ledger, l)
        /\ R[l].status \in {"ACTIVE", "SPENT"} /\ R[l].expiresAt > at =>
              /\ rows[l].status \in {"ACTIVE", "SPENT"}
              /\ R[l].remaining + Consumed(L, l) = rows[l].remaining + Consumed(ledger, l)
    OBVIOUS
  <2> QED BY <2>2, <2>3, <2>4
<1> QED BY <1>1 DEF Conserved

-----------------------------------------------------------------------------
(* One lemma per action that changes lots *)

\* A purchase.
LEMMA EarnOnlyLots ==
    ASSUME LotsOK, NEW total \in Amounts, EarnOnly(total)
    PROVE  LotsOK'
<1> DEFINE earn == EarnAmount(total)
           at == Len(lots) + 1
           source == Len(txs) + 1
           tx == EarnTx(earn, at, None)
           lot == NewLot(earn, program.expiry, source)
<1>1. MoneyOK' /\ MoneyOK /\ TypeOK /\ LotsSound(lots, txs, now)
  BY EarnOnlyMoney DEF LotsOK, MoneyOK, RowsOK
<1>2. /\ txs' = Append(txs, tx) /\ lots' = Append(lots, lot) /\ now' = now
      /\ Len(lots) + 1 <= MaxLots
  BY DEF EarnOnly, Room
<1>3. program \in Settings /\ total \in Int /\ now \in Nat
  BY <1>1, ConstantTypes, CashbackAssumption DEF TypeOK
<1>4. earn \in Nat /\ program.expiry \in Nat
  BY <1>3, SettingsType, ApplyBpsType DEF EarnAmount
<1>5. lots \in Seq(Lot) /\ txs \in Seq(Tx) /\ at \in Nat /\ source \in Nat
  BY <1>1 DEF TypeOK
<1> HIDE DEF earn
<1>6. /\ tx \in Tx /\ tx.type = "CASHBACK_EARN" /\ tx.status = "COMPLETED" /\ tx.amount = earn
      /\ tx.lot = at
  <2>1. None \in Nat
    BY DEF None
  <2>2. tx = EarnTx(earn, at, None)
    OBVIOUS
  <2>3. earn \in Nat /\ at \in Nat
    BY <1>4, <1>5
  <2> HIDE DEF at, tx
  <2> QED BY <2>1, <2>2, <2>3, EarnTxType
<1>7. /\ lot \in Lot /\ lot.remaining = earn /\ lot.original = earn /\ lot.status = "ACTIVE"
      /\ lot.source = source
  <2>1. lot = NewLot(earn, program.expiry, source)
    OBVIOUS
  <2>2. earn \in Nat /\ program.expiry \in Nat /\ source \in Nat
    BY <1>4, <1>5
  <2> HIDE DEF source, lot
  <2> QED BY <1>1, <2>1, <2>2, NewLotType
<1> HIDE DEF tx, lot
<1>8. LotsSound(lots', txs', now')
  BY <1>1, <1>2, <1>3, <1>4, <1>5, <1>6, <1>7, EarnedSound
<1> QED BY <1>1, <1>8 DEF LotsOK

\* The spend of a confirmation: what leaves a lot is what the entry says it consumed.
LEMMA SpentSound ==
    ASSUME LotsOK, NEW amount \in Nat, NEW split \in FifoSplits(amount), NEW e \in Tx,
           e.type = "CASHBACK_SPEND", e.status = "COMPLETED", e.consumed = split
    PROVE  LET spentLots == [l \in DOMAIN lots |-> Consume(lots[l], split[l])] IN
           Len(spentLots) = Len(lots) /\ LotsSound(spentLots, Append(txs, e), now)
<1> DEFINE R == [l \in DOMAIN lots |-> Consume(lots[l], split[l])]
           L == Append(txs, e)
<1>1. /\ RowsOK /\ TypeOK /\ StatusMatches(lots) /\ lots \in Seq(Lot) /\ txs \in Seq(Tx)
      /\ Len(lots) \in Nat /\ DOMAIN lots = 1..Len(lots) /\ Len(lots) <= MaxLots
      /\ Linked(lots, txs) /\ SharesKnown(lots, txs) /\ Conserved(lots, txs, now)
      /\ Burnt(lots, txs, now)
  BY DEF LotsOK, MoneyOK, RowsOK, TypeOK, LotsSound
<1>2. /\ \A l \in DOMAIN lots : split[l] \in Nat /\ split[l] <= lots[l].remaining
      /\ \A l \in LotId : split[l] > 0 => l \in DOMAIN lots
      /\ split \in [LotId -> Nat]
  BY <1>1, FifoSplitType DEF Split
<1>3. ASSUME NEW l \in DOMAIN lots
      PROVE  /\ R[l].remaining = lots[l].remaining - split[l]
             /\ R[l].original = lots[l].original /\ R[l].source = lots[l].source
             /\ R[l].expiresAt = lots[l].expiresAt
             /\ R[l].status \in Dead => R[l].status = lots[l].status
             /\ lots[l].status \in Dead => R[l].status = lots[l].status
             /\ R[l].status \in {"ACTIVE", "SPENT"} => lots[l].status \in {"ACTIVE", "SPENT"}
  <2>1. lots[l] \in Lot /\ lots[l].remaining \in Nat /\ lots[l].status \in LotStatus
    BY <1>1, LotFields
  <2>2. split[l] \in Nat /\ split[l] <= lots[l].remaining
    BY <1>2
  <2>3. R[l] = Consume(lots[l], split[l])
    OBVIOUS
  <2> HIDE DEF R
  <2>4. /\ R[l].remaining = lots[l].remaining - split[l]
        /\ R[l].original = lots[l].original /\ R[l].source = lots[l].source
        /\ R[l].expiresAt = lots[l].expiresAt
        /\ R[l].status =
              IF split[l] > 0 /\ split[l] = lots[l].remaining THEN "SPENT" ELSE lots[l].status
    BY <2>1, <2>2, <2>3, ConsumeType
  <2>5. split[l] > 0 => lots[l].status = "ACTIVE"
    BY <1>1, <2>1, <2>2 DEF StatusMatches
  <2> QED BY <2>1, <2>4, <2>5 DEF Dead, LotStatus
<1>4. R \in Seq(Lot) /\ DOMAIN R = DOMAIN lots /\ Len(R) = Len(lots)
  <2>1. R \in Seq(Lot)
    BY <1>1, SpentLots
  <2>2. DOMAIN R = 1..Len(lots)
    BY <1>1
  <2> HIDE DEF R
  <2> QED BY <1>1, <2>1, <2>2
<1>5. /\ Len(txs) \in Nat /\ DOMAIN txs = 1..Len(txs) /\ DOMAIN L = 1..(Len(txs) + 1)
      /\ L \in Seq(Tx) /\ L[Len(txs) + 1] = e /\ \A t \in DOMAIN txs : L[t] = txs[t]
  BY <1>1, Appended
<1>6. \A t \in DOMAIN L : t \notin DOMAIN txs => L[t] = e
  BY <1>5
<1>7. ASSUME NEW l \in DOMAIN lots
      PROVE  /\ l \in LotId /\ Consumed(L, l) = Consumed(txs, l) + split[l]
             /\ Consumed(txs, l) \in Nat
  <2>1. l \in LotId
    BY <1>1, LotFields
  <2>2. Share(e, l) = split[l]
    BY DEF Share
  <2> QED BY <1>1, <2>1, <2>2, ConsumedAppended, ConsumedCovers
<1> HIDE DEF R, L
<1>8. Linked(R, L)
  <2>1. ASSUME NEW l \in DOMAIN lots
        PROVE  R[l].status = "CANCELLED" <=> L[lots[l].source].status = "REVERSED"
    <3>1. R[l].status = "CANCELLED" <=> lots[l].status = "CANCELLED"
      BY <1>3 DEF Dead
    <3>2. lots[l].source \in DOMAIN txs
          /\ (lots[l].status = "CANCELLED" <=> txs[lots[l].source].status = "REVERSED")
      BY <1>1 DEF Linked
    <3> QED BY <1>5, <3>1, <3>2
  <2>2. DOMAIN txs \subseteq DOMAIN L
    BY <1>5
  <2>3. \A t \in DOMAIN L : t \notin DOMAIN txs => L[t].type # "CASHBACK_EARN"
    BY <1>6
  <2>4. \A l \in DOMAIN lots : R[l].source = lots[l].source /\ R[l].original = lots[l].original
    BY <1>3
  <2>5. \A t \in DOMAIN txs : /\ L[t].type = txs[t].type
                               /\ L[t].lot = txs[t].lot
                               /\ L[t].amount = txs[t].amount
    BY <1>5
  <2> QED BY <1>1, <1>4, <2>1, <2>2, <2>3, <2>4, <2>5, LinkedKept
<1>9. SharesKnown(R, L)
  <2>1. DOMAIN txs \subseteq DOMAIN L
    BY <1>5
  <2>2. ASSUME NEW l \in LotId, l \notin DOMAIN lots PROVE e.consumed[l] = 0
    BY <1>2, <2>2
  <2>3. \A t \in DOMAIN txs : L[t].type = txs[t].type /\ L[t].consumed = txs[t].consumed
    BY <1>5
  <2>4. \A t \in DOMAIN L : t \notin DOMAIN txs /\ L[t].type = "CASHBACK_SPEND" =>
           \A l \in LotId : l \notin DOMAIN lots => L[t].consumed[l] = 0
    BY <1>6, <2>2
  <2> QED BY <1>1, <1>4, <2>1, <2>3, <2>4, SharesKept
<1>10. Conserved(R, L, now)
  <2>1. ASSUME NEW l \in DOMAIN lots
        PROVE  R[l].remaining + Consumed(L, l) = lots[l].remaining + Consumed(txs, l)
    BY <1>1, <1>2, <1>3, <1>7, LotFields
  <2>2. \A l \in DOMAIN lots : R[l].remaining \in Nat /\ Consumed(L, l) \in Nat
    <3>1. \A l \in DOMAIN lots : l \in LotId
      BY <1>7
    <3> QED BY <1>4, <1>5, <3>1, RowHolds, ConsumedCovers
  <2>3. \A l \in DOMAIN lots :
          R[l].remaining + Consumed(L, l) <= lots[l].remaining + Consumed(txs, l)
    BY <2>1, <2>2
  <2> QED BY <1>1, <1>3, <1>4, <1>5, <2>1, <2>3, ConservedKept
<1>11. Burnt(R, L, now)
  <2>1. DOMAIN txs \subseteq DOMAIN L
    BY <1>5
  <2>2. \A l \in DOMAIN lots :
           /\ lots[l].status \in Dead => R[l].status \in Dead
           /\ R[l].status = "EXPIRED" => lots[l].status = "EXPIRED"
    BY <1>3 DEF Dead
  <2> QED BY <1>1, <1>3, <1>4, <1>5, <1>6, <2>1, <2>2, BurntKept
<1> QED BY <1>4, <1>8, <1>9, <1>10, <1>11 DEF LotsSound, R, L

\* The confirmation of a request.
LEMMA ConfirmLots ==
    ASSUME LotsOK, NEW r \in DOMAIN requests, Confirm(r)
    PROVE  LotsOK'
<1> DEFINE spend == requests[r].spend
           earn == requests[r].earn
           at == Len(lots) + 1
           source == Len(txs) + 2
           expiry == requests[r].expiry
<1>1. MoneyOK' /\ MoneyOK /\ TypeOK /\ LotsSound(lots, txs, now)
  BY ConfirmMoney DEF LotsOK, MoneyOK, RowsOK
<1>2. /\ spend \in Nat /\ earn \in Nat /\ expiry \in Nat /\ r \in Nat
      /\ lots \in Seq(Lot) /\ txs \in Seq(Tx) /\ at \in Nat /\ source \in Nat /\ now \in Nat
  <2>1. requests[r] \in Request /\ r \in Nat
    BY <1>1 DEF TypeOK
  <2>2. spend \in Nat /\ earn \in Nat /\ expiry \in Nat
    BY <2>1 DEF Request
  <2>3. /\ lots \in Seq(Lot) /\ txs \in Seq(Tx) /\ Len(lots) \in Nat /\ Len(txs) \in Nat
        /\ now \in Nat
    BY <1>1 DEF TypeOK
  <2> HIDE DEF spend, earn, expiry
  <2> QED BY <2>1, <2>2, <2>3
<1>3. PICK split \in FifoSplits(spend) : ApplyRedemption(r, split)
  BY <1>1, ConfirmSplits
<1> DEFINE spentLots == [l \in DOMAIN lots |-> Consume(lots[l], split[l])]
           spendTx == SpendTx(spend, split, r)
           earnTx == EarnTx(earn, at, r)
           lot == NewLot(earn, expiry, source)
           added == RedemptionTxs(r, split)
<1>4. /\ txs' = txs \o added /\ Len(lots) + (Len(added) - 1) <= MaxLots
      /\ lots' = IF earn > 0 THEN Append(spentLots, lot) ELSE spentLots
      /\ now' = now
  BY <1>3 DEF ApplyRedemption, Room, Confirm
<1>5. added = IF earn > 0 THEN <<spendTx, earnTx>> ELSE <<spendTx>>
  BY DEF RedemptionTxs
<1>6. /\ spendTx \in Tx /\ spendTx.type = "CASHBACK_SPEND" /\ spendTx.status = "COMPLETED"
      /\ spendTx.consumed = split
  BY <1>1, <1>2, FifoSplitType, SpendTxType
<1> HIDE DEF spend, earn, expiry
<1>7. /\ earnTx \in Tx /\ earnTx.type = "CASHBACK_EARN" /\ earnTx.status = "COMPLETED"
      /\ earnTx.amount = earn /\ earnTx.lot = at
  <2>1. earnTx = EarnTx(earn, at, r)
    OBVIOUS
  <2>2. earn \in Nat /\ at \in Nat /\ r \in Nat
    BY <1>2
  <2> HIDE DEF at, earnTx
  <2> QED BY <2>1, <2>2, EarnTxType
<1>8. /\ lot \in Lot /\ lot.remaining = earn /\ lot.original = earn /\ lot.status = "ACTIVE"
      /\ lot.source = source
  <2>1. lot = NewLot(earn, expiry, source)
    OBVIOUS
  <2>2. earn \in Nat /\ expiry \in Nat /\ source \in Nat
    BY <1>2
  <2> HIDE DEF source, lot
  <2> QED BY <1>1, <2>1, <2>2, NewLotType
<1> HIDE DEF added, earnTx, lot, spendTx
<1> DEFINE first == Append(txs, spendTx)
<1>9. Len(spentLots) = Len(lots) /\ LotsSound(spentLots, first, now)
  BY <1>2, <1>6, SpentSound
<1>10. spentLots \in Seq(Lot)
  BY <1>1, <1>2, SpentLots DEF MoneyOK
<1>11. first \in Seq(Tx) /\ Len(first) + 1 = source
  <2>1. first \in Seq(Tx) /\ Len(first) = Len(txs) + 1 /\ Len(txs) \in Nat
    BY <1>2, <1>6, Appended
  <2> HIDE DEF first
  <2> QED BY <2>1
<1>12. LotsSound(lots', txs', now')
  <2>1. CASE earn > 0
    <3>1. lots' = Append(spentLots, lot) /\ txs' = Append(first, earnTx)
      BY <1>2, <1>4, <1>5, <1>6, <1>7, <2>1, TwoAppended
    <3>2. Len(added) = 2
      BY <1>5, <2>1
    <3>3. Len(spentLots) + 1 <= MaxLots /\ at = Len(spentLots) + 1
      BY <1>2, <1>4, <1>9, <3>2
    <3> HIDE DEF spentLots, first, at, source
    <3> QED BY <1>2, <1>4, <1>7, <1>8, <1>9, <1>10, <1>11, <3>1, <3>3, EarnedSound
  <2>2. CASE ~(earn > 0)
    <3>1. lots' = spentLots /\ txs' = first
      BY <1>2, <1>4, <1>5, <1>6, <1>7, <2>2, TwoAppended
    <3> QED BY <1>4, <1>9, <3>1
  <2> QED BY <2>1, <2>2
<1> QED BY <1>1, <1>12 DEF LotsOK

\* A reversal keeps all of an earlier entry but its status.
LEMMA ReversedEntry ==
    ASSUME TypeOK, NEW t \in DOMAIN txs, NEW c \in Tx, txs' = Reversed(t, c), NEW u \in DOMAIN txs
    PROVE  /\ txs'[u].type = txs[u].type /\ txs'[u].lot = txs[u].lot
           /\ txs'[u].amount = txs[u].amount /\ txs'[u].consumed = txs[u].consumed
           /\ txs'[u].redemption = txs[u].redemption /\ txs'[u].related = txs[u].related
           /\ txs'[u].status = IF u = t THEN "REVERSED" ELSE txs[u].status
<1>1. /\ u # t => txs'[u] = txs[u]
      /\ txs'[t] = [txs[t] EXCEPT !.status = "REVERSED"]
  BY ReversedType
<1>2. CASE u = t
  <2>1. txs[t] \in Tx
    BY TxFields
  <2> DEFINE mark == [txs[t] EXCEPT !.status = "REVERSED"]
  <2>2. /\ mark.status = "REVERSED" /\ mark.type = txs[t].type /\ mark.lot = txs[t].lot
        /\ mark.amount = txs[t].amount /\ mark.consumed = txs[t].consumed
        /\ mark.redemption = txs[t].redemption /\ mark.related = txs[t].related
    BY <2>1, MarkedFields
  <2>3. txs'[u] = mark
    BY <1>1, <1>2
  <2> HIDE DEF mark
  <2> QED BY <1>2, <2>2, <2>3
<1>3. CASE u # t
  BY <1>1, <1>3
<1> QED BY <1>2, <1>3

\* It adds one entry, the compensation.
LEMMA ReversedAdds ==
    ASSUME TypeOK, NEW t \in DOMAIN txs, NEW c \in Tx, txs' = Reversed(t, c)
    PROVE  /\ txs' \in Seq(Tx) /\ DOMAIN txs \subseteq DOMAIN txs'
           /\ \A u \in DOMAIN txs' : u \notin DOMAIN txs => txs'[u] = c
<1>1. txs' \in Seq(Tx) /\ DOMAIN txs' = 1..(Len(txs) + 1) /\ txs'[Len(txs) + 1] = c
  BY ReversedType
<1>2. Len(txs) \in Nat /\ DOMAIN txs = 1..Len(txs)
  BY DEF TypeOK
<1> QED BY <1>1, <1>2

\* The reversal of an earning cancels the lot that names it, and no other.
LEMMA ReverseEarnLots ==
    ASSUME LotsOK, NEW t \in DOMAIN txs, NEW force \in BOOLEAN, ReverseEarn(t, force)
    PROVE  LotsOK'
<1> DEFINE l == txs[t].lot
           back == -lots[l].remaining
           lost == lots[l].original - lots[l].remaining
           c == ReversalTx(back, t, lost)
<1>1. MoneyOK' /\ MoneyOK
  BY ReverseEarnMoney DEF LotsOK
<1>2. /\ TypeOK /\ lots \in Seq(Lot) /\ txs \in Seq(Tx) /\ Len(lots) <= MaxLots
      /\ Linked(lots, txs) /\ SharesKnown(lots, txs) /\ Conserved(lots, txs, now)
      /\ Burnt(lots, txs, now) /\ lots' \in Seq(Lot)
  BY <1>1 DEF LotsOK, LotsSound, MoneyOK, RowsOK, TypeOK
<1>3. /\ txs[t].status = "COMPLETED" /\ txs[t].type = "CASHBACK_EARN"
      /\ lots' = [lots EXCEPT ![l] = Emptied(lots[l], "CANCELLED")]
      /\ txs' = Reversed(t, c) /\ now' = now
  BY DEF ReverseEarn, Reversible
<1>4. l \in DOMAIN lots /\ lots[l].source = t
  BY <1>2, <1>3 DEF Linked
<1>5. c \in Tx /\ c.type = "REVERSAL"
  <2>1. /\ lots[l].original \in Nat /\ lots[l].remaining \in Nat /\ t \in Nat
    BY <1>2, <1>4, LotFields, TxFields
  <2>2. back \in Int /\ lost \in Int /\ t \in Nat
    BY <2>1
  <2>3. c = ReversalTx(back, t, lost)
    OBVIOUS
  <2> HIDE DEF back, lost, c
  <2> QED BY <2>2, <2>3, ReversalTxType
<1> HIDE DEF c, l
<1>6. /\ DOMAIN lots' = DOMAIN lots
      /\ \A k \in DOMAIN lots : k # l => lots'[k] = lots[k]
      /\ lots'[l].remaining = 0 /\ lots'[l].status = "CANCELLED"
      /\ lots'[l].original = lots[l].original /\ lots'[l].source = lots[l].source
      /\ lots'[l].expiresAt = lots[l].expiresAt
  <2>1. "CANCELLED" \in LotStatus
    BY DEF LotStatus
  <2> QED BY <1>2, <1>3, <1>4, <2>1, HeldEmptied
<1>7. /\ txs' \in Seq(Tx) /\ DOMAIN txs \subseteq DOMAIN txs'
      /\ \A u \in DOMAIN txs : /\ txs'[u].type = txs[u].type /\ txs'[u].lot = txs[u].lot
                               /\ txs'[u].amount = txs[u].amount
                               /\ txs'[u].consumed = txs[u].consumed
      /\ \A u \in DOMAIN txs : u # t => txs'[u].status = txs[u].status
      /\ txs'[t].status = "REVERSED"
      /\ \A u \in DOMAIN txs' : u \notin DOMAIN txs => txs'[u].type = "REVERSAL"
  <2>1. TypeOK /\ txs' = Reversed(t, c) /\ c \in Tx
    BY <1>2, <1>3, <1>5
  <2>2. /\ txs' \in Seq(Tx) /\ DOMAIN txs \subseteq DOMAIN txs'
        /\ \A u \in DOMAIN txs' : u \notin DOMAIN txs => txs'[u] = c
    BY <2>1, ReversedAdds
  <2>3. ASSUME NEW u \in DOMAIN txs
        PROVE  /\ txs'[u].type = txs[u].type /\ txs'[u].lot = txs[u].lot
               /\ txs'[u].amount = txs[u].amount /\ txs'[u].consumed = txs[u].consumed
               /\ txs'[u].status = IF u = t THEN "REVERSED" ELSE txs[u].status
    BY <2>1, ReversedEntry
  <2> QED BY <1>5, <2>2, <2>3
<1>8. \A k \in DOMAIN lots : /\ lots'[k].original = lots[k].original
                             /\ lots'[k].source = lots[k].source
                             /\ lots'[k].expiresAt = lots[k].expiresAt
  BY <1>4, <1>6
<1>9. Linked(lots', txs')
  <2>1. ASSUME NEW k \in DOMAIN lots
        PROVE  lots'[k].status = "CANCELLED" <=> txs'[lots[k].source].status = "REVERSED"
    <3>1. CASE k = l
      BY <1>4, <1>6, <1>7, <3>1
    <3>2. CASE k # l
      <4>1. /\ lots[k].source \in DOMAIN txs /\ txs[lots[k].source].lot = k
            /\ lots[k].status = "CANCELLED" <=> txs[lots[k].source].status = "REVERSED"
        BY <1>2 DEF Linked
      <4>2. lots[k].source # t
        BY <3>2, <4>1 DEF l
      <4> QED BY <1>6, <1>7, <3>2, <4>1, <4>2
    <3> QED BY <3>1, <3>2
  <2>2. \A u \in DOMAIN txs' : u \notin DOMAIN txs => txs'[u].type # "CASHBACK_EARN"
    BY <1>7
  <2> QED BY <1>2, <1>6, <1>7, <1>8, <2>1, <2>2, LinkedKept
<1>10. SharesKnown(lots', txs')
  BY <1>2, <1>6, <1>7, SharesKept
<1>11. Conserved(lots', txs', now)
  <2>1. ASSUME NEW k \in DOMAIN lots
        PROVE  /\ k \in LotId /\ Consumed(txs', k) = Consumed(txs, k)
               /\ Consumed(txs, k) \in Nat /\ lots[k].remaining \in Nat
    <3>1. k \in LotId /\ lots[k].remaining \in Nat
      BY <1>2, LotFields
    <3>2. Consumed(txs', k) = Consumed(txs, k) - Share(txs[t], k)
      BY <1>2, <1>3, <1>5, <3>1, ConsumedReversed
    <3>3. Share(txs[t], k) = 0
      BY <1>3 DEF Share
    <3>4. Consumed(txs, k) \in Nat
      BY <1>2, <3>1, ConsumedCovers
    <3> QED BY <3>1, <3>2, <3>3, <3>4
  <2>2. ASSUME NEW k \in DOMAIN lots
        PROVE  /\ lots'[k].remaining + Consumed(txs', k) <= lots[k].remaining + Consumed(txs, k)
               /\ lots'[k].status \in {"ACTIVE", "SPENT"} /\ lots'[k].expiresAt > now =>
                     /\ lots[k].status \in {"ACTIVE", "SPENT"}
                     /\ lots'[k].remaining + Consumed(txs', k)
                           = lots[k].remaining + Consumed(txs, k)
    <3>1. CASE k = l
      BY <1>6, <2>1, <3>1
    <3>2. CASE k # l
      BY <1>6, <2>1, <3>2
    <3> QED BY <3>1, <3>2
  <2> QED BY <1>2, <1>6, <1>7, <1>8, <2>2, ConservedKept
<1>12. Burnt(lots', txs', now)
  <2>1. \A k \in DOMAIN lots : /\ lots[k].status \in Dead => lots'[k].status \in Dead
                               /\ lots'[k].status = "EXPIRED" => lots[k].status = "EXPIRED"
    BY <1>6 DEF Dead
  <2>2. \A u \in DOMAIN txs' : u \notin DOMAIN txs => txs'[u].type # "CASHBACK_EXPIRE"
    BY <1>7
  <2> QED BY <1>2, <1>6, <1>7, <1>8, <2>1, <2>2, BurntKept
<1> QED BY <1>1, <1>3, <1>9, <1>10, <1>11, <1>12 DEF LotsOK, LotsSound

\* The reversal of a spend: what it gives back to a lot no longer counts as consumed, and
\* a lot it gives nothing back to is dead, past its date or was never touched.
LEMMA ReverseSpendLots ==
    ASSUME LotsOK, NEW t \in DOMAIN txs, ReverseSpend(t)
    PROVE  LotsOK'
<1> DEFINE split == txs[t].consumed
           back == Restorable(split)
           restored == Total([l \in LotId |-> IF l \in back THEN split[l] ELSE 0])
           c == ReversalTx(restored, t, 0)
<1>1. MoneyOK' /\ MoneyOK
  BY ReverseSpendMoney DEF LotsOK
<1>2. /\ TypeOK /\ lots \in Seq(Lot) /\ txs \in Seq(Tx) /\ Len(lots) <= MaxLots
      /\ Linked(lots, txs) /\ SharesKnown(lots, txs) /\ Conserved(lots, txs, now)
      /\ Burnt(lots, txs, now) /\ lots' \in Seq(Lot)
  BY <1>1 DEF LotsOK, LotsSound, MoneyOK, RowsOK, TypeOK
<1>3. /\ txs[t].status = "COMPLETED" /\ txs[t].type = "CASHBACK_SPEND"
      /\ lots' = [l \in DOMAIN lots |->
                    IF l \in back
                    THEN [lots[l] EXCEPT !.remaining = lots[l].remaining + split[l],
                                         !.status = "ACTIVE"]
                    ELSE lots[l]]
      /\ txs' = Reversed(t, c) /\ now' = now
  BY DEF ReverseSpend, Reversible
<1>4. /\ split \in Split /\ restored \in Nat /\ t \in Nat
  <2>1. split \in Split /\ t \in Nat
    BY <1>2, TxFields
  <2> HIDE DEF split, back
  <2> QED BY <2>1, RestoredType
<1>5. c \in Tx /\ c.type = "REVERSAL"
  <2>1. c = ReversalTx(restored, t, 0)
    OBVIOUS
  <2> HIDE DEF restored, c
  <2> QED BY <1>4, <2>1, ReversalTxType
<1> HIDE DEF c, restored
<1>6. ASSUME NEW l \in DOMAIN lots
      PROVE  /\ l \in LotId /\ split[l] \in Nat
             /\ lots[l].remaining \in Nat /\ lots[l].status \in LotStatus
             /\ lots'[l].original = lots[l].original /\ lots'[l].source = lots[l].source
             /\ lots'[l].expiresAt = lots[l].expiresAt
             /\ l \in back => /\ lots'[l].remaining = lots[l].remaining + split[l]
                              /\ lots'[l].status = "ACTIVE" /\ lots[l].status \notin Dead
             /\ l \notin back => /\ lots'[l] = lots[l]
                                 /\ \/ split[l] = 0
                                    \/ ~(lots[l].expiresAt > now)
                                    \/ lots[l].status \in Dead
  <2>1. l \in LotId /\ lots[l] \in Lot /\ lots[l].remaining \in Nat /\ lots[l].status \in LotStatus
    BY <1>2, LotFields
  <2>2. split[l] \in Nat
    BY <1>4, <2>1 DEF Split
  <2> DEFINE refilled == [lots[l] EXCEPT !.remaining = lots[l].remaining + split[l],
                                         !.status = "ACTIVE"]
  <2>3. /\ refilled.remaining = lots[l].remaining + split[l] /\ refilled.status = "ACTIVE"
        /\ refilled.original = lots[l].original /\ refilled.source = lots[l].source
        /\ refilled.expiresAt = lots[l].expiresAt
    BY <2>1 DEF Lot
  <2>4. CASE l \in back
    <3>1. lots'[l] = refilled
      BY <1>3, <2>4
    <3>2. lots[l].status \notin Dead
      BY <2>4 DEF Restorable, Dead
    <3> HIDE DEF refilled, split, back
    <3> QED BY <2>1, <2>2, <2>3, <2>4, <3>1, <3>2
  <2>5. CASE l \notin back
    <3>1. lots'[l] = lots[l]
      BY <1>3, <2>5
    <3>2. split[l] = 0 \/ ~(lots[l].expiresAt > now) \/ lots[l].status \in Dead
      BY <2>2, <2>5 DEF Restorable, Dead
    <3> HIDE DEF split, back
    <3> QED BY <2>1, <2>2, <2>5, <3>1, <3>2
  <2> QED BY <2>4, <2>5
<1>7. DOMAIN lots' = DOMAIN lots
  BY <1>3
<1>8. /\ txs' \in Seq(Tx) /\ DOMAIN txs \subseteq DOMAIN txs'
      /\ \A u \in DOMAIN txs : /\ txs'[u].type = txs[u].type /\ txs'[u].lot = txs[u].lot
                               /\ txs'[u].amount = txs[u].amount
                               /\ txs'[u].consumed = txs[u].consumed
      /\ \A u \in DOMAIN txs : u # t => txs'[u].status = txs[u].status
      /\ \A u \in DOMAIN txs' : u \notin DOMAIN txs => txs'[u].type = "REVERSAL"
  <2>1. TypeOK /\ txs' = Reversed(t, c) /\ c \in Tx
    BY <1>2, <1>3, <1>5
  <2>2. /\ txs' \in Seq(Tx) /\ DOMAIN txs \subseteq DOMAIN txs'
        /\ \A u \in DOMAIN txs' : u \notin DOMAIN txs => txs'[u] = c
    BY <2>1, ReversedAdds
  <2>3. ASSUME NEW u \in DOMAIN txs
        PROVE  /\ txs'[u].type = txs[u].type /\ txs'[u].lot = txs[u].lot
               /\ txs'[u].amount = txs[u].amount /\ txs'[u].consumed = txs[u].consumed
               /\ txs'[u].status = IF u = t THEN "REVERSED" ELSE txs[u].status
    BY <2>1, ReversedEntry
  <2> QED BY <1>5, <2>2, <2>3
<1>9. \A k \in DOMAIN lots : Share(txs[t], k) = split[k]
  BY <1>3 DEF Share
<1> HIDE DEF back, split
<1>10. Linked(lots', txs')
  <2>1. ASSUME NEW k \in DOMAIN lots
        PROVE  lots'[k].status = "CANCELLED" <=> txs'[lots[k].source].status = "REVERSED"
    <3>1. /\ lots[k].source \in DOMAIN txs /\ txs[lots[k].source].type = "CASHBACK_EARN"
          /\ lots[k].status = "CANCELLED" <=> txs[lots[k].source].status = "REVERSED"
      BY <1>2 DEF Linked
    <3>2. lots[k].source # t
      BY <1>3, <3>1
    <3>3. lots'[k].status = "CANCELLED" <=> lots[k].status = "CANCELLED"
      BY <1>6 DEF Dead
    <3> QED BY <1>8, <3>1, <3>2, <3>3
  <2>2. \A u \in DOMAIN txs' : u \notin DOMAIN txs => txs'[u].type # "CASHBACK_EARN"
    BY <1>8
  <2>3. \A k \in DOMAIN lots :
           lots'[k].source = lots[k].source /\ lots'[k].original = lots[k].original
    BY <1>6
  <2>4. \A u \in DOMAIN txs : /\ txs'[u].type = txs[u].type /\ txs'[u].lot = txs[u].lot
                               /\ txs'[u].amount = txs[u].amount
    BY <1>8
  <2>5. Linked(lots, txs) /\ DOMAIN txs \subseteq DOMAIN txs'
    BY <1>2, <1>8
  <2> QED BY <1>7, <2>1, <2>2, <2>3, <2>4, <2>5, LinkedKept
<1>11. SharesKnown(lots', txs')
  BY <1>2, <1>7, <1>8, SharesKept
<1>12. Conserved(lots', txs', now)
  <2>1. ASSUME NEW k \in DOMAIN lots
        PROVE  /\ Consumed(txs', k) = Consumed(txs, k) - split[k]
               /\ Consumed(txs, k) \in Nat
    <3>1. k \in LotId
      BY <1>6
    <3>2. Consumed(txs', k) = Consumed(txs, k) - Share(txs[t], k)
      BY <1>2, <1>3, <1>5, <3>1, ConsumedReversed
    <3>3. Consumed(txs, k) \in Nat
      BY <1>2, <3>1, ConsumedCovers
    <3> QED BY <1>9, <3>2, <3>3
  <2>2. ASSUME NEW k \in DOMAIN lots
        PROVE  /\ lots'[k].remaining + Consumed(txs', k) <= lots[k].remaining + Consumed(txs, k)
               /\ lots'[k].status \in {"ACTIVE", "SPENT"} /\ lots'[k].expiresAt > now =>
                     /\ lots[k].status \in {"ACTIVE", "SPENT"}
                     /\ lots'[k].remaining + Consumed(txs', k)
                           = lots[k].remaining + Consumed(txs, k)
    <3>1. CASE k \in back
      <4>1. lots'[k].remaining + Consumed(txs', k) = lots[k].remaining + Consumed(txs, k)
        BY <1>6, <2>1, <3>1
      <4>2. lots[k].status \in {"ACTIVE", "SPENT"}
        BY <1>6, <3>1 DEF LotStatus, Dead
      <4>3. lots[k].remaining + Consumed(txs, k) \in Nat
        BY <1>6, <2>1
      <4> QED BY <4>1, <4>2, <4>3
    <3>2. CASE k \notin back
      BY <1>6, <2>1, <3>2 DEF Dead
    <3> QED BY <3>1, <3>2
  <2>3. \A k \in DOMAIN lots : /\ lots'[k].original = lots[k].original
                               /\ lots'[k].expiresAt = lots[k].expiresAt
    BY <1>6
  <2> QED BY <1>2, <1>7, <1>8, <2>2, <2>3, ConservedKept
<1>13. Burnt(lots', txs', now)
  <2>1. \A k \in DOMAIN lots : /\ lots'[k].expiresAt = lots[k].expiresAt
                               /\ lots[k].status \in Dead => lots'[k].status \in Dead
                               /\ lots'[k].status = "EXPIRED" => lots[k].status = "EXPIRED"
    BY <1>6 DEF Dead
  <2>2. \A u \in DOMAIN txs' : u \notin DOMAIN txs => txs'[u].type # "CASHBACK_EXPIRE"
    BY <1>8
  <2> QED BY <1>2, <1>7, <1>8, <2>1, <2>2, BurntKept
<1> QED BY <1>1, <1>3, <1>10, <1>11, <1>12, <1>13 DEF LotsOK, LotsSound

\* One lot of the list of the sweep: it was ACTIVE, so it had no burn yet.
LEMMA ExpireLotLots ==
    ASSUME LotsOK, NEW w \in LotWorkers, NEW l \in lotJobs[w].ids, ExpireLot(w, l)
    PROVE  LotsOK'
<1> DEFINE amount == lots[l].remaining
           e == ExpireTx(amount, l)
<1>1. MoneyOK' /\ MoneyOK /\ now' = now
  BY ExpireLotMoney DEF LotsOK, ExpireLot
<1>2. /\ TypeOK /\ lots \in Seq(Lot) /\ txs \in Seq(Tx) /\ Len(lots) <= MaxLots
      /\ StatusMatches(lots) /\ JobsInRange
      /\ Linked(lots, txs) /\ SharesKnown(lots, txs) /\ Conserved(lots, txs, now)
      /\ Burnt(lots, txs, now) /\ lots' \in Seq(Lot)
  BY <1>1 DEF LotsOK, LotsSound, MoneyOK, RowsOK, TypeOK
<1>3. l \in DOMAIN lots /\ lotJobs[w].at <= now /\ lotJobs[w].at \in Nat /\ now \in Nat
  <2>1. lotJobs[w] \in Job /\ now \in Nat
    BY <1>2 DEF TypeOK
  <2>2. lotJobs[w].at \in Nat
    BY <2>1 DEF Job
  <2> QED BY <1>2, <2>1, <2>2 DEF JobsInRange
<1>4. CASE ~BurnDue(lots[l], lotJobs[w].at)
  <2>1. UNCHANGED <<lots, txs>>
    BY <1>4 DEF ExpireLot
  <2> QED BY <1>1, <2>1 DEF LotsOK
<1>5. CASE BurnDue(lots[l], lotJobs[w].at)
  <2>1. amount \in Nat /\ l \in Nat /\ lots[l].expiresAt \in Nat
    BY <1>2, <1>3, LotFields
  <2>2. lots[l].status = "ACTIVE" /\ lots[l].expiresAt <= now /\ amount > 0
    BY <1>2, <1>3, <1>5, <2>1 DEF StatusMatches, BurnDue
  <2>3. lots' = [lots EXCEPT ![l] = Emptied(lots[l], "EXPIRED")] /\ txs' = Append(txs, e)
    BY <1>5, <2>2 DEF ExpireLot
  <2>4. /\ e \in Tx /\ e.type = "CASHBACK_EXPIRE" /\ e.lot = l
    BY <2>1, ExpireTxType
  <2> HIDE DEF e
  <2>5. /\ DOMAIN lots' = DOMAIN lots
        /\ \A k \in DOMAIN lots : k # l => lots'[k] = lots[k]
        /\ lots'[l].remaining = 0 /\ lots'[l].status = "EXPIRED"
        /\ lots'[l].original = lots[l].original /\ lots'[l].source = lots[l].source
        /\ lots'[l].expiresAt = lots[l].expiresAt
    <3>1. "EXPIRED" \in LotStatus
      BY DEF LotStatus
    <3> QED BY <1>2, <1>3, <2>3, <3>1, HeldEmptied
  <2>6. /\ txs' \in Seq(Tx) /\ Len(txs) \in Nat /\ DOMAIN txs = 1..Len(txs)
        /\ DOMAIN txs' = 1..(Len(txs) + 1) /\ txs'[Len(txs) + 1] = e
        /\ \A t \in DOMAIN txs : txs'[t] = txs[t]
    BY <1>2, <2>3, <2>4, Appended
  <2>7. DOMAIN txs \subseteq DOMAIN txs' /\ \A t \in DOMAIN txs' : t \notin DOMAIN txs => txs'[t] = e
    BY <2>6
  <2>8. \A k \in DOMAIN lots : /\ lots'[k].original = lots[k].original
                               /\ lots'[k].source = lots[k].source
                               /\ lots'[k].expiresAt = lots[k].expiresAt
    BY <2>5
  <2>9. Linked(lots', txs')
    <3>1. ASSUME NEW k \in DOMAIN lots
          PROVE  lots'[k].status = "CANCELLED" <=> txs'[lots[k].source].status = "REVERSED"
      <4>1. lots'[k].status = "CANCELLED" <=> lots[k].status = "CANCELLED"
        BY <2>2, <2>5
      <4>2. /\ lots[k].source \in DOMAIN txs
            /\ lots[k].status = "CANCELLED" <=> txs[lots[k].source].status = "REVERSED"
        BY <1>2 DEF Linked
      <4> QED BY <2>6, <4>1, <4>2
    <3>2. \A t \in DOMAIN txs' : t \notin DOMAIN txs => txs'[t].type # "CASHBACK_EARN"
      BY <2>4, <2>7
    <3>3. \A t \in DOMAIN txs : /\ txs'[t].type = txs[t].type /\ txs'[t].lot = txs[t].lot
                                /\ txs'[t].amount = txs[t].amount
      BY <2>6
    <3> QED BY <1>2, <2>5, <2>7, <2>8, <3>1, <3>2, <3>3, LinkedKept
  <2>10. SharesKnown(lots', txs')
    <3>1. \A t \in DOMAIN txs : txs'[t].type = txs[t].type /\ txs'[t].consumed = txs[t].consumed
      BY <2>6
    <3>2. \A t \in DOMAIN txs' : t \notin DOMAIN txs => txs'[t].type # "CASHBACK_SPEND"
      BY <2>4, <2>7
    <3> QED BY <1>2, <2>5, <2>7, <3>1, <3>2, SharesKept
  <2>11. Conserved(lots', txs', now)
    <3>1. ASSUME NEW k \in DOMAIN lots
          PROVE  /\ Consumed(txs', k) = Consumed(txs, k)
                 /\ Consumed(txs, k) \in Nat /\ lots[k].remaining \in Nat
      <4>1. k \in LotId /\ lots[k].remaining \in Nat
        BY <1>2, LotFields
      <4>2. Share(e, k) = 0
        BY <2>4 DEF Share
      <4>3. Consumed(txs, k) \in Nat
        BY <1>2, <4>1, ConsumedCovers
      <4>4. Consumed(txs', k) = Consumed(txs, k) + Share(e, k)
        BY <1>2, <2>3, <2>4, <4>1, ConsumedAppended
      <4> QED BY <4>1, <4>2, <4>3, <4>4
    <3>2. ASSUME NEW k \in DOMAIN lots
          PROVE  /\ lots'[k].remaining + Consumed(txs', k) <= lots[k].remaining + Consumed(txs, k)
                 /\ lots'[k].status \in {"ACTIVE", "SPENT"} /\ lots'[k].expiresAt > now =>
                       /\ lots[k].status \in {"ACTIVE", "SPENT"}
                       /\ lots'[k].remaining + Consumed(txs', k)
                             = lots[k].remaining + Consumed(txs, k)
      <4>1. CASE k = l
        BY <2>5, <3>1, <4>1
      <4>2. CASE k # l
        BY <2>5, <3>1, <4>2
      <4> QED BY <4>1, <4>2
    <3>3. \A k \in DOMAIN lots : /\ lots'[k].original = lots[k].original
                                 /\ lots'[k].expiresAt = lots[k].expiresAt
      BY <2>8
    <3> QED BY <1>2, <2>5, <2>6, <3>2, <3>3, ConservedKept
  <2>12. Burnt(lots', txs', now)
    <3>1. ASSUME NEW t \in DOMAIN txs, txs[t].type = "CASHBACK_EXPIRE"
          PROVE  /\ txs[t].lot \in DOMAIN lots /\ txs[t].lot # l
                 /\ lots'[txs[t].lot].status \in Dead
                 /\ lots'[txs[t].lot].expiresAt <= now
      <4>1. /\ txs[t].lot \in DOMAIN lots /\ lots[txs[t].lot].status \in Dead
            /\ lots[txs[t].lot].expiresAt <= now
        BY <1>2, <3>1 DEF Burnt
      <4>2. txs[t].lot # l
        BY <2>2, <4>1 DEF Dead
      <4> QED BY <2>5, <4>1, <4>2
    <3>2. ASSUME NEW t \in DOMAIN txs', txs'[t].type = "CASHBACK_EXPIRE"
          PROVE  /\ txs'[t].lot \in DOMAIN lots'
                 /\ lots'[txs'[t].lot].status \in Dead
                 /\ lots'[txs'[t].lot].expiresAt <= now
      <4>1. CASE t \in DOMAIN txs
        <5>1. txs'[t] = txs[t]
          BY <2>6, <4>1
        <5> QED BY <2>5, <3>1, <3>2, <4>1, <5>1
      <4>2. CASE t \notin DOMAIN txs
        <5>1. txs'[t].lot = l
          BY <2>4, <2>7, <4>2
        <5> QED BY <1>3, <2>2, <2>5, <5>1 DEF Dead
      <4> QED BY <4>1, <4>2
    <3>3. ASSUME NEW t \in DOMAIN txs', NEW u \in DOMAIN txs',
                 txs'[t].type = "CASHBACK_EXPIRE", txs'[u].type = "CASHBACK_EXPIRE",
                 txs'[t].lot = txs'[u].lot
          PROVE  t = u
      <4>1. ASSUME NEW v \in DOMAIN txs', txs'[v].type = "CASHBACK_EXPIRE"
            PROVE  /\ v \in DOMAIN txs => txs'[v] = txs[v] /\ txs'[v].lot # l
                   /\ v \notin DOMAIN txs => v = Len(txs) + 1 /\ txs'[v].lot = l
        BY <2>4, <2>6, <3>1, <4>1
      <4>2. CASE t \in DOMAIN txs
        <5>1. u \in DOMAIN txs /\ txs'[t] = txs[t] /\ txs'[u] = txs[u]
          BY <3>3, <4>1, <4>2
        <5> QED BY <1>2, <3>3, <4>2, <5>1 DEF Burnt
      <4>3. CASE t \notin DOMAIN txs
        BY <3>3, <4>1, <4>3
      <4> QED BY <4>2, <4>3
    <3>4. ASSUME NEW k \in DOMAIN lots', lots'[k].status = "EXPIRED"
          PROVE  \E t \in DOMAIN txs' : txs'[t].type = "CASHBACK_EXPIRE" /\ txs'[t].lot = k
      <4>1. CASE k = l
        <5>1. Len(txs) + 1 \in DOMAIN txs'
          BY <2>6
        <5> QED BY <2>4, <2>6, <4>1, <5>1
      <4>2. CASE k # l
        <5>1. PICK t \in DOMAIN txs : txs[t].type = "CASHBACK_EXPIRE" /\ txs[t].lot = k
          BY <1>2, <2>5, <3>4, <4>2 DEF Burnt
        <5>2. t \in DOMAIN txs' /\ txs'[t] = txs[t]
          BY <2>6, <2>7
        <5> QED BY <5>1, <5>2
      <4> QED BY <4>1, <4>2
    <3> QED BY <3>2, <3>3, <3>4 DEF Burnt
  <2> QED BY <1>1, <2>9, <2>10, <2>11, <2>12 DEF LotsOK, LotsSound
<1> QED BY <1>4, <1>5

\* Time passes: a lot that is live then was live before.
LEMMA TickLots ==
    ASSUME LotsOK, Tick
    PROVE  LotsOK'
<1>1. /\ MoneyOK' /\ TypeOK /\ now \in Nat /\ now' = now + 1 /\ lots' = lots /\ txs' = txs
      /\ LotsSound(lots, txs, now)
  <2>1. Next
    BY DEF Next
  <2> QED BY <2>1, NextMoney DEF LotsOK, MoneyOK, RowsOK, TypeOK, Tick
<1>2. \A l \in DOMAIN lots : lots[l].expiresAt \in Nat
  BY <1>1, LotFields
<1>3. Conserved(lots, txs, now + 1)
  <2>1. \A l \in DOMAIN lots : lots[l].expiresAt > now + 1 => lots[l].expiresAt > now
    BY <1>1, <1>2
  <2> QED BY <1>1, <2>1 DEF LotsSound, Conserved
<1>4. Burnt(lots, txs, now + 1)
  <2>1. \A l \in DOMAIN lots : lots[l].expiresAt <= now => lots[l].expiresAt <= now + 1
    BY <1>1, <1>2
  <2>2. \A t \in DOMAIN txs : txs[t].type = "CASHBACK_EXPIRE" =>
           /\ txs[t].lot \in DOMAIN lots /\ lots[txs[t].lot].status \in Dead
           /\ lots[txs[t].lot].expiresAt <= now + 1
    BY <1>1, <2>1 DEF LotsSound, Burnt
  <2> QED BY <1>1, <2>2 DEF LotsSound, Burnt
<1> QED BY <1>1, <1>3, <1>4 DEF LotsOK, LotsSound

-----------------------------------------------------------------------------
(* Every step *)

\* With no lots and no entries there is nothing to disagree.
LEMMA InitLots == Init => LotsOK
<1> SUFFICES ASSUME Init PROVE LotsOK
  OBVIOUS
<1>1. lots = <<>> /\ txs = <<>>
  BY DEF Init
<1>2. DOMAIN lots = {} /\ DOMAIN txs = {}
  BY <1>1
<1>3. LotsSound(lots, txs, now)
  BY <1>2 DEF LotsSound, Linked, SharesKnown, Conserved, Burnt
<1> QED BY <1>3, InitMoney DEF LotsOK

\* Every step keeps the lots sound.
LEMMA NextLots == LotsOK /\ [Next]_vars => LotsOK'
<1> SUFFICES ASSUME LotsOK, [Next]_vars PROVE LotsOK'
  OBVIOUS
<1>1. ASSUME UNCHANGED <<now, lots, txs>> PROVE LotsOK'
  BY <1>1, NextMoney DEF LotsOK
<1>2. \/ UNCHANGED <<now, lots, txs>>
      \/ \E total \in Amounts : EarnOnly(total)
      \/ \E r \in DOMAIN requests : Confirm(r)
      \/ \E t \in DOMAIN txs : ReverseSpend(t)
      \/ \E t \in DOMAIN txs, force \in BOOLEAN : ReverseEarn(t, force)
      \/ \E w \in LotWorkers : \E l \in lotJobs[w].ids : ExpireLot(w, l)
      \/ Tick
  BY DEF Next, vars, CreateCashbackRequest, BeginConfirm, AbandonConfirm, Reject,
         CancelByAdmin, StartLotSweep, AbortLotSweep, ExpireRequest, StartRequestSweep, AbortRequestSweep,
         SetOrganizationStatus, UpdateProgram
<1> QED BY <1>1, <1>2, EarnOnlyLots, ConfirmLots, ReverseSpendLots, ReverseEarnLots,
           ExpireLotLots, TickLots

\* The inductive invariant.
THEOREM LotsCorrect == Spec => []LotsOK
BY InitLots, NextLots, PTL DEF Spec

\* Whatever the constants and the history, a lot's status says what it holds, and the lot
\* and its earning name each other.
THEOREM LotIntegrityCorrect == Spec => []LotIntegrity
<1>1. LotsOK => LotIntegrity
  <2> SUFFICES ASSUME LotsOK, NEW l \in DOMAIN lots
               PROVE  /\ lots[l].remaining <= lots[l].original
                      /\ (lots[l].status = "ACTIVE") <=> (lots[l].remaining > 0)
                      /\ lots[l].source \in Entries("CASHBACK_EARN")
                      /\ txs[lots[l].source].lot = l
                      /\ txs[lots[l].source].amount = lots[l].original
                      /\ (lots[l].status = "CANCELLED") <=> (txs[lots[l].source].status = "REVERSED")
    BY DEF LotIntegrity
  <2>1. /\ TypeOK /\ StatusMatches(lots) /\ Linked(lots, txs) /\ Conserved(lots, txs, now)
        /\ txs \in Seq(Tx)
    BY DEF LotsOK, LotsSound, MoneyOK, RowsOK, TypeOK
  <2>2. /\ l \in LotId /\ lots[l].remaining \in Nat /\ lots[l].original \in Nat
        /\ Consumed(txs, l) \in Nat
    BY <2>1, LotFields, ConsumedCovers
  <2>3. lots[l].remaining + Consumed(txs, l) <= lots[l].original
    BY <2>1 DEF Conserved
  <2>4. lots[l].remaining <= lots[l].original
    BY <2>2, <2>3
  <2>5. lots[l].source \in Entries("CASHBACK_EARN")
    BY <2>1 DEF Linked, Entries
  <2> QED BY <2>1, <2>4, <2>5 DEF StatusMatches, Linked
<1> QED BY <1>1, LotsCorrect, PTL

\* Whatever the constants and the history, no part of a lot is spent twice, and of a lot
\* that can still be spent nothing is missing.
THEOREM LotConservationCorrect == Spec => []LotConservation
<1>1. LotsOK => LotConservation
  <2> SUFFICES ASSUME LotsOK PROVE LotConservation
    OBVIOUS
  <2>1. TypeOK /\ Conserved(lots, txs, now) /\ Len(txs) \in Nat /\ DOMAIN txs = 1..Len(txs)
    BY DEF LotsOK, LotsSound, MoneyOK, RowsOK, TypeOK
  <2>2. ASSUME NEW l PROVE ConsumedOf(l) = Consumed(txs, l)
    <3> DEFINE f == [t \in DOMAIN txs |->
                       IF t \in Completed("CASHBACK_SPEND") THEN txs[t].consumed[l] ELSE 0]
               g == [t \in DOMAIN txs |-> Share(txs[t], l)]
    <3>1. \A t \in 1..Len(txs) : f[t] = g[t]
      BY <2>1 DEF Completed, Entries, Share
    <3> HIDE DEF f, g
    <3>2. SumTo(f, Len(txs)) = SumTo(g, Len(txs))
      BY <2>1, <3>1, SumToSame
    <3> QED BY <3>2 DEF f, g, ConsumedOf, Consumed
  <2> QED BY <2>1, <2>2 DEF Conserved, LotConservation
<1> QED BY <1>1, LotsCorrect, PTL

\* Whatever the constants, the overlapping runs and the repeats, a lot burns at most once.
THEOREM BurnedOnceCorrect == Spec => []BurnedOnce
<1>1. LotsOK => BurnedOnce
  <2> SUFFICES ASSUME LotsOK, NEW l \in DOMAIN lots
               PROVE  LET burns == {t \in Entries("CASHBACK_EXPIRE") : txs[t].lot = l} IN
                      /\ Cardinality(burns) <= 1
                      /\ lots[l].status = "EXPIRED" => burns # {}
                      /\ burns # {} => lots[l].status \in {"EXPIRED", "CANCELLED"}
                                       /\ lots[l].expiresAt <= now
    BY DEF BurnedOnce
  <2> DEFINE burns == {t \in Entries("CASHBACK_EXPIRE") : txs[t].lot = l}
  <2>1. Burnt(lots, txs, now)
    BY DEF LotsOK, LotsSound
  <2>2. \A t : t \in burns <=>
           t \in DOMAIN txs /\ txs[t].type = "CASHBACK_EXPIRE" /\ txs[t].lot = l
    BY DEF Entries
  <2> HIDE DEF burns
  <2>3. Cardinality(burns) <= 1
    <3>1. CASE burns = {}
      <4>1. Cardinality({}) = 0
        BY FS_EmptySet
      <4> QED BY <3>1, <4>1
    <3>2. CASE burns # {}
      <4>1. PICK t : t \in burns
        BY <3>2
      <4>2. \A u : u \in burns => u = t
        BY <2>1, <2>2, <4>1 DEF Burnt
      <4>3. burns = {t}
        BY <4>1, <4>2
      <4>4. Cardinality({t}) = 1
        BY FS_Singleton
      <4> QED BY <4>3, <4>4
    <3> QED BY <3>1, <3>2
  <2>4. lots[l].status = "EXPIRED" => burns # {}
    BY <2>1, <2>2 DEF Burnt
  <2>5. burns # {} => lots[l].status \in {"EXPIRED", "CANCELLED"} /\ lots[l].expiresAt <= now
    BY <2>1, <2>2 DEF Burnt, Dead
  <2> QED BY <2>3, <2>4, <2>5 DEF burns
<1> QED BY <1>1, LotsCorrect, PTL

-----------------------------------------------------------------------------
(* Dead lots *)

\* Lots are equal field by field.
LEMMA LotEqual ==
    ASSUME NEW lot \in Lot, NEW other \in Lot, lot.original = other.original,
           lot.remaining = other.remaining, lot.status = other.status,
           lot.expiresAt = other.expiresAt, lot.source = other.source
    PROVE  lot = other
BY DEF Lot

\* What a step may do to one lot.
DiesOrLives(lot, after) ==
    /\ lot.status \in Dead => after.status \in Dead /\ after.remaining = 0
    /\ lot.expiresAt <= now /\ after # lot => after.status \in Dead

\* A lot that a step leaves alone.
LEMMA LeftAlone ==
    ASSUME LotsOK, NEW l \in DOMAIN lots
    PROVE  DiesOrLives(lots[l], lots[l])
<1>1. lots[l].status = "ACTIVE" <=> lots[l].remaining > 0
  BY DEF LotsOK, MoneyOK, StatusMatches
<1>2. lots[l].remaining \in Nat
  BY LotFields DEF LotsOK, MoneyOK, RowsOK
<1> QED BY <1>1, <1>2 DEF DiesOrLives, Dead

\* A step does nothing else to any lot.
LEMMA DeadStep ==
    ASSUME LotsOK, [Next]_vars, NEW l \in DOMAIN lots
    PROVE  DiesOrLives(lots[l], lots'[l])
<1>1. /\ TypeOK /\ lots \in Seq(Lot) /\ txs \in Seq(Tx) /\ StatusMatches(lots)
      /\ Len(lots) \in Nat /\ DOMAIN lots = 1..Len(lots) /\ now \in Nat
      /\ lots[l] \in Lot /\ lots[l].remaining \in Nat /\ lots[l].expiresAt \in Nat
  BY LotFields DEF LotsOK, MoneyOK, RowsOK, TypeOK
<1>2. lots'[l] = lots[l] => DiesOrLives(lots[l], lots'[l])
  BY LeftAlone
<1>3. ASSUME NEW total \in Amounts, EarnOnly(total) PROVE lots'[l] = lots[l]
  <2>1. PICK lot : lots' = Append(lots, lot)
    BY <1>3 DEF EarnOnly
  <2> QED BY <1>1, <2>1, PrefixKept
<1>4. ASSUME NEW r \in DOMAIN requests, Confirm(r) PROVE DiesOrLives(lots[l], lots'[l])
  <2> DEFINE spend == requests[r].spend
  <2>1. PICK split \in FifoSplits(spend) : ApplyRedemption(r, split)
    BY <1>1, <1>4, ConfirmSplits
  <2> DEFINE spentLots == [k \in DOMAIN lots |-> Consume(lots[k], split[k])]
             lot == NewLot(requests[r].earn, requests[r].expiry, Len(txs) + 2)
  <2>2. spend \in Nat
    <3>1. requests[r] \in Request
      BY <1>1 DEF TypeOK
    <3> QED BY <3>1 DEF Request
  <2>3. spentLots \in Seq(Lot)
    BY <2>2, SpentLots DEF LotsOK, MoneyOK
  <2>4. lots' = spentLots \/ lots' = Append(spentLots, lot)
    BY <2>1 DEF ApplyRedemption
  <2>5. spentLots[l] = Consume(lots[l], split[l]) /\ l \in DOMAIN spentLots
    OBVIOUS
  <2> HIDE DEF spentLots, lot, spend
  <2>6. lots'[l] = Consume(lots[l], split[l])
    BY <2>3, <2>4, <2>5, PrefixKept
  <2>7. split[l] \in Nat /\ split[l] <= lots[l].remaining
        /\ (split[l] > 0 => lots[l].status = "ACTIVE" /\ lots[l].expiresAt > now)
    <3>1. l \in LotId
      BY <1>1, LotFields
    <3> QED BY <1>1, <2>2, <3>1, FifoSplitType
  <2>8. CASE split[l] = 0
    <3> DEFINE left == Consume(lots[l], split[l])
    <3>1. /\ left \in Lot /\ left.remaining = lots[l].remaining - split[l]
          /\ left.original = lots[l].original /\ left.expiresAt = lots[l].expiresAt
          /\ left.source = lots[l].source
          /\ left.status = IF split[l] > 0 /\ split[l] = lots[l].remaining
                           THEN "SPENT" ELSE lots[l].status
      BY <1>1, <2>7, ConsumeType
    <3> HIDE DEF left
    <3>2. left.remaining = lots[l].remaining /\ left.status = lots[l].status
      BY <1>1, <2>8, <3>1
    <3>3. left = lots[l]
      BY <1>1, <3>1, <3>2, LotEqual
    <3> QED BY <1>2, <2>6, <3>3 DEF left
  <2>9. CASE split[l] > 0
    BY <1>1, <2>7, <2>9 DEF DiesOrLives, Dead
  <2> QED BY <2>7, <2>8, <2>9
<1>5. ASSUME NEW t \in DOMAIN txs, ReverseSpend(t) PROVE DiesOrLives(lots[l], lots'[l])
  <2> DEFINE back == Restorable(txs[t].consumed)
  <2>1. CASE l \in back
    <3>1. lots[l].status \notin Dead /\ lots[l].expiresAt > now
      BY <2>1 DEF Restorable, Dead
    <3> QED BY <1>1, <3>1 DEF DiesOrLives
  <2>2. CASE l \notin back
    <3>1. lots'[l] = lots[l]
      BY <1>5, <2>2 DEF ReverseSpend
    <3> QED BY <1>2, <3>1
  <2> QED BY <2>1, <2>2
<1>6. ASSUME NEW k \in DOMAIN lots, NEW status \in Dead,
             lots' = [lots EXCEPT ![k] = Emptied(lots[k], status)]
      PROVE  DiesOrLives(lots[l], lots'[l])
  <2>1. CASE l = k
    <3>1. lots'[l] = Emptied(lots[l], status)
      BY <1>1, <1>6, <2>1
    <3>2. status \in LotStatus
      BY DEF Dead, LotStatus
    <3>3. lots'[l].status = status /\ lots'[l].remaining = 0
      BY <1>1, <3>1 DEF Emptied, Lot
    <3> QED BY <3>3 DEF DiesOrLives
  <2>2. CASE l # k
    BY <1>1, <1>2, <1>6, <2>2
  <2> QED BY <2>1, <2>2
<1>7. ASSUME NEW t \in DOMAIN txs, NEW force \in BOOLEAN, ReverseEarn(t, force)
      PROVE  DiesOrLives(lots[l], lots'[l])
  <2> DEFINE k == txs[t].lot
  <2>1. k \in DOMAIN lots
    BY <1>7 DEF ReverseEarn, Reversible, LotsOK, LotsSound, Linked
  <2>2. lots' = [lots EXCEPT ![k] = Emptied(lots[k], "CANCELLED")]
    BY <1>7 DEF ReverseEarn
  <2>3. "CANCELLED" \in Dead
    BY DEF Dead
  <2> HIDE DEF k
  <2> QED BY <1>6, <2>1, <2>2, <2>3
<1>8. ASSUME NEW w \in LotWorkers, NEW k \in lotJobs[w].ids, ExpireLot(w, k)
      PROVE  DiesOrLives(lots[l], lots'[l])
  <2>1. k \in DOMAIN lots
    BY DEF LotsOK, MoneyOK, RowsOK, JobsInRange
  <2>2. lots' = lots \/ lots' = [lots EXCEPT ![k] = Emptied(lots[k], "EXPIRED")]
    BY <1>8 DEF ExpireLot
  <2>3. "EXPIRED" \in Dead
    BY DEF Dead
  <2> QED BY <1>2, <1>6, <2>1, <2>2, <2>3
<1>9. \/ UNCHANGED lots
      \/ \E total \in Amounts : EarnOnly(total)
      \/ \E r \in DOMAIN requests : Confirm(r)
      \/ \E t \in DOMAIN txs : ReverseSpend(t)
      \/ \E t \in DOMAIN txs, force \in BOOLEAN : ReverseEarn(t, force)
      \/ \E w \in LotWorkers : \E k \in lotJobs[w].ids : ExpireLot(w, k)
  BY DEF Next, vars, CreateCashbackRequest, BeginConfirm, AbandonConfirm, Reject,
         CancelByAdmin, StartLotSweep, AbortLotSweep, ExpireRequest, StartRequestSweep, AbortRequestSweep,
         SetOrganizationStatus, UpdateProgram, Tick
<1> QED BY <1>2, <1>3, <1>4, <1>5, <1>7, <1>8, <1>9

\* Whatever the constants and the step, value never flows back into a dead lot, and a lot
\* past its date changes only by burning or being cancelled.
THEOREM DeadLotsStayDeadCorrect == Spec => DeadLotsStayDead
<1>1. LotsOK /\ [Next]_vars
        => [\A l \in DOMAIN lots :
              /\ lots[l].status \in {"EXPIRED", "CANCELLED"}
                    => lots'[l].status \in {"EXPIRED", "CANCELLED"} /\ lots'[l].remaining = 0
              /\ lots[l].expiresAt <= now /\ lots'[l] # lots[l]
                    => lots'[l].status \in {"EXPIRED", "CANCELLED"}]_vars
  BY DeadStep DEF DiesOrLives, Dead
<1> QED BY <1>1, LotsCorrect, PTL DEF Spec, DeadLotsStayDead

-----------------------------------------------------------------------------
(* The account *)

\* The entries written for a request are those it answers with: none before it is
\* confirmed, and one spend among them after.
Mine(ledger, r) == {t \in DOMAIN ledger : ledger[t].redemption = r}
Answered(request, r, ledger) ==
    /\ request.result = Mine(ledger, r)
    /\ request.status # "CONFIRMED" => Mine(ledger, r) = {}
    /\ request.status = "CONFIRMED" =>
          \E t \in Mine(ledger, r) :
             /\ ledger[t].type = "CASHBACK_SPEND" /\ ledger[t].amount = request.spend
             /\ \A u \in Mine(ledger, r) : ledger[u].type = "CASHBACK_SPEND" => u = t

\* No entry belongs to a request that was never made.
Redeemed(reqs, ledger) ==
    \A t \in DOMAIN ledger : ledger[t].redemption = None \/ ledger[t].redemption \in DOMAIN reqs

\* What was compensated is marked.
Compensated(ledger) ==
    \A t \in DOMAIN ledger : ledger[t].related # None =>
        ledger[t].related \in DOMAIN ledger /\ ledger[ledger[t].related].status = "REVERSED"

\* A spend is what it took from the lots.
SpendsAddUp(ledger) ==
    \A t \in DOMAIN ledger :
        ledger[t].type = "CASHBACK_SPEND" => Total(ledger[t].consumed) = ledger[t].amount

\* A request earns what a quote said.
Quoted(reqs) == \A r \in DOMAIN reqs : reqs[r].earn \in Accruals

Records(reqs, ledger) ==
    /\ \A r \in DOMAIN reqs : Answered(reqs[r], r, ledger)
    /\ Redeemed(reqs, ledger)
    /\ Compensated(ledger)
    /\ SpendsAddUp(ledger)
    /\ Quoted(reqs)

\* The inductive invariant.
AccountOK == LotsOK /\ LockedPending /\ Records(requests, txs)

-----------------------------------------------------------------------------
(* Entries that belong to no request *)

\* A ledger that keeps its entries and gets others of another request.
LEMMA AnsweredKept ==
    ASSUME NEW request, NEW r, NEW ledger, NEW L, Answered(request, r, ledger),
           DOMAIN ledger \subseteq DOMAIN L,
           \A u \in DOMAIN ledger : /\ L[u].type = ledger[u].type
                                    /\ L[u].amount = ledger[u].amount
                                    /\ L[u].redemption = ledger[u].redemption,
           \A u \in DOMAIN L : u \notin DOMAIN ledger => L[u].redemption # r
    PROVE  Answered(request, r, L)
<1>1. Mine(L, r) = Mine(ledger, r)
  BY DEF Mine
<1>2. \A u \in Mine(ledger, r) : L[u].type = ledger[u].type /\ L[u].amount = ledger[u].amount
  BY DEF Mine
<1> QED BY <1>1, <1>2 DEF Answered

\* A ledger that keeps its entries, apart from marking some, and gets others that are no
\* spend and belong to no request.
LEMMA RecordsKept ==
    ASSUME NEW reqs \in Seq(Request), NEW ledger, NEW L, Records(reqs, ledger),
           DOMAIN ledger \subseteq DOMAIN L,
           \A u \in DOMAIN ledger : /\ L[u].type = ledger[u].type
                                    /\ L[u].amount = ledger[u].amount
                                    /\ L[u].consumed = ledger[u].consumed
                                    /\ L[u].redemption = ledger[u].redemption
                                    /\ L[u].related = ledger[u].related,
           \A u \in DOMAIN ledger : ledger[u].status = "REVERSED" => L[u].status = "REVERSED",
           \A u \in DOMAIN L : u \notin DOMAIN ledger =>
              /\ L[u].type # "CASHBACK_SPEND" /\ L[u].redemption = None
              /\ L[u].related # None =>
                    L[u].related \in DOMAIN L /\ L[L[u].related].status = "REVERSED"
    PROVE  Records(reqs, L)
<1>1. ASSUME NEW r \in DOMAIN reqs PROVE Answered(reqs[r], r, L)
  <2>1. Answered(reqs[r], r, ledger)
    BY DEF Records
  <2>2. r # None
    BY DEF None
  <2>3. \A u \in DOMAIN L : u \notin DOMAIN ledger => L[u].redemption # r
    BY <2>2
  <2>4. \A u \in DOMAIN ledger : /\ L[u].type = ledger[u].type
                                 /\ L[u].amount = ledger[u].amount
                                 /\ L[u].redemption = ledger[u].redemption
    OBVIOUS
  <2> QED BY <2>1, <2>3, <2>4, AnsweredKept
<1>2. ASSUME NEW u \in DOMAIN L
      PROVE  L[u].redemption = None \/ L[u].redemption \in DOMAIN reqs
  <2>1. CASE u \in DOMAIN ledger
    BY <2>1 DEF Records, Redeemed
  <2>2. CASE u \notin DOMAIN ledger
    BY <2>2
  <2> QED BY <2>1, <2>2
<1>3. ASSUME NEW u \in DOMAIN L, L[u].related # None
      PROVE  L[u].related \in DOMAIN L /\ L[L[u].related].status = "REVERSED"
  <2>1. CASE u \in DOMAIN ledger
    <3>1. L[u].related = ledger[u].related
      BY <2>1
    <3>2. ledger[u].related \in DOMAIN ledger /\ ledger[ledger[u].related].status = "REVERSED"
      BY <1>3, <2>1, <3>1 DEF Records, Compensated
    <3> QED BY <3>1, <3>2
  <2>2. CASE u \notin DOMAIN ledger
    BY <1>3, <2>2
  <2> QED BY <2>1, <2>2
<1>4. ASSUME NEW u \in DOMAIN L, L[u].type = "CASHBACK_SPEND"
      PROVE  Total(L[u].consumed) = L[u].amount
  <2>1. u \in DOMAIN ledger
    BY <1>4
  <2>2. ledger[u].type = "CASHBACK_SPEND" /\ L[u].consumed = ledger[u].consumed
        /\ L[u].amount = ledger[u].amount
    BY <1>4, <2>1
  <2>3. Total(ledger[u].consumed) = ledger[u].amount
    BY <2>1, <2>2 DEF Records, SpendsAddUp
  <2> QED BY <2>2, <2>3
<1> QED BY <1>1, <1>2, <1>3, <1>4 DEF Records, Redeemed, Compensated, SpendsAddUp

\* An earning without a request or a burn is added.
LEMMA RecordsAppended ==
    ASSUME NEW reqs \in Seq(Request), NEW ledger \in Seq(Tx), Records(reqs, ledger), NEW e \in Tx,
           e.type # "CASHBACK_SPEND", e.redemption = None, e.related = None
    PROVE  Records(reqs, Append(ledger, e))
<1> DEFINE L == Append(ledger, e)
<1>1. /\ Len(ledger) \in Nat /\ DOMAIN ledger = 1..Len(ledger) /\ DOMAIN L = 1..(Len(ledger) + 1)
      /\ L[Len(ledger) + 1] = e /\ \A t \in DOMAIN ledger : L[t] = ledger[t]
  BY Appended
<1> HIDE DEF L
<1>2. DOMAIN ledger \subseteq DOMAIN L /\ \A u \in DOMAIN L : u \notin DOMAIN ledger => L[u] = e
  BY <1>1
<1>3. \A u \in DOMAIN L : u \notin DOMAIN ledger =>
              /\ L[u].type # "CASHBACK_SPEND" /\ L[u].redemption = None
              /\ L[u].related # None =>
                    L[u].related \in DOMAIN L /\ L[L[u].related].status = "REVERSED"
  BY <1>2
<1>4. Records(reqs, L)
  BY <1>1, <1>2, <1>3, RecordsKept
<1> QED BY <1>4 DEF L

\* An entry is marked and its compensation added.
LEMMA RecordsReversed ==
    ASSUME TypeOK, Records(requests, txs), NEW t \in DOMAIN txs, NEW c \in Tx,
           txs' = Reversed(t, c), c.type = "REVERSAL", c.redemption = None, c.related = t
    PROVE  Records(requests, txs')
<1>1. /\ DOMAIN txs \subseteq DOMAIN txs'
      /\ \A u \in DOMAIN txs' : u \notin DOMAIN txs => txs'[u] = c
  BY ReversedAdds
<1>2. ASSUME NEW u \in DOMAIN txs
      PROVE  /\ txs'[u].type = txs[u].type
             /\ txs'[u].amount = txs[u].amount /\ txs'[u].consumed = txs[u].consumed
             /\ txs'[u].redemption = txs[u].redemption /\ txs'[u].related = txs[u].related
             /\ txs'[u].status = IF u = t THEN "REVERSED" ELSE txs[u].status
  BY ReversedEntry
<1>3. \A u \in DOMAIN txs' : u \notin DOMAIN txs =>
              /\ txs'[u].type # "CASHBACK_SPEND" /\ txs'[u].redemption = None
              /\ txs'[u].related # None =>
                    txs'[u].related \in DOMAIN txs' /\ txs'[txs'[u].related].status = "REVERSED"
  BY <1>1, <1>2
<1>4. \A u \in DOMAIN txs : txs[u].status = "REVERSED" => txs'[u].status = "REVERSED"
  BY <1>2
<1>5. requests \in Seq(Request)
  BY DEF TypeOK
<1> QED BY <1>1, <1>2, <1>3, <1>4, <1>5, RecordsKept

\* A new entry compensates nothing.
LEMMA NewEntries ==
    ASSUME NEW amount, NEW lot, NEW split, NEW r
    PROVE  /\ EarnTx(amount, lot, r).related = None
           /\ SpendTx(amount, split, r).related = None
           /\ ExpireTx(amount, lot).related = None
BY DEF EarnTx, SpendTx, ExpireTx, BlankTx

-----------------------------------------------------------------------------
(* Requests *)

\* The fields of a request, and what resolving it changes.
LEMMA RequestFields ==
    ASSUME TypeOK, NEW r \in DOMAIN requests
    PROVE  /\ requests[r] \in Request /\ r \in Nat /\ r # None
           /\ requests[r].spend \in Nat /\ requests[r].earn \in Nat
           /\ requests[r].expiry \in Nat
           /\ requests \in Seq(Request)
<1>1. requests \in Seq(Request)
  BY DEF TypeOK
<1>2. requests[r] \in Request /\ r \in Nat /\ r # 0
  BY <1>1
<1> QED BY <1>1, <1>2 DEF Request, None

LEMMA ResolvedFields ==
    ASSUME NEW request \in Request, NEW outcome, NEW result
    PROVE  LET after == Resolved(request, outcome, result) IN
           /\ after.status = outcome /\ after.result = result
           /\ after.spend = request.spend /\ after.earn = request.earn
BY DEF Resolved, Request

\* A request is made: nothing in the ledger is its own.
LEMMA RequestMade ==
    ASSUME NEW reqs \in Seq(Request), NEW ledger, Records(reqs, ledger), NEW request \in Request,
           request.status = "PENDING", request.result = {}, request.earn \in Accruals
    PROVE  Records(Append(reqs, request), ledger)
<1> DEFINE n == Len(reqs)
           R == Append(reqs, request)
<1>1. /\ n \in Nat /\ DOMAIN reqs = 1..n /\ DOMAIN R = 1..(n + 1)
      /\ R[n + 1] = request /\ \A r \in DOMAIN reqs : R[r] = reqs[r]
  BY Appended
<1> HIDE DEF n, R
<1>2. ASSUME NEW r \in DOMAIN R PROVE Answered(R[r], r, ledger) /\ R[r].earn \in Accruals
  <2>1. CASE r \in DOMAIN reqs
    BY <1>1, <2>1 DEF Records, Quoted
  <2>2. CASE r \notin DOMAIN reqs
    <3>1. r = n + 1 /\ R[r] = request
      BY <1>1, <2>2
    <3>2. r # None
      BY <1>1, <3>1 DEF None
    <3>3. Mine(ledger, r) = {}
      BY <2>2, <3>2 DEF Records, Redeemed, Mine
    <3> QED BY <3>1, <3>3 DEF Answered
  <2> QED BY <2>1, <2>2
<1>3. Redeemed(R, ledger)
  BY <1>1 DEF Records, Redeemed
<1>4. Records(R, ledger)
  BY <1>2, <1>3 DEF Records, Quoted
<1> QED BY <1>4 DEF R

\* An open request is resolved in another way than by a confirmation.
LEMMA RequestDropped ==
    ASSUME TypeOK, Records(requests, txs), NEW r \in DOMAIN requests, NEW outcome,
           outcome # "CONFIRMED", requests[r].status = "PENDING",
           requests' = [requests EXCEPT ![r] = Resolved(requests[r], outcome, requests[r].result)]
    PROVE  Records(requests', txs)
<1> DEFINE after == Resolved(requests[r], outcome, requests[r].result)
<1>1. /\ after.status = outcome /\ after.result = requests[r].result
      /\ after.spend = requests[r].spend /\ after.earn = requests[r].earn
  BY RequestFields, ResolvedFields
<1>2. /\ DOMAIN requests' = DOMAIN requests /\ requests'[r] = after
      /\ \A q \in DOMAIN requests : q # r => requests'[q] = requests[q]
  OBVIOUS
<1> HIDE DEF after
<1>3. ASSUME NEW q \in DOMAIN requests
      PROVE  Answered(requests'[q], q, txs) /\ requests'[q].earn \in Accruals
  <2>1. Answered(requests[q], q, txs) /\ requests[q].earn \in Accruals
    BY DEF Records, Quoted
  <2>2. CASE q = r
    BY <1>1, <1>2, <2>1, <2>2 DEF Answered
  <2>3. CASE q # r
    BY <1>2, <2>1, <2>3
  <2> QED BY <2>2, <2>3
<1>4. Redeemed(requests', txs)
  BY <1>2 DEF Records, Redeemed
<1> QED BY <1>2, <1>3, <1>4 DEF Records, Quoted

\* The confirmation of a request: what it answers with are the entries it adds.
LEMMA ConfirmRecords ==
    ASSUME AccountOK, NEW r \in DOMAIN requests, Confirm(r)
    PROVE  Records(requests', txs')
<1> DEFINE spend == requests[r].spend
           earn == requests[r].earn
           n == Len(txs)
           at == Len(lots) + 1
<1>1. /\ TypeOK /\ Records(requests, txs) /\ txs \in Seq(Tx) /\ n \in Nat /\ DOMAIN txs = 1..n
      /\ at \in Nat
  BY DEF AccountOK, LotsOK, MoneyOK, RowsOK, TypeOK
<1>2. /\ spend \in Nat /\ earn \in Nat /\ r \in Nat /\ r # None
      /\ requests[r] \in Request /\ requests[r].status = "PENDING"
  BY <1>1, RequestFields DEF AccountOK, LockedPending, Confirm
<1>3. PICK split \in FifoSplits(spend) :
        /\ ApplyRedemption(r, split)
        /\ requests' = [requests EXCEPT ![r] = Resolved(requests[r], "CONFIRMED",
                          n + 1 .. n + Len(RedemptionTxs(r, split)))]
  BY <1>1, ConfirmSplits
<1> DEFINE added == RedemptionTxs(r, split)
           m == Len(added)
           spendTx == SpendTx(spend, split, r)
           earnTx == EarnTx(earn, at, r)
           after == Resolved(requests[r], "CONFIRMED", n + 1 .. n + m)
<1>4. /\ spendTx \in Tx /\ spendTx.type = "CASHBACK_SPEND" /\ spendTx.amount = spend
      /\ spendTx.consumed = split /\ spendTx.redemption = r /\ spendTx.related = None
      /\ Total(split) = spend
  <2>1. split \in Split /\ Total(split) = spend
    BY <1>1, <1>2, FifoSplitType
  <2>2. spendTx.related = None
    BY NewEntries
  <2>3. spend \in Nat /\ r \in Nat /\ spendTx = SpendTx(spend, split, r)
    BY <1>2
  <2> HIDE DEF spend, spendTx
  <2> QED BY <2>1, <2>2, <2>3, SpendTxType
<1>5. /\ earnTx \in Tx /\ earnTx.type = "CASHBACK_EARN"
      /\ earnTx.redemption = r /\ earnTx.related = None
  <2>1. earnTx = EarnTx(earn, at, r)
    OBVIOUS
  <2>2. earn \in Nat /\ at \in Nat /\ r \in Nat
    BY <1>1, <1>2
  <2>3. earnTx.related = None
    BY NewEntries
  <2> HIDE DEF earn, at, earnTx
  <2> QED BY <2>1, <2>2, <2>3, EarnTxType
<1>6. added = IF earn > 0 THEN <<spendTx, earnTx>> ELSE <<spendTx>>
  BY DEF RedemptionTxs
<1>7. txs' = txs \o added
  BY <1>3 DEF ApplyRedemption
<1>8. requests' = [requests EXCEPT ![r] = after]
  BY <1>3
<1>9. /\ after.status = "CONFIRMED" /\ after.result = n + 1 .. n + m
      /\ after.spend = spend /\ after.earn = earn
  BY <1>2, ResolvedFields
<1> HIDE DEF added, spendTx, earnTx, after, spend, earn, at, n
<1>10. /\ DOMAIN txs \subseteq DOMAIN txs' /\ \A u \in DOMAIN txs : txs'[u] = txs[u]
       /\ \A u : u \in DOMAIN txs' /\ u \notin DOMAIN txs <=> u \in n + 1 .. n + m
       /\ n + 1 \in n + 1 .. n + m /\ txs'[n + 1] = spendTx
       /\ \A u \in n + 1 .. n + m : u # n + 1 => txs'[u] = earnTx
  <2>1. CASE earn > 0
    <3>1. added = <<spendTx, earnTx>> /\ m = 2
      BY <1>6, <2>1
    <3>2. txs' = Append(Append(txs, spendTx), earnTx) /\ Append(txs, spendTx) \in Seq(Tx)
      BY <1>1, <1>4, <1>5, <1>7, <3>1, TwoAppended, Appended
    <3>3. /\ DOMAIN txs' = 1..(n + 2) /\ \A u \in DOMAIN txs : txs'[u] = txs[u]
          /\ txs'[n + 1] = spendTx /\ txs'[n + 2] = earnTx
      BY <1>1, <1>4, <1>5, <3>2 DEF n
    <3> QED BY <1>1, <3>1, <3>3
  <2>2. CASE ~(earn > 0)
    <3>1. added = <<spendTx>> /\ m = 1
      BY <1>6, <2>2
    <3>2. txs' = Append(txs, spendTx)
      BY <1>1, <1>4, <1>5, <1>7, <3>1, TwoAppended
    <3>3. /\ DOMAIN txs' = 1..(n + 1) /\ \A u \in DOMAIN txs : txs'[u] = txs[u]
          /\ txs'[n + 1] = spendTx
      BY <1>1, <1>4, <3>2, Appended DEF n
    <3> QED BY <1>1, <3>1, <3>3
  <2> QED BY <2>1, <2>2
<1>11. \A u \in DOMAIN txs' : u \notin DOMAIN txs =>
         /\ txs'[u].redemption = r /\ txs'[u].related = None
         /\ txs'[u].type = "CASHBACK_SPEND" => u = n + 1
  BY <1>4, <1>5, <1>10
<1> HIDE DEF m
<1>12. /\ DOMAIN requests' = DOMAIN requests /\ requests'[r] = after
       /\ \A q \in DOMAIN requests : q # r => requests'[q] = requests[q]
  BY <1>8
<1>13. ASSUME NEW q \in DOMAIN requests
       PROVE  Answered(requests'[q], q, txs') /\ requests'[q].earn \in Accruals
  <2>1. Answered(requests[q], q, txs) /\ requests[q].earn \in Accruals
    BY <1>1 DEF Records, Quoted
  <2>2. CASE q = r
    <3>1. Mine(txs, r) = {}
      BY <1>2, <2>1, <2>2 DEF Answered
    <3>2. Mine(txs', r) = n + 1 .. n + m
      BY <1>10, <1>11, <3>1 DEF Mine
    <3>3. \A u \in n + 1 .. n + m : txs'[u].type = "CASHBACK_SPEND" => u = n + 1
      BY <1>10, <1>11
    <3>4. Answered(after, r, txs')
      BY <1>4, <1>9, <1>10, <3>2, <3>3 DEF Answered
    <3> QED BY <1>9, <1>12, <2>1, <2>2, <3>4 DEF earn
  <2>3. CASE q # r
    <3>1. \A u \in DOMAIN txs' : u \notin DOMAIN txs => txs'[u].redemption # q
      BY <1>11, <2>3
    <3>2. \A u \in DOMAIN txs : /\ txs'[u].type = txs[u].type
                                /\ txs'[u].amount = txs[u].amount
                                /\ txs'[u].redemption = txs[u].redemption
      BY <1>10
    <3>3. Answered(requests[q], q, txs')
      BY <1>10, <2>1, <3>1, <3>2, AnsweredKept
    <3> QED BY <1>12, <2>1, <2>3, <3>3
  <2> QED BY <2>2, <2>3
<1>14. Redeemed(requests', txs')
  <2>1. ASSUME NEW u \in DOMAIN txs'
        PROVE  txs'[u].redemption = None \/ txs'[u].redemption \in DOMAIN requests
    <3>1. CASE u \in DOMAIN txs
      BY <1>1, <1>10, <3>1 DEF Records, Redeemed
    <3>2. CASE u \notin DOMAIN txs
      BY <1>11, <3>2
    <3> QED BY <3>1, <3>2
  <2> QED BY <1>12, <2>1 DEF Redeemed
<1>15. Compensated(txs')
  <2>1. ASSUME NEW u \in DOMAIN txs', txs'[u].related # None
        PROVE  txs'[u].related \in DOMAIN txs' /\ txs'[txs'[u].related].status = "REVERSED"
    <3>1. u \in DOMAIN txs /\ txs'[u] = txs[u]
      BY <1>10, <1>11, <2>1
    <3>2. txs[u].related \in DOMAIN txs /\ txs[txs[u].related].status = "REVERSED"
      BY <1>1, <2>1, <3>1 DEF Records, Compensated
    <3> QED BY <1>10, <3>1, <3>2
  <2> QED BY <2>1 DEF Compensated
<1>16. SpendsAddUp(txs')
  <2>1. ASSUME NEW u \in DOMAIN txs', txs'[u].type = "CASHBACK_SPEND"
        PROVE  Total(txs'[u].consumed) = txs'[u].amount
    <3>1. CASE u \in DOMAIN txs
      <4>1. txs'[u] = txs[u]
        BY <1>10, <3>1
      <4> QED BY <1>1, <2>1, <3>1, <4>1 DEF Records, SpendsAddUp
    <3>2. CASE u \notin DOMAIN txs
      <4>1. txs'[u] = spendTx
        BY <1>10, <1>11, <2>1, <3>2
      <4> QED BY <1>4, <4>1
    <3> QED BY <3>1, <3>2
  <2> QED BY <2>1 DEF SpendsAddUp
<1> QED BY <1>12, <1>13, <1>14, <1>15, <1>16 DEF Records, Quoted

-----------------------------------------------------------------------------
(* Every step *)

\* With no requests and no entries there is nothing to relate.
LEMMA InitAccountOK == Init => AccountOK
<1> SUFFICES ASSUME Init PROVE AccountOK
  OBVIOUS
<1>1. DOMAIN requests = {} /\ DOMAIN txs = {}
  BY DEF Init
<1>2. Records(requests, txs)
  BY <1>1 DEF Records, Redeemed, Compensated, SpendsAddUp, Quoted
<1>3. LockedPending
  BY DEF Init, LockedPending
<1> QED BY <1>2, <1>3, InitLots DEF AccountOK

\* The steps that add or mark entries, but for the confirmation.
LEMMA LedgerRecords ==
    ASSUME AccountOK,
           \/ \E total \in Amounts : EarnOnly(total)
           \/ \E t \in DOMAIN txs : ReverseSpend(t)
           \/ \E t \in DOMAIN txs, force \in BOOLEAN : ReverseEarn(t, force)
           \/ \E w \in LotWorkers : \E l \in lotJobs[w].ids : ExpireLot(w, l)
    PROVE  Records(requests', txs')
<1>1. /\ TypeOK /\ Records(requests, txs) /\ txs \in Seq(Tx) /\ requests \in Seq(Request)
      /\ JobsInRange /\ Linked(lots, txs)
  BY DEF AccountOK, LotsOK, LotsSound, MoneyOK, RowsOK, TypeOK
<1>2. requests' = requests
  BY DEF EarnOnly, ReverseSpend, ReverseEarn, ExpireLot
<1>3. ASSUME NEW total \in Amounts, EarnOnly(total) PROVE Records(requests, txs')
  <2> DEFINE earn == EarnAmount(total)
             at == Len(lots) + 1
             tx == EarnTx(earn, at, None)
  <2>1. txs' = Append(txs, tx)
    BY <1>3 DEF EarnOnly
  <2>2. earn \in Nat /\ at \in Nat /\ None \in Nat
    <3>1. program \in Settings /\ total \in Int
      BY <1>1, ConstantTypes, CashbackAssumption DEF TypeOK
    <3>2. earn \in Nat
      BY <3>1, SettingsType, ApplyBpsType DEF EarnAmount
    <3>3. at \in Nat
      BY <1>1 DEF TypeOK
    <3> QED BY <3>2, <3>3 DEF None
  <2>3. tx.related = None /\ tx = EarnTx(earn, at, None)
    BY NewEntries
  <2> HIDE DEF earn, at, tx
  <2>4. tx \in Tx /\ tx.type = "CASHBACK_EARN" /\ tx.redemption = None
    BY <2>2, <2>3, EarnTxType
  <2> QED BY <1>1, <2>1, <2>3, <2>4, RecordsAppended
<1>4. ASSUME NEW t \in DOMAIN txs, NEW amount \in Int, NEW lost \in Int,
             txs' = Reversed(t, ReversalTx(amount, t, lost))
      PROVE  Records(requests, txs')
  <2> DEFINE c == ReversalTx(amount, t, lost)
  <2>1. c \in Tx /\ c.type = "REVERSAL" /\ c.redemption = None /\ c.related = t
    BY <1>1, TxFields, ReversalTxType
  <2> HIDE DEF c
  <2> QED BY <1>1, <1>4, <2>1, RecordsReversed DEF c
<1>5. ASSUME NEW t \in DOMAIN txs, ReverseSpend(t) PROVE Records(requests, txs')
  <2> DEFINE split == txs[t].consumed
             back == Restorable(split)
             restored == Total([l \in LotId |-> IF l \in back THEN split[l] ELSE 0])
  <2>1. txs' = Reversed(t, ReversalTx(restored, t, 0))
    BY <1>5 DEF ReverseSpend
  <2>2. restored \in Int
    <3>1. split \in Split
      BY <1>1, TxFields
    <3> HIDE DEF split, back
    <3>2. restored \in Nat
      BY <3>1, RestoredType
    <3> HIDE DEF restored
    <3> QED BY <3>2
  <2> HIDE DEF restored
  <2> QED BY <1>4, <2>1, <2>2
<1>6. ASSUME NEW t \in DOMAIN txs, NEW force \in BOOLEAN, ReverseEarn(t, force)
      PROVE  Records(requests, txs')
  <2> DEFINE l == txs[t].lot
             amount == -lots[l].remaining
             lost == lots[l].original - lots[l].remaining
  <2>1. txs' = Reversed(t, ReversalTx(amount, t, lost))
    BY <1>6 DEF ReverseEarn
  <2>2. l \in DOMAIN lots
    BY <1>1, <1>6 DEF Linked, ReverseEarn, Reversible
  <2>3. amount \in Int /\ lost \in Int
    BY <1>1, <2>2, LotFields
  <2> HIDE DEF amount, lost
  <2> QED BY <1>4, <2>1, <2>3
<1>7. ASSUME NEW w \in LotWorkers, NEW l \in lotJobs[w].ids, ExpireLot(w, l)
      PROVE  Records(requests, txs')
  <2> DEFINE amount == lots[l].remaining
             e == ExpireTx(amount, l)
  <2>1. txs' = txs \/ txs' = Append(txs, e)
    BY <1>7 DEF ExpireLot
  <2>2. amount \in Nat /\ l \in Nat
    BY <1>1, LotFields DEF JobsInRange
  <2>3. e.related = None
    BY NewEntries
  <2>4. e \in Tx /\ e.type = "CASHBACK_EXPIRE" /\ e.redemption = None
    BY <2>2, ExpireTxType
  <2> HIDE DEF e
  <2> QED BY <1>1, <2>1, <2>3, <2>4, RecordsAppended
<1> QED BY <1>2, <1>3, <1>5, <1>6, <1>7

\* The steps that make or drop requests.
LEMMA RequestRecords ==
    ASSUME AccountOK,
           \/ \E total, spend \in Amounts : CreateCashbackRequest(total, spend)
           \/ \E r \in DOMAIN requests : Reject(r) \/ CancelByAdmin(r)
           \/ \E w \in RequestWorkers : \E r \in requestJobs[w].ids : ExpireRequest(w, r)
    PROVE  Records(requests', txs')
<1>1. TypeOK /\ Records(requests, txs) /\ JobsInRange /\ requests \in Seq(Request)
  BY DEF AccountOK, LotsOK, MoneyOK, RowsOK, TypeOK
<1>2. txs' = txs
  BY DEF CreateCashbackRequest, Reject, CancelByAdmin, ExpireRequest
<1>3. ASSUME NEW total \in Amounts, NEW spend \in Amounts, CreateCashbackRequest(total, spend)
      PROVE  Records(requests', txs)
  <2> DEFINE earn == EarnAmount(total - spend)
             request == [status |-> "PENDING", spend |-> spend, earn |-> earn,
                         expiry |-> program.expiry, expiresAt |-> now + Ttl,
                         resolvedAt |-> 0, result |-> {}]
  <2>1. requests' = Append(requests, request)
    BY <1>3 DEF CreateCashbackRequest
  <2>2. earn \in Accruals
    <3>1. program \in Programs
      BY <1>1 DEF TypeOK
    <3> QED BY <3>1 DEF EarnAmount, Accruals
  <2>3. request \in Request
    <3>1. requests' \in Seq(Request) /\ Len(requests) + 1 \in DOMAIN requests'
      <4>1. RowsOK'
        BY <1>3, CreateRows DEF AccountOK, LotsOK, MoneyOK
      <4>2. Len(requests) + 1 \in DOMAIN requests'
        BY <1>1, <2>1
      <4> QED BY <4>1, <4>2 DEF RowsOK, TypeOK
    <3>2. requests'[Len(requests) + 1] = request
      BY <1>1, <2>1
    <3>3. requests'[Len(requests) + 1] \in Request
      BY <3>1
    <3> QED BY <3>2, <3>3
  <2>4. request.status = "PENDING" /\ request.result = {} /\ request.earn = earn
    OBVIOUS
  <2> HIDE DEF request, earn
  <2> QED BY <1>1, <2>1, <2>2, <2>3, <2>4, RequestMade
<1>4. ASSUME NEW r \in DOMAIN requests, NEW outcome \in {"REJECTED", "CANCELLED", "EXPIRED"},
             requests[r].status = "PENDING",
             requests' = [requests EXCEPT ![r] = Resolved(requests[r], outcome, requests[r].result)]
      PROVE  Records(requests', txs)
  BY <1>1, <1>4, RequestDropped
<1>5. ASSUME NEW r \in DOMAIN requests, Reject(r) \/ CancelByAdmin(r)
      PROVE  Records(requests', txs)
  BY <1>4, <1>5 DEF Reject, CancelByAdmin, Resolve
<1>6. ASSUME NEW w \in RequestWorkers, NEW r \in requestJobs[w].ids, ExpireRequest(w, r)
      PROVE  Records(requests', txs)
  <2>1. r \in DOMAIN requests
    BY <1>1 DEF JobsInRange
  <2>2. \/ requests' = requests
        \/ /\ requests[r].status = "PENDING"
           /\ requests' = [requests EXCEPT ![r] = Resolved(requests[r], "EXPIRED", requests[r].result)]
    BY <1>6 DEF ExpireRequest, ExpiryDue
  <2> QED BY <1>1, <1>4, <2>1, <2>2
<1> QED BY <1>2, <1>3, <1>5, <1>6

\* Every step keeps requests and ledger related.
LEMMA NextAccountOK == AccountOK /\ [Next]_vars => AccountOK'
<1> SUFFICES ASSUME AccountOK, [Next]_vars PROVE AccountOK'
  OBVIOUS
<1>1. LotsOK'
  BY NextLots DEF AccountOK
<1>2. ASSUME UNCHANGED <<requests, txs>> PROVE Records(requests', txs')
  BY <1>2 DEF AccountOK
<1>3. \/ UNCHANGED <<requests, txs>>
      \/ \E total \in Amounts : EarnOnly(total)
      \/ \E total, spend \in Amounts : CreateCashbackRequest(total, spend)
      \/ \E r \in DOMAIN requests : Confirm(r) \/ Reject(r) \/ CancelByAdmin(r)
      \/ \E t \in DOMAIN txs : ReverseSpend(t)
      \/ \E t \in DOMAIN txs, force \in BOOLEAN : ReverseEarn(t, force)
      \/ \E w \in LotWorkers : \E l \in lotJobs[w].ids : ExpireLot(w, l)
      \/ \E w \in RequestWorkers : \E r \in requestJobs[w].ids : ExpireRequest(w, r)
  BY DEF Next, vars, BeginConfirm, AbandonConfirm, StartLotSweep, AbortLotSweep,
         StartRequestSweep, AbortRequestSweep, SetOrganizationStatus, UpdateProgram, Tick
<1>4. Records(requests', txs')
  BY <1>2, <1>3, ConfirmRecords, LedgerRecords, RequestRecords
<1>5. LockedPending'
  BY DeadlineStep DEF AccountOK, LotsOK, MoneyOK
<1> QED BY <1>1, <1>4, <1>5 DEF AccountOK

\* The inductive invariant.
THEOREM AccountCorrect == Spec => []AccountOK
BY InitAccountOK, NextAccountOK, PTL DEF Spec

\* Whatever the constants and the history, a confirmed request has exactly one spend, of the
\* amount the client agreed to, and answers with its own entries; no other request has any.
THEOREM ConfirmedOnceCorrect == Spec => []ConfirmedOnce
<1>1. AccountOK => ConfirmedOnce
  <2> SUFFICES ASSUME AccountOK, NEW r \in DOMAIN requests
               PROVE  LET mine == {t \in DOMAIN txs : txs[t].redemption = r}
                          spends == mine \cap Entries("CASHBACK_SPEND")
                      IN  IF requests[r].status = "CONFIRMED"
                          THEN /\ requests[r].result = mine
                               /\ \E t \in spends : spends = {t} /\ txs[t].amount = requests[r].spend
                          ELSE mine = {} /\ requests[r].result = {}
    BY DEF ConfirmedOnce
  <2> DEFINE mine == Mine(txs, r)
             spends == mine \cap Entries("CASHBACK_SPEND")
  <2>1. Answered(requests[r], r, txs)
    BY DEF AccountOK, Records
  <2>2. CASE requests[r].status = "CONFIRMED"
    <3>1. PICK t \in mine : /\ txs[t].type = "CASHBACK_SPEND" /\ txs[t].amount = requests[r].spend
                            /\ \A u \in mine : txs[u].type = "CASHBACK_SPEND" => u = t
      BY <2>1, <2>2 DEF Answered
    <3>2. spends = {t}
      BY <3>1 DEF Entries, Mine
    <3> QED BY <2>1, <2>2, <3>1, <3>2 DEF Answered, Mine
  <2>3. CASE requests[r].status # "CONFIRMED"
    BY <2>1, <2>3 DEF Answered, Mine
  <2> QED BY <2>2, <2>3
<1> QED BY <1>1, AccountCorrect, PTL

-----------------------------------------------------------------------------
(* What the client sees *)

\* The refinement mapping of Account, of any ledger and any requests.
Shown(ledger) == [t \in DOMAIN ledger |-> AccountEntry(ledger[t])]
Asked(reqs) == [r \in DOMAIN reqs |-> AccountRequest(reqs[r])]

\* An entry that is added shows.
LEMMA ShownAppended ==
    ASSUME NEW ledger \in Seq(Tx), NEW e \in Tx
    PROVE  Shown(Append(ledger, e)) = Append(Shown(ledger), AccountEntry(e))
<1> DEFINE S == {AccountEntry(tx) : tx \in Tx}
           L == Append(ledger, e)
           n == Len(ledger)
<1>1. /\ L \in Seq(Tx) /\ n \in Nat /\ Len(L) = n + 1 /\ DOMAIN L = 1..(n + 1)
      /\ DOMAIN ledger = 1..n
      /\ L[n + 1] = e /\ \A t \in DOMAIN ledger : L[t] = ledger[t]
  BY Appended
<1>2. ASSUME NEW rows \in Seq(Tx)
      PROVE  /\ Shown(rows) \in Seq(S) /\ Len(Shown(rows)) = Len(rows)
             /\ \A t \in 1..Len(rows) : Shown(rows)[t] = AccountEntry(rows[t])
  <2>1. \A t \in 1..Len(rows) : AccountEntry(rows[t]) \in S
    OBVIOUS
  <2>2. Len(rows) \in Nat /\ DOMAIN rows = 1..Len(rows)
    OBVIOUS
  <2> HIDE DEF S
  <2>3. Shown(rows) = [t \in 1..Len(rows) |-> AccountEntry(rows[t])]
    BY <2>2 DEF Shown
  <2> QED BY <2>1, <2>2, <2>3
<1>3. AccountEntry(e) \in S
  OBVIOUS
<1> HIDE DEF S, L, n
<1>4. /\ Append(Shown(ledger), AccountEntry(e)) \in Seq(S)
      /\ Len(Append(Shown(ledger), AccountEntry(e))) = n + 1
      /\ Append(Shown(ledger), AccountEntry(e))[n + 1] = AccountEntry(e)
      /\ \A t \in 1..n : Append(Shown(ledger), AccountEntry(e))[t] = Shown(ledger)[t]
  BY <1>2, <1>3, AppendProperties DEF n
<1>5. /\ Shown(L) \in Seq(S) /\ Len(Shown(L)) = n + 1
      /\ \A t \in 1..(n + 1) : Shown(L)[t] = AccountEntry(L[t])
  BY <1>1, <1>2
<1>6. ASSUME NEW t \in 1..(n + 1)
      PROVE  Shown(L)[t] = Append(Shown(ledger), AccountEntry(e))[t]
  <2>1. CASE t = n + 1
    BY <1>1, <1>4, <1>5, <2>1
  <2>2. CASE t # n + 1
    <3>1. t \in 1..n
      BY <1>1, <2>2
    <3>2. Shown(ledger)[t] = AccountEntry(ledger[t])
      BY <1>2, <3>1 DEF n
    <3> QED BY <1>1, <1>4, <1>5, <3>1, <3>2
  <2> QED BY <2>1, <2>2
<1> QED BY <1>4, <1>5, <1>6, SeqEqual DEF L

\* An entry that is marked shows as before.
LEMMA ShownReversed ==
    ASSUME TypeOK, NEW t \in DOMAIN txs, NEW c \in Tx, txs' = Reversed(t, c)
    PROVE  Shown(txs') = Append(Shown(txs), AccountEntry(c))
<1> DEFINE marked == [txs EXCEPT ![t] = [txs[t] EXCEPT !.status = "REVERSED"]]
           mark == [txs[t] EXCEPT !.status = "REVERSED"]
<1>1. txs \in Seq(Tx) /\ txs[t] \in Tx
  BY TxFields DEF TypeOK
<1>2. mark \in Tx
  BY <1>1 DEF Tx
<1>3. /\ mark.type = txs[t].type /\ mark.amount = txs[t].amount
      /\ mark.redemption = txs[t].redemption /\ mark.related = txs[t].related
  BY <1>1, MarkedFields
<1>4. AccountEntry(mark) = AccountEntry(txs[t])
  BY <1>3 DEF AccountEntry, Signed
<1> HIDE DEF mark
<1>5. /\ marked \in Seq(Tx) /\ DOMAIN marked = DOMAIN txs /\ marked[t] = mark
      /\ \A u \in DOMAIN txs : u # t => marked[u] = txs[u]
  BY <1>1, <1>2, Updated DEF mark
<1>6. txs' = Append(marked, c)
  BY DEF Reversed
<1> HIDE DEF marked
<1>7. Shown(marked) = Shown(txs)
  <2>1. ASSUME NEW u \in DOMAIN txs PROVE AccountEntry(marked[u]) = AccountEntry(txs[u])
    BY <1>4, <1>5
  <2> QED BY <1>5, <2>1 DEF Shown
<1> QED BY <1>5, <1>6, <1>7, ShownAppended

\* The client sees a balance that is never negative.
LEMMA BalanceNatural ==
    ASSUME AccountOK
    PROVE  /\ state.available \in Nat /\ state.available = Held(lots) /\ state \in State
           /\ \A l \in DOMAIN lots : lots[l].remaining \in Nat /\ lots[l].remaining <= state.available
<1>1. TypeOK /\ lots \in Seq(Lot) /\ state.available = Held(lots)
  BY DEF AccountOK, LotsOK, MoneyOK, BalancesAgree, RowsOK, TypeOK
<1>2. \A l \in DOMAIN lots : lots[l].remaining \in Nat
  BY <1>1, LotFields
<1> QED BY <1>1, <1>2, HeldCovers, StateFields

\* A purchase is an accrual.
LEMMA EarnOnlyAccrues ==
    ASSUME AccountOK, NEW total \in Amounts, EarnOnly(total)
    PROVE  Account!Next
<1> DEFINE earn == EarnAmount(total)
           at == Len(lots) + 1
           tx == EarnTx(earn, at, None)
<1>1. TypeOK /\ txs \in Seq(Tx) /\ program \in Programs /\ total \in Nat /\ Len(lots) \in Nat
  BY ConstantTypes DEF AccountOK, LotsOK, MoneyOK, RowsOK, TypeOK
<1>2. /\ earn > 0 /\ txs' = Append(txs, tx) /\ requests' = requests
      /\ state' = [state EXCEPT !.available = state.available + earn,
                                !.earned = state.earned + earn]
  BY DEF EarnOnly
<1>3. earn \in Nat /\ earn \in Accruals
  <2>1. program \in Settings /\ total \in Int
    BY <1>1, CashbackAssumption
  <2>2. earn \in Nat
    BY <2>1, SettingsType, ApplyBpsType DEF EarnAmount
  <2>3. total - 0 = total
    BY <1>1
  <2>4. ApplyBps(total - 0, program.rate) \in Accruals
    BY <1>1 DEF Accruals
  <2> QED BY <2>2, <2>3, <2>4 DEF EarnAmount
<1>4. at \in Nat /\ None \in Nat
  BY <1>1 DEF None
<1>5. tx.related = None /\ tx = EarnTx(earn, at, None)
  BY NewEntries
<1> HIDE DEF earn, at, tx
<1>6. /\ tx \in Tx /\ tx.type = "CASHBACK_EARN" /\ tx.amount = earn /\ tx.redemption = None
  BY <1>3, <1>4, <1>5, EarnTxType
<1>7. AccountEntry(tx) = Account!Entry("accrual", earn)
  BY <1>5, <1>6 DEF AccountEntry, Account!Entry, Kind, Signed, None
<1>8. Shown(txs') = Append(Shown(txs), Account!Entry("accrual", earn))
  BY <1>1, <1>2, <1>6, <1>7, ShownAppended
<1>9. state'.available = state.available + earn
  BY <1>2, BalanceNatural, StateUpdated
<1>10. Account!Accrue(earn)
  BY <1>2, <1>8, <1>9 DEF Account!Accrue, Shown
<1> QED BY <1>3, <1>10 DEF Account!Next

\* A lot that burns shows as value that is lost; a row that is no longer due does not show.
LEMMA ExpireLotBurns ==
    ASSUME AccountOK, NEW w \in LotWorkers, NEW l \in lotJobs[w].ids, ExpireLot(w, l)
    PROVE  Account!Next \/ UNCHANGED Account!vars
<1> DEFINE amount == lots[l].remaining
           e == ExpireTx(amount, l)
<1>1. /\ TypeOK /\ txs \in Seq(Tx) /\ l \in DOMAIN lots /\ requests' = requests
  BY DEF AccountOK, LotsOK, MoneyOK, RowsOK, TypeOK, JobsInRange, ExpireLot
<1>2. CASE UNCHANGED <<txs, state>>
  BY <1>1, <1>2 DEF Account!vars
<1>3. CASE ~UNCHANGED <<txs, state>>
  <2>1. /\ amount > 0 /\ txs' = Append(txs, e)
        /\ state' = [state EXCEPT !.available = AtLeastZero(state.available - amount),
                                  !.expired = state.expired + amount]
    BY <1>3 DEF ExpireLot
  <2>2. amount \in Nat /\ amount <= state.available /\ state.available \in Nat /\ l \in Nat
    BY <1>1, BalanceNatural, LotFields
  <2>3. e.related = None /\ e \in Tx /\ e.type = "CASHBACK_EXPIRE" /\ e.redemption = None
        /\ e.amount = amount
    BY <2>2, NewEntries, ExpireTxType
  <2> HIDE DEF e, amount
  <2>4. AccountEntry(e) = Account!Entry("burn", -amount)
    BY <2>3 DEF AccountEntry, Account!Entry, Kind, Signed, None
  <2>5. Shown(txs') = Append(Shown(txs), Account!Entry("burn", -amount))
    BY <1>1, <2>1, <2>3, <2>4, ShownAppended
  <2>6. AtLeastZero(state.available - amount) = state.available - amount
    BY <2>2 DEF AtLeastZero
  <2>7. state'.available = state.available - amount
    BY <2>1, <2>6, BalanceNatural, StateUpdated
  <2>8. Account!Burn(amount)
    BY <1>1, <2>5, <2>7 DEF Account!Burn, Shown
  <2>9. amount \in 1..state.available
    BY <2>1, <2>2
  <2> QED BY <2>8, <2>9 DEF Account!Next
<1> QED BY <1>2, <1>3

\* An entry that was not compensated may be reversed by as much as it says.
LEMMA ReversalShows ==
    ASSUME AccountOK, NEW t \in DOMAIN txs, NEW n \in Int, NEW lost \in Int,
           txs[t].status = "COMPLETED",
           txs' = Reversed(t, ReversalTx(n, t, lost)), requests' = requests,
           state'.available = state.available + n, txs[t].amount \in Nat,
           \/ txs[t].type = "CASHBACK_EARN" /\ n \in -txs[t].amount .. 0 /\ state.available + n >= 0
           \/ txs[t].type = "CASHBACK_SPEND" /\ n \in 0 .. txs[t].amount
    PROVE  Account!Next
<1> DEFINE c == ReversalTx(n, t, lost)
           ledger == Shown(txs)
           most == IF ledger[t].amount < 0 THEN -ledger[t].amount ELSE ledger[t].amount
<1>1. TypeOK /\ txs \in Seq(Tx) /\ t \in Nat /\ t # None
  BY TxFields DEF AccountOK, LotsOK, MoneyOK, RowsOK, TypeOK, None
<1>2. /\ c \in Tx /\ c.type = "REVERSAL" /\ c.amount = n /\ c.related = t /\ c.redemption = None
  <2>1. n \in Int /\ t \in Nat /\ lost \in Int
    BY <1>1
  <2> QED BY ONLY <2>1, ReversalTxType
<1>3. txs' = Reversed(t, c)
  OBVIOUS
<1> HIDE DEF c
<1>4. AccountEntry(c) = [Account!Entry("reversal", n) EXCEPT !.reverses = t]
  BY <1>2 DEF AccountEntry, Account!Entry, Kind, Signed, None
<1>5. Shown(txs') = Append(ledger, [Account!Entry("reversal", n) EXCEPT !.reverses = t])
  BY <1>1, <1>2, <1>3, <1>4, ShownReversed
<1>6. /\ DOMAIN ledger = DOMAIN txs
      /\ \A f \in DOMAIN txs : ledger[f] = AccountEntry(txs[f])
  BY DEF Shown
<1>7. \A f \in DOMAIN ledger : ledger[f].reverses # t
  <2>1. \A f \in DOMAIN txs : txs[f].related # t
    BY <1>1 DEF AccountOK, Records, Compensated
  <2> QED BY <1>6, <2>1 DEF AccountEntry
<1>8. ledger[t].kind = Kind(txs[t].type) /\ ledger[t].amount = Signed(txs[t])
  BY <1>6 DEF AccountEntry
<1> HIDE DEF ledger
<1>9. \/ ledger[t].kind = "accrual" /\ n \in -ledger[t].amount .. 0 /\ state.available + n >= 0
      \/ ledger[t].kind = "spend" /\ n \in 0 .. -ledger[t].amount
  <2>1. CASE txs[t].type = "CASHBACK_EARN"
    <3>1. ledger[t].kind = "accrual" /\ ledger[t].amount = txs[t].amount
      BY <1>8, <2>1 DEF Kind, Signed
    <3> QED BY <2>1, <3>1
  <2>2. CASE txs[t].type = "CASHBACK_SPEND"
    <3>1. ledger[t].kind = "spend" /\ ledger[t].amount = -txs[t].amount
      BY <1>8, <2>2 DEF Kind, Signed
    <3>2. -ledger[t].amount = txs[t].amount
      BY <3>1
    <3> QED BY <2>2, <3>1, <3>2
  <2> QED BY <2>1, <2>2
<1>10. n \in -most .. most
  <2>1. ledger[t].amount = txs[t].amount \/ ledger[t].amount = -txs[t].amount
    BY <1>8 DEF Signed
  <2>2. n \in Int /\ txs[t].amount \in Nat /\ (n \in -txs[t].amount .. 0 \/ n \in 0 .. txs[t].amount)
    OBVIOUS
  <2>3. most = txs[t].amount
    BY <2>1, <2>2
  <2> HIDE DEF most
  <2> QED BY <2>2, <2>3
<1>11. Account!Reverse(t, n)
  <2>1. Account!ReversibleBy(t, n)
    BY <1>7, <1>9 DEF Account!ReversibleBy, ledger, Shown
  <2> QED BY <1>5, <2>1 DEF Account!Reverse, ledger, Shown
<1>12. t \in DOMAIN ledger
  BY <1>6
<1> QED BY <1>10, <1>11, <1>12 DEF Account!Next, ledger, Shown

\* The reversal of an earning: at most what its lot still holds, which is on the balance.
LEMMA ReverseEarnShows ==
    ASSUME AccountOK, NEW t \in DOMAIN txs, NEW force \in BOOLEAN, ReverseEarn(t, force)
    PROVE  Account!Next
<1> DEFINE l == txs[t].lot
           withdrawn == lots[l].remaining
           back == -withdrawn
           lost == lots[l].original - lots[l].remaining
<1>1. /\ TypeOK /\ Linked(lots, txs) /\ AmountsNatural(txs) /\ Conserved(lots, txs, now)
      /\ txs \in Seq(Tx)
  BY DEF AccountOK, LotsOK, LotsSound, MoneyOK, RowsOK, TypeOK
<1>2. /\ txs[t].status = "COMPLETED" /\ txs[t].type = "CASHBACK_EARN" /\ requests' = requests
      /\ txs' = Reversed(t, ReversalTx(back, t, lost))
      /\ state' = [state EXCEPT !.available = AtLeastZero(state.available - withdrawn),
                                !.earned = AtLeastZero(state.earned - txs[t].amount)]
  BY DEF ReverseEarn, Reversible
<1>3. /\ l \in DOMAIN lots /\ lots[l].source = t /\ txs[t].amount = lots[l].original
      /\ txs[t].amount \in Nat
  BY <1>1, <1>2 DEF Linked, AmountsNatural, Counters
<1>4. /\ withdrawn \in Nat /\ withdrawn <= state.available /\ state.available \in Nat
      /\ lots[l].original \in Nat /\ state \in State
  BY <1>1, <1>3, BalanceNatural, LotFields
<1>5. withdrawn <= txs[t].amount
  <2>1. l \in LotId
    BY <1>1, <1>3, LotFields
  <2>2. Consumed(txs, l) \in Nat
    BY <1>1, <2>1, ConsumedCovers
  <2>3. withdrawn + Consumed(txs, l) <= lots[l].original
    BY <1>1, <1>3 DEF Conserved
  <2> HIDE DEF withdrawn, l
  <2>4. withdrawn \in Nat
    BY <1>4
  <2> QED BY <1>3, <1>4, <2>2, <2>3, <2>4
<1>6. lost \in Int
  BY <1>4
<1> HIDE DEF lost, withdrawn, l
<1>7. AtLeastZero(state.available - withdrawn) = state.available - withdrawn
  BY <1>4 DEF AtLeastZero
<1>8. state'.available = state.available - withdrawn
  BY <1>2, <1>4, <1>7, StateUpdated
<1>9. /\ back \in Int /\ state.available - withdrawn = state.available + back
      /\ back \in -txs[t].amount .. 0 /\ state.available + back >= 0
  BY <1>3, <1>4, <1>5
<1> HIDE DEF back
<1> QED BY <1>2, <1>3, <1>6, <1>8, <1>9, ReversalShows

\* The reversal of a spend: at most what it took.
LEMMA ReverseSpendShows ==
    ASSUME AccountOK, NEW t \in DOMAIN txs, ReverseSpend(t)
    PROVE  Account!Next
<1> DEFINE split == txs[t].consumed
           back == Restorable(split)
           given == [l \in LotId |-> IF l \in back THEN split[l] ELSE 0]
           kept == [l \in LotId |-> IF l \in back THEN 0 ELSE split[l]]
           restored == Total(given)
<1>1. TypeOK /\ AmountsNatural(txs) /\ SpendsAddUp(txs)
  BY DEF AccountOK, LotsOK, MoneyOK, RowsOK, Records
<1>2. /\ txs[t].status = "COMPLETED" /\ txs[t].type = "CASHBACK_SPEND" /\ requests' = requests
      /\ txs' = Reversed(t, ReversalTx(restored, t, 0))
      /\ state' = [state EXCEPT !.available = state.available + restored,
                                !.spent = AtLeastZero(state.spent - txs[t].amount)]
  BY DEF ReverseSpend, Reversible
<1>3. split \in Split /\ txs[t].amount \in Nat /\ Total(split) = txs[t].amount
  BY <1>1, <1>2, TxFields DEF AmountsNatural, Counters, SpendsAddUp
<1> HIDE DEF split, back
<1>4. restored \in Nat /\ restored <= txs[t].amount
  <2>1. MaxLots \in Nat /\ LotId = 1..MaxLots
    BY ConstantTypes DEF LotId
  <2>2. \A l \in 1..MaxLots : split[l] \in Nat
    BY <1>3, <2>1 DEF Split
  <2>3. \A l \in 1..MaxLots : given[l] \in Nat /\ kept[l] \in Nat /\ split[l] = given[l] + kept[l]
    BY <2>1, <2>2
  <2> HIDE DEF given, kept
  <2>4. SumTo(split, MaxLots) = SumTo(given, MaxLots) + SumTo(kept, MaxLots)
    <3>1. \A l \in 1..MaxLots : given[l] \in Int /\ kept[l] \in Int /\ split[l] = given[l] + kept[l]
      BY <2>3
    <3>2. MaxLots \in Nat
      BY <2>1
    <3> QED BY ONLY <3>1, <3>2, SumToAdd
  <2>5. SumTo(given, MaxLots) \in Nat /\ SumTo(kept, MaxLots) \in Nat
    BY <2>1, <2>3, SumToNonNegative
  <2> QED BY <1>3, <2>4, <2>5 DEF Total
<1> HIDE DEF restored
<1>5. state'.available = state.available + restored
  BY <1>2, BalanceNatural, StateUpdated
<1>6. restored \in Int /\ 0 \in Int /\ restored \in 0 .. txs[t].amount
  BY <1>3, <1>4
<1> QED BY <1>2, <1>3, <1>5, <1>6, ReversalShows

-----------------------------------------------------------------------------
(* Requests on the account *)

\* A request that is added shows.
LEMMA AskedAppended ==
    ASSUME NEW reqs \in Seq(Request), NEW request \in Request
    PROVE  Asked(Append(reqs, request)) = Append(Asked(reqs), AccountRequest(request))
<1> DEFINE S == {AccountRequest(q) : q \in Request}
           R == Append(reqs, request)
           n == Len(reqs)
<1>1. /\ R \in Seq(Request) /\ n \in Nat /\ Len(R) = n + 1 /\ DOMAIN R = 1..(n + 1)
      /\ DOMAIN reqs = 1..n
      /\ R[n + 1] = request /\ \A r \in DOMAIN reqs : R[r] = reqs[r]
  BY Appended
<1>2. ASSUME NEW rows \in Seq(Request)
      PROVE  /\ Asked(rows) \in Seq(S) /\ Len(Asked(rows)) = Len(rows)
             /\ \A r \in 1..Len(rows) : Asked(rows)[r] = AccountRequest(rows[r])
  <2>1. \A r \in 1..Len(rows) : AccountRequest(rows[r]) \in S
    OBVIOUS
  <2>2. Len(rows) \in Nat /\ DOMAIN rows = 1..Len(rows)
    OBVIOUS
  <2> HIDE DEF S
  <2>3. Asked(rows) = [r \in 1..Len(rows) |-> AccountRequest(rows[r])]
    BY <2>2 DEF Asked
  <2> QED BY <2>1, <2>2, <2>3
<1>3. AccountRequest(request) \in S
  OBVIOUS
<1> HIDE DEF S, R, n
<1>4. /\ Append(Asked(reqs), AccountRequest(request)) \in Seq(S)
      /\ Len(Append(Asked(reqs), AccountRequest(request))) = n + 1
      /\ Append(Asked(reqs), AccountRequest(request))[n + 1] = AccountRequest(request)
      /\ \A r \in 1..n : Append(Asked(reqs), AccountRequest(request))[r] = Asked(reqs)[r]
  BY <1>2, <1>3, AppendProperties DEF n
<1>5. /\ Asked(R) \in Seq(S) /\ Len(Asked(R)) = n + 1
      /\ \A r \in 1..(n + 1) : Asked(R)[r] = AccountRequest(R[r])
  BY <1>1, <1>2
<1>6. ASSUME NEW r \in 1..(n + 1)
      PROVE  Asked(R)[r] = Append(Asked(reqs), AccountRequest(request))[r]
  <2>1. CASE r = n + 1
    BY <1>1, <1>4, <1>5, <2>1
  <2>2. CASE r # n + 1
    <3>1. r \in 1..n
      BY <1>1, <2>2
    <3>2. Asked(reqs)[r] = AccountRequest(reqs[r])
      BY <1>2, <3>1 DEF n
    <3> QED BY <1>1, <1>4, <1>5, <3>1, <3>2
  <2> QED BY <2>1, <2>2
<1> QED BY <1>4, <1>5, <1>6, SeqEqual DEF R

\* A request that is resolved changes its status and nothing else that shows.
WithStatus(reqs, r, shown) == [reqs EXCEPT ![r].status = shown]

LEMMA AskedResolved ==
    ASSUME TypeOK, NEW r \in DOMAIN requests, NEW outcome, NEW result, NEW shown,
           requests' = [requests EXCEPT ![r] = Resolved(requests[r], outcome, result)],
           \/ outcome = "CONFIRMED" /\ shown = "SETTLED"
           \/ outcome \notin {"PENDING", "CONFIRMED"} /\ shown = "DROPPED"
    PROVE  Asked(requests') = WithStatus(Asked(requests), r, shown)
<1> DEFINE after == Resolved(requests[r], outcome, result)
           before == AccountRequest(requests[r])
<1>1. after.status = outcome /\ after.spend = requests[r].spend
  BY RequestFields, ResolvedFields
<1>2. /\ DOMAIN requests' = DOMAIN requests /\ requests'[r] = after
      /\ \A q \in DOMAIN requests : q # r => requests'[q] = requests[q]
  OBVIOUS
<1> HIDE DEF after
<1>3. AccountRequest(after) = [before EXCEPT !.status = shown]
  BY <1>1 DEF AccountRequest
<1>4. Asked(requests)[r] = before
  BY DEF Asked
<1> HIDE DEF before
<1>5. [Asked(requests) EXCEPT ![r].status = shown]
        = [Asked(requests) EXCEPT ![r] = [before EXCEPT !.status = shown]]
  BY <1>4
<1>6. Asked(requests') = [Asked(requests) EXCEPT ![r] = AccountRequest(after)]
  BY <1>2 DEF Asked
<1> QED BY <1>3, <1>5, <1>6 DEF WithStatus

\* What a set of lots holds.
LEMMA RemainingNatural ==
    ASSUME TypeOK, NEW ids
    PROVE  Remaining(ids) \in Nat
<1> DEFINE f == [l \in DOMAIN lots |-> IF l \in ids THEN lots[l].remaining ELSE 0]
<1>1. Len(lots) \in Nat /\ DOMAIN lots = 1..Len(lots)
  BY DEF TypeOK
<1>2. \A l \in 1..Len(lots) : f[l] \in Nat
  BY <1>1, LotFields
<1> HIDE DEF f
<1>3. SumTo(f, Len(lots)) \in Nat
  BY <1>1, <1>2, SumToNonNegative
<1> QED BY <1>3 DEF Remaining, f

\* A request asks for no more than the balance: what the usable lots hold is part of it.
LEMMA CreateAsks ==
    ASSUME AccountOK, NEW total \in Amounts, NEW spend \in Amounts,
           CreateCashbackRequest(total, spend)
    PROVE  Account!Next
<1> DEFINE request == [status |-> "PENDING", spend |-> spend, earn |-> EarnAmount(total - spend),
                       expiry |-> program.expiry, expiresAt |-> now + Ttl,
                       resolvedAt |-> 0, result |-> {}]
           overdue == {l \in DOMAIN lots : lots[l].status = "ACTIVE" /\ lots[l].expiresAt <= now}
<1>1. /\ TypeOK /\ MoneyOK /\ requests \in Seq(Request) /\ requests' \in Seq(Request)
      /\ spend \in Nat /\ spend > 0
  <2>1. RowsOK'
    BY CreateRows DEF AccountOK, LotsOK, MoneyOK
  <2> QED BY <2>1, ConstantTypes DEF AccountOK, LotsOK, MoneyOK, RowsOK, TypeOK
<1>2. /\ requests' = Append(requests, request) /\ txs' = txs /\ state' = state
      /\ spend <= AvailableAmount
  BY DEF CreateCashbackRequest, SpendAllowed
<1>3. spend \in 1 .. state.available
  <2>1. state.available - AvailableAmount = Remaining(overdue)
    BY <1>1, ActiveOrOverdue
  <2> HIDE DEF overdue
  <2>2. AvailableAmount \in Nat /\ Remaining(overdue) \in Nat
    BY <1>1, RemainingNatural DEF AvailableAmount
  <2>3. state.available \in Nat
    BY BalanceNatural
  <2> QED BY <1>1, <1>2, <2>1, <2>2, <2>3
<1>4. request \in Request
  <2>1. requests'[Len(requests) + 1] = request /\ Len(requests) + 1 \in DOMAIN requests'
    BY <1>1, <1>2
  <2> HIDE DEF request
  <2> QED BY <1>1, <2>1
<1>5. AccountRequest(request) = [spend |-> spend, status |-> "PENDING"]
  BY DEF AccountRequest
<1> HIDE DEF request
<1>6. Asked(requests') = Append(Asked(requests), [spend |-> spend, status |-> "PENDING"])
  BY <1>1, <1>2, <1>4, <1>5, AskedAppended
<1>7. Account!Ask(spend)
  BY <1>2, <1>6 DEF Account!Ask, Asked, Shown
<1> QED BY <1>3, <1>7 DEF Account!Next

\* A request that is rejected, withdrawn or out of date is dropped.
LEMMA ResolvedDrops ==
    ASSUME AccountOK, NEW r \in DOMAIN requests, requests[r].status = "PENDING",
           NEW outcome \in {"REJECTED", "CANCELLED", "EXPIRED"},
           requests' = [requests EXCEPT ![r] = Resolved(requests[r], outcome, requests[r].result)],
           state' = state, txs' = txs
    PROVE  Account!Next
<1>1. TypeOK
  BY DEF AccountOK, LotsOK, MoneyOK, RowsOK
<1>2. Asked(requests') = WithStatus(Asked(requests), r, "DROPPED")
  BY <1>1, AskedResolved
<1>3. r \in DOMAIN Asked(requests) /\ Asked(requests)[r].status = "PENDING"
  BY DEF Asked, AccountRequest
<1>4. Account!Drop(r)
  BY <1>2, <1>3 DEF Account!Drop, Asked, WithStatus
<1> QED BY <1>3, <1>4 DEF Account!Next, Asked

\* One or two entries that are added show.
LEMMA ShownExtended ==
    ASSUME NEW ledger \in Seq(Tx), NEW e \in Tx, NEW f \in Tx
    PROVE  /\ Shown(ledger \o <<e>>) = Shown(ledger) \o <<AccountEntry(e)>>
           /\ Shown(ledger \o <<e, f>>) = Shown(ledger) \o <<AccountEntry(e), AccountEntry(f)>>
<1> DEFINE S == {AccountEntry(tx) : tx \in Tx}
           a == AccountEntry(e)
           b == AccountEntry(f)
<1>1. a \in S /\ b \in S /\ Shown(ledger) \in Seq(S)
  <2>1. \A t \in 1..Len(ledger) : AccountEntry(ledger[t]) \in S
    OBVIOUS
  <2>2. Len(ledger) \in Nat /\ DOMAIN ledger = 1..Len(ledger)
    OBVIOUS
  <2>3. a \in S /\ b \in S
    OBVIOUS
  <2> HIDE DEF S, a, b
  <2> QED BY <2>1, <2>2, <2>3 DEF Shown
<1>2. /\ ledger \o <<e>> = Append(ledger, e) /\ Append(ledger, e) \in Seq(Tx)
      /\ ledger \o <<e, f>> = Append(Append(ledger, e), f)
  BY TwoAppended, Appended
<1>3. /\ Shown(Append(ledger, e)) = Append(Shown(ledger), a)
      /\ Shown(Append(Append(ledger, e), f)) = Append(Append(Shown(ledger), a), b)
  BY <1>2, ShownAppended
<1> HIDE DEF S, a, b
<1>4. /\ Shown(ledger) \o <<a>> = Append(Shown(ledger), a)
      /\ Shown(ledger) \o <<a, b>> = Append(Append(Shown(ledger), a), b)
  BY <1>1, TwoAppended
<1> QED BY <1>2, <1>3, <1>4 DEF a, b

\* A confirmation settles the request.
LEMMA ConfirmSettles ==
    ASSUME AccountOK, NEW r \in DOMAIN requests, Confirm(r)
    PROVE  Account!Next
<1> DEFINE spend == requests[r].spend
           earn == requests[r].earn
           n == Len(txs)
           at == Len(lots) + 1
<1>1. /\ TypeOK /\ RowsOK /\ StatusMatches(lots) /\ txs \in Seq(Tx) /\ at \in Nat
      /\ state \in State /\ state.available \in Nat /\ state.available = Held(lots)
      /\ earn \in Accruals
  BY BalanceNatural DEF AccountOK, LotsOK, MoneyOK, RowsOK, TypeOK, Records, Quoted
<1>2. spend \in Nat /\ earn \in Nat /\ r \in Nat /\ requests[r].status = "PENDING"
  BY <1>1, RequestFields DEF AccountOK, LockedPending, Confirm
<1>3. PICK split \in FifoSplits(spend) :
        /\ ApplyRedemption(r, split)
        /\ requests' = [requests EXCEPT ![r] = Resolved(requests[r], "CONFIRMED",
                          n + 1 .. n + Len(RedemptionTxs(r, split)))]
  BY <1>1, ConfirmSplits
<1> DEFINE spendTx == SpendTx(spend, split, r)
           earnTx == EarnTx(earn, at, r)
           spentLots == [l \in DOMAIN lots |-> Consume(lots[l], split[l])]
<1>4. /\ spendTx \in Tx /\ spendTx.type = "CASHBACK_SPEND" /\ spendTx.amount = spend
      /\ spendTx.redemption = r /\ spendTx.related = None
  <2>1. split \in Split
    BY <1>1, <1>2, FifoSplitType
  <2>2. spendTx.related = None
    BY NewEntries
  <2>3. spend \in Nat /\ r \in Nat /\ spendTx = SpendTx(spend, split, r)
    BY <1>2
  <2> HIDE DEF spend, spendTx
  <2> QED BY <2>1, <2>2, <2>3, SpendTxType
<1>5. /\ earnTx \in Tx /\ earnTx.type = "CASHBACK_EARN" /\ earnTx.amount = earn
      /\ earnTx.redemption = r /\ earnTx.related = None
  <2>1. earnTx = EarnTx(earn, at, r)
    OBVIOUS
  <2>2. earn \in Nat /\ at \in Nat /\ r \in Nat
    BY <1>1, <1>2
  <2>3. earnTx.related = None
    BY NewEntries
  <2> HIDE DEF earn, at, earnTx
  <2> QED BY <2>1, <2>2, <2>3, EarnTxType
<1>6. txs' = txs \o IF earn > 0 THEN <<spendTx, earnTx>> ELSE <<spendTx>>
  BY <1>3 DEF ApplyRedemption, RedemptionTxs
<1>7. state' = [state EXCEPT !.available = state.available - spend + earn,
                             !.spent = state.spent + spend,
                             !.earned = state.earned + earn]
  BY <1>3 DEF ApplyRedemption
<1>8. spend <= state.available
  <2>1. spentLots \in Seq(Lot) /\ Held(spentLots) = Held(lots) - spend
    BY <1>1, <1>2, SpentLots
  <2>2. Held(spentLots) \in Nat
    BY <2>1, HeldCovers
  <2> HIDE DEF spentLots
  <2> QED BY <1>1, <1>2, <2>1, <2>2
<1>9. Asked(requests') = WithStatus(Asked(requests), r, "SETTLED")
  <2> DEFINE result == n + 1 .. n + Len(RedemptionTxs(r, split))
             outcome == "CONFIRMED"
             shown == "SETTLED"
  <2>1. requests' = [requests EXCEPT ![r] = Resolved(requests[r], outcome, result)]
    BY <1>3
  <2>2. \/ outcome = "CONFIRMED" /\ shown = "SETTLED"
        \/ outcome \notin {"PENDING", "CONFIRMED"} /\ shown = "DROPPED"
    OBVIOUS
  <2> HIDE DEF result, outcome, shown
  <2>3. Asked(requests') = WithStatus(Asked(requests), r, shown)
    BY <1>1, <2>1, <2>2, AskedResolved
  <2> QED BY <2>3 DEF shown
<1>10. /\ r \in DOMAIN Asked(requests) /\ Asked(requests)[r].status = "PENDING"
       /\ Asked(requests)[r].spend = spend
  BY <1>2 DEF Asked, AccountRequest
<1> HIDE DEF spend, earn, at, n, spendTx, earnTx
<1>11. state'.available = state.available - spend + earn
  BY <1>1, <1>7, StateUpdated
<1> DEFINE spendEntry == [Account!Entry("spend", -spend) EXCEPT !.request = r]
           accrual == [Account!Entry("accrual", earn) EXCEPT !.request = r]
<1>12. AccountEntry(spendTx) = spendEntry /\ AccountEntry(earnTx) = accrual
  BY <1>4, <1>5 DEF AccountEntry, Account!Entry, Kind, Signed, None
<1> HIDE DEF spendEntry, accrual
<1>13. Shown(txs') = Shown(txs) \o IF earn > 0 THEN <<spendEntry, accrual>> ELSE <<spendEntry>>
  <2>1. /\ Shown(txs \o <<spendTx>>) = Shown(txs) \o <<spendEntry>>
        /\ Shown(txs \o <<spendTx, earnTx>>) = Shown(txs) \o <<spendEntry, accrual>>
    BY <1>1, <1>4, <1>5, <1>12, ShownExtended
  <2> QED BY <1>6, <2>1
<1>14. Account!Settle(r, earn)
  BY <1>8, <1>9, <1>10, <1>11, <1>13 DEF Account!Settle, Shown, Asked, WithStatus, spendEntry, accrual
<1> QED BY <1>1, <1>10, <1>14 DEF Account!Next, Asked, earn

-----------------------------------------------------------------------------
(* The refinement *)

\* Resolutions by the client, the admin and the sweep are drops.
LEMMA ResolutionDrops ==
    ASSUME AccountOK,
           \/ \E r \in DOMAIN requests : Reject(r) \/ CancelByAdmin(r)
           \/ \E w \in RequestWorkers : \E r \in requestJobs[w].ids : ExpireRequest(w, r)
    PROVE  Account!Next \/ UNCHANGED Account!vars
<1>1. ASSUME NEW r \in DOMAIN requests, Reject(r) PROVE Account!Next
  <2> DEFINE outcome == "REJECTED"
  <2>1. /\ requests[r].status = "PENDING" /\ state' = state /\ txs' = txs
        /\ requests' = [requests EXCEPT ![r] = Resolved(requests[r], outcome, requests[r].result)]
        /\ outcome \in {"REJECTED", "CANCELLED", "EXPIRED"}
    BY <1>1 DEF Reject, Resolve
  <2> HIDE DEF outcome
  <2> QED BY <2>1, ResolvedDrops
<1>2. ASSUME NEW r \in DOMAIN requests, CancelByAdmin(r) PROVE Account!Next
  <2> DEFINE outcome == "CANCELLED"
  <2>1. /\ requests[r].status = "PENDING" /\ state' = state /\ txs' = txs
        /\ requests' = [requests EXCEPT ![r] = Resolved(requests[r], outcome, requests[r].result)]
        /\ outcome \in {"REJECTED", "CANCELLED", "EXPIRED"}
    BY <1>2 DEF CancelByAdmin, Resolve
  <2> HIDE DEF outcome
  <2> QED BY <2>1, ResolvedDrops
<1>3. ASSUME NEW w \in RequestWorkers, NEW r \in requestJobs[w].ids, ExpireRequest(w, r)
      PROVE  Account!Next \/ UNCHANGED Account!vars
  <2> DEFINE outcome == "EXPIRED"
  <2>1. r \in DOMAIN requests /\ state' = state /\ txs' = txs
    BY <1>3 DEF AccountOK, LotsOK, MoneyOK, RowsOK, JobsInRange, ExpireRequest
  <2>2. CASE ExpiryDue(requests[r], requestJobs[w].at)
    <3>1. /\ requests[r].status = "PENDING"
          /\ requests' = [requests EXCEPT ![r] = Resolved(requests[r], outcome, requests[r].result)]
          /\ outcome \in {"REJECTED", "CANCELLED", "EXPIRED"}
      BY <1>3, <2>2 DEF ExpireRequest, ExpiryDue
    <3> HIDE DEF outcome
    <3> QED BY <2>1, <3>1, ResolvedDrops
  <2>3. CASE ~ExpiryDue(requests[r], requestJobs[w].at)
    <3>1. requests' = requests
      BY <1>3, <2>3 DEF ExpireRequest
    <3> QED BY <2>1, <3>1 DEF Account!vars
  <2> QED BY <2>2, <2>3
<1> QED BY <1>1, <1>2, <1>3

\* The first rows are those of an empty account.
LEMMA InitAccount == Init => Account!Init
<1> SUFFICES ASSUME Init PROVE Account!Init
  OBVIOUS
<1>1. /\ state.available = 0 /\ DOMAIN txs = {} /\ DOMAIN requests = {}
  BY DEF Init
<1>2. [t \in DOMAIN txs |-> AccountEntry(txs[t])] = <<>>
  BY <1>1
<1>3. [r \in DOMAIN requests |-> AccountRequest(requests[r])] = <<>>
  BY <1>1
<1> QED BY <1>1, <1>2, <1>3 DEF Account!Init

\* Every step of the rows is one of the account, or does not show.
LEMMA StepAccount == AccountOK /\ [Next]_vars => [Account!Next]_(Account!vars)
<1> SUFFICES ASSUME AccountOK, [Next]_vars PROVE Account!Next \/ UNCHANGED Account!vars
  OBVIOUS
<1>1. ASSUME UNCHANGED <<state, txs, requests>> PROVE UNCHANGED Account!vars
  BY <1>1 DEF Account!vars
<1>2. ASSUME NEW total \in Amounts, EarnOnly(total) PROVE Account!Next
  BY <1>2, EarnOnlyAccrues
<1>3. ASSUME NEW total \in Amounts, NEW spend \in Amounts, CreateCashbackRequest(total, spend)
      PROVE  Account!Next
  BY <1>3, CreateAsks
<1>4. ASSUME NEW r \in DOMAIN requests, Confirm(r) PROVE Account!Next
  BY <1>4, ConfirmSettles
<1>5. ASSUME NEW t \in DOMAIN txs, ReverseSpend(t) PROVE Account!Next
  BY <1>5, ReverseSpendShows
<1>6. ASSUME NEW t \in DOMAIN txs, NEW force \in BOOLEAN, ReverseEarn(t, force)
      PROVE  Account!Next
  BY <1>6, ReverseEarnShows
<1>7. ASSUME NEW w \in LotWorkers, NEW l \in lotJobs[w].ids, ExpireLot(w, l)
      PROVE  Account!Next \/ UNCHANGED Account!vars
  BY <1>7, ExpireLotBurns
<1>8. \/ UNCHANGED <<state, txs, requests>>
      \/ \E total \in Amounts : EarnOnly(total)
      \/ \E total, spend \in Amounts : CreateCashbackRequest(total, spend)
      \/ \E r \in DOMAIN requests : Confirm(r)
      \/ \E r \in DOMAIN requests : Reject(r) \/ CancelByAdmin(r)
      \/ \E t \in DOMAIN txs : ReverseSpend(t)
      \/ \E t \in DOMAIN txs, force \in BOOLEAN : ReverseEarn(t, force)
      \/ \E w \in LotWorkers : \E l \in lotJobs[w].ids : ExpireLot(w, l)
      \/ \E w \in RequestWorkers : \E r \in requestJobs[w].ids : ExpireRequest(w, r)
  BY DEF Next, vars, BeginConfirm, AbandonConfirm, StartLotSweep, AbortLotSweep,
         StartRequestSweep, AbortRequestSweep, SetOrganizationStatus, UpdateProgram, Tick
<1> QED BY <1>1, <1>2, <1>3, <1>4, <1>5, <1>6, <1>7, <1>8, ResolutionDrops

\* Whatever the constants and the history, what the client sees of the rows is a plain account:
\* the refinement of LoyaltyAccount by the services of loyalty/services.
THEOREM KeepsAccountCorrect == Spec => KeepsAccount
<1>1. Spec => []AccountOK
  BY AccountCorrect
<1> QED BY <1>1, InitAccount, StepAccount, PTL DEF Spec, KeepsAccount, Account!Spec

=============================================================================
