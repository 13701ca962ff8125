---------------------------- MODULE VisitsProofs ----------------------------
(***************************************************************************)
(* Gifts, the visits that give them, the requests that hold them and the    *)
(* entries that use them, after any history and for all values of the       *)
(* constants of Visits.                                                    *)
(*                                                                         *)
(* RowsOK, the inductive invariant of the types, says that what the rows    *)
(* name is there.  Held, Redemptions, Linked and Counted add how the        *)
(* tables belong together: what the properties say, pointwise, and that a   *)
(* gift and its visit name each other; OnCards counts the visits of the     *)
(* cards; WalletOK is what the refinement of GiftWallet needs.             *)
(*                                                                         *)
(* The steps are first reduced to what they do to single rows (the lemmas   *)
(* ...Effect); the parts of the invariant are then proved of these.         *)
(***************************************************************************)
EXTENDS Visits, FiniteSetTheorems, TLAPS

\* The rows that entries, requests and runs of the job name are there.
RowsKnown ==
    /\ \A w \in RequestWorkers : requestJobs[w].ids \subseteq DOMAIN requests
    /\ \A r \in DOMAIN requests : requests[r].gift \in DOMAIN gifts
    /\ \A t \in DOMAIN txs :
          /\ txs[t].type = "GIFT_REDEEM" => txs[t].gift \in DOMAIN gifts
          /\ txs[t].gifts \subseteq DOMAIN gifts

\* While a confirmation holds the row of a request, nobody else decides it.
LockedPending == \A r \in confirming : requests[r].status = "PENDING"

\* The inductive invariant of the types.
RowsOK == TypeOK /\ RowsKnown /\ LockedPending

-----------------------------------------------------------------------------
(* Tables *)

LEMMA Appended ==
    ASSUME NEW S, NEW s \in Seq(S), NEW e \in S
    PROVE  /\ Append(s, e) \in Seq(S)
           /\ Len(Append(s, e)) = Len(s) + 1
           /\ DOMAIN Append(s, e) = 1..(Len(s) + 1)
           /\ DOMAIN Append(s, e) = DOMAIN s \cup {Len(s) + 1} /\ Len(s) + 1 \notin DOMAIN s
           /\ \A i \in DOMAIN s : Append(s, e)[i] = s[i]
           /\ Append(s, e)[Len(s) + 1] = e
           /\ Len(s) \in Nat
           /\ DOMAIN s = 1..Len(s)
OBVIOUS

\* Rewriting one row of a table.
LEMMA Updated ==
    ASSUME NEW S, NEW s \in Seq(S), NEW i \in DOMAIN s, NEW e \in S
    PROVE  /\ [s EXCEPT ![i] = e] \in Seq(S)
           /\ DOMAIN [s EXCEPT ![i] = e] = DOMAIN s
           /\ [s EXCEPT ![i] = e][i] = e
           /\ \A j \in DOMAIN s : j # i => [s EXCEPT ![i] = e][j] = s[j]
OBVIOUS

\* Adding n rows.
LEMMA Extended ==
    ASSUME NEW S, NEW s \in Seq(S), NEW n \in Nat, NEW f, \A i \in 1..n : f[i] \in S,
           f = [i \in 1..n |-> f[i]]
    PROVE  /\ s \o f \in Seq(S)
           /\ Len(s \o f) = Len(s) + n
           /\ DOMAIN (s \o f) = 1..(Len(s) + n)
           /\ \A i \in DOMAIN s : (s \o f)[i] = s[i]
           /\ \A i \in 1..n : (s \o f)[Len(s) + i] = f[i]
           /\ Len(s) \in Nat
<1>1. f \in Seq(S) /\ Len(f) = n
  OBVIOUS
<1>2. /\ s \o f \in Seq(S) /\ Len(s \o f) = Len(s) + n
      /\ \A i \in 1..(Len(s) + n) : (s \o f)[i] = IF i <= Len(s) THEN s[i] ELSE f[i - Len(s)]
  BY <1>1
<1>3. Len(s) \in Nat /\ DOMAIN s = 1..Len(s) /\ DOMAIN (s \o f) = 1..Len(s \o f)
  BY <1>2
<1>4. ASSUME NEW i \in 1..n PROVE (s \o f)[Len(s) + i] = f[i]
  <2>1. Len(s) + i \in 1..(Len(s) + n) /\ ~(Len(s) + i <= Len(s)) /\ Len(s) + i - Len(s) = i
    BY <1>3
  <2> QED BY <1>2, <2>1
<1> QED BY <1>2, <1>3, <1>4

\* The fields of a row.
LEMMA GiftFields ==
    ASSUME TypeOK, NEW g \in DOMAIN gifts
    PROVE  /\ gifts[g] \in Gift /\ gifts[g].status \in GiftStatus
           /\ gifts[g].source \in Nat /\ gifts[g].redeem \in Nat
           /\ g \in Nat /\ g # None
<1>1. gifts[g] \in Gift /\ g \in Nat /\ g # 0
  BY DEF TypeOK
<1> QED BY <1>1 DEF Gift, None

LEMMA TxFields ==
    ASSUME TypeOK, NEW t \in DOMAIN txs
    PROVE  /\ txs[t] \in Tx /\ txs[t].type \in TxType
           /\ txs[t].gifts \in SUBSET Nat /\ txs[t].target \in Nat /\ txs[t].gift \in Nat
           /\ t \in Nat /\ t # None
<1>1. txs[t] \in Tx /\ t \in Nat /\ t # 0
  BY DEF TypeOK
<1> QED BY <1>1 DEF Tx, None

LEMMA RequestFields ==
    ASSUME TypeOK, NEW r \in DOMAIN requests
    PROVE  /\ requests[r] \in Request /\ requests[r].status \in RequestStatus
           /\ requests[r].gift \in Nat /\ requests[r].result \in SUBSET Nat
           /\ r \in Nat /\ r # None
<1>1. requests[r] \in Request /\ r \in Nat /\ r # 0
  BY DEF TypeOK
<1> QED BY <1>1 DEF Request, None

\* The entries of a visit, of its gifts, of a redemption and of a reversal.
LEMMA VisitTxFields ==
    ASSUME NEW created \in SUBSET Nat, TypeOK
    PROVE  LET tx == VisitTx(created) IN
           /\ tx \in Tx /\ tx.type = "VISIT_EARN" /\ tx.status = "COMPLETED"
           /\ tx.gifts = created /\ tx.redemption = None /\ tx.target = program.target
<1>1. program.target \in Nat
  BY VisitsAssumption DEF TypeOK, Settings
<1> QED BY <1>1 DEF VisitTx, BlankTx, Tx, TxType, None

LEMMA GiftCreatedTxFields ==
    ASSUME NEW visit \in Nat, NEW gift \in Nat, TypeOK
    PROVE  LET tx == GiftCreatedTx(visit, gift) IN
           /\ tx \in Tx /\ tx.type = "GIFT_CREATED" /\ tx.status = "COMPLETED"
           /\ tx.related = visit /\ tx.redemption = None /\ tx.gifts = {} /\ tx.gift = gift
<1>1. program.target \in Nat
  BY VisitsAssumption DEF TypeOK, Settings
<1> QED BY <1>1 DEF GiftCreatedTx, BlankTx, Tx, TxType, None

LEMMA RedeemTxFields ==
    ASSUME NEW gift \in Nat, NEW r \in Nat
    PROVE  LET tx == RedeemTx(gift, r) IN
           /\ tx \in Tx /\ tx.type = "GIFT_REDEEM" /\ tx.status = "COMPLETED"
           /\ tx.gift = gift /\ tx.redemption = r /\ tx.gifts = {}
BY DEF RedeemTx, BlankTx, Tx, TxType, None

LEMMA ReversalTxFields ==
    ASSUME NEW original \in Nat
    PROVE  LET tx == ReversalTx(original) IN
           /\ tx \in Tx /\ tx.type = "REVERSAL" /\ tx.redemption = None /\ tx.gifts = {}
           /\ tx.related = original
BY DEF ReversalTx, BlankTx, Tx, TxType, None

LEMMA NewGiftFields ==
    ASSUME NEW source \in Nat
    PROVE  LET gift == NewGift(source) IN
           gift \in Gift /\ gift.status = "AVAILABLE" /\ gift.source = source
BY DEF NewGift, Gift, GiftStatus, None

\* A gift whose status or entry changes.
LEMMA GiftChanged ==
    ASSUME NEW gift \in Gift, NEW status \in GiftStatus, NEW redeem \in Nat
    PROVE  /\ LET after == [gift EXCEPT !.status = status] IN
              /\ after \in Gift /\ after.status = status
              /\ after.source = gift.source /\ after.redeem = gift.redeem
           /\ LET after == [gift EXCEPT !.status = status, !.redeem = redeem] IN
              /\ after \in Gift /\ after.status = status
              /\ after.source = gift.source /\ after.redeem = redeem
BY DEF Gift

-----------------------------------------------------------------------------
(* What the steps do to the tables *)

\* Only row i of a table changes.
Rewritten(rows, after, i, row) ==
    /\ DOMAIN after = DOMAIN rows
    /\ after[i] = row
    /\ \A j \in DOMAIN rows : j # i => after[j] = rows[j]

\* A table after one more row.
Added(rows, after, row) ==
    /\ Len(rows) + 1 \notin DOMAIN rows
    /\ DOMAIN after = DOMAIN rows \cup {Len(rows) + 1}
    /\ \A i \in DOMAIN rows : after[i] = rows[i]
    /\ after[Len(rows) + 1] = row

\* The ledger after a reversal of t.
Undone(ledger, after, t) ==
    /\ Len(ledger) + 1 \notin DOMAIN ledger
    /\ DOMAIN after = DOMAIN ledger \cup {Len(ledger) + 1}
    /\ \A u \in DOMAIN ledger : u # t => after[u] = ledger[u]
    /\ after[Len(ledger) + 1] = ReversalTx(t)
    /\ after[t].status = "REVERSED" /\ after[t].type = ledger[t].type
    /\ after[t].gifts = ledger[t].gifts /\ after[t].gift = ledger[t].gift
    /\ after[t].redemption = ledger[t].redemption /\ after[t].related = ledger[t].related
    /\ after[t].target = ledger[t].target

\* A visit that gives n gifts.
Gave(n) ==
    LET visit == Len(txs) + 1
        old == Len(gifts)
    IN  /\ n \in Nat
        /\ txs' \in Seq(Tx) /\ gifts' \in Seq(Gift) /\ state' \in State
        /\ DOMAIN txs' = 1..(visit + n) /\ DOMAIN gifts' = 1..(old + n)
        /\ \A t \in DOMAIN txs : txs'[t] = txs[t]
        /\ txs'[visit] = VisitTx(old + 1 .. old + n)
        /\ \A i \in 1..n : txs'[visit + i] = GiftCreatedTx(visit, old + i)
        /\ \A g \in DOMAIN gifts : gifts'[g] = gifts[g]
        /\ \A i \in 1..n : gifts'[old + i] = NewGift(visit + i)
        /\ state'.visits = state.visits + 1 /\ state'.earned = state.earned + n
        /\ state'.available = state.available + n /\ state'.used = state.used
        /\ state'.progress = state.progress + 1 - (IF n = 0 THEN 0 ELSE program.target)
        /\ UNCHANGED <<now, orgStatus, program, requests, requestJobs>>

LEMMA EarnVisitEffect ==
    ASSUME TypeOK, EarnVisit
    PROVE  \E n \in Nat : n \in Rewards /\ Gave(n)
<1>1. /\ txs \in Seq(Tx) /\ gifts \in Seq(Gift) /\ state \in State
      /\ Len(txs) \in Nat /\ Len(gifts) \in Nat
  BY DEF TypeOK
<1>2. program.target \in Nat \ {0} /\ program.rewards \in Nat \ {0}
  BY VisitsAssumption DEF TypeOK, Settings
<1> DEFINE reached == state.progress + 1 >= program.target
           n == IF reached THEN program.rewards ELSE 0
           visit == Len(txs) + 1
           old == Len(gifts)
           tx == VisitTx(old + 1 .. old + n)
           created == [i \in 1..n |-> GiftCreatedTx(visit, old + i)]
           fresh == [i \in 1..n |-> NewGift(visit + i)]
           logged == Append(txs, tx)
           progress == state.progress + 1 - (IF reached THEN program.target ELSE 0)
<1>3. /\ txs' = logged \o created
      /\ gifts' = gifts \o fresh
      /\ state' = [state EXCEPT !.progress = progress, !.visits = state.visits + 1,
                                !.earned = state.earned + n, !.available = state.available + n]
      /\ UNCHANGED <<now, orgStatus, program, requests, requestJobs>>
  BY DEF EarnVisit
<1>4. n \in Nat /\ visit \in Nat /\ old \in Nat /\ visit = Len(txs) + 1 /\ old = Len(gifts)
  BY <1>1, <1>2
<1>5. /\ state.progress \in Nat /\ state.visits \in Nat /\ state.earned \in Nat
      /\ state.available \in Nat
  BY <1>1 DEF State
<1>6. /\ progress \in Nat
      /\ progress = state.progress + 1 - (IF n = 0 THEN 0 ELSE program.target)
  BY <1>2, <1>5
<1>7. n \in Rewards
  BY DEF Rewards, TypeOK
<1>8. /\ created = [i \in 1..n |-> created[i]] /\ fresh = [i \in 1..n |-> fresh[i]]
      /\ \A i \in 1..n : created[i] = GiftCreatedTx(visit, old + i) /\ fresh[i] = NewGift(visit + i)
  OBVIOUS
<1>9. tx = VisitTx(old + 1 .. old + n) /\ logged = Append(txs, tx)
  OBVIOUS
<1> HIDE DEF n, visit, old, tx, created, fresh, logged, progress
<1>10. tx \in Tx
  BY <1>4, <1>9, VisitTxFields
<1>11. \A i \in 1..n : created[i] \in Tx /\ fresh[i] \in Gift
  <2>1. ASSUME NEW i \in 1..n PROVE created[i] \in Tx /\ fresh[i] \in Gift
    <3>1. visit + i \in Nat /\ old + i \in Nat
      BY <1>4
    <3> QED BY <1>4, <1>8, <3>1, GiftCreatedTxFields, NewGiftFields
  <2> QED BY <2>1
<1>12. /\ logged \in Seq(Tx) /\ Len(logged) = visit
       /\ \A t \in DOMAIN txs : logged[t] = txs[t]
       /\ logged[visit] = tx
       /\ DOMAIN logged = 1..visit /\ DOMAIN txs = 1..Len(txs)
  BY <1>1, <1>4, <1>9, <1>10, Appended
<1>13. /\ txs' \in Seq(Tx) /\ DOMAIN txs' = 1..(visit + n)
       /\ \A t \in DOMAIN logged : txs'[t] = logged[t]
       /\ \A i \in 1..n : txs'[visit + i] = created[i]
  <2>1. \A i \in 1..n : created[i] \in Tx
    BY <1>11
  <2>2. logged \in Seq(Tx) /\ n \in Nat /\ Len(logged) = visit /\ txs' = logged \o created
    BY <1>3, <1>4, <1>12
  <2>3. created = [i \in 1..n |-> created[i]]
    BY <1>8
  <2> QED BY ONLY <2>1, <2>2, <2>3, Extended
<1>14. /\ gifts' \in Seq(Gift) /\ DOMAIN gifts' = 1..(old + n)
       /\ \A g \in DOMAIN gifts : gifts'[g] = gifts[g]
       /\ \A i \in 1..n : gifts'[old + i] = fresh[i]
  <2>1. \A i \in 1..n : fresh[i] \in Gift
    BY <1>11
  <2>2. n \in Nat /\ gifts' = gifts \o fresh /\ old = Len(gifts)
    BY <1>3, <1>4
  <2>3. fresh = [i \in 1..n |-> fresh[i]]
    BY <1>8
  <2>4. gifts \in Seq(Gift)
    BY <1>1
  <2>5. /\ gifts \o fresh \in Seq(Gift)
        /\ DOMAIN (gifts \o fresh) = 1..(Len(gifts) + n)
        /\ \A g \in DOMAIN gifts : (gifts \o fresh)[g] = gifts[g]
        /\ \A i \in 1..n : (gifts \o fresh)[Len(gifts) + i] = fresh[i]
    BY ONLY <2>1, <2>2, <2>3, <2>4, Extended
  <2> QED BY ONLY <2>2, <2>5
<1>15. /\ \A t \in DOMAIN txs : txs'[t] = txs[t]
       /\ txs'[visit] = tx
  BY <1>4, <1>12, <1>13
<1>16. /\ state.visits + 1 \in Nat /\ state.earned + n \in Nat /\ state.available + n \in Nat
  BY <1>4, <1>5
<1>17. /\ state' \in State
       /\ state'.visits = state.visits + 1 /\ state'.earned = state.earned + n
       /\ state'.available = state.available + n /\ state'.used = state.used
       /\ state'.progress = progress
  <2>1. state' = [state EXCEPT !.progress = progress, !.visits = state.visits + 1,
                               !.earned = state.earned + n, !.available = state.available + n]
    BY <1>3
  <2> QED BY ONLY <1>1, <1>6, <1>16, <2>1 DEF State
<1>18. Gave(n)
  BY <1>3, <1>4, <1>6, <1>8, <1>9, <1>13, <1>14, <1>15, <1>17 DEF Gave
<1> QED BY <1>4, <1>7, <1>18

LEMMA GiftRewritten ==
    ASSUME TypeOK, NEW g \in DOMAIN gifts, NEW row \in Gift, gifts' = [gifts EXCEPT ![g] = row]
    PROVE  gifts' \in Seq(Gift) /\ Rewritten(gifts, gifts', g, row)
BY Updated DEF TypeOK, Rewritten

LEMMA EntryAdded ==
    ASSUME TypeOK, NEW tx \in Tx, txs' = Append(txs, tx)
    PROVE  txs' \in Seq(Tx) /\ Added(txs, txs', tx)
BY Appended DEF TypeOK, Added

LEMMA RequestRewritten ==
    ASSUME TypeOK, NEW r \in DOMAIN requests, NEW row \in Request,
           requests' = [requests EXCEPT ![r] = row]
    PROVE  requests' \in Seq(Request) /\ Rewritten(requests, requests', r, row)
BY Updated DEF TypeOK, Rewritten

\* The row of a request that is resolved.
LEMMA ResolvedFields ==
    ASSUME TypeOK, NEW r \in DOMAIN requests, NEW outcome \in RequestStatus,
           NEW result \in SUBSET Nat
    PROVE  /\ Resolved(requests[r], outcome, result) \in Request
           /\ Resolved(requests[r], outcome, result).status = outcome
           /\ Resolved(requests[r], outcome, result).result = result
           /\ Resolved(requests[r], outcome, result).gift = requests[r].gift
<1>1. requests[r] \in Request /\ now \in Nat
  BY DEF TypeOK
<1> QED BY <1>1 DEF Resolved, Request

\* An entry that is marked, and the entry that compensates it.
LEMMA EntryReversed ==
    ASSUME TypeOK, NEW t \in DOMAIN txs, txs' = Reversed(t)
    PROVE  txs' \in Seq(Tx) /\ Undone(txs, txs', t)
<1> DEFINE mark == [txs[t] EXCEPT !.status = "REVERSED"]
           marked == [txs EXCEPT ![t] = mark]
           c == ReversalTx(t)
<1>1. txs \in Seq(Tx) /\ txs[t] \in Tx /\ t \in Nat
  BY TxFields DEF TypeOK
<1>2. /\ mark \in Tx
      /\ mark.status = "REVERSED" /\ mark.type = txs[t].type
      /\ mark.gifts = txs[t].gifts /\ mark.gift = txs[t].gift
      /\ mark.redemption = txs[t].redemption /\ mark.related = txs[t].related
      /\ mark.target = txs[t].target
  BY <1>1 DEF Tx
<1>3. c \in Tx /\ c = ReversalTx(t)
  BY <1>1, ReversalTxFields
<1>4. txs' = Append(marked, c) /\ marked = [txs EXCEPT ![t] = mark]
  BY DEF Reversed
<1> HIDE DEF mark, c, marked
<1>5. /\ marked \in Seq(Tx) /\ DOMAIN marked = DOMAIN txs /\ marked[t] = mark
      /\ \A u \in DOMAIN txs : u # t => marked[u] = txs[u]
  BY <1>1, <1>2, <1>4, Updated
<1>6. Len(marked) = Len(txs) /\ Len(txs) \in Nat /\ DOMAIN txs = 1..Len(txs)
  BY <1>1, <1>5
<1>7. /\ txs' \in Seq(Tx)
      /\ DOMAIN txs' = DOMAIN txs \cup {Len(txs) + 1} /\ Len(txs) + 1 \notin DOMAIN txs
      /\ \A u \in DOMAIN txs : txs'[u] = marked[u]
      /\ txs'[Len(txs) + 1] = c
  BY <1>3, <1>4, <1>5, <1>6, Appended
<1> QED BY <1>2, <1>3, <1>5, <1>7 DEF Undone

\* A request takes an available gift.
Asked(g, gift, request) ==
    /\ gifts[g].status = "AVAILABLE"
    /\ gift \in Gift /\ gift.status = "PENDING_REDEMPTION" /\ gift.source = gifts[g].source
    /\ gifts' \in Seq(Gift) /\ Rewritten(gifts, gifts', g, gift)
    /\ request \in Request /\ request.gift = g /\ request.status = "PENDING" /\ request.result = {}
    /\ requests' \in Seq(Request) /\ Added(requests, requests', request)
    /\ UNCHANGED <<now, orgStatus, program, state, txs, requestJobs>>

LEMMA CreateEffect ==
    ASSUME TypeOK, NEW g \in DOMAIN gifts, CreateGiftRequest(g)
    PROVE  \E gift \in Gift, request \in Request : Asked(g, gift, request)
<1> DEFINE gift == [gifts[g] EXCEPT !.status = "PENDING_REDEMPTION"]
           request == [gift |-> g, status |-> "PENDING", expiresAt |-> now + Ttl,
                       resolvedAt |-> 0, result |-> {}]
<1>1. /\ gifts[g] \in Gift /\ g \in Nat /\ now \in Nat /\ Ttl \in Nat
      /\ requests \in Seq(Request)
  BY GiftFields, VisitsAssumption DEF TypeOK
<1>2. /\ gift \in Gift /\ gift.status = "PENDING_REDEMPTION" /\ gift.source = gifts[g].source
  BY <1>1 DEF Gift, GiftStatus
<1>3. /\ request \in Request
      /\ request.gift = g /\ request.status = "PENDING" /\ request.result = {}
  BY <1>1 DEF Request, RequestStatus
<1>4. /\ gifts[g].status = "AVAILABLE"
      /\ gifts' = [gifts EXCEPT ![g] = gift] /\ requests' = Append(requests, request)
      /\ UNCHANGED <<now, orgStatus, program, state, txs, requestJobs>>
  BY DEF CreateGiftRequest, Requestable
<1> HIDE DEF gift, request
<1>5. gifts' \in Seq(Gift) /\ Rewritten(gifts, gifts', g, gift)
  BY <1>2, <1>4, GiftRewritten
<1>6. requests' \in Seq(Request) /\ Added(requests, requests', request)
  BY <1>1, <1>3, <1>4, Appended DEF Added
<1> QED BY <1>2, <1>3, <1>4, <1>5, <1>6 DEF Asked

\* A request leaves PENDING without a redemption and frees its gift.
Answered(r, gift, request) ==
    LET g == requests[r].gift IN
    /\ requests[r].status = "PENDING"
    /\ gift \in Gift /\ gift.source = gifts[g].source /\ gift.redeem = gifts[g].redeem
    /\ gift.status = IF gifts[g].status = "PENDING_REDEMPTION" THEN "AVAILABLE"
                     ELSE gifts[g].status
    /\ gifts' \in Seq(Gift) /\ Rewritten(gifts, gifts', g, gift)
    /\ request \in Request /\ request.gift = g /\ request.result = {}
    /\ request.status \in {"REJECTED", "CANCELLED", "EXPIRED"}
    /\ requests' \in Seq(Request) /\ Rewritten(requests, requests', r, request)

LEMMA ResolveEffect ==
    ASSUME RowsOK, NEW r \in DOMAIN requests, NEW outcome \in {"REJECTED", "CANCELLED", "EXPIRED"},
           requests[r].status = "PENDING", Resolve(r, outcome)
    PROVE  \E gift \in Gift, request \in Request : Answered(r, gift, request)
<1> DEFINE g == requests[r].gift
           gift == Released(gifts[g])
           result == {}
           request == Resolved(requests[r], outcome, result)
<1>1. TypeOK /\ g \in DOMAIN gifts /\ g = requests[r].gift
  BY DEF RowsOK, RowsKnown
<1>2. outcome \in RequestStatus /\ result \in SUBSET Nat /\ result = {}
  BY DEF RequestStatus
<1>3. gifts' = [gifts EXCEPT ![g] = gift]
  BY DEF Resolve
<1>4. requests' = [requests EXCEPT ![r] = request] /\ request = Resolved(requests[r], outcome, result)
  BY DEF Resolve
<1>5. gifts[g] \in Gift
  BY <1>1, GiftFields
<1>6. /\ gift \in Gift /\ gift.source = gifts[g].source /\ gift.redeem = gifts[g].redeem
      /\ gift.status = IF gifts[g].status = "PENDING_REDEMPTION" THEN "AVAILABLE"
                       ELSE gifts[g].status
  BY <1>5 DEF Released, Gift, GiftStatus
<1> HIDE DEF g, gift, result, request
<1>7. gifts' \in Seq(Gift) /\ Rewritten(gifts, gifts', g, gift)
  BY <1>1, <1>3, <1>6, GiftRewritten
<1>8. /\ request \in Request
      /\ requests' \in Seq(Request) /\ Rewritten(requests, requests', r, request)
      /\ request.status = outcome /\ request.result = result /\ request.gift = requests[r].gift
  <2>1. /\ request \in Request
        /\ request.status = outcome /\ request.result = result /\ request.gift = requests[r].gift
    BY <1>1, <1>2, ResolvedFields DEF request
  <2> QED BY <1>1, <1>4, <2>1, RequestRewritten
<1>9. Answered(r, gift, request)
  BY <1>1, <1>2, <1>6, <1>7, <1>8 DEF Answered
<1> QED BY <1>6, <1>8, <1>9

\* A confirmed request uses its gift.
Redeemed(r, gift, request) ==
    LET g == requests[r].gift IN
    /\ requests[r].status = "PENDING" /\ gifts[g].status = "PENDING_REDEMPTION"
    /\ gift \in Gift /\ gift.status = "USED" /\ gift.source = gifts[g].source
    /\ gift.redeem = Len(txs) + 1
    /\ gifts' \in Seq(Gift) /\ Rewritten(gifts, gifts', g, gift)
    /\ request \in Request /\ request.gift = g /\ request.status = "CONFIRMED"
    /\ request.result = {Len(txs) + 1}
    /\ requests' \in Seq(Request) /\ Rewritten(requests, requests', r, request)
    /\ txs' \in Seq(Tx) /\ Added(txs, txs', RedeemTx(g, r))
    /\ state' \in State /\ state'.available = AtLeastZero(state.available - 1)
    /\ state'.used = state.used + 1
    /\ state'.visits = state.visits /\ state'.earned = state.earned
    /\ state'.progress = state.progress
    /\ UNCHANGED <<now, orgStatus, program, requestJobs>>

LEMMA ConfirmEffect ==
    ASSUME RowsOK, NEW r \in DOMAIN requests, Confirm(r)
    PROVE  \E gift \in Gift, request \in Request : Redeemed(r, gift, request)
<1> DEFINE g == requests[r].gift
           gift == [gifts[g] EXCEPT !.status = "USED", !.redeem = Len(txs) + 1]
           tx == RedeemTx(g, r)
           left == AtLeastZero(state.available - 1)
           outcome == "CONFIRMED"
           result == {Len(txs) + 1}
           request == Resolved(requests[r], outcome, result)
<1>1. TypeOK /\ g \in DOMAIN gifts /\ g = requests[r].gift /\ r \in Nat /\ g \in Nat
  BY GiftFields, RequestFields DEF RowsOK, RowsKnown
<1>2. /\ outcome \in RequestStatus /\ outcome = "CONFIRMED"
      /\ result \in SUBSET Nat /\ result = {Len(txs) + 1} /\ Len(txs) + 1 \in Nat
  BY <1>1 DEF RequestStatus, TypeOK
<1>3. gifts' = [gifts EXCEPT ![g] = gift]
  BY DEF Confirm
<1>4. requests' = [requests EXCEPT ![r] = request] /\ request = Resolved(requests[r], outcome, result)
  BY DEF Confirm
<1>5. gifts[g] \in Gift
  BY <1>1, GiftFields
<1>6. /\ gift \in Gift /\ gift.source = gifts[g].source /\ gift.redeem = Len(txs) + 1
      /\ gift.status = "USED"
  BY <1>2, <1>5 DEF Gift, GiftStatus
<1>7. tx \in Tx /\ txs' = Append(txs, tx) /\ tx = RedeemTx(g, r)
  BY <1>1, RedeemTxFields DEF Confirm
<1>8. state' = [state EXCEPT !.available = left, !.used = state.used + 1]
  BY DEF Confirm
<1>9. left \in Nat
  BY <1>1 DEF TypeOK, State, AtLeastZero
<1>10. /\ requests[r].status = "PENDING" /\ gifts[g].status = "PENDING_REDEMPTION"
       /\ UNCHANGED <<now, orgStatus, program, requestJobs>>
  BY DEF Confirm, RowsOK, LockedPending
<1> HIDE DEF g, gift, tx, outcome, result, request
<1>11. gifts' \in Seq(Gift) /\ Rewritten(gifts, gifts', g, gift)
  BY <1>1, <1>3, <1>6, GiftRewritten
<1>12. /\ request \in Request
       /\ requests' \in Seq(Request) /\ Rewritten(requests, requests', r, request)
       /\ request.status = outcome /\ request.result = result /\ request.gift = requests[r].gift
  <2>1. /\ request \in Request
        /\ request.status = outcome /\ request.result = result /\ request.gift = requests[r].gift
    BY <1>1, <1>2, ResolvedFields DEF request
  <2> QED BY <1>1, <1>4, <2>1, RequestRewritten
<1>13. txs' \in Seq(Tx) /\ Added(txs, txs', tx)
  BY <1>1, <1>7, EntryAdded
<1>14. /\ state' \in State /\ state'.available = left /\ state'.used = state.used + 1
       /\ state'.visits = state.visits /\ state'.earned = state.earned
       /\ state'.progress = state.progress
  <2> HIDE DEF left
  <2>1. state \in State
    BY <1>1 DEF TypeOK
  <2>2. state.used + 1 \in Nat
    BY <2>1 DEF State
  <2> QED BY ONLY <1>8, <1>9, <2>1, <2>2 DEF State
<1>15. Redeemed(r, gift, request)
  BY <1>1, <1>2, <1>6, <1>7, <1>10, <1>11, <1>12, <1>13, <1>14 DEF Redeemed
<1> QED BY <1>6, <1>12, <1>15

\* A visit is reversed: its available gifts go with it.
Voided(t, gone) ==
    /\ gone = {g \in txs[t].gifts : gifts[g].status = "AVAILABLE"}
    /\ txs[t].type = "VISIT_EARN" /\ txs[t].status = "COMPLETED"
    /\ \A g \in txs[t].gifts : gifts[g].status \notin {"USED", "PENDING_REDEMPTION"}
    /\ txs' \in Seq(Tx) /\ Undone(txs, txs', t)
    /\ gifts' \in Seq(Gift) /\ DOMAIN gifts' = DOMAIN gifts
    /\ \A g \in DOMAIN gifts : g \notin gone => gifts'[g] = gifts[g]
    /\ \A g \in DOMAIN gifts : g \in gone =>
          gifts'[g].status = "CANCELLED" /\ gifts'[g].source = gifts[g].source
    /\ state'.progress = Compensated(state.progress, gone, txs[t].target)
    /\ state'.visits = AtLeastZero(state.visits - 1)
    /\ state'.earned = AtLeastZero(state.earned - Cardinality(gone))
    /\ state'.available = AtLeastZero(state.available - Cardinality(gone))
    /\ state'.used = state.used
    /\ UNCHANGED <<now, orgStatus, program, requests, requestJobs>>

LEMMA ReverseVisitEffect ==
    ASSUME RowsOK, NEW t \in DOMAIN txs, ReverseVisit(t)
    PROVE  /\ state' \in State
           /\ \E gone \in SUBSET txs[t].gifts : Voided(t, gone)
<1> DEFINE gone == {g \in txs[t].gifts : gifts[g].status = "AVAILABLE"}
           n == Cardinality(gone)
           progress == Compensated(state.progress, gone, txs[t].target)
           visits == AtLeastZero(state.visits - 1)
           earned == AtLeastZero(state.earned - n)
           available == AtLeastZero(state.available - n)
<1>1. TypeOK /\ state \in State /\ gifts \in Seq(Gift)
  BY DEF RowsOK, TypeOK
<1>2. /\ gifts' = [g \in DOMAIN gifts |->
                     IF g \in gone THEN [gifts[g] EXCEPT !.status = "CANCELLED"] ELSE gifts[g]]
      /\ txs' = Reversed(t)
      /\ txs[t].type = "VISIT_EARN" /\ txs[t].status = "COMPLETED"
      /\ \A g \in txs[t].gifts : gifts[g].status \notin {"USED", "PENDING_REDEMPTION"}
      /\ state' = [state EXCEPT !.progress = progress, !.visits = visits, !.earned = earned,
                                !.available = available]
      /\ UNCHANGED <<now, orgStatus, program, requests, requestJobs>>
  BY DEF ReverseVisit, Reversible, Voidable
<1>3. txs' \in Seq(Tx) /\ Undone(txs, txs', t)
  BY <1>1, <1>2, EntryReversed
<1>4. n = Cardinality(gone) /\ gone \in SUBSET txs[t].gifts
  OBVIOUS
<1>5. gone = {g \in txs[t].gifts : gifts[g].status = "AVAILABLE"}
  OBVIOUS
<1>6. /\ progress = Compensated(state.progress, gone, txs[t].target)
      /\ visits = AtLeastZero(state.visits - 1) /\ earned = AtLeastZero(state.earned - n)
      /\ available = AtLeastZero(state.available - n)
  OBVIOUS
<1> HIDE DEF gone, n
<1>7. ASSUME NEW g \in DOMAIN gifts
      PROVE  /\ gifts'[g] \in Gift
             /\ g \notin gone => gifts'[g] = gifts[g]
             /\ g \in gone => gifts'[g].status = "CANCELLED" /\ gifts'[g].source = gifts[g].source
  <2>1. gifts[g] \in Gift
    BY <1>1
  <2>2. g \notin gone => gifts'[g] = gifts[g]
    BY <1>2
  <2>3. g \in gone => gifts'[g] = [gifts[g] EXCEPT !.status = "CANCELLED"]
    BY <1>2
  <2>4. CASE g \in gone
    <3> DEFINE row == [gifts[g] EXCEPT !.status = "CANCELLED"]
    <3>1. row \in Gift /\ row.status = "CANCELLED" /\ row.source = gifts[g].source
      BY <2>1 DEF Gift, GiftStatus
    <3>2. gifts'[g] = row
      BY <2>3, <2>4
    <3> QED BY <2>4, <3>1, <3>2
  <2> QED BY <2>1, <2>2, <2>4
<1>8. DOMAIN gifts' = DOMAIN gifts /\ DOMAIN gifts = 1..Len(gifts) /\ Len(gifts) \in Nat
  BY <1>1, <1>2
<1>9. gifts' \in Seq(Gift)
  <2>1. gifts' = [g \in 1..Len(gifts) |-> gifts'[g]]
    BY <1>2, <1>8
  <2>2. \A g \in 1..Len(gifts) : gifts'[g] \in Gift
    BY <1>7, <1>8
  <2> QED BY ONLY <1>8, <2>1, <2>2
<1>10. /\ state'.visits = visits /\ state'.earned = earned /\ state'.available = available
       /\ state'.used = state.used /\ state'.progress = progress
  <2> HIDE DEF progress, visits, earned, available
  <2> QED BY <1>1, <1>2 DEF State
<1>11. Voided(t, gone)
  BY <1>2, <1>3, <1>4, <1>5, <1>6, <1>7, <1>8, <1>9, <1>10 DEF Voided
<1>12. state' \in State
  <2>1. n \in Nat
    <3>1. IsFiniteSet(1..Len(gifts))
      BY <1>8, FS_Interval
    <3>2. gone \subseteq 1..Len(gifts)
      BY <1>4, <1>8 DEF RowsOK, RowsKnown
    <3> QED BY <1>4, <3>1, <3>2, FS_Subset, FS_CardinalityType
  <2>2. txs[t].target \in Nat
    BY <1>1, TxFields
  <2>3. /\ state.progress \in Nat /\ state.visits \in Nat /\ state.earned \in Nat
        /\ state.available \in Nat
    BY <1>1 DEF State
  <2>4. visits \in Nat /\ earned \in Nat /\ available \in Nat
    BY <2>1, <2>3 DEF AtLeastZero
  <2>5. progress \in Nat
    BY <2>2, <2>3 DEF Compensated, AtLeastZero
  <2> HIDE DEF progress, visits, earned, available
  <2> QED BY ONLY <1>1, <1>2, <2>4, <2>5 DEF State
<1> QED BY <1>4, <1>11, <1>12

\* A redemption is reversed: the gift is available again.
GivenBack(t, gift) ==
    LET g == txs[t].gift IN
    /\ txs[t].type = "GIFT_REDEEM" /\ txs[t].status = "COMPLETED" /\ gifts[g].status = "USED"
    /\ gift \in Gift /\ gift.status = "AVAILABLE" /\ gift.source = gifts[g].source
    /\ gifts' \in Seq(Gift) /\ Rewritten(gifts, gifts', g, gift)
    /\ txs' \in Seq(Tx) /\ Undone(txs, txs', t)
    /\ state' \in State /\ state'.available = state.available + 1
    /\ state'.used = AtLeastZero(state.used - 1)
    /\ state'.visits = state.visits /\ state'.earned = state.earned
    /\ state'.progress = state.progress
    /\ UNCHANGED <<now, orgStatus, program, requests, requestJobs>>

LEMMA ReverseRedeemEffect ==
    ASSUME RowsOK, NEW t \in DOMAIN txs, ReverseRedeem(t)
    PROVE  \E gift \in Gift : GivenBack(t, gift)
<1> DEFINE g == txs[t].gift
           gift == [gifts[g] EXCEPT !.status = "AVAILABLE", !.redeem = None]
           used == AtLeastZero(state.used - 1)
<1>1. /\ gifts' = [gifts EXCEPT ![g] = gift] /\ txs' = Reversed(t)
      /\ txs[t].type = "GIFT_REDEEM" /\ txs[t].status = "COMPLETED" /\ gifts[g].status = "USED"
      /\ state' = [state EXCEPT !.available = state.available + 1, !.used = used]
      /\ UNCHANGED <<now, orgStatus, program, requests, requestJobs>>
  BY DEF ReverseRedeem, Reversible
<1>2. TypeOK /\ g \in DOMAIN gifts /\ g = txs[t].gift /\ state \in State
  BY <1>1 DEF RowsOK, RowsKnown, TypeOK
<1>3. gifts[g] \in Gift
  BY <1>2, GiftFields
<1>4. gift \in Gift /\ gift.status = "AVAILABLE" /\ gift.source = gifts[g].source
  BY <1>3 DEF Gift, GiftStatus, None
<1>5. used \in Nat /\ state.available + 1 \in Nat /\ used = AtLeastZero(state.used - 1)
  BY <1>2 DEF State, AtLeastZero
<1> HIDE DEF g, gift, used
<1>6. gifts' \in Seq(Gift) /\ Rewritten(gifts, gifts', g, gift)
  BY <1>1, <1>2, <1>4, GiftRewritten
<1>7. txs' \in Seq(Tx) /\ Undone(txs, txs', t)
  BY <1>1, <1>2, EntryReversed
<1>8. /\ state' \in State /\ state'.available = state.available + 1 /\ state'.used = used
      /\ state'.visits = state.visits /\ state'.earned = state.earned
      /\ state'.progress = state.progress
  BY ONLY <1>1, <1>2, <1>5 DEF State
<1>9. GivenBack(t, gift)
  BY <1>1, <1>2, <1>4, <1>5, <1>6, <1>7, <1>8 DEF GivenBack
<1> QED BY <1>4, <1>9

\* Every step is one of these, or leaves the tables alone.
StepOfTables ==
    \/ \E n \in Nat : n \in Rewards /\ Gave(n)
    \/ \E g \in DOMAIN gifts, gift \in Gift, request \in Request : Asked(g, gift, request)
    \/ \E r \in DOMAIN requests, gift \in Gift, request \in Request : Redeemed(r, gift, request)
    \/ \E r \in DOMAIN requests, gift \in Gift, request \in Request :
          Answered(r, gift, request) /\ UNCHANGED <<state, txs>>
    \/ \E t \in DOMAIN txs : \E gone \in SUBSET txs[t].gifts : Voided(t, gone) /\ state' \in State
    \/ \E t \in DOMAIN txs, gift \in Gift : GivenBack(t, gift)
    \/ UNCHANGED <<state, gifts, txs, requests>>

LEMMA StepEffect == RowsOK /\ [Next]_vars => StepOfTables
<1> SUFFICES ASSUME RowsOK, [Next]_vars PROVE StepOfTables
  OBVIOUS
<1>1. TypeOK
  BY DEF RowsOK
<1>2. CASE EarnVisit
  BY <1>1, <1>2, EarnVisitEffect DEF StepOfTables
<1>3. ASSUME NEW g \in DOMAIN gifts, CreateGiftRequest(g) PROVE StepOfTables
  BY <1>1, <1>3, CreateEffect DEF StepOfTables
<1>4. ASSUME NEW r \in DOMAIN requests, Confirm(r) PROVE StepOfTables
  BY <1>4, ConfirmEffect DEF StepOfTables
<1>5. ASSUME NEW r \in DOMAIN requests, NEW outcome \in {"REJECTED", "CANCELLED", "EXPIRED"},
             requests[r].status = "PENDING", Resolve(r, outcome), UNCHANGED <<state, txs>>
      PROVE  StepOfTables
  <2>1. PICK gift \in Gift, request \in Request : Answered(r, gift, request)
    BY <1>5, ResolveEffect
  <2> QED BY <1>5, <2>1 DEF StepOfTables
<1>6. ASSUME NEW r \in DOMAIN requests, Reject(r) \/ CancelByAdmin(r) PROVE StepOfTables
  BY <1>5, <1>6 DEF Reject, CancelByAdmin
<1>7. ASSUME NEW t \in DOMAIN txs, ReverseVisit(t) PROVE StepOfTables
  <2>1. state' \in State /\ \E gone \in SUBSET txs[t].gifts : Voided(t, gone)
    BY <1>7, ReverseVisitEffect
  <2> QED BY <2>1 DEF StepOfTables
<1>8. ASSUME NEW t \in DOMAIN txs, ReverseRedeem(t) PROVE StepOfTables
  BY <1>8, ReverseRedeemEffect DEF StepOfTables
<1>9. ASSUME NEW w \in RequestWorkers, NEW r \in requestJobs[w].ids, ExpireRequest(w, r)
      PROVE  StepOfTables
  <2>1. r \in DOMAIN requests
    BY DEF RowsOK, RowsKnown
  <2>2. UNCHANGED <<state, txs>>
    BY <1>9 DEF ExpireRequest
  <2>3. CASE ExpiryDue(requests[r], requestJobs[w].at)
    BY <1>5, <1>9, <2>1, <2>2, <2>3 DEF ExpireRequest, ExpiryDue
  <2>4. CASE ~ExpiryDue(requests[r], requestJobs[w].at)
    BY <1>9, <2>2, <2>4 DEF ExpireRequest, StepOfTables
  <2> QED BY <2>3, <2>4
<1>10. CASE UNCHANGED <<state, gifts, txs, requests>>
  BY <1>10 DEF StepOfTables
<1>11. \/ UNCHANGED <<state, gifts, txs, requests>>
       \/ EarnVisit
       \/ \E g \in DOMAIN gifts : CreateGiftRequest(g)
       \/ \E r \in DOMAIN requests : Confirm(r) \/ Reject(r) \/ CancelByAdmin(r)
       \/ \E t \in DOMAIN txs : ReverseVisit(t) \/ ReverseRedeem(t)
       \/ \E w \in RequestWorkers : \E r \in requestJobs[w].ids : ExpireRequest(w, r)
  BY DEF Next, vars, BeginConfirm, AbandonConfirm, StartRequestSweep, AbortRequestSweep,
         SetOrganizationStatus, UpdateProgram, Tick
<1> QED BY <1>2, <1>3, <1>4, <1>6, <1>7, <1>8, <1>9, <1>10, <1>11

\* One execution of the job changes.
LEMMA JobReplaced ==
    ASSUME RowsOK, NEW w \in RequestWorkers, NEW job \in Job, job.ids \subseteq DOMAIN requests,
           requestJobs' = [requestJobs EXCEPT ![w] = job]
    PROVE  /\ requestJobs' \in [RequestWorkers -> Job]
           /\ \A v \in RequestWorkers : requestJobs'[v].ids \subseteq DOMAIN requests
BY DEF RowsOK, RowsKnown, TypeOK

\* The job, the settings and the clock keep their types, and the job names requests.
LEMMA JobsStep ==
    ASSUME RowsOK, [Next]_vars
    PROVE  /\ now' \in Nat /\ orgStatus' \in {"ACTIVE", "BLOCKED"} /\ program' \in Programs
           /\ requestJobs' \in [RequestWorkers -> Job]
           /\ \A w \in RequestWorkers : requestJobs'[w].ids \subseteq DOMAIN requests
<1> DEFINE Kept == /\ requestJobs' \in [RequestWorkers -> Job]
                   /\ \A w \in RequestWorkers : requestJobs'[w].ids \subseteq DOMAIN requests
<1>1. TypeOK /\ now \in Nat /\ requests \in Seq(Request) /\ RowsKnown
  BY DEF RowsOK, TypeOK
<1>2. now' \in Nat /\ orgStatus' \in {"ACTIVE", "BLOCKED"} /\ program' \in Programs
  <2>1. \/ UNCHANGED <<now, orgStatus, program>>
        \/ Tick
        \/ \E status \in {"ACTIVE", "BLOCKED"} : SetOrganizationStatus(status)
        \/ \E settings \in Programs : UpdateProgram(settings)
    BY DEF Next, vars, EarnVisit, CreateGiftRequest, BeginConfirm, AbandonConfirm, Confirm,
           Reject, CancelByAdmin, ReverseVisit, ReverseRedeem, StartRequestSweep, AbortRequestSweep, ExpireRequest
  <2>2. CASE UNCHANGED <<now, orgStatus, program>>
    BY <1>1, <2>2 DEF TypeOK
  <2>3. CASE Tick
    BY <1>1, <2>3 DEF TypeOK, Tick
  <2>4. ASSUME NEW status \in {"ACTIVE", "BLOCKED"}, SetOrganizationStatus(status)
        PROVE  now' \in Nat /\ orgStatus' \in {"ACTIVE", "BLOCKED"} /\ program' \in Programs
    BY <1>1, <2>4 DEF TypeOK, SetOrganizationStatus
  <2>5. ASSUME NEW settings \in Programs, UpdateProgram(settings)
        PROVE  now' \in Nat /\ orgStatus' \in {"ACTIVE", "BLOCKED"} /\ program' \in Programs
    BY <1>1, <2>5 DEF TypeOK, UpdateProgram
  <2> QED BY <2>1, <2>2, <2>3, <2>4, <2>5
<1>3. Idle \in Job /\ Idle.ids \subseteq DOMAIN requests
  BY DEF Idle, Job
<1>4. CASE UNCHANGED requestJobs
  BY <1>1, <1>2, <1>4 DEF TypeOK, RowsKnown
<1>5. ASSUME NEW w \in RequestWorkers, StartRequestSweep(w) PROVE Kept
  <2> DEFINE due == {r \in DOMAIN requests : OverdueRequest(r)}
             taken == {r \in due : Cardinality({q \in due : q > r}) < BatchSize}
             job == [at |-> now, ids |-> taken]
  <2>1. requestJobs' = [requestJobs EXCEPT ![w] = job]
    BY <1>5 DEF StartRequestSweep
  <2>2. taken \subseteq DOMAIN requests /\ DOMAIN requests \subseteq Nat
    BY <1>1
  <2> HIDE DEF taken
  <2>3. job \in Job /\ job.ids \subseteq DOMAIN requests
    BY <1>1, <2>2 DEF Job
  <2> HIDE DEF job
  <2> QED BY <2>1, <2>3, JobReplaced
<1>6. ASSUME NEW w \in RequestWorkers, AbortRequestSweep(w) PROVE Kept
  <2>1. requestJobs' = [requestJobs EXCEPT ![w] = Idle]
    BY <1>6 DEF AbortRequestSweep
  <2> QED BY <1>3, <2>1, JobReplaced
<1>7. ASSUME NEW w \in RequestWorkers, NEW r \in requestJobs[w].ids, ExpireRequest(w, r)
      PROVE  Kept
  <2> DEFINE job == Visited(requestJobs[w], r)
  <2>1. requestJobs' = [requestJobs EXCEPT ![w] = job]
    BY <1>7 DEF ExpireRequest
  <2>2. requestJobs[w] \in Job /\ requestJobs[w].ids \subseteq DOMAIN requests
    BY <1>1 DEF TypeOK, RowsKnown
  <2>3. job \in Job /\ job.ids \subseteq DOMAIN requests
    BY <1>3, <2>2 DEF Visited, Job
  <2> HIDE DEF job
  <2> QED BY <2>1, <2>3, JobReplaced
<1>8. \/ UNCHANGED requestJobs
      \/ \E w \in RequestWorkers : StartRequestSweep(w) \/ AbortRequestSweep(w)
      \/ \E w \in RequestWorkers : \E r \in requestJobs[w].ids : ExpireRequest(w, r)
  BY DEF Next, vars, EarnVisit, CreateGiftRequest, BeginConfirm, AbandonConfirm, Confirm,
         Reject, CancelByAdmin, ReverseVisit, ReverseRedeem, SetOrganizationStatus, UpdateProgram, Tick
<1> QED BY <1>2, <1>4, <1>5, <1>6, <1>7, <1>8

\* A confirmation keeps to itself the row it has locked.
LEMMA LocksStep ==
    ASSUME RowsOK, [Next]_vars
    PROVE  LockedPending' /\ confirming' \subseteq DOMAIN requests'
<1> DEFINE Kept == LockedPending' /\ confirming' \subseteq DOMAIN requests'
<1>1. /\ requests \in Seq(Request) /\ confirming \subseteq DOMAIN requests /\ LockedPending
      /\ RowsKnown
  BY DEF RowsOK, TypeOK
<1>2. ASSUME UNCHANGED <<requests, confirming>> PROVE Kept
  BY <1>1, <1>2 DEF LockedPending
<1>3. ASSUME NEW g \in DOMAIN gifts, CreateGiftRequest(g) PROVE Kept
  <2>1. PICK request : requests' = Append(requests, request)
    BY <1>3 DEF CreateGiftRequest
  <2>2. /\ DOMAIN requests \subseteq DOMAIN requests'
        /\ \A q \in DOMAIN requests : requests'[q] = requests[q]
    BY <1>1, <2>1
  <2>3. confirming' = confirming
    BY <1>3 DEF CreateGiftRequest
  <2> QED BY <1>1, <2>2, <2>3 DEF LockedPending
<1>4. ASSUME NEW r \in DOMAIN requests, BeginConfirm(r) \/ AbandonConfirm(r) PROVE Kept
  BY <1>1, <1>4 DEF BeginConfirm, AbandonConfirm, LockedPending
<1>5. ASSUME NEW r \in DOMAIN requests, NEW request, requests' = [requests EXCEPT ![r] = request],
             confirming' = confirming, r \notin confirming
      PROVE  Kept
  BY <1>1, <1>5 DEF LockedPending
<1>6. ASSUME NEW r \in DOMAIN requests, Confirm(r) PROVE Kept
  BY <1>1, <1>6 DEF LockedPending, Confirm
<1>7. ASSUME NEW r \in DOMAIN requests, Reject(r) \/ CancelByAdmin(r) PROVE Kept
  BY <1>5, <1>7 DEF Reject, CancelByAdmin, Resolve, Unlocked
<1>8. ASSUME NEW w \in RequestWorkers, NEW r \in requestJobs[w].ids, ExpireRequest(w, r) PROVE Kept
  <2>1. r \in DOMAIN requests
    BY <1>1 DEF RowsKnown
  <2> QED BY <1>2, <1>5, <1>8, <2>1 DEF ExpireRequest, Resolve, Unlocked
<1>9. \/ UNCHANGED <<requests, confirming>>
      \/ \E g \in DOMAIN gifts : CreateGiftRequest(g)
      \/ \E r \in DOMAIN requests : \/ BeginConfirm(r) \/ AbandonConfirm(r) \/ Confirm(r)
                                   \/ Reject(r) \/ CancelByAdmin(r)
      \/ \E w \in RequestWorkers : \E r \in requestJobs[w].ids : ExpireRequest(w, r)
  BY DEF Next, vars, EarnVisit, ReverseVisit, ReverseRedeem, StartRequestSweep,
         AbortRequestSweep, SetOrganizationStatus, UpdateProgram, Tick
<1> QED BY <1>2, <1>3, <1>4, <1>6, <1>7, <1>8, <1>9

LEMMA InitRows == Init => RowsOK
<1> SUFFICES ASSUME Init PROVE RowsOK
  OBVIOUS
<1>1. /\ gifts \in Seq(Gift) /\ txs \in Seq(Tx) /\ requests \in Seq(Request)
      /\ DOMAIN gifts = {} /\ DOMAIN txs = {} /\ DOMAIN requests = {}
  BY DEF Init
<1>2. Idle \in Job /\ Idle.ids = {}
  BY DEF Idle, Job
<1>3. /\ requestJobs \in [RequestWorkers -> Job]
      /\ \A w \in RequestWorkers : requestJobs[w].ids = {}
  BY <1>2 DEF Init
<1>4. state \in State
  BY DEF Init, State
<1>5. TypeOK
  BY <1>1, <1>3, <1>4 DEF Init, TypeOK
<1>6. RowsKnown
  BY <1>1, <1>3 DEF RowsKnown
<1>7. LockedPending
  BY DEF Init, LockedPending
<1> QED BY <1>5, <1>6, <1>7 DEF RowsOK

\* The rows a visit adds, in the terms of the invariants.
Given(visit) ==
    /\ visit \in DOMAIN txs' /\ visit \notin DOMAIN txs
    /\ txs'[visit].type = "VISIT_EARN" /\ txs'[visit].status = "COMPLETED"
    /\ txs'[visit].redemption = None
    /\ txs'[visit].gifts = DOMAIN gifts' \ DOMAIN gifts
    /\ DOMAIN txs \subseteq DOMAIN txs' /\ \A t \in DOMAIN txs : txs'[t] = txs[t]
    /\ \A t \in DOMAIN txs' : t \in DOMAIN txs \/ t = visit \/
          (txs'[t].type = "GIFT_CREATED" /\ txs'[t].gifts = {} /\ txs'[t].redemption = None)
    /\ DOMAIN gifts \subseteq DOMAIN gifts' /\ \A g \in DOMAIN gifts : gifts'[g] = gifts[g]
    /\ \A g \in DOMAIN gifts' : g \in DOMAIN gifts \/
          /\ gifts'[g].status = "AVAILABLE"
          /\ gifts'[g].source \in DOMAIN txs' /\ txs'[gifts'[g].source].related = visit

LEMMA GivenRows ==
    ASSUME TypeOK, NEW n \in Nat, Gave(n)
    PROVE  Given(Len(txs) + 1) /\ Cardinality(DOMAIN gifts' \ DOMAIN gifts) = n
<1> DEFINE visit == Len(txs) + 1
           old == Len(gifts)
           made == old + 1 .. old + n
           tx == VisitTx(made)
<1>1. /\ Len(txs) \in Nat /\ old \in Nat /\ visit \in Nat /\ visit = Len(txs) + 1
      /\ DOMAIN txs = 1..Len(txs) /\ DOMAIN gifts = 1..old
  BY DEF TypeOK
<1>2. /\ DOMAIN txs' = 1..(visit + n) /\ DOMAIN gifts' = 1..(old + n)
      /\ \A t \in DOMAIN txs : txs'[t] = txs[t]
      /\ txs'[visit] = tx
      /\ \A i \in 1..n : txs'[visit + i] = GiftCreatedTx(visit, old + i)
      /\ \A g \in DOMAIN gifts : gifts'[g] = gifts[g]
      /\ \A i \in 1..n : gifts'[old + i] = NewGift(visit + i)
  BY DEF Gave
<1>3. made = DOMAIN gifts' \ DOMAIN gifts /\ made \in SUBSET Nat
  BY <1>1, <1>2
<1>4. Cardinality(made) = n
  <2> DEFINE a == old + 1
             b == old + n
  <2>1. a \in Int /\ b \in Int /\ (IF a > b THEN 0 ELSE b - a + 1) = n /\ made = a..b
    BY <1>1
  <2> HIDE DEF a, b, made
  <2> QED BY <2>1, FS_Interval
<1>5. tx = VisitTx(made)
  OBVIOUS
<1> HIDE DEF visit, old, made, tx
<1>6. /\ tx.type = "VISIT_EARN" /\ tx.status = "COMPLETED"
      /\ tx.redemption = None /\ tx.gifts = made
  BY <1>3, <1>5, VisitTxFields
<1>7. \A i \in 1..n :
         /\ txs'[visit + i].type = "GIFT_CREATED" /\ txs'[visit + i].gifts = {}
         /\ txs'[visit + i].redemption = None /\ txs'[visit + i].related = visit
  <2>1. ASSUME NEW i \in 1..n
        PROVE  /\ txs'[visit + i].type = "GIFT_CREATED" /\ txs'[visit + i].gifts = {}
               /\ txs'[visit + i].redemption = None /\ txs'[visit + i].related = visit
    <3>1. old + i \in Nat
      BY <1>1
    <3>2. txs'[visit + i] = GiftCreatedTx(visit, old + i)
      BY <1>2
    <3> QED BY <1>1, <3>1, <3>2, GiftCreatedTxFields
  <2> QED BY <2>1
<1>8. \A i \in 1..n : gifts'[old + i].status = "AVAILABLE" /\ gifts'[old + i].source = visit + i
  <2>1. ASSUME NEW i \in 1..n PROVE visit + i \in Nat
    BY <1>1
  <2> QED BY <1>2, <2>1, NewGiftFields
<1>9. ASSUME NEW t \in DOMAIN txs', t \notin DOMAIN txs, t # visit
      PROVE  txs'[t].type = "GIFT_CREATED" /\ txs'[t].gifts = {} /\ txs'[t].redemption = None
  <2>1. t - visit \in 1..n /\ visit + (t - visit) = t
    BY <1>1, <1>2, <1>9
  <2> QED BY <1>7, <2>1
<1>10. ASSUME NEW g \in DOMAIN gifts', g \notin DOMAIN gifts
       PROVE  /\ gifts'[g].status = "AVAILABLE"
              /\ gifts'[g].source \in DOMAIN txs' /\ txs'[gifts'[g].source].related = visit
  <2>1. g - old \in 1..n /\ old + (g - old) = g
    BY <1>1, <1>2, <1>10
  <2>2. gifts'[g].status = "AVAILABLE" /\ gifts'[g].source = visit + (g - old)
    BY <1>8, <2>1
  <2>3. visit + (g - old) \in DOMAIN txs'
    BY <1>1, <1>2, <2>1
  <2>4. txs'[visit + (g - old)].related = visit
    BY <1>7, <2>1
  <2> QED BY <2>2, <2>3, <2>4
<1>11. /\ visit \in DOMAIN txs' /\ visit \notin DOMAIN txs
       /\ DOMAIN txs \subseteq DOMAIN txs' /\ DOMAIN gifts \subseteq DOMAIN gifts'
  BY <1>1, <1>2
<1>12. Given(visit)
  BY <1>2, <1>3, <1>6, <1>9, <1>10, <1>11 DEF Given
<1> QED BY <1>1, <1>3, <1>4, <1>12

\* The tables after a step.
TablesTyped ==
    /\ state' \in State /\ gifts' \in Seq(Gift) /\ txs' \in Seq(Tx) /\ requests' \in Seq(Request)
    /\ DOMAIN requests \subseteq DOMAIN requests'
    /\ \A r \in DOMAIN requests' : requests'[r].gift \in DOMAIN gifts'
    /\ \A t \in DOMAIN txs' :
          /\ txs'[t].type = "GIFT_REDEEM" => txs'[t].gift \in DOMAIN gifts'
          /\ txs'[t].gifts \subseteq DOMAIN gifts'

\* A reversal of an entry keeps what the ledger names.
LEMMA UndoneKnown ==
    ASSUME RowsOK, NEW t \in DOMAIN txs, Undone(txs, txs', t), DOMAIN gifts' = DOMAIN gifts
    PROVE  \A u \in DOMAIN txs' :
              /\ txs'[u].type = "GIFT_REDEEM" => txs'[u].gift \in DOMAIN gifts'
              /\ txs'[u].gifts \subseteq DOMAIN gifts'
<1>1. TypeOK /\ t \in Nat
  BY TxFields DEF RowsOK
<1> SUFFICES ASSUME NEW u \in DOMAIN txs'
             PROVE  /\ txs'[u].type = "GIFT_REDEEM" => txs'[u].gift \in DOMAIN gifts'
                    /\ txs'[u].gifts \subseteq DOMAIN gifts'
  OBVIOUS
<1>2. CASE u \in DOMAIN txs /\ u # t
  BY <1>2 DEF Undone, RowsOK, RowsKnown
<1>3. CASE u = t
  BY <1>3 DEF Undone, RowsOK, RowsKnown
<1>4. CASE u = Len(txs) + 1
  <2>1. txs'[u].type = "REVERSAL" /\ txs'[u].gifts = {}
    BY <1>1, <1>4, ReversalTxFields DEF Undone
  <2> QED BY <2>1
<1> QED BY <1>2, <1>3, <1>4 DEF Undone

LEMMA TablesStep == RowsOK /\ StepOfTables => TablesTyped
<1> SUFFICES ASSUME RowsOK, StepOfTables PROVE TablesTyped
  OBVIOUS
<1>1. /\ TypeOK /\ RowsKnown /\ state \in State /\ gifts \in Seq(Gift) /\ txs \in Seq(Tx)
      /\ requests \in Seq(Request)
  BY DEF RowsOK, TypeOK
<1>2. ASSUME NEW n \in Nat, Gave(n) PROVE TablesTyped
  <2>1. /\ state' \in State /\ gifts' \in Seq(Gift) /\ txs' \in Seq(Tx) /\ requests' = requests
    BY <1>2 DEF Gave
  <2> DEFINE visit == Len(txs) + 1
  <2>2. Given(visit)
    BY <1>1, <1>2, GivenRows
  <2> HIDE DEF visit
  <2>3. ASSUME NEW t \in DOMAIN txs'
        PROVE  /\ txs'[t].type = "GIFT_REDEEM" => txs'[t].gift \in DOMAIN gifts'
               /\ txs'[t].gifts \subseteq DOMAIN gifts'
    <3>1. CASE t \in DOMAIN txs
      BY <1>1, <2>2, <3>1 DEF Given, RowsKnown
    <3>2. CASE t \notin DOMAIN txs
      BY <2>2, <3>2 DEF Given
    <3> QED BY <3>1, <3>2
  <2>4. \A r \in DOMAIN requests : requests[r].gift \in DOMAIN gifts'
    BY <1>1, <2>2 DEF Given, RowsKnown
  <2> QED BY <1>1, <2>1, <2>3, <2>4 DEF TablesTyped
<1>3. ASSUME NEW g \in DOMAIN gifts, NEW gift \in Gift, NEW request \in Request,
             Asked(g, gift, request)
      PROVE  TablesTyped
  <2>1. /\ state' = state /\ txs' = txs /\ gifts' \in Seq(Gift) /\ requests' \in Seq(Request)
        /\ Rewritten(gifts, gifts', g, gift) /\ Added(requests, requests', request)
        /\ request.gift = g
    BY <1>3 DEF Asked
  <2> QED BY <1>1, <2>1 DEF Rewritten, Added, RowsKnown, TablesTyped
<1>4. ASSUME NEW r \in DOMAIN requests, NEW gift \in Gift, NEW request \in Request,
             Redeemed(r, gift, request)
      PROVE  TablesTyped
  <2> DEFINE g == requests[r].gift
             tx == RedeemTx(g, r)
  <2>1. /\ state' \in State /\ txs' \in Seq(Tx) /\ gifts' \in Seq(Gift) /\ requests' \in Seq(Request)
        /\ Rewritten(gifts, gifts', g, gift) /\ Rewritten(requests, requests', r, request)
        /\ Added(txs, txs', tx) /\ request.gift = g
    BY <1>4 DEF Redeemed
  <2>2. g \in DOMAIN gifts /\ g \in Nat /\ r \in Nat
    BY <1>1, GiftFields, RequestFields DEF RowsKnown
  <2>3. tx.gifts = {} /\ tx.gift = g
    BY <2>2, RedeemTxFields
  <2> HIDE DEF g, tx
  <2>4. \A t \in DOMAIN txs' :
           /\ txs'[t].type = "GIFT_REDEEM" => txs'[t].gift \in DOMAIN gifts'
           /\ txs'[t].gifts \subseteq DOMAIN gifts'
    BY <1>1, <2>1, <2>2, <2>3 DEF Rewritten, Added, RowsKnown
  <2>5. \A q \in DOMAIN requests' : requests'[q].gift \in DOMAIN gifts'
    BY <1>1, <2>1, <2>2 DEF Rewritten, RowsKnown
  <2> QED BY <2>1, <2>4, <2>5 DEF TablesTyped, Rewritten
<1>5. ASSUME NEW r \in DOMAIN requests, NEW gift \in Gift, NEW request \in Request,
             Answered(r, gift, request), UNCHANGED <<state, txs>>
      PROVE  TablesTyped
  <2>1. /\ gifts' \in Seq(Gift) /\ requests' \in Seq(Request)
        /\ Rewritten(gifts, gifts', requests[r].gift, gift)
        /\ Rewritten(requests, requests', r, request) /\ request.gift = requests[r].gift
    BY <1>5 DEF Answered
  <2> QED BY <1>1, <1>5, <2>1 DEF Rewritten, RowsKnown, TablesTyped
<1>6. ASSUME NEW t \in DOMAIN txs, NEW gone \in SUBSET txs[t].gifts, Voided(t, gone), state' \in State
      PROVE  TablesTyped
  <2>1. /\ gifts' \in Seq(Gift) /\ txs' \in Seq(Tx) /\ Undone(txs, txs', t)
        /\ DOMAIN gifts' = DOMAIN gifts /\ requests' = requests
    BY <1>6 DEF Voided
  <2> QED BY <1>1, <1>6, <2>1, UndoneKnown DEF RowsKnown, TablesTyped
<1>7. ASSUME NEW t \in DOMAIN txs, NEW gift \in Gift, GivenBack(t, gift)
      PROVE  TablesTyped
  <2>1. /\ gifts' \in Seq(Gift) /\ txs' \in Seq(Tx) /\ Undone(txs, txs', t) /\ state' \in State
        /\ DOMAIN gifts' = DOMAIN gifts /\ requests' = requests
    BY <1>7 DEF GivenBack, Rewritten
  <2> QED BY <1>1, <2>1, UndoneKnown DEF RowsKnown, TablesTyped
<1>8. CASE UNCHANGED <<state, gifts, txs, requests>>
  BY <1>1, <1>8 DEF RowsKnown, TablesTyped
<1> QED BY <1>2, <1>3, <1>4, <1>5, <1>6, <1>7, <1>8 DEF StepOfTables

LEMMA NextRows == RowsOK /\ [Next]_vars => RowsOK'
<1> SUFFICES ASSUME RowsOK, [Next]_vars PROVE RowsOK'
  OBVIOUS
<1>1. TablesTyped
  BY StepEffect, TablesStep
<1>2. TypeOK'
  BY <1>1, JobsStep, LocksStep DEF TablesTyped, TypeOK
<1>3. RowsKnown'
  BY <1>1, JobsStep DEF TablesTyped, RowsKnown
<1> QED BY <1>2, <1>3, LocksStep DEF RowsOK

THEOREM RowsCorrect == Spec => []RowsOK
BY InitRows, NextRows, PTL DEF Spec

\* Whatever the settings, the number of workers and the batch, every row keeps the shape of
\* its model; in particular no counter of the client goes below zero.
THEOREM TypeCorrect == Spec => []TypeOK
<1>1. RowsOK => TypeOK
  BY DEF RowsOK
<1> QED BY <1>1, RowsCorrect, PTL

-----------------------------------------------------------------------------
(* A gift is held by one request *)

Pending(r) == requests[r].status = "PENDING"

Held ==
    /\ \A r \in DOMAIN requests : Pending(r) => gifts[requests[r].gift].status = "PENDING_REDEMPTION"
    /\ \A r, q \in DOMAIN requests :
          Pending(r) /\ Pending(q) /\ requests[r].gift = requests[q].gift => r = q
    /\ \A g \in DOMAIN gifts : gifts[g].status = "PENDING_REDEMPTION" =>
          \E r \in DOMAIN requests : Pending(r) /\ requests[r].gift = g

LEMMA HeldMeans == Held => HeldByOneRequest
<1> SUFFICES ASSUME Held, NEW g \in DOMAIN gifts
             PROVE  LET asking == {r \in DOMAIN requests :
                                      requests[r].gift = g /\ requests[r].status = "PENDING"}
                    IN  IF gifts[g].status = "PENDING_REDEMPTION"
                        THEN \E r \in asking : asking = {r}
                        ELSE asking = {}
  BY DEF HeldByOneRequest
<1> DEFINE asking == {r \in DOMAIN requests :
                         requests[r].gift = g /\ requests[r].status = "PENDING"}
<1>1. CASE gifts[g].status = "PENDING_REDEMPTION"
  <2>1. PICK r \in DOMAIN requests : Pending(r) /\ requests[r].gift = g
    BY <1>1 DEF Held
  <2>2. r \in asking /\ \A q \in asking : q = r
    BY <2>1 DEF Held, Pending
  <2> QED BY <1>1, <2>2
<1>2. CASE gifts[g].status # "PENDING_REDEMPTION"
  <2>1. \A r \in asking : FALSE
    BY <1>2 DEF Held, Pending
  <2> QED BY <1>2, <2>1
<1> QED BY <1>1, <1>2

\* Steps that neither hold a gift nor free it.
LEMMA HeldKept ==
    ASSUME RowsOK, Held, requests' = requests, DOMAIN gifts \subseteq DOMAIN gifts',
           \A g \in DOMAIN gifts' :
              \/ g \in DOMAIN gifts /\ gifts'[g].status = gifts[g].status
              \/ /\ gifts'[g].status # "PENDING_REDEMPTION"
                 /\ g \notin DOMAIN gifts \/ gifts[g].status # "PENDING_REDEMPTION"
    PROVE  Held'
<1>1. \A r \in DOMAIN requests : requests[r].gift \in DOMAIN gifts
  BY DEF RowsOK, RowsKnown
<1>2. \A r \in DOMAIN requests : Pending(r)' <=> Pending(r)
  BY DEF Pending
<1>3. ASSUME NEW r \in DOMAIN requests, Pending(r)
      PROVE  gifts'[requests[r].gift].status = "PENDING_REDEMPTION"
  BY <1>1, <1>3 DEF Held
<1>4. ASSUME NEW g \in DOMAIN gifts', gifts'[g].status = "PENDING_REDEMPTION"
      PROVE  \E r \in DOMAIN requests : Pending(r) /\ requests[r].gift = g
  BY <1>4 DEF Held
<1> QED BY <1>2, <1>3, <1>4 DEF Held

LEMMA HeldStep == RowsOK /\ Held /\ StepOfTables => Held'
<1> SUFFICES ASSUME RowsOK, Held, StepOfTables PROVE Held'
  OBVIOUS
<1>1. TypeOK /\ RowsKnown
  BY DEF RowsOK
<1>2. ASSUME NEW n \in Nat, Gave(n) PROVE Held'
  <2> DEFINE visit == Len(txs) + 1
  <2>1. Given(visit)
    BY <1>1, <1>2, GivenRows
  <2> HIDE DEF visit
  <2>2. requests' = requests
    BY <1>2 DEF Gave
  <2> QED BY <2>1, <2>2, HeldKept DEF Given
<1>3. ASSUME NEW g \in DOMAIN gifts, NEW gift \in Gift, NEW request \in Request,
             Asked(g, gift, request)
      PROVE  Held'
  <2> DEFINE new == Len(requests) + 1
  <2>1. /\ gifts[g].status = "AVAILABLE" /\ gift.status = "PENDING_REDEMPTION"
        /\ DOMAIN gifts' = DOMAIN gifts /\ gifts'[g] = gift
        /\ \A h \in DOMAIN gifts : h # g => gifts'[h] = gifts[h]
        /\ request.gift = g /\ request.status = "PENDING"
    BY <1>3 DEF Asked, Rewritten
  <2>2. /\ new \notin DOMAIN requests /\ DOMAIN requests' = DOMAIN requests \cup {new}
        /\ requests'[new] = request /\ \A r \in DOMAIN requests : requests'[r] = requests[r]
    BY <1>3 DEF Asked, Added
  <2> HIDE DEF new
  <2>3. \A r \in DOMAIN requests : Pending(r) => requests[r].gift # g
    BY <2>1 DEF Held
  <2>4. \A r \in DOMAIN requests : (Pending(r)' <=> Pending(r))
    BY <2>2 DEF Pending
  <2>5. requests'[new].status = "PENDING" /\ requests'[new].gift = g /\ new \in DOMAIN requests'
    BY <2>1, <2>2
  <2>6. ASSUME NEW r \in DOMAIN requests', Pending(r)'
        PROVE  gifts'[requests'[r].gift].status = "PENDING_REDEMPTION"
    <3>1. CASE r = new
      BY <2>1, <2>2, <3>1
    <3>2. CASE r \in DOMAIN requests
      BY <1>1, <2>1, <2>2, <2>3, <2>4, <2>6, <3>2 DEF Held, RowsKnown
    <3> QED BY <2>2, <3>1, <3>2
  <2>7. ASSUME NEW r \in DOMAIN requests', NEW q \in DOMAIN requests', Pending(r)', Pending(q)',
               requests'[r].gift = requests'[q].gift
        PROVE  r = q
    BY <2>1, <2>2, <2>3, <2>4, <2>7 DEF Held
  <2>8. ASSUME NEW h \in DOMAIN gifts', gifts'[h].status = "PENDING_REDEMPTION"
        PROVE  \E r \in DOMAIN requests' : Pending(r)' /\ requests'[r].gift = h
    <3>1. CASE h = g
      BY <2>5, <3>1 DEF Pending
    <3>2. CASE h # g
      <4>1. PICK r \in DOMAIN requests : Pending(r) /\ requests[r].gift = h
        BY <2>1, <2>8, <3>2 DEF Held
      <4> QED BY <2>2, <2>4, <4>1
    <3> QED BY <3>1, <3>2
  <2> QED BY <2>6, <2>7, <2>8 DEF Held
<1>4. ASSUME NEW r \in DOMAIN requests, NEW gift, NEW request, NEW g, g = requests[r].gift,
             Pending(r), gift.status # "PENDING_REDEMPTION", request.status # "PENDING",
             request.gift = g,
             Rewritten(gifts, gifts', g, gift), Rewritten(requests, requests', r, request)
      PROVE  Held'
  <2>1. \A q \in DOMAIN requests : q # r => requests'[q] = requests[q] /\ (Pending(q)' <=> Pending(q))
    BY <1>4 DEF Rewritten, Pending
  <2>2. ~Pending(r)' /\ requests'[r].gift = g /\ DOMAIN requests' = DOMAIN requests
    BY <1>4 DEF Rewritten, Pending
  <2>3. \A q \in DOMAIN requests : q # r /\ Pending(q) => requests[q].gift # g
    BY <1>4 DEF Held
  <2>4. /\ DOMAIN gifts' = DOMAIN gifts /\ gifts'[g].status # "PENDING_REDEMPTION"
        /\ \A h \in DOMAIN gifts : h # g => gifts'[h] = gifts[h]
    BY <1>4 DEF Rewritten
  <2>5. ASSUME NEW q \in DOMAIN requests', Pending(q)'
        PROVE  gifts'[requests'[q].gift].status = "PENDING_REDEMPTION"
    BY <1>1, <2>1, <2>2, <2>3, <2>4, <2>5 DEF Held, RowsKnown
  <2>6. ASSUME NEW p \in DOMAIN requests', NEW q \in DOMAIN requests', Pending(p)', Pending(q)',
               requests'[p].gift = requests'[q].gift
        PROVE  p = q
    BY <2>1, <2>2, <2>6 DEF Held
  <2>7. ASSUME NEW h \in DOMAIN gifts', gifts'[h].status = "PENDING_REDEMPTION"
        PROVE  \E q \in DOMAIN requests' : Pending(q)' /\ requests'[q].gift = h
    <3>1. h # g /\ h \in DOMAIN gifts /\ gifts[h].status = "PENDING_REDEMPTION"
      BY <2>4, <2>7
    <3>2. PICK q \in DOMAIN requests : Pending(q) /\ requests[q].gift = h
      BY <3>1 DEF Held
    <3> QED BY <1>4, <2>1, <2>2, <3>1, <3>2
  <2> QED BY <2>5, <2>6, <2>7 DEF Held
<1>5. ASSUME NEW r \in DOMAIN requests, NEW gift \in Gift, NEW request \in Request,
             Redeemed(r, gift, request)
      PROVE  Held'
  <2> DEFINE g == requests[r].gift
  <2>1. /\ Pending(r) /\ gift.status # "PENDING_REDEMPTION" /\ request.status # "PENDING"
        /\ request.gift = g
        /\ Rewritten(gifts, gifts', g, gift) /\ Rewritten(requests, requests', r, request)
    BY <1>5 DEF Redeemed, Pending
  <2> QED BY <1>4, <2>1
<1>6. ASSUME NEW r \in DOMAIN requests, NEW gift \in Gift, NEW request \in Request,
             Answered(r, gift, request)
      PROVE  Held'
  <2> DEFINE g == requests[r].gift
  <2>1. /\ Pending(r) /\ gift.status # "PENDING_REDEMPTION" /\ request.status # "PENDING"
        /\ request.gift = g
        /\ Rewritten(gifts, gifts', g, gift) /\ Rewritten(requests, requests', r, request)
    BY <1>6 DEF Answered, Pending
  <2> QED BY <1>4, <2>1
<1>7. ASSUME NEW t \in DOMAIN txs, NEW gone \in SUBSET txs[t].gifts, Voided(t, gone)
      PROVE  Held'
  <2>1. /\ requests' = requests /\ DOMAIN gifts' = DOMAIN gifts
        /\ \A g \in DOMAIN gifts : g \notin gone => gifts'[g] = gifts[g]
        /\ \A g \in DOMAIN gifts : g \in gone =>
              gifts[g].status = "AVAILABLE" /\ gifts'[g].status = "CANCELLED"
    BY <1>7 DEF Voided
  <2> QED BY <2>1, HeldKept
<1>8. ASSUME NEW t \in DOMAIN txs, NEW gift \in Gift, GivenBack(t, gift)
      PROVE  Held'
  <2> DEFINE g == txs[t].gift
  <2>1. /\ requests' = requests /\ DOMAIN gifts' = DOMAIN gifts
        /\ gifts[g].status = "USED" /\ gifts'[g].status = "AVAILABLE"
        /\ \A h \in DOMAIN gifts : h # g => gifts'[h] = gifts[h]
    BY <1>8 DEF GivenBack, Rewritten
  <2> QED BY <2>1, HeldKept
<1>9. CASE UNCHANGED <<state, gifts, txs, requests>>
  BY <1>9 DEF Held, Pending
<1> QED BY <1>2, <1>3, <1>5, <1>6, <1>7, <1>8, <1>9 DEF StepOfTables

LEMMA HeldCorrect == Spec => []Held
<1>1. Init => Held
  BY DEF Init, Held
<1>2. RowsOK /\ Held /\ [Next]_vars => Held'
  BY StepEffect, HeldStep
<1> QED BY <1>1, <1>2, RowsCorrect, PTL DEF Spec

\* Whatever the workers, the settings and the order of the calls, a gift is held exactly
\* while one pending request asks for it: no sweep that started before an answer, and no
\* reversal, frees a gift under a request that can still be confirmed.
THEOREM HeldByOneRequestCorrect == Spec => []HeldByOneRequest
BY HeldCorrect, HeldMeans, PTL

-----------------------------------------------------------------------------
(* A gift is redeemed once *)

\* The entries of the redemptions, pointwise.
Redemptions ==
    /\ \A t \in DOMAIN txs : txs[t].redemption # None =>
          LET r == txs[t].redemption IN
          /\ r \in DOMAIN requests
          /\ requests[r].status = "CONFIRMED" /\ requests[r].result = {t}
          /\ txs[t].gift = requests[r].gift
    /\ \A r \in DOMAIN requests :
          \/ /\ requests[r].status = "CONFIRMED"
             /\ \E t \in DOMAIN txs : txs[t].redemption = r /\ requests[r].result = {t}
          \/ requests[r].status # "CONFIRMED" /\ requests[r].result = {}
    /\ \A t \in Standing("GIFT_REDEEM") :
          gifts[txs[t].gift].status = "USED" /\ gifts[txs[t].gift].redeem = t
    /\ \A g \in DOMAIN gifts : gifts[g].status = "USED" =>
          gifts[g].redeem \in Standing("GIFT_REDEEM") /\ txs[gifts[g].redeem].gift = g

LEMMA RedemptionsMean == RowsOK /\ Redemptions => RedeemedOnce
<1> SUFFICES ASSUME RowsOK, Redemptions PROVE RedeemedOnce
  OBVIOUS
<1>1. ASSUME NEW r \in DOMAIN requests
      PROVE  LET mine == {t \in DOMAIN txs : txs[t].redemption = r} IN
             /\ requests[r].result = mine
             /\ IF requests[r].status = "CONFIRMED"
                THEN \E t \in mine : mine = {t} /\ txs[t].gift = requests[r].gift
                ELSE mine = {}
  <2> DEFINE mine == {t \in DOMAIN txs : txs[t].redemption = r}
  <2>1. r # None
    BY RequestFields DEF RowsOK
  <2>2. \A t \in mine : /\ requests[r].status = "CONFIRMED" /\ requests[r].result = {t}
                        /\ txs[t].gift = requests[r].gift
    BY <2>1 DEF Redemptions
  <2>3. CASE requests[r].status = "CONFIRMED"
    <3>1. PICK t \in DOMAIN txs : txs[t].redemption = r /\ requests[r].result = {t}
      BY <2>3 DEF Redemptions
    <3>2. t \in mine
      BY <3>1
    <3>3. \A u \in mine : u = t
      BY <2>2, <3>1
    <3>4. mine = {t}
      BY <3>2, <3>3
    <3> QED BY <2>2, <2>3, <3>1, <3>2, <3>4
  <2>4. CASE requests[r].status # "CONFIRMED"
    <3>1. mine = {}
      BY <2>2, <2>4
    <3>2. requests[r].result = {}
      BY <2>4 DEF Redemptions
    <3> QED BY <2>4, <3>1, <3>2
  <2> QED BY <2>3, <2>4
<1>2. ASSUME NEW g \in DOMAIN gifts
      PROVE  {t \in Standing("GIFT_REDEEM") : txs[t].gift = g}
                = IF gifts[g].status = "USED" THEN {gifts[g].redeem} ELSE {}
  <2> DEFINE using == {t \in Standing("GIFT_REDEEM") : txs[t].gift = g}
  <2>1. \A t \in using : gifts[g].status = "USED" /\ gifts[g].redeem = t
    BY DEF Redemptions
  <2>2. gifts[g].status = "USED" => gifts[g].redeem \in using
    BY DEF Redemptions
  <2> HIDE DEF using
  <2>3. CASE gifts[g].status = "USED"
    <3>1. using = {gifts[g].redeem}
      BY <2>1, <2>2, <2>3
    <3> QED BY <2>3, <3>1 DEF using
  <2>4. CASE gifts[g].status # "USED"
    <3>1. using = {}
      BY <2>1, <2>4
    <3> QED BY <2>4, <3>1 DEF using
  <2> QED BY <2>3, <2>4
<1> QED BY <1>1, <1>2 DEF RedeemedOnce

\* Entries of other kinds, and gifts and requests that a redemption does not touch.
LEMMA RedemptionsKept ==
    ASSUME RowsOK, Redemptions,
           DOMAIN txs \subseteq DOMAIN txs', DOMAIN gifts \subseteq DOMAIN gifts',
           DOMAIN requests \subseteq DOMAIN requests',
           \A t \in DOMAIN txs' :
              \/ /\ t \in DOMAIN txs /\ txs'[t].redemption = txs[t].redemption
                 /\ txs'[t].gift = txs[t].gift
                 /\ txs'[t].type = txs[t].type
                 /\ txs'[t].status = txs[t].status \/ txs[t].type # "GIFT_REDEEM"
              \/ /\ t \notin DOMAIN txs
                 /\ txs'[t].redemption = None /\ txs'[t].type # "GIFT_REDEEM",
           \A g \in DOMAIN gifts' :
              \/ /\ g \in DOMAIN gifts /\ gifts'[g].status = gifts[g].status
                 /\ gifts'[g].redeem = gifts[g].redeem
              \/ /\ gifts'[g].status # "USED"
                 /\ g \notin DOMAIN gifts \/ gifts[g].status # "USED",
           \A r \in DOMAIN requests' :
              \/ /\ r \in DOMAIN requests /\ requests'[r].status = requests[r].status
                 /\ requests'[r].result = requests[r].result
                 /\ requests'[r].gift = requests[r].gift
              \/ /\ requests'[r].status # "CONFIRMED" /\ requests'[r].result = {}
                 /\ r \notin DOMAIN requests \/ requests[r].status # "CONFIRMED"
    PROVE  Redemptions'
<1>1. Standing("GIFT_REDEEM")' = Standing("GIFT_REDEEM")
  BY DEF Standing
<1>2. \A t \in Standing("GIFT_REDEEM") : txs[t].gift \in DOMAIN gifts /\ t \in DOMAIN txs
  BY DEF RowsOK, RowsKnown, Standing
<1>3. ASSUME NEW t \in DOMAIN txs', txs'[t].redemption # None
      PROVE  LET r == txs'[t].redemption IN
             /\ r \in DOMAIN requests'
             /\ requests'[r].status = "CONFIRMED" /\ requests'[r].result = {t}
             /\ txs'[t].gift = requests'[r].gift
  <2> DEFINE r == txs[t].redemption
  <2>1. t \in DOMAIN txs /\ txs'[t].redemption = r /\ txs'[t].gift = txs[t].gift /\ r # None
    BY <1>3
  <2>2. /\ r \in DOMAIN requests
        /\ requests[r].status = "CONFIRMED" /\ requests[r].result = {t}
        /\ txs[t].gift = requests[r].gift
    BY <2>1 DEF Redemptions
  <2> HIDE DEF r
  <2> QED BY <2>1, <2>2
<1>4. ASSUME NEW r \in DOMAIN requests'
      PROVE  \/ /\ requests'[r].status = "CONFIRMED"
                /\ \E t \in DOMAIN txs' : txs'[t].redemption = r /\ requests'[r].result = {t}
             \/ requests'[r].status # "CONFIRMED" /\ requests'[r].result = {}
  <2>1. CASE /\ r \in DOMAIN requests /\ requests'[r].status = requests[r].status
             /\ requests'[r].result = requests[r].result
    <3>1. CASE requests[r].status = "CONFIRMED"
      <4>1. PICK t \in DOMAIN txs : txs[t].redemption = r /\ requests[r].result = {t}
        BY <2>1, <3>1 DEF Redemptions
      <4>2. t \in DOMAIN txs' /\ txs'[t].redemption = r /\ requests'[r].result = {t}
        BY <2>1, <4>1
      <4> QED BY <2>1, <3>1, <4>2
    <3>2. CASE requests[r].status # "CONFIRMED"
      BY <2>1, <3>2 DEF Redemptions
    <3> QED BY <3>1, <3>2
  <2>2. CASE requests'[r].status # "CONFIRMED" /\ requests'[r].result = {}
    BY <2>2
  <2> QED BY <2>1, <2>2
<1>5. ASSUME NEW t \in Standing("GIFT_REDEEM")
      PROVE  gifts'[txs'[t].gift].status = "USED" /\ gifts'[txs'[t].gift].redeem = t
  <2>1. txs'[t].gift = txs[t].gift
    BY <1>2
  <2>2. gifts[txs[t].gift].status = "USED" /\ gifts[txs[t].gift].redeem = t
    BY DEF Redemptions
  <2> QED BY <1>2, <2>1, <2>2
<1>6. ASSUME NEW g \in DOMAIN gifts', gifts'[g].status = "USED"
      PROVE  gifts'[g].redeem \in Standing("GIFT_REDEEM") /\ txs'[gifts'[g].redeem].gift = g
  <2>1. g \in DOMAIN gifts /\ gifts[g].status = "USED" /\ gifts'[g].redeem = gifts[g].redeem
    BY <1>6
  <2>2. gifts[g].redeem \in Standing("GIFT_REDEEM") /\ txs[gifts[g].redeem].gift = g
    BY <2>1 DEF Redemptions
  <2> QED BY <1>2, <2>1, <2>2
<1> QED BY <1>1, <1>3, <1>4, <1>5, <1>6 DEF Redemptions

\* A confirmation adds the entry of its gift.
LEMMA RedemptionsOfConfirm ==
    ASSUME RowsOK, Redemptions, NEW r \in DOMAIN requests, NEW gift \in Gift,
           NEW request \in Request, Redeemed(r, gift, request)
    PROVE  Redemptions'
<1> DEFINE g == requests[r].gift
           new == Len(txs) + 1
           tx == RedeemTx(g, r)
<1>1. /\ requests[r].status = "PENDING" /\ gifts[g].status = "PENDING_REDEMPTION"
      /\ gift.status = "USED" /\ gift.redeem = new
      /\ DOMAIN gifts' = DOMAIN gifts /\ gifts'[g] = gift
      /\ \A h \in DOMAIN gifts : h # g => gifts'[h] = gifts[h]
      /\ request.status = "CONFIRMED" /\ request.result = {new} /\ request.gift = g
      /\ DOMAIN requests' = DOMAIN requests /\ requests'[r] = request
      /\ \A q \in DOMAIN requests : q # r => requests'[q] = requests[q]
  BY DEF Redeemed, Rewritten
<1>2. /\ new \notin DOMAIN txs /\ DOMAIN txs' = DOMAIN txs \cup {new}
      /\ txs'[new] = tx /\ \A t \in DOMAIN txs : txs'[t] = txs[t]
  BY DEF Redeemed, Added
<1>3. g \in DOMAIN gifts /\ g \in Nat /\ r \in Nat /\ r # None
  BY GiftFields, RequestFields DEF RowsOK, RowsKnown
<1>4. tx.type = "GIFT_REDEEM" /\ tx.status = "COMPLETED" /\ tx.gift = g /\ tx.redemption = r
  BY <1>3, RedeemTxFields
<1> HIDE DEF new, tx, g
<1>5. \A t \in DOMAIN txs : txs[t].redemption # r
  BY <1>1, <1>3 DEF Redemptions
<1>6. \A t : t \in Standing("GIFT_REDEEM")' <=> t = new \/ t \in Standing("GIFT_REDEEM")
  BY <1>2, <1>4 DEF Standing
<1>7. \A t \in Standing("GIFT_REDEEM") : t \in DOMAIN txs /\ txs[t].gift \in DOMAIN gifts
                                         /\ txs[t].gift # g
  BY <1>1 DEF Redemptions, Standing, RowsOK, RowsKnown
<1>8. ASSUME NEW t \in DOMAIN txs', txs'[t].redemption # None
      PROVE  LET q == txs'[t].redemption IN
             /\ q \in DOMAIN requests'
             /\ requests'[q].status = "CONFIRMED" /\ requests'[q].result = {t}
             /\ txs'[t].gift = requests'[q].gift
  <2>1. CASE t = new
    BY <1>1, <1>2, <1>4, <2>1
  <2>2. CASE t \in DOMAIN txs
    <3> DEFINE q == txs[t].redemption
    <3>1. txs'[t] = txs[t] /\ q # None /\ q # r
      BY <1>2, <1>5, <1>8, <2>2
    <3>2. /\ q \in DOMAIN requests
          /\ requests[q].status = "CONFIRMED" /\ requests[q].result = {t}
          /\ txs[t].gift = requests[q].gift
      BY <2>2, <3>1 DEF Redemptions
    <3> HIDE DEF q
    <3>3. txs'[t].redemption = q
      BY <3>1 DEF q
    <3> QED BY <1>1, <3>1, <3>2, <3>3
  <2> QED BY <1>2, <2>1, <2>2
<1>9. ASSUME NEW q \in DOMAIN requests'
      PROVE  \/ /\ requests'[q].status = "CONFIRMED"
                /\ \E t \in DOMAIN txs' : txs'[t].redemption = q /\ requests'[q].result = {t}
             \/ requests'[q].status # "CONFIRMED" /\ requests'[q].result = {}
  <2>1. CASE q = r
    <3>1. new \in DOMAIN txs' /\ txs'[new].redemption = q /\ requests'[q].result = {new}
      BY <1>1, <1>2, <1>4, <2>1
    <3> QED BY <1>1, <2>1, <3>1
  <2>2. CASE q # r
    <3>1. q \in DOMAIN requests /\ requests'[q] = requests[q]
      BY <1>1, <2>2
    <3>2. CASE requests[q].status = "CONFIRMED"
      <4>1. PICK t \in DOMAIN txs : txs[t].redemption = q /\ requests[q].result = {t}
        BY <3>1, <3>2 DEF Redemptions
      <4>2. t \in DOMAIN txs' /\ txs'[t].redemption = q /\ requests'[q].result = {t}
        BY <1>2, <3>1, <4>1
      <4> QED BY <3>1, <3>2, <4>2
    <3>3. CASE requests[q].status # "CONFIRMED"
      BY <3>1, <3>3 DEF Redemptions
    <3> QED BY <3>2, <3>3
  <2> QED BY <2>1, <2>2
<1>10. ASSUME NEW t, t = new \/ t \in Standing("GIFT_REDEEM")
       PROVE  gifts'[txs'[t].gift].status = "USED" /\ gifts'[txs'[t].gift].redeem = t
  <2>1. CASE t = new
    BY <1>1, <1>2, <1>4, <2>1
  <2>2. CASE t # new
    <3>1. t \in DOMAIN txs /\ txs'[t] = txs[t] /\ gifts'[txs[t].gift] = gifts[txs[t].gift]
      BY <1>1, <1>2, <1>7, <1>10, <2>2
    <3>2. gifts[txs[t].gift].status = "USED" /\ gifts[txs[t].gift].redeem = t
      BY <1>10, <2>2 DEF Redemptions
    <3> QED BY <3>1, <3>2
  <2> QED BY <2>1, <2>2
<1>11. ASSUME NEW h \in DOMAIN gifts', gifts'[h].status = "USED"
       PROVE  /\ gifts'[h].redeem = new \/ gifts'[h].redeem \in Standing("GIFT_REDEEM")
              /\ txs'[gifts'[h].redeem].gift = h
  <2>1. CASE h = g
    BY <1>1, <1>2, <1>4, <2>1
  <2>2. CASE h # g
    <3>1. h \in DOMAIN gifts /\ gifts'[h] = gifts[h]
      BY <1>1, <2>2
    <3>2. gifts[h].redeem \in Standing("GIFT_REDEEM") /\ txs[gifts[h].redeem].gift = h
      BY <1>11, <3>1 DEF Redemptions
    <3>3. gifts[h].redeem \in DOMAIN txs
      BY <1>7, <3>2
    <3> QED BY <1>2, <3>1, <3>2, <3>3
  <2> QED BY <2>1, <2>2
<1>12. \A t \in Standing("GIFT_REDEEM")' :
          gifts'[txs'[t].gift].status = "USED" /\ gifts'[txs'[t].gift].redeem = t
  BY <1>6, <1>10
<1>13. \A h \in DOMAIN gifts' : gifts'[h].status = "USED" =>
          gifts'[h].redeem \in Standing("GIFT_REDEEM")' /\ txs'[gifts'[h].redeem].gift = h
  BY <1>6, <1>11
<1> QED BY <1>8, <1>9, <1>12, <1>13 DEF Redemptions

\* A reversal takes the entry of its gift back.
LEMMA RedemptionsOfReversal ==
    ASSUME RowsOK, Redemptions, NEW t \in DOMAIN txs, NEW gift \in Gift, GivenBack(t, gift)
    PROVE  Redemptions'
<1> DEFINE g == txs[t].gift
           new == Len(txs) + 1
           c == ReversalTx(t)
<1>1. /\ txs[t].type = "GIFT_REDEEM" /\ txs[t].status = "COMPLETED" /\ gifts[g].status = "USED"
      /\ gift.status = "AVAILABLE"
      /\ DOMAIN gifts' = DOMAIN gifts /\ gifts'[g] = gift
      /\ \A h \in DOMAIN gifts : h # g => gifts'[h] = gifts[h]
      /\ requests' = requests
  BY DEF GivenBack, Rewritten
<1>2. /\ new \notin DOMAIN txs /\ DOMAIN txs' = DOMAIN txs \cup {new} /\ txs'[new] = c
      /\ \A u \in DOMAIN txs : u # t => txs'[u] = txs[u]
      /\ txs'[t].status = "REVERSED"
      /\ \A u \in DOMAIN txs : /\ txs'[u].type = txs[u].type /\ txs'[u].gift = txs[u].gift
                               /\ txs'[u].redemption = txs[u].redemption
  BY DEF GivenBack, Undone
<1>3. t \in Nat
  BY TxFields DEF RowsOK
<1>4. c.type = "REVERSAL" /\ c.redemption = None
  BY <1>3, ReversalTxFields
<1>5. t \in Standing("GIFT_REDEEM") /\ g \in DOMAIN gifts /\ g = txs[t].gift
  BY <1>1 DEF Standing, RowsOK, RowsKnown
<1> HIDE DEF new, c, g
<1>6. \A u : u \in Standing("GIFT_REDEEM")' <=> u \in Standing("GIFT_REDEEM") /\ u # t
  BY <1>2, <1>4 DEF Standing
<1>7. \A u \in Standing("GIFT_REDEEM") :
         /\ u \in DOMAIN txs /\ txs[u].gift \in DOMAIN gifts
         /\ gifts[txs[u].gift].status = "USED" /\ gifts[txs[u].gift].redeem = u
         /\ u # t => txs[u].gift # g
  BY <1>5 DEF Redemptions, Standing, RowsOK, RowsKnown
<1>8. ASSUME NEW u \in DOMAIN txs', txs'[u].redemption # None
      PROVE  LET q == txs'[u].redemption IN
             /\ q \in DOMAIN requests'
             /\ requests'[q].status = "CONFIRMED" /\ requests'[q].result = {u}
             /\ txs'[u].gift = requests'[q].gift
  <2> DEFINE q == txs[u].redemption
  <2>1. u \in DOMAIN txs
    BY <1>2, <1>4, <1>8
  <2>2. txs'[u].redemption = q /\ q # None /\ txs'[u].gift = txs[u].gift
    BY <1>2, <1>8, <2>1
  <2>3. /\ q \in DOMAIN requests
        /\ requests[q].status = "CONFIRMED" /\ requests[q].result = {u}
        /\ txs[u].gift = requests[q].gift
    BY <2>1, <2>2 DEF Redemptions
  <2> HIDE DEF q
  <2> QED BY <1>1, <2>2, <2>3
<1>9. ASSUME NEW q \in DOMAIN requests'
      PROVE  \/ /\ requests'[q].status = "CONFIRMED"
                /\ \E u \in DOMAIN txs' : txs'[u].redemption = q /\ requests'[q].result = {u}
             \/ requests'[q].status # "CONFIRMED" /\ requests'[q].result = {}
  <2>1. CASE requests[q].status = "CONFIRMED"
    <3>1. PICK u \in DOMAIN txs : txs[u].redemption = q /\ requests[q].result = {u}
      BY <1>1, <2>1 DEF Redemptions
    <3>2. u \in DOMAIN txs' /\ txs'[u].redemption = q /\ requests'[q].result = {u}
      BY <1>1, <1>2, <3>1
    <3> QED BY <1>1, <2>1, <3>2
  <2>2. CASE requests[q].status # "CONFIRMED"
    BY <1>1, <2>2 DEF Redemptions
  <2> QED BY <2>1, <2>2
<1>10. ASSUME NEW u \in Standing("GIFT_REDEEM"), u # t
       PROVE  gifts'[txs'[u].gift].status = "USED" /\ gifts'[txs'[u].gift].redeem = u
  <2>1. txs'[u].gift = txs[u].gift /\ gifts'[txs[u].gift] = gifts[txs[u].gift]
    BY <1>1, <1>2, <1>7, <1>10
  <2> QED BY <1>7, <2>1
<1>11. ASSUME NEW h \in DOMAIN gifts', gifts'[h].status = "USED"
       PROVE  /\ gifts'[h].redeem \in Standing("GIFT_REDEEM") /\ gifts'[h].redeem # t
              /\ txs'[gifts'[h].redeem].gift = h
  <2>1. h \in DOMAIN gifts /\ h # g /\ gifts'[h] = gifts[h]
    BY <1>1, <1>11
  <2>2. gifts[h].redeem \in Standing("GIFT_REDEEM") /\ txs[gifts[h].redeem].gift = h
    BY <1>11, <2>1 DEF Redemptions
  <2>3. gifts[h].redeem # t /\ gifts[h].redeem \in DOMAIN txs
    BY <1>5, <1>7, <2>1, <2>2
  <2> QED BY <1>2, <2>1, <2>2, <2>3
<1>12. \A u \in Standing("GIFT_REDEEM")' :
          gifts'[txs'[u].gift].status = "USED" /\ gifts'[txs'[u].gift].redeem = u
  BY <1>6, <1>10
<1>13. \A h \in DOMAIN gifts' : gifts'[h].status = "USED" =>
          gifts'[h].redeem \in Standing("GIFT_REDEEM")' /\ txs'[gifts'[h].redeem].gift = h
  BY <1>6, <1>11
<1> QED BY <1>8, <1>9, <1>12, <1>13 DEF Redemptions

LEMMA RedemptionsStep == RowsOK /\ Redemptions /\ StepOfTables => Redemptions'
<1> SUFFICES ASSUME RowsOK, Redemptions, StepOfTables PROVE Redemptions'
  OBVIOUS
<1>1. TypeOK /\ RowsKnown
  BY DEF RowsOK
<1>2. ASSUME NEW n \in Nat, Gave(n) PROVE Redemptions'
  <2> DEFINE visit == Len(txs) + 1
  <2>1. Given(visit)
    BY <1>1, <1>2, GivenRows
  <2> HIDE DEF visit
  <2>2. requests' = requests
    BY <1>2 DEF Gave
  <2>3. \A t \in DOMAIN txs' :
           \/ t \in DOMAIN txs /\ txs'[t] = txs[t]
           \/ /\ t \notin DOMAIN txs
              /\ txs'[t].redemption = None /\ txs'[t].type # "GIFT_REDEEM"
    BY <2>1 DEF Given
  <2>4. \A g \in DOMAIN gifts' :
           \/ g \in DOMAIN gifts /\ gifts'[g] = gifts[g]
           \/ gifts'[g].status # "USED" /\ g \notin DOMAIN gifts
    BY <2>1 DEF Given
  <2>5. DOMAIN txs \subseteq DOMAIN txs' /\ DOMAIN gifts \subseteq DOMAIN gifts'
    BY <2>1 DEF Given
  <2> QED BY <2>2, <2>3, <2>4, <2>5, RedemptionsKept
<1>3. ASSUME NEW g \in DOMAIN gifts, NEW gift \in Gift, NEW request \in Request,
             Asked(g, gift, request)
      PROVE  Redemptions'
  <2> DEFINE new == Len(requests) + 1
  <2>1. /\ gifts[g].status = "AVAILABLE" /\ gift.status = "PENDING_REDEMPTION"
        /\ DOMAIN gifts' = DOMAIN gifts /\ gifts'[g] = gift
        /\ \A h \in DOMAIN gifts : h # g => gifts'[h] = gifts[h]
        /\ request.status = "PENDING" /\ request.result = {}
        /\ txs' = txs
    BY <1>3 DEF Asked, Rewritten
  <2>2. /\ new \notin DOMAIN requests /\ DOMAIN requests' = DOMAIN requests \cup {new}
        /\ requests'[new] = request /\ \A r \in DOMAIN requests : requests'[r] = requests[r]
    BY <1>3 DEF Asked, Added
  <2> HIDE DEF new
  <2>3. \A r \in DOMAIN requests' :
           \/ r \in DOMAIN requests /\ requests'[r] = requests[r]
           \/ /\ requests'[r].status # "CONFIRMED" /\ requests'[r].result = {}
              /\ r \notin DOMAIN requests
    BY <2>1, <2>2
  <2>4. \A h \in DOMAIN gifts' :
           \/ h \in DOMAIN gifts /\ gifts'[h] = gifts[h]
           \/ gifts'[h].status # "USED" /\ gifts[h].status # "USED"
    BY <2>1
  <2> QED BY <2>1, <2>2, <2>3, <2>4, RedemptionsKept
<1>4. ASSUME NEW r \in DOMAIN requests, NEW gift \in Gift, NEW request \in Request,
             Answered(r, gift, request), UNCHANGED <<state, txs>>
      PROVE  Redemptions'
  <2> DEFINE g == requests[r].gift
  <2>1. /\ requests[r].status # "CONFIRMED"
        /\ request.status # "CONFIRMED" /\ request.result = {}
        /\ DOMAIN requests' = DOMAIN requests /\ requests'[r] = request
        /\ \A q \in DOMAIN requests : q # r => requests'[q] = requests[q]
        /\ DOMAIN gifts' = DOMAIN gifts /\ gifts'[g] = gift
        /\ \A h \in DOMAIN gifts : h # g => gifts'[h] = gifts[h]
        /\ gift.redeem = gifts[g].redeem
        /\ \/ gift.status = gifts[g].status
           \/ gift.status # "USED" /\ gifts[g].status # "USED"
    BY <1>4 DEF Answered, Rewritten
  <2>2. \A q \in DOMAIN requests' :
           \/ q \in DOMAIN requests /\ requests'[q] = requests[q]
           \/ /\ requests'[q].status # "CONFIRMED" /\ requests'[q].result = {}
              /\ requests[q].status # "CONFIRMED"
    BY <2>1
  <2>3. \A h \in DOMAIN gifts' :
           \/ /\ h \in DOMAIN gifts /\ gifts'[h].status = gifts[h].status
              /\ gifts'[h].redeem = gifts[h].redeem
           \/ gifts'[h].status # "USED" /\ gifts[h].status # "USED"
    BY <2>1
  <2> QED BY <1>4, <2>1, <2>2, <2>3, RedemptionsKept
<1>5. ASSUME NEW t \in DOMAIN txs, NEW gone \in SUBSET txs[t].gifts, Voided(t, gone)
      PROVE  Redemptions'
  <2> DEFINE new == Len(txs) + 1
  <2>1. /\ requests' = requests /\ DOMAIN gifts' = DOMAIN gifts
        /\ \A g \in DOMAIN gifts : g \notin gone => gifts'[g] = gifts[g]
        /\ \A g \in DOMAIN gifts : g \in gone =>
              gifts[g].status = "AVAILABLE" /\ gifts'[g].status = "CANCELLED"
        /\ txs[t].type = "VISIT_EARN" /\ Undone(txs, txs', t)
    BY <1>5 DEF Voided
  <2>2. t \in Nat
    BY <1>1, TxFields
  <2>3. ReversalTx(t).redemption = None /\ ReversalTx(t).type # "GIFT_REDEEM"
    BY <2>2, ReversalTxFields
  <2>4. \A u \in DOMAIN txs' :
              \/ /\ u \in DOMAIN txs /\ txs'[u].redemption = txs[u].redemption
                 /\ txs'[u].gift = txs[u].gift
                 /\ txs'[u].type = txs[u].type
                 /\ txs'[u].status = txs[u].status \/ txs[u].type # "GIFT_REDEEM"
              \/ /\ u \notin DOMAIN txs
                 /\ txs'[u].redemption = None /\ txs'[u].type # "GIFT_REDEEM"
    BY <2>1, <2>3 DEF Undone
  <2>5. DOMAIN txs \subseteq DOMAIN txs'
    BY <2>1 DEF Undone
  <2>6. \A h \in DOMAIN gifts' :
           \/ h \in DOMAIN gifts /\ gifts'[h] = gifts[h]
           \/ gifts'[h].status # "USED" /\ gifts[h].status # "USED"
    BY <2>1
  <2> QED BY <2>1, <2>4, <2>5, <2>6, RedemptionsKept
<1>6. CASE UNCHANGED <<state, gifts, txs, requests>>
  BY <1>6 DEF Redemptions, Standing
<1> QED BY <1>2, <1>3, <1>4, <1>5, <1>6, RedemptionsOfConfirm, RedemptionsOfReversal
        DEF StepOfTables

\* Whatever the retries, the sweeps and the reversals, a confirmed request has one entry, for
\* its own gift, and a gift is used exactly while one such entry stands.
THEOREM RedeemedOnceCorrect == Spec => []RedeemedOnce
<1>1. Init => Redemptions
  BY DEF Init, Redemptions, Standing
<1>2. RowsOK /\ Redemptions /\ [Next]_vars => Redemptions'
  BY StepEffect, RedemptionsStep
<1> QED BY <1>1, <1>2, RedemptionsMean, RowsCorrect, PTL DEF Spec

-----------------------------------------------------------------------------
(* A gift goes with its visit *)

VisitOf(g) == txs[gifts[g].source].related

Linked ==
    /\ \A g \in DOMAIN gifts :
          /\ gifts[g].source \in DOMAIN txs
          /\ VisitOf(g) \in DOMAIN txs /\ g \in txs[VisitOf(g)].gifts
          /\ (gifts[g].status = "CANCELLED") <=> (txs[VisitOf(g)].status = "REVERSED")
    /\ \A t \in DOMAIN txs : \A g \in txs[t].gifts :
          txs[t].type = "VISIT_EARN" /\ g \in DOMAIN gifts /\ VisitOf(g) = t

LEMMA LinkedMeans == Linked => CancelledWithVisit
BY DEF Linked, CancelledWithVisit, VisitOf

\* Entries without gifts are added, visits stay as they are, and no gift is cancelled.
LEMMA LinkedKept ==
    ASSUME Linked, DOMAIN gifts' = DOMAIN gifts, DOMAIN txs \subseteq DOMAIN txs',
           \A g \in DOMAIN gifts :
              /\ gifts'[g].source = gifts[g].source
              /\ (gifts'[g].status = "CANCELLED") <=> (gifts[g].status = "CANCELLED"),
           \A t \in DOMAIN txs :
              /\ txs'[t].gifts = txs[t].gifts /\ txs'[t].related = txs[t].related
              /\ txs'[t].type = txs[t].type
              /\ txs'[t].status = txs[t].status \/ txs[t].type # "VISIT_EARN",
           \A t \in DOMAIN txs' : t \in DOMAIN txs \/ txs'[t].gifts = {}
    PROVE  Linked'
<1>1. ASSUME NEW g \in DOMAIN gifts
      PROVE  /\ gifts'[g].source \in DOMAIN txs'
             /\ VisitOf(g)' = VisitOf(g)
             /\ VisitOf(g) \in DOMAIN txs' /\ g \in txs'[VisitOf(g)].gifts
             /\ (gifts'[g].status = "CANCELLED") <=> (txs'[VisitOf(g)].status = "REVERSED")
  <2>1. gifts[g].source \in DOMAIN txs /\ gifts'[g].source = gifts[g].source
    BY DEF Linked
  <2>2. VisitOf(g)' = VisitOf(g)
    BY <2>1 DEF VisitOf
  <2>3. /\ VisitOf(g) \in DOMAIN txs /\ g \in txs[VisitOf(g)].gifts
        /\ (gifts[g].status = "CANCELLED") <=> (txs[VisitOf(g)].status = "REVERSED")
    BY DEF Linked
  <2>4. txs[VisitOf(g)].type = "VISIT_EARN"
    BY <2>3 DEF Linked
  <2> QED BY <2>1, <2>2, <2>3, <2>4
<1>2. ASSUME NEW t \in DOMAIN txs', NEW g \in txs'[t].gifts
      PROVE  txs'[t].type = "VISIT_EARN" /\ g \in DOMAIN gifts' /\ VisitOf(g)' = t
  <2>1. t \in DOMAIN txs /\ g \in txs[t].gifts
    BY <1>2
  <2>2. txs[t].type = "VISIT_EARN" /\ g \in DOMAIN gifts /\ VisitOf(g) = t
    BY <2>1 DEF Linked
  <2> QED BY <1>1, <2>1, <2>2
<1> QED BY <1>1, <1>2 DEF Linked

\* The gifts of a visit that is reversed are available or gone, and all of them go.
LEMMA LinkedVoided ==
    ASSUME RowsOK, Linked, NEW t \in DOMAIN txs, NEW gone \in SUBSET txs[t].gifts, Voided(t, gone)
    PROVE  Linked'
<1> DEFINE new == Len(txs) + 1
           c == ReversalTx(t)
<1>1. /\ DOMAIN gifts' = DOMAIN gifts
      /\ \A g \in DOMAIN gifts : g \notin gone => gifts'[g] = gifts[g]
      /\ \A g \in DOMAIN gifts : g \in gone =>
            gifts'[g].status = "CANCELLED" /\ gifts'[g].source = gifts[g].source
      /\ txs[t].status = "COMPLETED"
      /\ gone = {g \in txs[t].gifts : gifts[g].status = "AVAILABLE"}
      /\ \A g \in txs[t].gifts : gifts[g].status \notin {"USED", "PENDING_REDEMPTION"}
  BY DEF Voided
<1>2. /\ new \notin DOMAIN txs /\ DOMAIN txs' = DOMAIN txs \cup {new} /\ txs'[new] = c
      /\ \A u \in DOMAIN txs : u # t => txs'[u] = txs[u]
      /\ txs'[t].status = "REVERSED"
      /\ \A u \in DOMAIN txs : /\ txs'[u].type = txs[u].type /\ txs'[u].gifts = txs[u].gifts
                               /\ txs'[u].related = txs[u].related
  BY DEF Voided, Undone
<1>3. c.gifts = {}
  BY TxFields, ReversalTxFields DEF RowsOK
<1> HIDE DEF new, c
<1>4. \A g \in DOMAIN gifts : gifts[g].status \in GiftStatus
  BY GiftFields DEF RowsOK
<1>5. gone = txs[t].gifts
  <2>1. ASSUME NEW g \in txs[t].gifts PROVE gifts[g].status = "AVAILABLE"
    <3>1. g \in DOMAIN gifts /\ VisitOf(g) = t
      BY DEF Linked
    <3>2. gifts[g].status # "CANCELLED"
      BY <1>1, <3>1 DEF Linked
    <3> QED BY <1>1, <1>4, <3>1, <3>2 DEF GiftStatus
  <2> QED BY <1>1, <2>1
<1>6. ASSUME NEW g \in DOMAIN gifts
      PROVE  /\ gifts'[g].source \in DOMAIN txs'
             /\ VisitOf(g)' = VisitOf(g)
             /\ VisitOf(g) \in DOMAIN txs' /\ g \in txs'[VisitOf(g)].gifts
             /\ (gifts'[g].status = "CANCELLED") <=> (txs'[VisitOf(g)].status = "REVERSED")
  <2>1. gifts[g].source \in DOMAIN txs /\ gifts'[g].source = gifts[g].source
    BY <1>1 DEF Linked
  <2>2. VisitOf(g)' = VisitOf(g)
    BY <1>2, <2>1 DEF VisitOf
  <2>3. /\ VisitOf(g) \in DOMAIN txs /\ g \in txs[VisitOf(g)].gifts
        /\ (gifts[g].status = "CANCELLED") <=> (txs[VisitOf(g)].status = "REVERSED")
    BY DEF Linked
  <2>4. CASE VisitOf(g) = t
    <3>1. gifts'[g].status = "CANCELLED"
      BY <1>1, <1>5, <2>3, <2>4
    <3> QED BY <1>2, <2>1, <2>2, <2>3, <2>4, <3>1
  <2>5. CASE VisitOf(g) # t
    <3>1. g \notin gone
      BY <1>5, <2>5 DEF Linked
    <3> QED BY <1>1, <1>2, <2>1, <2>2, <2>3, <2>5, <3>1
  <2> QED BY <2>4, <2>5
<1>7. ASSUME NEW u \in DOMAIN txs', NEW g \in txs'[u].gifts
      PROVE  txs'[u].type = "VISIT_EARN" /\ g \in DOMAIN gifts' /\ VisitOf(g)' = u
  <2>1. u \in DOMAIN txs /\ g \in txs[u].gifts
    BY <1>2, <1>3, <1>7
  <2>2. txs[u].type = "VISIT_EARN" /\ g \in DOMAIN gifts /\ VisitOf(g) = u
    BY <2>1 DEF Linked
  <2> QED BY <1>1, <1>2, <1>6, <2>1, <2>2
<1> QED BY <1>1, <1>6, <1>7 DEF Linked

LEMMA LinkedStep == RowsOK /\ Linked /\ StepOfTables => Linked'
<1> SUFFICES ASSUME RowsOK, Linked, StepOfTables PROVE Linked'
  OBVIOUS
<1>1. TypeOK /\ RowsKnown
  BY DEF RowsOK
<1>2. ASSUME NEW n \in Nat, Gave(n) PROVE Linked'
  <2> DEFINE visit == Len(txs) + 1
  <2>1. Given(visit)
    BY <1>1, <1>2, GivenRows
  <2> HIDE DEF visit
  <2>2. ASSUME NEW g \in DOMAIN gifts'
        PROVE  /\ gifts'[g].source \in DOMAIN txs'
               /\ VisitOf(g)' \in DOMAIN txs' /\ g \in txs'[VisitOf(g)'].gifts
               /\ (gifts'[g].status = "CANCELLED") <=> (txs'[VisitOf(g)'].status = "REVERSED")
    <3>1. CASE g \in DOMAIN gifts
      <4>1. gifts'[g] = gifts[g] /\ gifts[g].source \in DOMAIN txs
        BY <2>1, <3>1 DEF Given, Linked
      <4>2. VisitOf(g)' = VisitOf(g)
        BY <2>1, <4>1 DEF Given, VisitOf
      <4> QED BY <2>1, <3>1, <4>1, <4>2 DEF Given, Linked
    <3>2. CASE g \notin DOMAIN gifts
      <4>1. /\ gifts'[g].status = "AVAILABLE" /\ gifts'[g].source \in DOMAIN txs'
            /\ VisitOf(g)' = visit
        BY <2>1, <3>2 DEF Given, VisitOf
      <4> QED BY <2>1, <3>2, <4>1 DEF Given
    <3> QED BY <3>1, <3>2
  <2>3. ASSUME NEW t \in DOMAIN txs', NEW g \in txs'[t].gifts
        PROVE  txs'[t].type = "VISIT_EARN" /\ g \in DOMAIN gifts' /\ VisitOf(g)' = t
    <3>1. CASE t \in DOMAIN txs
      <4>1. txs'[t] = txs[t] /\ g \in txs[t].gifts
        BY <2>1, <3>1 DEF Given
      <4>2. txs[t].type = "VISIT_EARN" /\ g \in DOMAIN gifts /\ VisitOf(g) = t
        BY <3>1, <4>1 DEF Linked
      <4>3. gifts'[g] = gifts[g] /\ gifts[g].source \in DOMAIN txs /\ g \in DOMAIN gifts'
        BY <2>1, <4>2 DEF Given, Linked
      <4> QED BY <2>1, <4>1, <4>2, <4>3 DEF Given, VisitOf
    <3>2. CASE t \notin DOMAIN txs
      <4>1. t = visit /\ g \in DOMAIN gifts' /\ g \notin DOMAIN gifts
        BY <2>1, <3>2 DEF Given
      <4> QED BY <2>1, <4>1 DEF Given, VisitOf
    <3> QED BY <3>1, <3>2
  <2> QED BY <2>2, <2>3 DEF Linked
<1>3. ASSUME NEW g \in DOMAIN gifts, NEW gift \in Gift, NEW request \in Request,
             Asked(g, gift, request)
      PROVE  Linked'
  <2>1. /\ gifts[g].status # "CANCELLED" /\ gift.status # "CANCELLED"
        /\ gift.source = gifts[g].source
        /\ DOMAIN gifts' = DOMAIN gifts /\ gifts'[g] = gift
        /\ \A h \in DOMAIN gifts : h # g => gifts'[h] = gifts[h]
        /\ txs' = txs
    BY <1>3 DEF Asked, Rewritten
  <2> QED BY <2>1, LinkedKept
<1>4. ASSUME NEW r \in DOMAIN requests, NEW gift \in Gift, NEW request \in Request,
             Redeemed(r, gift, request)
      PROVE  Linked'
  <2> DEFINE g == requests[r].gift
             tx == RedeemTx(g, r)
  <2>1. /\ gifts[g].status # "CANCELLED" /\ gift.status # "CANCELLED"
        /\ gift.source = gifts[g].source
        /\ DOMAIN gifts' = DOMAIN gifts /\ gifts'[g] = gift
        /\ \A h \in DOMAIN gifts : h # g => gifts'[h] = gifts[h]
        /\ Added(txs, txs', tx)
    BY <1>4 DEF Redeemed, Rewritten
  <2>2. g \in Nat /\ r \in Nat
    BY <1>1, GiftFields, RequestFields DEF RowsKnown
  <2>3. tx.gifts = {}
    BY <2>2, RedeemTxFields
  <2> HIDE DEF g, tx
  <2>4. /\ DOMAIN txs \subseteq DOMAIN txs' /\ \A t \in DOMAIN txs : txs'[t] = txs[t]
        /\ \A t \in DOMAIN txs' : t \in DOMAIN txs \/ txs'[t].gifts = {}
    BY <2>1, <2>3 DEF Added
  <2> QED BY <2>1, <2>4, LinkedKept
<1>5. ASSUME NEW r \in DOMAIN requests, NEW gift \in Gift, NEW request \in Request,
             Answered(r, gift, request), UNCHANGED <<state, txs>>
      PROVE  Linked'
  <2> DEFINE g == requests[r].gift
  <2>1. /\ DOMAIN gifts' = DOMAIN gifts /\ gifts'[g] = gift /\ gift.source = gifts[g].source
        /\ \A h \in DOMAIN gifts : h # g => gifts'[h] = gifts[h]
        /\ \/ gift.status = gifts[g].status
           \/ gift.status # "CANCELLED" /\ gifts[g].status # "CANCELLED"
    BY <1>5 DEF Answered, Rewritten
  <2> QED BY <1>5, <2>1, LinkedKept
<1>6. ASSUME NEW t \in DOMAIN txs, NEW gone \in SUBSET txs[t].gifts, Voided(t, gone)
      PROVE  Linked'
  BY <1>6, LinkedVoided
<1>7. ASSUME NEW t \in DOMAIN txs, NEW gift \in Gift, GivenBack(t, gift)
      PROVE  Linked'
  <2> DEFINE g == txs[t].gift
  <2>1. /\ gifts[g].status # "CANCELLED" /\ gift.status # "CANCELLED"
        /\ gift.source = gifts[g].source
        /\ DOMAIN gifts' = DOMAIN gifts /\ gifts'[g] = gift
        /\ \A h \in DOMAIN gifts : h # g => gifts'[h] = gifts[h]
        /\ txs[t].type # "VISIT_EARN" /\ Undone(txs, txs', t)
    BY <1>7 DEF GivenBack, Rewritten
  <2>2. ReversalTx(t).gifts = {}
    BY <1>1, TxFields, ReversalTxFields
  <2>3. /\ DOMAIN txs \subseteq DOMAIN txs'
        /\ \A u \in DOMAIN txs :
              /\ txs'[u].gifts = txs[u].gifts /\ txs'[u].related = txs[u].related
              /\ txs'[u].type = txs[u].type
              /\ txs'[u].status = txs[u].status \/ txs[u].type # "VISIT_EARN"
        /\ \A u \in DOMAIN txs' : u \in DOMAIN txs \/ txs'[u].gifts = {}
    BY <2>1, <2>2 DEF Undone
  <2> QED BY <2>1, <2>3, LinkedKept
<1>8. CASE UNCHANGED <<state, gifts, txs, requests>>
  BY <1>8 DEF Linked, VisitOf
<1> QED BY <1>2, <1>3, <1>4, <1>5, <1>6, <1>7, <1>8 DEF StepOfTables

LEMMA LinkedCorrect == Spec => []Linked
<1>1. Init => Linked
  BY DEF Init, Linked
<1>2. RowsOK /\ Linked /\ [Next]_vars => Linked'
  BY StepEffect, LinkedStep
<1> QED BY <1>1, <1>2, RowsCorrect, PTL DEF Spec

\* Whatever the order of requests, redemptions and reversals, a gift is cancelled exactly
\* when the visit that earned it is reversed.
THEOREM CancelledWithVisitCorrect == Spec => []CancelledWithVisit
BY LinkedCorrect, LinkedMeans, PTL

\* A visit that stands has all its gifts, and loses them together.
LEMMA AllGone ==
    ASSUME RowsOK, Linked, NEW t \in DOMAIN txs, NEW gone \in SUBSET txs[t].gifts, Voided(t, gone)
    PROVE  gone = txs[t].gifts
<1>1. /\ gone = {g \in txs[t].gifts : gifts[g].status = "AVAILABLE"}
      /\ txs[t].status = "COMPLETED"
      /\ \A g \in txs[t].gifts : gifts[g].status \notin {"USED", "PENDING_REDEMPTION"}
  BY DEF Voided
<1>2. ASSUME NEW g \in txs[t].gifts PROVE gifts[g].status = "AVAILABLE"
  <2>1. g \in DOMAIN gifts /\ VisitOf(g) = t
    BY DEF Linked
  <2>2. gifts[g].status # "CANCELLED"
    BY <1>1, <2>1 DEF Linked
  <2>3. gifts[g].status \in GiftStatus
    BY <2>1, GiftFields DEF RowsOK
  <2> QED BY <1>1, <2>2, <2>3 DEF GiftStatus
<1> QED BY <1>1, <1>2

-----------------------------------------------------------------------------
(* The counters *)

Count(S) == Cardinality(GiftsIn(S))
Visiting == Standing("VISIT_EARN")

\* CountersMatch, in these terms.
Counted ==
    /\ state.visits = Cardinality(Visiting)
    /\ state.used = Count({"USED"})
    /\ state.available = Count({"AVAILABLE"}) + Count({"PENDING_REDEMPTION"})
    /\ state.earned = Count(GiftStatus \ {"CANCELLED"})

LEMMA CountedMeans == Counted => CountersMatch
BY DEF Counted, CountersMatch, OrganizationStatistics, Count, Visiting

LEMMA CountsFinite ==
    ASSUME TypeOK, NEW S
    PROVE  /\ IsFiniteSet(GiftsIn(S)) /\ Count(S) \in Nat
           /\ IsFiniteSet(Visiting) /\ Cardinality(Visiting) \in Nat
<1>1. /\ Len(gifts) \in Nat /\ DOMAIN gifts = 1..Len(gifts)
      /\ Len(txs) \in Nat /\ DOMAIN txs = 1..Len(txs)
  BY DEF TypeOK
<1>2. IsFiniteSet(DOMAIN gifts) /\ IsFiniteSet(DOMAIN txs)
  BY <1>1, FS_Interval
<1>3. GiftsIn(S) \subseteq DOMAIN gifts /\ Visiting \subseteq DOMAIN txs
  BY DEF GiftsIn, Visiting, Standing
<1>4. IsFiniteSet(GiftsIn(S)) /\ IsFiniteSet(Visiting)
  BY <1>2, <1>3, FS_Subset
<1> QED BY <1>4, FS_CardinalityType DEF Count

\* One gift moves.
LEMMA Moved ==
    ASSUME TypeOK, NEW g \in DOMAIN gifts, NEW gift, Rewritten(gifts, gifts', g, gift), NEW S
    PROVE  Count(S)' = Count(S) + (IF gift.status \in S THEN 1 ELSE 0)
                                - (IF gifts[g].status \in S THEN 1 ELSE 0)
<1> DEFINE before == GiftsIn(S)
           after == GiftsIn(S)'
           was == gifts[g].status \in S
           is == gift.status \in S
<1>1. IsFiniteSet(before) /\ Cardinality(before) \in Nat /\ Cardinality(before) = Count(S)
  BY CountsFinite DEF Count
<1>2. \A h : h # g => (h \in before <=> h \in after)
  BY DEF GiftsIn, Rewritten
<1>3. (g \in before <=> was) /\ (g \in after <=> is)
  BY DEF GiftsIn, Rewritten
<1>4. Cardinality(after) = Count(S)'
  BY DEF Count
<1> HIDE DEF before, after
<1>5. CASE (was /\ is) \/ (~was /\ ~is)
  <2>1. after = before
    BY <1>2, <1>3, <1>5
  <2> QED BY <1>1, <1>4, <1>5, <2>1
<1>6. CASE was /\ ~is
  <2>1. after = before \ {g} /\ g \in before
    BY <1>2, <1>3, <1>6
  <2>2. Cardinality(after) = Cardinality(before) - 1
    BY <1>1, <2>1, FS_RemoveElement
  <2> QED BY <1>1, <1>4, <1>6, <2>2
<1>7. CASE ~was /\ is
  <2>1. after = before \cup {g} /\ g \notin before
    BY <1>2, <1>3, <1>7
  <2>2. Cardinality(after) = Cardinality(before) + 1
    BY <1>1, <2>1, FS_AddElement
  <2> QED BY <1>1, <1>4, <1>7, <2>2
<1> QED BY <1>5, <1>6, <1>7

\* The visits that stand do not change with entries of other kinds.
LEMMA VisitingKept ==
    ASSUME DOMAIN txs \subseteq DOMAIN txs',
           \A t \in DOMAIN txs :
              /\ txs'[t].type = txs[t].type
              /\ txs'[t].status = txs[t].status \/ txs[t].type # "VISIT_EARN",
           \A t \in DOMAIN txs' : t \in DOMAIN txs \/ txs'[t].type # "VISIT_EARN"
    PROVE  Visiting' = Visiting
BY DEF Visiting, Standing

\* The gifts of a visit are counted with the available ones, and the visit with the visits.
LEMMA CountsOfGave ==
    ASSUME TypeOK, NEW n \in Nat, Gave(n), NEW S
    PROVE  /\ Count(S)' = Count(S) + (IF "AVAILABLE" \in S THEN n ELSE 0)
           /\ Cardinality(Visiting)' = Cardinality(Visiting) + 1
<1> DEFINE visit == Len(txs) + 1
           made == DOMAIN gifts' \ DOMAIN gifts
           before == GiftsIn(S)
           after == GiftsIn(S)'
           visits == Visiting
<1>1. Given(visit) /\ Cardinality(made) = n
  BY GivenRows
<1>2. /\ IsFiniteSet(before) /\ Cardinality(before) \in Nat /\ Cardinality(before) = Count(S)
      /\ Cardinality(after) = Count(S)'
      /\ IsFiniteSet(visits) /\ Cardinality(visits) \in Nat
  BY CountsFinite DEF Count
<1>3. IsFiniteSet(made)
  <2>1. gifts' \in Seq(Gift)
    BY DEF Gave
  <2>2. Len(gifts') \in Nat /\ DOMAIN gifts' = 1..Len(gifts')
    BY <2>1
  <2>3. IsFiniteSet(DOMAIN gifts')
    BY <2>2, FS_Interval
  <2> QED BY <2>3, FS_Subset
<1>4. \A g : g \in after <=> g \in before \/ (g \in made /\ "AVAILABLE" \in S)
  BY <1>1 DEF Given, GiftsIn
<1>5. \A g \in before : g \notin made
  BY DEF GiftsIn
<1>6. visit \notin Visiting /\ Visiting' = Visiting \cup {visit}
  BY <1>1 DEF Given, Visiting, Standing
<1>7. Cardinality(Visiting)' = Cardinality(visits) + 1
  <2> DEFINE later == Visiting'
  <2>1. later = visits \cup {visit} /\ visit \notin visits
    BY <1>6
  <2> HIDE DEF later, visits, visit
  <2>2. Cardinality(later) = Cardinality(visits) + 1
    BY <1>2, <2>1, FS_AddElement
  <2> QED BY <2>2 DEF later
<1> HIDE DEF made, before, after
<1>8. CASE "AVAILABLE" \in S
  <2>1. after = before \cup made /\ before \cap made = {}
    BY <1>4, <1>5, <1>8
  <2>2. Cardinality(after) = Cardinality(before) + Cardinality(made) - Cardinality({})
    BY <1>2, <1>3, <2>1, FS_Union
  <2>3. Cardinality(after) = Cardinality(before) + n
    BY <1>1, <1>2, <2>2, FS_EmptySet
  <2> QED BY <1>2, <1>7, <1>8, <2>3
<1>9. CASE "AVAILABLE" \notin S
  <2>1. after = before
    BY <1>4, <1>9
  <2> QED BY <1>2, <1>7, <1>9, <2>1
<1> QED BY <1>8, <1>9

\* The gifts of a reversed visit leave the available ones, and the visit the visits.
LEMMA CountsOfVoided ==
    ASSUME RowsOK, NEW t \in DOMAIN txs, NEW gone \in SUBSET txs[t].gifts, Voided(t, gone), NEW S,
           "CANCELLED" \notin S
    PROVE  /\ Cardinality(gone) \in Nat
           /\ Count(S)' = Count(S) - (IF "AVAILABLE" \in S THEN Cardinality(gone) ELSE 0)
           /\ Cardinality(Visiting)' = Cardinality(Visiting) - 1
<1> DEFINE before == GiftsIn(S)
           after == GiftsIn(S)'
           visits == Visiting
<1>1. TypeOK /\ gone \subseteq DOMAIN gifts
  BY DEF RowsOK, RowsKnown
<1>2. /\ IsFiniteSet(before) /\ Cardinality(before) \in Nat /\ Cardinality(before) = Count(S)
      /\ Cardinality(after) = Count(S)'
      /\ IsFiniteSet(visits) /\ Cardinality(visits) \in Nat
  BY <1>1, CountsFinite DEF Count
<1>3. /\ DOMAIN gifts' = DOMAIN gifts
      /\ \A g \in DOMAIN gifts : g \notin gone => gifts'[g] = gifts[g]
      /\ \A g \in DOMAIN gifts : g \in gone => gifts'[g].status = "CANCELLED"
      /\ \A g \in gone : gifts[g].status = "AVAILABLE"
      /\ txs[t].type = "VISIT_EARN" /\ txs[t].status = "COMPLETED" /\ Undone(txs, txs', t)
  BY DEF Voided
<1>4. \A g : g \in after <=> g \in before /\ g \notin gone
  BY <1>3 DEF GiftsIn
<1>5. \A g \in gone : g \in before <=> "AVAILABLE" \in S
  BY <1>1, <1>3 DEF GiftsIn
<1>6. IsFiniteSet(gone) /\ Cardinality(gone) \in Nat
  <2> DEFINE available == GiftsIn({"AVAILABLE"})
  <2>1. gone \subseteq available
    BY <1>1, <1>3 DEF GiftsIn
  <2>2. IsFiniteSet(available)
    BY <1>1, CountsFinite
  <2> HIDE DEF available
  <2> QED BY <2>1, <2>2, FS_Subset, FS_CardinalityType
<1>7. Cardinality(Visiting)' = Cardinality(visits) - 1
  <2> DEFINE later == Visiting'
  <2>1. ReversalTx(t).type = "REVERSAL"
    BY <1>1, TxFields, ReversalTxFields
  <2>2. later = visits \ {t} /\ t \in visits
    BY <1>3, <2>1 DEF Visiting, Standing, Undone
  <2> HIDE DEF later, visits
  <2>3. Cardinality(later) = Cardinality(visits) - 1
    BY <1>2, <2>2, FS_RemoveElement
  <2> QED BY <2>3 DEF later
<1> HIDE DEF before, after
<1>8. CASE "AVAILABLE" \in S
  <2>1. after = before \ gone /\ before \cap gone = gone
    BY <1>4, <1>5, <1>8
  <2>2. Cardinality(after) = Cardinality(before) - Cardinality(gone)
    BY <1>2, <2>1, FS_Difference
  <2> QED BY <1>2, <1>6, <1>7, <1>8, <2>2
<1>9. CASE "AVAILABLE" \notin S
  <2>1. after = before
    BY <1>4, <1>5, <1>9
  <2> QED BY <1>2, <1>6, <1>7, <1>9, <2>1
<1> QED BY <1>8, <1>9

\* The same after a step.
LEMMA CountsFinitePrimed ==
    ASSUME TypeOK', NEW S
    PROVE  Count(S)' \in Nat /\ Cardinality(Visiting)' \in Nat
<1>1. /\ Len(gifts') \in Nat /\ DOMAIN gifts' = 1..Len(gifts')
      /\ Len(txs') \in Nat /\ DOMAIN txs' = 1..Len(txs')
  BY DEF TypeOK
<1>2. IsFiniteSet(DOMAIN gifts') /\ IsFiniteSet(DOMAIN txs')
  BY <1>1, FS_Interval
<1>3. GiftsIn(S)' \subseteq DOMAIN gifts' /\ Visiting' \subseteq DOMAIN txs'
  BY DEF GiftsIn, Visiting, Standing
<1>4. IsFiniteSet(GiftsIn(S)') /\ IsFiniteSet(Visiting')
  BY <1>2, <1>3, FS_Subset
<1> QED BY <1>4, FS_CardinalityType DEF Count

LEMMA CountedStep == RowsOK /\ Counted /\ StepOfTables /\ TypeOK' => Counted'
<1> SUFFICES ASSUME RowsOK, Counted, StepOfTables, TypeOK' PROVE Counted'
  OBVIOUS
<1> DEFINE A == Count({"AVAILABLE"})
           P == Count({"PENDING_REDEMPTION"})
           U == Count({"USED"})
           E == Count(GiftStatus \ {"CANCELLED"})
           V == Cardinality(Visiting)
<1>1. /\ TypeOK /\ RowsKnown
      /\ A \in Nat /\ P \in Nat /\ U \in Nat /\ E \in Nat /\ V \in Nat
  BY CountsFinite DEF RowsOK
<1>2. state.visits = V /\ state.used = U /\ state.available = A + P /\ state.earned = E
  BY DEF Counted
<1>3. SUFFICES state'.visits = V' /\ state'.used = U' /\ state'.available = A' + P' /\ state'.earned = E'
  BY DEF Counted
<1>4. ASSUME NEW n \in Nat, Gave(n)
      PROVE  state'.visits = V' /\ state'.used = U' /\ state'.available = A' + P' /\ state'.earned = E'
  <2>1. /\ state'.visits = state.visits + 1 /\ state'.earned = state.earned + n
        /\ state'.available = state.available + n /\ state'.used = state.used
    BY <1>4 DEF Gave
  <2>2. A' = A + n /\ V' = V + 1
    BY <1>1, <1>4, CountsOfGave
  <2>3. P' = P + 0 /\ U' = U + 0
    BY <1>1, <1>4, CountsOfGave
  <2>4. E' = E + n
    BY <1>1, <1>4, CountsOfGave DEF GiftStatus
  <2> HIDE DEF A, P, U, E, V
  <2> QED BY <1>1, <1>2, <2>1, <2>2, <2>3, <2>4
<1>5. ASSUME NEW g \in DOMAIN gifts, NEW gift, Rewritten(gifts, gifts', g, gift),
             gifts[g].status \in GiftStatus, gift.status \in GiftStatus
      PROVE  /\ A' = A + (IF gift.status = "AVAILABLE" THEN 1 ELSE 0)
                       - (IF gifts[g].status = "AVAILABLE" THEN 1 ELSE 0)
             /\ P' = P + (IF gift.status = "PENDING_REDEMPTION" THEN 1 ELSE 0)
                       - (IF gifts[g].status = "PENDING_REDEMPTION" THEN 1 ELSE 0)
             /\ U' = U + (IF gift.status = "USED" THEN 1 ELSE 0)
                       - (IF gifts[g].status = "USED" THEN 1 ELSE 0)
             /\ E' = E + (IF gift.status # "CANCELLED" THEN 1 ELSE 0)
                       - (IF gifts[g].status # "CANCELLED" THEN 1 ELSE 0)
  <2>1. A' = A + (IF gift.status \in {"AVAILABLE"} THEN 1 ELSE 0)
               - (IF gifts[g].status \in {"AVAILABLE"} THEN 1 ELSE 0)
    BY <1>1, <1>5, Moved
  <2>2. P' = P + (IF gift.status \in {"PENDING_REDEMPTION"} THEN 1 ELSE 0)
               - (IF gifts[g].status \in {"PENDING_REDEMPTION"} THEN 1 ELSE 0)
    BY <1>1, <1>5, Moved
  <2>3. U' = U + (IF gift.status \in {"USED"} THEN 1 ELSE 0)
               - (IF gifts[g].status \in {"USED"} THEN 1 ELSE 0)
    BY <1>1, <1>5, Moved
  <2>4. E' = E + (IF gift.status \in GiftStatus \ {"CANCELLED"} THEN 1 ELSE 0)
               - (IF gifts[g].status \in GiftStatus \ {"CANCELLED"} THEN 1 ELSE 0)
    BY <1>1, <1>5, Moved
  <2>5. /\ gift.status \in GiftStatus \ {"CANCELLED"} <=> gift.status # "CANCELLED"
        /\ gifts[g].status \in GiftStatus \ {"CANCELLED"} <=> gifts[g].status # "CANCELLED"
    BY <1>5
  <2> HIDE DEF A, P, U, E
  <2> QED BY <2>1, <2>2, <2>3, <2>4, <2>5
<1>6. \A g \in DOMAIN gifts : gifts[g].status \in GiftStatus
  BY <1>1, GiftFields
<1>7. \A gift \in Gift : gift.status \in GiftStatus
  BY DEF Gift
<1>8. ASSUME NEW g \in DOMAIN gifts, NEW gift \in Gift, NEW request \in Request,
             Asked(g, gift, request)
      PROVE  state'.visits = V' /\ state'.used = U' /\ state'.available = A' + P' /\ state'.earned = E'
  <2>1. /\ Rewritten(gifts, gifts', g, gift) /\ state' = state /\ txs' = txs
        /\ gifts[g].status = "AVAILABLE" /\ gift.status = "PENDING_REDEMPTION"
    BY <1>8 DEF Asked
  <2>2. V' = V
    BY <2>1 DEF Visiting, Standing
  <2>3. A' = A + 0 - 1 /\ P' = P + 1 - 0 /\ U' = U + 0 - 0 /\ E' = E + 1 - 1
    BY <1>5, <1>6, <1>7, <2>1
  <2> HIDE DEF A, P, U, E, V
  <2> QED BY <1>1, <1>2, <2>1, <2>2, <2>3
<1>9. ASSUME NEW r \in DOMAIN requests, NEW gift \in Gift, NEW request \in Request,
             Redeemed(r, gift, request)
      PROVE  state'.visits = V' /\ state'.used = U' /\ state'.available = A' + P' /\ state'.earned = E'
  <2> DEFINE g == requests[r].gift
             tx == RedeemTx(g, r)
  <2>1. /\ Rewritten(gifts, gifts', g, gift) /\ Added(txs, txs', tx)
        /\ gifts[g].status = "PENDING_REDEMPTION" /\ gift.status = "USED"
        /\ state'.available = AtLeastZero(state.available - 1)
        /\ state'.used = state.used + 1
        /\ state'.visits = state.visits /\ state'.earned = state.earned
    BY <1>9 DEF Redeemed
  <2>2. g \in DOMAIN gifts /\ g \in Nat /\ r \in Nat
    BY <1>1, GiftFields, RequestFields DEF RowsKnown
  <2>3. tx.type = "GIFT_REDEEM"
    BY <2>2, RedeemTxFields
  <2> HIDE DEF g, tx
  <2>4. Visiting' = Visiting
    BY <2>1, <2>3, VisitingKept DEF Added
  <2>5. A' = A + 0 - 0 /\ P' = P + 0 - 1 /\ U' = U + 1 - 0 /\ E' = E + 1 - 1
    BY <1>5, <1>6, <1>7, <2>1, <2>2
  <2>6. V' = V
    BY <2>4
  <2>7. P' \in Nat
    BY CountsFinitePrimed
  <2> HIDE DEF A, P, U, E, V
  <2> QED BY <1>1, <1>2, <2>1, <2>5, <2>6, <2>7 DEF AtLeastZero
<1>10. ASSUME NEW r \in DOMAIN requests, NEW gift \in Gift, NEW request \in Request,
              Answered(r, gift, request), UNCHANGED <<state, txs>>
       PROVE  state'.visits = V' /\ state'.used = U' /\ state'.available = A' + P' /\ state'.earned = E'
  <2> DEFINE g == requests[r].gift
  <2>1. /\ Rewritten(gifts, gifts', g, gift)
        /\ \/ gifts[g].status = "PENDING_REDEMPTION" /\ gift.status = "AVAILABLE"
           \/ gifts[g].status # "PENDING_REDEMPTION" /\ gift.status = gifts[g].status
    BY <1>10 DEF Answered
  <2>2. g \in DOMAIN gifts
    BY <1>1 DEF RowsKnown
  <2>3. V' = V
    BY <1>10 DEF Visiting, Standing
  <2> HIDE DEF g
  <2>4. /\ A' = A + (IF gift.status = "AVAILABLE" THEN 1 ELSE 0)
                  - (IF gifts[g].status = "AVAILABLE" THEN 1 ELSE 0)
        /\ P' = P + (IF gift.status = "PENDING_REDEMPTION" THEN 1 ELSE 0)
                  - (IF gifts[g].status = "PENDING_REDEMPTION" THEN 1 ELSE 0)
        /\ U' = U + (IF gift.status = "USED" THEN 1 ELSE 0)
                  - (IF gifts[g].status = "USED" THEN 1 ELSE 0)
        /\ E' = E + (IF gift.status # "CANCELLED" THEN 1 ELSE 0)
                  - (IF gifts[g].status # "CANCELLED" THEN 1 ELSE 0)
    BY <1>5, <1>6, <1>7, <2>1, <2>2
  <2> HIDE DEF A, P, U, E, V
  <2>5. CASE gifts[g].status = "PENDING_REDEMPTION" /\ gift.status = "AVAILABLE"
    BY <1>1, <1>2, <1>10, <2>3, <2>4, <2>5
  <2>6. CASE gifts[g].status # "PENDING_REDEMPTION" /\ gift.status = gifts[g].status
    BY <1>1, <1>2, <1>10, <2>3, <2>4, <2>6
  <2> QED BY <2>1, <2>5, <2>6
<1>11. ASSUME NEW t \in DOMAIN txs, NEW gone \in SUBSET txs[t].gifts, Voided(t, gone)
       PROVE  state'.visits = V' /\ state'.used = U' /\ state'.available = A' + P' /\ state'.earned = E'
  <2> DEFINE n == Cardinality(gone)
  <2>1. /\ state'.visits = AtLeastZero(state.visits - 1)
        /\ state'.earned = AtLeastZero(state.earned - n)
        /\ state'.available = AtLeastZero(state.available - n)
        /\ state'.used = state.used
    BY <1>11 DEF Voided
  <2>2. n \in Nat /\ A' = A - n /\ V' = V - 1
    BY <1>11, CountsOfVoided
  <2>3. P' = P - 0 /\ U' = U - 0
    BY <1>11, CountsOfVoided
  <2>4. E' = E - n
    BY <1>11, CountsOfVoided DEF GiftStatus
  <2>5. A' \in Nat /\ P' \in Nat /\ E' \in Nat /\ V' \in Nat
    BY CountsFinitePrimed
  <2> HIDE DEF n, A, P, U, E, V
  <2> QED BY <1>1, <1>2, <2>1, <2>2, <2>3, <2>4, <2>5 DEF AtLeastZero
<1>12. ASSUME NEW t \in DOMAIN txs, NEW gift \in Gift, GivenBack(t, gift)
       PROVE  state'.visits = V' /\ state'.used = U' /\ state'.available = A' + P' /\ state'.earned = E'
  <2> DEFINE g == txs[t].gift
  <2>1. /\ Rewritten(gifts, gifts', g, gift) /\ Undone(txs, txs', t)
        /\ txs[t].type = "GIFT_REDEEM"
        /\ gifts[g].status = "USED" /\ gift.status = "AVAILABLE"
        /\ state'.available = state.available + 1
        /\ state'.used = AtLeastZero(state.used - 1)
        /\ state'.visits = state.visits /\ state'.earned = state.earned
    BY <1>12 DEF GivenBack
  <2>2. g \in DOMAIN gifts
    BY <1>1, <2>1 DEF RowsKnown
  <2>3. ReversalTx(t).type = "REVERSAL"
    BY <1>1, TxFields, ReversalTxFields
  <2> HIDE DEF g
  <2>4. Visiting' = Visiting
    BY <2>1, <2>3, VisitingKept DEF Undone
  <2>5. A' = A + 1 - 0 /\ P' = P + 0 - 0 /\ U' = U + 0 - 1 /\ E' = E + 1 - 1
    BY <1>5, <1>6, <1>7, <2>1, <2>2
  <2>6. V' = V
    BY <2>4
  <2>7. U' \in Nat
    BY CountsFinitePrimed
  <2> HIDE DEF A, P, U, E, V
  <2> QED BY <1>1, <1>2, <2>1, <2>5, <2>6, <2>7 DEF AtLeastZero
<1>13. CASE UNCHANGED <<state, gifts, txs, requests>>
  <2>1. V' = V /\ A' = A /\ P' = P /\ U' = U /\ E' = E
    BY <1>13 DEF Visiting, Standing, Count, GiftsIn
  <2> HIDE DEF A, P, U, E, V
  <2> QED BY <1>2, <1>13, <2>1
<1> QED BY <1>4, <1>8, <1>9, <1>10, <1>11, <1>12, <1>13 DEF StepOfTables

LEMMA CountedCorrect == Spec => []Counted
<1>1. Init => Counted
  <2> SUFFICES ASSUME Init PROVE Counted
    OBVIOUS
  <2>1. \A S : GiftsIn(S) = {} /\ Visiting = {}
    BY DEF Init, GiftsIn, Visiting, Standing
  <2>2. \A S : Count(S) = 0
    BY <2>1, FS_EmptySet DEF Count
  <2>3. Cardinality(Visiting) = 0
    BY <2>1, FS_EmptySet
  <2> QED BY <2>2, <2>3 DEF Init, Counted
<1>2. RowsOK /\ Counted /\ [Next]_vars => Counted'
  BY StepEffect, CountedStep, NextRows DEF RowsOK
<1> QED BY <1>1, <1>2, RowsCorrect, PTL DEF Spec

\* Whatever the settings and the history, the client's counters agree with the gifts and the
\* visits that stand, and no clamp of the services hides a lost gift.
THEOREM CountersMatchCorrect == Spec => []CountersMatch
BY CountedCorrect, CountedMeans, PTL

-----------------------------------------------------------------------------
(* The visits of a card *)

\* What the gifts of visit t took.
TakenBy(t) == {t} \X (1..txs[t].target)

\* The inductive invariant: the cardinality means what it says.
OnCards == IsFiniteSet(TakenVisits) /\ NoVisitLost

LEMMA TakenSize ==
    ASSUME NEW t, NEW n \in Nat
    PROVE  IsFiniteSet({t} \X (1..n)) /\ Cardinality({t} \X (1..n)) = n
<1>1. IsFiniteSet({t}) /\ Cardinality({t}) = 1
  BY FS_Singleton
<1>2. IsFiniteSet(1..n) /\ Cardinality(1..n) = n
  BY FS_Interval
<1>3. /\ IsFiniteSet({t} \X (1..n))
      /\ Cardinality({t} \X (1..n)) = Cardinality({t}) * Cardinality(1..n)
  BY ONLY <1>1, <1>2, FS_Product
<1> QED BY <1>1, <1>2, <1>3

\* A visit is in the set by its number.
LEMMA TakenIn ==
    /\ \A p \in TakenVisits : p[1] \in Giving /\ p \in TakenBy(p[1])
    /\ \A t \in Giving : TakenBy(t) \subseteq TakenVisits
BY DEF TakenVisits, TakenBy

\* The visits that give are the same, and what they took.
LEMMA TakenKept ==
    ASSUME Giving' = Giving, \A t \in Giving : txs'[t].target = txs[t].target
    PROVE  TakenVisits' = TakenVisits
BY DEF TakenVisits

\* Entries that are no visits are added and others than visits are rewritten.
LEMMA GivingKept ==
    ASSUME DOMAIN txs \subseteq DOMAIN txs',
           \A t \in DOMAIN txs :
              /\ txs'[t].type = txs[t].type /\ txs'[t].gifts = txs[t].gifts
              /\ txs[t].type = "VISIT_EARN" => txs'[t].status = txs[t].status
              /\ txs'[t].target = txs[t].target,
           \A t \in DOMAIN txs' : t \in DOMAIN txs \/ txs'[t].gifts = {}
    PROVE  TakenVisits' = TakenVisits
<1>1. Giving' = Giving
  BY DEF Giving, Standing
<1>2. \A t \in Giving : txs'[t].target = txs[t].target
  BY DEF Giving, Standing
<1> QED BY <1>1, <1>2, TakenKept

LEMMA OnCardsKept ==
    ASSUME OnCards, TakenVisits' = TakenVisits,
           state'.visits = state.visits, state'.progress = state.progress
    PROVE  OnCards'
BY DEF OnCards, NoVisitLost

\* A visit without gifts goes on the card; one with gifts takes its target from it.
LEMMA OnCardsGave ==
    ASSUME RowsOK, OnCards, NEW n \in Nat, Gave(n)
    PROVE  OnCards'
<1> DEFINE visit == Len(txs) + 1
           old == Len(gifts)
           new == old + 1 .. old + n
           target == program.target
           taken == {visit} \X (1..target)
<1>1. TypeOK /\ old \in Nat /\ DOMAIN txs = 1..Len(txs) /\ Len(txs) \in Nat /\ state \in State
  BY DEF RowsOK, TypeOK
<1>2. target \in Nat
  BY <1>1, VisitsAssumption DEF TypeOK, Settings
<1>3. state.visits \in Nat /\ state.progress \in Nat
  BY <1>1 DEF State
<1>4. /\ DOMAIN txs' = 1..(visit + n) /\ visit \notin DOMAIN txs /\ visit \in DOMAIN txs'
      /\ \A t \in DOMAIN txs : txs'[t] = txs[t]
      /\ state'.visits = state.visits + 1
      /\ state'.progress = state.progress + 1 - (IF n = 0 THEN 0 ELSE target)
  BY <1>1 DEF Gave
<1>5. /\ txs'[visit].type = "VISIT_EARN" /\ txs'[visit].status = "COMPLETED"
      /\ txs'[visit].gifts = new /\ txs'[visit].target = target
  <2>1. new \in SUBSET Nat
    BY <1>1
  <2>2. txs'[visit] = VisitTx(new)
    BY DEF Gave
  <2> HIDE DEF new
  <2> QED BY <1>1, <2>1, <2>2, VisitTxFields
<1>6. ASSUME NEW t \in DOMAIN txs', t \notin DOMAIN txs, t # visit
      PROVE  txs'[t].type # "VISIT_EARN"
  <2>1. t \in (visit + 1)..(visit + n)
    <3>1. t \in 1..(visit + n) /\ t \notin 1..Len(txs) /\ t # visit
      BY <1>1, <1>4, <1>6
    <3> QED BY <1>1, <3>1
  <2>2. PICK i \in 1..n : t = visit + i
    <3>1. t - visit \in 1..n /\ t = visit + (t - visit)
      BY <1>1, <2>1
    <3> QED BY <3>1
  <2>3. txs'[t] = GiftCreatedTx(visit, old + i)
    BY <2>2 DEF Gave
  <2>4. old + i \in Nat /\ visit \in Nat
    BY <1>1
  <2> QED BY <1>1, <2>3, <2>4, GiftCreatedTxFields
<1>7. n = 0 <=> new = {}
  <2>1. n # 0 => old + 1 \in new
    BY <1>1
  <2>2. n = 0 => new = {}
    BY <1>1
  <2> QED BY <2>1, <2>2
<1> HIDE DEF visit, old, new, target
<1>8. Giving' = Giving \cup (IF n = 0 THEN {} ELSE {visit})
  <2>1. \A t \in DOMAIN txs : t \in Giving' <=> t \in Giving
    BY <1>1, <1>4 DEF Giving, Standing
  <2>2. visit \in Giving' <=> n # 0
    BY <1>4, <1>5, <1>7 DEF Giving, Standing
  <2>3. \A t \in DOMAIN txs' : t \in DOMAIN txs \/ t = visit \/ t \notin Giving'
    BY <1>6 DEF Giving, Standing
  <2>4. Giving' \subseteq DOMAIN txs' /\ Giving \subseteq DOMAIN txs
    BY DEF Giving, Standing
  <2> QED BY <2>1, <2>2, <2>3, <2>4
<1>9. \A t \in Giving : txs'[t].target = txs[t].target
  BY <1>4 DEF Giving, Standing
<1>10. CASE n = 0
  <2>1. TakenVisits' = TakenVisits
    BY <1>8, <1>9, <1>10, TakenKept
  <2>2. Cardinality(TakenVisits) \in Nat
    BY FS_CardinalityType DEF OnCards
  <2> QED BY <1>3, <1>4, <1>10, <2>1, <2>2 DEF OnCards, NoVisitLost
<1>11. CASE n # 0
  <2>1. TakenVisits' = TakenVisits \cup taken
    BY <1>5, <1>8, <1>9, <1>11 DEF TakenVisits
  <2>2. TakenVisits \cap taken = {}
    <3>1. \A p \in taken : p[1] = visit
      OBVIOUS
    <3>2. visit \notin Giving
      BY <1>4 DEF Giving, Standing
    <3> QED BY <3>1, <3>2, TakenIn
  <2>3. IsFiniteSet(taken) /\ Cardinality(taken) = target
    BY <1>2, TakenSize
  <2> HIDE DEF taken
  <2>4. IsFiniteSet(TakenVisits) /\ Cardinality(TakenVisits) \in Nat /\ NoVisitLost
    BY FS_CardinalityType DEF OnCards
  <2>5. /\ IsFiniteSet(TakenVisits \cup taken)
        /\ Cardinality(TakenVisits \cup taken) =
              Cardinality(TakenVisits) + Cardinality(taken) - Cardinality(TakenVisits \cap taken)
    BY ONLY <2>3, <2>4, FS_Union
  <2>6. Cardinality(TakenVisits') = Cardinality(TakenVisits) + target
    BY <1>2, <2>1, <2>2, <2>3, <2>4, <2>5, FS_EmptySet
  <2>7. state'.visits <= state'.progress + Cardinality(TakenVisits')
    <3>1. state.visits <= state.progress + Cardinality(TakenVisits)
      BY <2>4 DEF NoVisitLost
    <3> QED BY <1>2, <1>3, <1>4, <1>11, <2>4, <2>6, <3>1
  <2> QED BY <2>1, <2>5, <2>7 DEF OnCards, NoVisitLost
<1> QED BY <1>10, <1>11

\* A reversal takes one visit off: what its gifts took comes back.
LEMMA OnCardsVoided ==
    ASSUME RowsOK, Linked, OnCards,
           NEW t \in DOMAIN txs, NEW gone \in SUBSET txs[t].gifts, Voided(t, gone)
    PROVE  OnCards'
<1> DEFINE target == txs[t].target
           taken == {t} \X (1..target)
           left == AtLeastZero(state.visits - 1)
           progress == Compensated(state.progress, gone, target)
<1>1. TypeOK /\ state \in State /\ target \in Nat
  BY TxFields DEF RowsOK, TypeOK
<1>2. state.visits \in Nat /\ state.progress \in Nat
  BY <1>1 DEF State
<1>3. gone = txs[t].gifts
  BY AllGone
<1>4. /\ state'.visits = left /\ state'.progress = progress
      /\ txs[t].type = "VISIT_EARN" /\ txs[t].status = "COMPLETED" /\ Undone(txs, txs', t)
  BY DEF Voided
<1>5. Giving' = Giving \ {t}
  <2>1. /\ DOMAIN txs' = DOMAIN txs \cup {Len(txs) + 1} /\ Len(txs) + 1 \notin DOMAIN txs
        /\ \A u \in DOMAIN txs : u # t => txs'[u] = txs[u]
        /\ txs'[Len(txs) + 1].type = "REVERSAL" /\ txs'[t].status = "REVERSED"
    <3>1. t \in Nat
      BY <1>1, TxFields
    <3> QED BY <1>4, <3>1, ReversalTxFields DEF Undone
  <2> QED BY <2>1 DEF Giving, Standing
<1>6. \A u \in Giving \ {t} : txs'[u].target = txs[u].target
  BY <1>4 DEF Giving, Standing, Undone
<1>7. t \in Giving <=> gone # {}
  BY <1>3, <1>4 DEF Giving, Standing
<1>8. IsFiniteSet(TakenVisits) /\ Cardinality(TakenVisits) \in Nat
  BY FS_CardinalityType DEF OnCards
<1>9. state.visits <= state.progress + Cardinality(TakenVisits)
  BY DEF OnCards, NoVisitLost
<1>10. CASE gone = {}
  <2>1. TakenVisits' = TakenVisits
    BY <1>5, <1>6, <1>7, <1>10, TakenKept
  <2>2. left <= progress + Cardinality(TakenVisits)
    BY <1>1, <1>2, <1>8, <1>9, <1>10 DEF AtLeastZero, Compensated
  <2> QED BY <1>4, <1>8, <2>1, <2>2 DEF OnCards, NoVisitLost
<1>11. CASE gone # {}
  <2>1. TakenVisits' = TakenVisits \ taken
    <3>1. \A p \in taken : p[1] = t
      OBVIOUS
    <3>2. \A p \in TakenVisits : p[1] = t => p \in taken
      BY TakenIn DEF TakenBy
    <3>3. \A p : p \in TakenVisits' <=> \E u \in Giving \ {t} : p \in TakenBy(u)
      BY <1>5, <1>6 DEF TakenVisits, TakenBy
    <3>4. \A u : \A p \in TakenBy(u) : p[1] = u
      BY DEF TakenBy
    <3> HIDE DEF taken
    <3>5. ASSUME NEW p \in TakenVisits' PROVE p \in TakenVisits \ taken
      <4>1. PICK u \in Giving \ {t} : p \in TakenBy(u)
        BY <3>3
      <4> QED BY <3>1, <3>4, <4>1, TakenIn
    <3>6. ASSUME NEW p \in TakenVisits \ taken PROVE p \in TakenVisits'
      BY <3>2, <3>3, TakenIn
    <3> QED BY <3>5, <3>6
  <2>2. TakenVisits \cap taken = taken
    BY <1>7, <1>11, TakenIn DEF TakenBy
  <2>3. IsFiniteSet(taken) /\ Cardinality(taken) = target
    BY <1>1, TakenSize
  <2> HIDE DEF taken
  <2>4. /\ IsFiniteSet(TakenVisits \ taken)
        /\ Cardinality(TakenVisits \ taken) =
              Cardinality(TakenVisits) - Cardinality(TakenVisits \cap taken)
    BY ONLY <1>8, FS_Difference
  <2>5. Cardinality(TakenVisits') \in Nat /\ Cardinality(TakenVisits') = Cardinality(TakenVisits) - target
    BY <2>1, <2>2, <2>3, <2>4, FS_CardinalityType
  <2>6. left <= progress + Cardinality(TakenVisits')
    <3> DEFINE before == Cardinality(TakenVisits)
               after == Cardinality(TakenVisits')
    <3>1. /\ before \in Nat /\ after \in Nat /\ after = before - target
          /\ state.visits <= state.progress + before
      BY <1>8, <1>9, <2>5
    <3> HIDE DEF before, after
    <3>2. left <= progress + after
      BY <1>1, <1>2, <1>11, <3>1 DEF AtLeastZero, Compensated
    <3> QED BY <3>2 DEF after
  <2> HIDE DEF left, progress
  <2> QED BY <1>4, <2>1, <2>4, <2>6 DEF OnCards, NoVisitLost
<1> QED BY <1>10, <1>11

LEMMA OnCardsStep == RowsOK /\ Linked /\ OnCards /\ StepOfTables => OnCards'
<1> SUFFICES ASSUME RowsOK, Linked, OnCards, StepOfTables PROVE OnCards'
  OBVIOUS
<1>1. TypeOK
  BY DEF RowsOK
<1>2. CASE UNCHANGED <<state, txs>>
  BY <1>2 DEF OnCards, NoVisitLost, TakenVisits, Giving, Standing
<1>3. ASSUME NEW r \in DOMAIN requests, NEW gift \in Gift, NEW request \in Request,
             Redeemed(r, gift, request)
      PROVE  OnCards'
  <2>1. requests[r].gift \in Nat /\ r \in Nat
    BY <1>1, RequestFields
  <2>2. TakenVisits' = TakenVisits
    BY <1>3, <2>1, RedeemTxFields, GivingKept DEF Redeemed, Added
  <2> QED BY <1>3, <2>2, OnCardsKept DEF Redeemed
<1>4. ASSUME NEW t \in DOMAIN txs, NEW gift \in Gift, GivenBack(t, gift) PROVE OnCards'
  <2>1. t \in Nat
    BY <1>1, TxFields
  <2>2. Undone(txs, txs', t) /\ txs[t].type = "GIFT_REDEEM"
    BY <1>4 DEF GivenBack
  <2>3. ReversalTx(t).gifts = {}
    BY <2>1, ReversalTxFields
  <2>4. TakenVisits' = TakenVisits
    BY <2>2, <2>3, GivingKept DEF Undone
  <2> QED BY <1>4, <2>4, OnCardsKept DEF GivenBack
<1>5. \/ \E n \in Nat : Gave(n)
      \/ \E r \in DOMAIN requests, gift \in Gift, request \in Request : Redeemed(r, gift, request)
      \/ \E t \in DOMAIN txs : \E gone \in SUBSET txs[t].gifts : Voided(t, gone)
      \/ \E t \in DOMAIN txs, gift \in Gift : GivenBack(t, gift)
      \/ UNCHANGED <<state, txs>>
  BY DEF StepOfTables, Asked
<1> QED BY <1>2, <1>3, <1>4, <1>5, OnCardsGave, OnCardsVoided

\* Whatever targets the gifts had and in whatever order visits are reversed, the client keeps
\* every visit that stands: on his card, or in a gift that stands.
THEOREM NoVisitLostCorrect == Spec => []NoVisitLost
<1>1. Init => OnCards
  <2> SUFFICES ASSUME Init PROVE OnCards
    OBVIOUS
  <2>1. TakenVisits = {}
    BY DEF Init, TakenVisits, Giving, Standing
  <2>2. state.visits = 0 /\ state.progress = 0
    BY DEF Init
  <2> QED BY <2>1, <2>2, FS_EmptySet DEF OnCards, NoVisitLost
<1>2. RowsOK /\ Linked /\ OnCards /\ [Next]_vars => OnCards'
  BY StepEffect, OnCardsStep
<1>3. OnCards => NoVisitLost
  BY DEF OnCards
<1> QED BY <1>1, <1>2, <1>3, RowsCorrect, LinkedCorrect, PTL DEF Spec

-----------------------------------------------------------------------------
(* What the client sees *)

\* The refinement mapping of Wallet, of any tables.
ShownGifts(rows) == [g \in DOMAIN rows |-> WalletGift(rows[g])]
ShownRequests(rows) == [r \in DOMAIN rows |-> WalletRequest(rows[r])]
ShownLedger(rows) == [t \in DOMAIN rows |-> WalletEntry(rows[t])]

\* What a reversal names is there and marked: an entry that stands is reversed by none.
ReversalsMark ==
    \A t \in DOMAIN txs : txs[t].type = "REVERSAL" =>
        txs[t].related \in DOMAIN txs /\ txs[txs[t].related].status = "REVERSED"

\* The inductive invariant of the refinement.
WalletOK == RowsOK /\ Held /\ Linked /\ Counted /\ ReversalsMark

\* A function on 1..n is a sequence.
LEMMA IsSequence ==
    ASSUME NEW n \in Nat, NEW S, NEW s, s = [i \in 1..n |-> s[i]], \A i \in 1..n : s[i] \in S
    PROVE  s \in Seq(S) /\ Len(s) = n /\ DOMAIN s = 1..n
OBVIOUS

\* f is the sequence s of length n with one more element.
AddsOne(n, s, e, f) ==
    /\ s = [i \in 1..n |-> s[i]]
    /\ f = [i \in 1..(n + 1) |-> f[i]]
    /\ f[n + 1] = e
    /\ \A i \in 1..n : f[i] = s[i]

LEMMA AppendIs ==
    ASSUME NEW n \in Nat, NEW s, NEW e, NEW f, AddsOne(n, s, e, f)
    PROVE  f = Append(s, e)
<1> SUFFICES ASSUME s = [i \in 1..n |-> s[i]], f = [i \in 1..(n + 1) |-> f[i]],
                    f[n + 1] = e, \A i \in 1..n : f[i] = s[i]
             PROVE  f = Append(s, e)
  BY DEF AddsOne
<1> DEFINE S == {s[i] : i \in 1..n} \cup {e}
           a == Append(s, e)
<1>1. e \in S /\ \A i \in 1..n : s[i] \in S
  OBVIOUS
<1> HIDE DEF S
<1>2. s \in Seq(S) /\ Len(s) = n
  BY <1>1, IsSequence
<1>3. /\ a \in Seq(S) /\ Len(a) = n + 1 /\ DOMAIN a = 1..(n + 1)
      /\ a[n + 1] = e /\ \A i \in 1..n : a[i] = s[i]
  BY <1>1, <1>2, Appended
<1> HIDE DEF a
<1>4. a = [i \in 1..(n + 1) |-> a[i]]
  BY <1>3
<1>5. \A i \in 1..(n + 1) : a[i] = f[i]
  <2>1. ASSUME NEW i \in 1..(n + 1) PROVE a[i] = f[i]
    <3>1. i = n + 1 \/ i \in 1..n
      OBVIOUS
    <3> QED BY <1>3, <3>1
  <2> QED BY <2>1
<1>6. a = f
  BY <1>4, <1>5
<1> QED BY <1>6 DEF a

\* f is the sequence s of length n with the m elements of h.
AddsAll(n, m, s, h, f) ==
    /\ s = [i \in 1..n |-> s[i]]
    /\ h = [i \in 1..m |-> h[i]]
    /\ f = [i \in 1..(n + m) |-> f[i]]
    /\ \A i \in 1..n : f[i] = s[i]
    /\ \A i \in 1..m : f[n + i] = h[i]

LEMMA ConcatIs ==
    ASSUME NEW n \in Nat, NEW m \in Nat, NEW s, NEW h, NEW f, AddsAll(n, m, s, h, f)
    PROVE  f = s \o h
<1> SUFFICES ASSUME s = [i \in 1..n |-> s[i]], h = [i \in 1..m |-> h[i]],
                    f = [i \in 1..(n + m) |-> f[i]],
                    \A i \in 1..n : f[i] = s[i], \A i \in 1..m : f[n + i] = h[i]
             PROVE  f = s \o h
  BY DEF AddsAll
<1> DEFINE S == {s[i] : i \in 1..n} \cup {h[i] : i \in 1..m}
           a == s \o h
<1>1. /\ \A i \in 1..n : s[i] \in S
      /\ \A i \in 1..m : h[i] \in S
  OBVIOUS
<1> HIDE DEF S
<1>2. s \in Seq(S) /\ Len(s) = n /\ DOMAIN s = 1..n
  BY <1>1, IsSequence
<1>3. /\ a \in Seq(S) /\ DOMAIN a = 1..(n + m)
      /\ \A i \in 1..n : a[i] = s[i]
      /\ \A i \in 1..m : a[n + i] = h[i]
  <2>1. /\ s \o h \in Seq(S)
        /\ DOMAIN (s \o h) = 1..(Len(s) + m)
        /\ \A i \in DOMAIN s : (s \o h)[i] = s[i]
        /\ \A i \in 1..m : (s \o h)[Len(s) + i] = h[i]
    BY ONLY <1>1, <1>2, h = [i \in 1..m |-> h[i]], m \in Nat, Extended
  <2> QED BY <1>2, <2>1
<1> HIDE DEF a
<1>4. a = [i \in 1..(n + m) |-> a[i]]
  BY <1>3
<1>5. \A i \in 1..(n + m) : a[i] = f[i]
  <2>1. ASSUME NEW i \in 1..(n + m) PROVE a[i] = f[i]
    <3>1. CASE i \in 1..n
      BY <1>3, <3>1
    <3>2. CASE i \notin 1..n
      <4>1. i - n \in 1..m /\ n + (i - n) = i
        BY <3>2
      <4> QED BY <1>3, <4>1
    <3> QED BY <3>1, <3>2
  <2> QED BY <2>1
<1>6. a = f
  BY <1>4, <1>5
<1> QED BY <1>6 DEF a

\* A gift that changes shows as one that changes.
LEMMA GiftShows ==
    ASSUME NEW g \in DOMAIN gifts, NEW gift, Rewritten(gifts, gifts', g, gift)
    PROVE  ShownGifts(gifts') = [ShownGifts(gifts) EXCEPT ![g] = WalletGift(gift)]
BY DEF ShownGifts, Rewritten

\* The status of a request that is resolved.
LEMMA RequestShows ==
    ASSUME NEW r \in DOMAIN requests, NEW request, Rewritten(requests, requests', r, request),
           request.gift = requests[r].gift
    PROVE  ShownRequests(requests') =
              [ShownRequests(requests) EXCEPT ![r].status = WalletRequest(request).status]
<1> DEFINE before == ShownRequests(requests)
           row == [before[r] EXCEPT !.status = WalletRequest(request).status]
<1>1. before[r] = WalletRequest(requests[r]) /\ DOMAIN before = DOMAIN requests
  BY DEF ShownRequests
<1>2. row = WalletRequest(request)
  BY <1>1 DEF WalletRequest
<1> HIDE DEF row
<1>3. ShownRequests(requests') = [before EXCEPT ![r] = row]
  BY <1>1, <1>2 DEF ShownRequests, Rewritten
<1> QED BY <1>3 DEF row

\* A new request.
LEMMA RequestAdds ==
    ASSUME TypeOK, NEW request, Added(requests, requests', request)
    PROVE  ShownRequests(requests') = Append(ShownRequests(requests), WalletRequest(request))
<1> DEFINE n == Len(requests)
           s == ShownRequests(requests)
           f == ShownRequests(requests')
           e == WalletRequest(request)
<1>1. n \in Nat /\ DOMAIN requests = 1..n /\ n = Len(requests)
  BY DEF TypeOK
<1>2. DOMAIN requests' = 1..(n + 1)
  BY <1>1 DEF Added
<1>3. /\ s = [i \in 1..n |-> WalletRequest(requests[i])]
      /\ f = [i \in 1..(n + 1) |-> WalletRequest(requests'[i])]
  BY <1>1, <1>2 DEF ShownRequests
<1>4. /\ \A i \in 1..n : requests'[i] = requests[i]
      /\ requests'[n + 1] = request
  BY <1>1 DEF Added
<1>5. n + 1 \in 1..(n + 1) /\ \A i \in 1..n : i \in 1..(n + 1)
  BY <1>1
<1> HIDE DEF n
<1>6. f[n + 1] = e /\ \A i \in 1..n : f[i] = s[i]
  BY <1>3, <1>4, <1>5
<1>7. s = [i \in 1..n |-> s[i]] /\ f = [i \in 1..(n + 1) |-> f[i]]
  BY <1>3
<1> HIDE DEF s, f, e
<1>8. AddsOne(n, s, e, f)
  BY <1>6, <1>7 DEF AddsOne
<1>9. f = Append(s, e)
  BY <1>1, <1>8, AppendIs
<1> QED BY <1>9 DEF s, f, e

\* Old entries show as before, and a new one is appended.
LEMMA LedgerAdds ==
    ASSUME TypeOK, DOMAIN txs' = DOMAIN txs \cup {Len(txs) + 1},
           \A t \in DOMAIN txs : WalletEntry(txs'[t]) = WalletEntry(txs[t])
    PROVE  ShownLedger(txs') = Append(ShownLedger(txs), WalletEntry(txs'[Len(txs) + 1]))
<1> DEFINE n == Len(txs)
           s == ShownLedger(txs)
           f == ShownLedger(txs')
           e == WalletEntry(txs'[n + 1])
<1>1. n \in Nat /\ DOMAIN txs = 1..n /\ n = Len(txs)
  BY DEF TypeOK
<1>2. DOMAIN txs' = 1..(n + 1)
  BY <1>1
<1>3. /\ s = [i \in 1..n |-> WalletEntry(txs[i])]
      /\ f = [i \in 1..(n + 1) |-> WalletEntry(txs'[i])]
  BY <1>1, <1>2 DEF ShownLedger
<1>4. \A i \in 1..n : WalletEntry(txs'[i]) = WalletEntry(txs[i])
  BY <1>1
<1>5. n + 1 \in 1..(n + 1) /\ \A i \in 1..n : i \in 1..(n + 1)
  BY <1>1
<1> HIDE DEF n
<1>6. f[n + 1] = e /\ \A i \in 1..n : f[i] = s[i]
  BY <1>3, <1>4, <1>5
<1>7. s = [i \in 1..n |-> s[i]] /\ f = [i \in 1..(n + 1) |-> f[i]]
  BY <1>3
<1> HIDE DEF s, f, e
<1>8. AddsOne(n, s, e, f)
  BY <1>6, <1>7 DEF AddsOne
<1>9. f = Append(s, e)
  BY <1>1, <1>8, AppendIs
<1> QED BY <1>9 DEF s, f, e, n

\* An entry that is marked shows as before, and the one that compensates it is appended.
LEMMA LedgerReverses ==
    ASSUME TypeOK, NEW t \in DOMAIN txs, Undone(txs, txs', t)
    PROVE  ShownLedger(txs') = Append(ShownLedger(txs), Wallet!Reversal(t))
<1>1. t \in Nat
  BY TxFields
<1>2. WalletEntry(ReversalTx(t)) = Wallet!Reversal(t)
  BY <1>1, ReversalTxFields DEF WalletEntry, Wallet!Reversal, Wallet!Entry, None
<1>3. WalletEntry(txs'[t]) = WalletEntry(txs[t])
  BY DEF Undone, WalletEntry
<1>4. \A u \in DOMAIN txs : WalletEntry(txs'[u]) = WalletEntry(txs[u])
  BY <1>3 DEF Undone
<1>5. DOMAIN txs' = DOMAIN txs \cup {Len(txs) + 1} /\ txs'[Len(txs) + 1] = ReversalTx(t)
  BY DEF Undone
<1>6. ShownLedger(txs') = Append(ShownLedger(txs), WalletEntry(txs'[Len(txs) + 1]))
  BY <1>4, <1>5, LedgerAdds
<1> QED BY <1>2, <1>5, <1>6

\* An entry that stands is reversed by none.
LEMMA EntryStands ==
    ASSUME WalletOK, NEW t \in DOMAIN txs, txs[t].status = "COMPLETED"
    PROVE  /\ DOMAIN ShownLedger(txs) = DOMAIN txs
           /\ \A f \in DOMAIN ShownLedger(txs) : ShownLedger(txs)[f].reverses # t
<1>1. TypeOK /\ ReversalsMark
  BY DEF WalletOK, RowsOK
<1>2. t # None
  BY <1>1, TxFields
<1>3. DOMAIN ShownLedger(txs) = DOMAIN txs
  BY DEF ShownLedger
<1>4. ASSUME NEW f \in DOMAIN txs PROVE WalletEntry(txs[f]).reverses # t
  <2>1. txs[f].type \in TxType
    BY <1>1, TxFields
  <2>2. CASE txs[f].type = "REVERSAL"
    <3>1. txs[f].related # t
      BY <1>1, <2>2 DEF ReversalsMark
    <3> QED BY <2>2, <3>1 DEF WalletEntry
  <2>3. CASE txs[f].type # "REVERSAL"
    BY <1>2, <2>1, <2>3 DEF WalletEntry, TxType
  <2> QED BY <2>2, <2>3
<1> QED BY <1>3, <1>4 DEF ShownLedger

\* A gift that is there counts.
LEMMA Present ==
    ASSUME TypeOK, NEW S, NEW G \in SUBSET GiftsIn(S)
    PROVE  /\ Cardinality(G) \in Nat /\ Count(S) \in Nat /\ Cardinality(G) <= Count(S)
           /\ G # {} => Count(S) > 0
<1> DEFINE all == GiftsIn(S)
<1>1. IsFiniteSet(all) /\ Cardinality(all) \in Nat /\ Cardinality(all) = Count(S)
  BY CountsFinite DEF Count
<1> HIDE DEF all
<1>2. IsFiniteSet(G) /\ Cardinality(G) <= Cardinality(all)
  BY <1>1, FS_Subset DEF all
<1>3. Cardinality(G) \in Nat /\ (G # {} => Cardinality(G) # 0)
  BY <1>2, FS_CardinalityType, FS_EmptySet
<1> QED BY <1>1, <1>2, <1>3

\* The counters as the client is shown them.
LEMMA CountersShow ==
    ASSUME TypeOK, NEW visits \in Int, NEW earned \in Int, NEW used \in Int, NEW available \in Int,
           state'.visits = state.visits + visits, state'.earned = state.earned + earned,
           state'.used = state.used + used, state'.available = state.available + available
    PROVE  Wallet!Count(visits, earned, used, available)
BY DEF Wallet!Count

\* The client is asked about a gift of his.
LEMMA AskedShows ==
    ASSUME WalletOK, NEW g \in DOMAIN gifts, NEW gift \in Gift, NEW request \in Request,
           Asked(g, gift, request)
    PROVE  Wallet!Next
<1>1. TypeOK
  BY DEF WalletOK, RowsOK
<1>2. /\ gifts[g].status = "AVAILABLE" /\ gift.status = "PENDING_REDEMPTION"
      /\ Rewritten(gifts, gifts', g, gift) /\ Added(requests, requests', request)
      /\ request.gift = g /\ request.status = "PENDING"
      /\ state' = state /\ txs' = txs
  BY DEF Asked
<1>3. ShownGifts(gifts') = [ShownGifts(gifts) EXCEPT ![g] = "HELD"]
  BY <1>2, GiftShows DEF WalletGift
<1>4. ShownRequests(requests') = Append(ShownRequests(requests), [gift |-> g, status |-> "PENDING"])
  BY <1>1, <1>2, RequestAdds DEF WalletRequest
<1>5. g \in DOMAIN ShownGifts(gifts) /\ ShownGifts(gifts)[g] = "FREE"
  BY <1>2 DEF ShownGifts, WalletGift
<1>6. Wallet!Ask(g)
  BY <1>2, <1>3, <1>4, <1>5 DEF Wallet!Ask, ShownGifts, ShownRequests
<1> QED BY <1>5, <1>6 DEF Wallet!Next, ShownGifts

\* The gift a pending request asks for is held.
LEMMA PendingHolds ==
    ASSUME WalletOK, NEW r \in DOMAIN requests, requests[r].status = "PENDING"
    PROVE  LET g == requests[r].gift IN
           g \in DOMAIN gifts /\ gifts[g].status = "PENDING_REDEMPTION"
BY DEF WalletOK, RowsOK, RowsKnown, Held, Pending

\* An answer other than a confirmation drops the request.
LEMMA AnsweredShows ==
    ASSUME WalletOK, NEW r \in DOMAIN requests, NEW gift \in Gift, NEW request \in Request,
           Answered(r, gift, request), UNCHANGED <<state, txs>>
    PROVE  Wallet!Next
<1> DEFINE g == requests[r].gift
<1>1. /\ requests[r].status = "PENDING"
      /\ gift.status = IF gifts[g].status = "PENDING_REDEMPTION" THEN "AVAILABLE"
                       ELSE gifts[g].status
      /\ Rewritten(gifts, gifts', g, gift) /\ Rewritten(requests, requests', r, request)
      /\ request.gift = requests[r].gift
      /\ request.status \in {"REJECTED", "CANCELLED", "EXPIRED"}
  BY DEF Answered
<1>2. g \in DOMAIN gifts /\ gifts[g].status = "PENDING_REDEMPTION" /\ g = requests[r].gift
  BY <1>1, PendingHolds
<1> HIDE DEF g
<1>3. gift.status = "AVAILABLE"
  BY <1>1, <1>2
<1>4. ShownGifts(gifts') = [ShownGifts(gifts) EXCEPT ![g] = "FREE"]
  BY <1>1, <1>2, <1>3, GiftShows DEF WalletGift
<1>5. WalletRequest(request).status = "DROPPED"
  BY <1>1 DEF WalletRequest
<1>6. ShownRequests(requests') = [ShownRequests(requests) EXCEPT ![r].status = "DROPPED"]
  BY <1>1, <1>5, RequestShows
<1>7. /\ r \in DOMAIN ShownRequests(requests)
      /\ ShownRequests(requests)[r].status = "PENDING" /\ ShownRequests(requests)[r].gift = g
      /\ ShownGifts(gifts)[g] = "HELD"
  BY <1>1, <1>2 DEF ShownRequests, WalletRequest, ShownGifts, WalletGift
<1>8. Wallet!Drop(r)
  BY <1>4, <1>6, <1>7 DEF Wallet!Drop, ShownGifts, ShownRequests
<1> QED BY <1>7, <1>8 DEF Wallet!Next, ShownRequests

\* A confirmation settles the request; its gift is counted, so that the clamp does not bite.
LEMMA RedeemedShows ==
    ASSUME WalletOK, NEW r \in DOMAIN requests, NEW gift \in Gift, NEW request \in Request,
           Redeemed(r, gift, request)
    PROVE  Wallet!Next
<1> DEFINE g == requests[r].gift
           tx == RedeemTx(g, r)
           held == GiftsIn({"PENDING_REDEMPTION"})
<1>1. /\ requests[r].status = "PENDING" /\ gifts[g].status = "PENDING_REDEMPTION"
      /\ gift.status = "USED" /\ request.status = "CONFIRMED"
      /\ Rewritten(gifts, gifts', g, gift) /\ Rewritten(requests, requests', r, request)
      /\ request.gift = requests[r].gift /\ Added(txs, txs', tx)
      /\ state'.available = AtLeastZero(state.available - 1)
      /\ state'.used = state.used + 1
      /\ state'.visits = state.visits /\ state'.earned = state.earned
      /\ state \in State
  BY DEF Redeemed, WalletOK, RowsOK, TypeOK
<1>2. TypeOK /\ g \in DOMAIN gifts /\ g = requests[r].gift /\ r \in Nat /\ g \in Nat
  BY <1>1, PendingHolds, RequestFields, GiftFields DEF WalletOK, RowsOK
<1>3. tx.type = "GIFT_REDEEM" /\ tx.gift = g /\ tx.redemption = r
  BY <1>2, RedeemTxFields
<1>4. state.available > 0 /\ state.available \in Nat
  <2>1. Count({"PENDING_REDEMPTION"}) > 0
    <3>1. held # {}
      BY <1>1, <1>2 DEF GiftsIn
    <3> QED BY <1>2, <3>1, Present
  <2>2. Count({"PENDING_REDEMPTION"}) \in Nat /\ Count({"AVAILABLE"}) \in Nat
    BY <1>2, CountsFinite
  <2>3. state.available = Count({"AVAILABLE"}) + Count({"PENDING_REDEMPTION"})
    BY DEF WalletOK, Counted
  <2> QED BY <2>1, <2>2, <2>3
<1> HIDE DEF g, tx, held
<1>5. ShownGifts(gifts') = [ShownGifts(gifts) EXCEPT ![g] = "USED"]
  BY <1>1, <1>2, GiftShows DEF WalletGift
<1>6. WalletRequest(request).status = "SETTLED"
  BY <1>1 DEF WalletRequest
<1>7. ShownRequests(requests') = [ShownRequests(requests) EXCEPT ![r].status = "SETTLED"]
  BY <1>1, <1>6, RequestShows
<1>8. WalletEntry(tx) = [Wallet!Entry("redeem", {g}) EXCEPT !.request = r]
  BY <1>3 DEF WalletEntry, Wallet!Entry, None
<1>9. ShownLedger(txs') = Append(ShownLedger(txs), [Wallet!Entry("redeem", {g}) EXCEPT !.request = r])
  <2>1. ShownLedger(txs') = Append(ShownLedger(txs), WalletEntry(txs'[Len(txs) + 1]))
    BY <1>1, <1>2, LedgerAdds DEF Added
  <2> QED BY <1>1, <1>8, <2>1 DEF Added
<1>10. /\ r \in DOMAIN ShownRequests(requests)
       /\ ShownRequests(requests)[r].status = "PENDING" /\ ShownRequests(requests)[r].gift = g
       /\ ShownGifts(gifts)[g] = "HELD"
  BY <1>1, <1>2 DEF ShownRequests, WalletRequest, ShownGifts, WalletGift
<1>11. state'.available = state.available - 1
  BY <1>1, <1>4 DEF AtLeastZero
<1>12. Wallet!Count(0, 0, 1, -1)
  <2>1. /\ state'.visits = state.visits + 0 /\ state'.earned = state.earned + 0
        /\ state'.available = state.available + (-1)
    BY <1>1, <1>4, <1>11 DEF State
  <2> QED BY <1>1, <1>2, <2>1, CountersShow
<1>13. Wallet!Settle(r)
  BY <1>5, <1>7, <1>9, <1>10, <1>12
     DEF Wallet!Settle, ShownGifts, ShownRequests, ShownLedger
<1> QED BY <1>10, <1>13 DEF Wallet!Next, ShownRequests

\* The reversal of a redemption gives the gift back.
LEMMA GivenBackShows ==
    ASSUME WalletOK, NEW t \in DOMAIN txs, NEW gift \in Gift, GivenBack(t, gift)
    PROVE  Wallet!Next
<1> DEFINE g == txs[t].gift
           used == GiftsIn({"USED"})
<1>1. /\ txs[t].type = "GIFT_REDEEM" /\ txs[t].status = "COMPLETED"
      /\ gifts[g].status = "USED" /\ gift.status = "AVAILABLE"
      /\ Rewritten(gifts, gifts', g, gift) /\ Undone(txs, txs', t)
      /\ state'.available = state.available + 1
      /\ state'.used = AtLeastZero(state.used - 1)
      /\ state'.visits = state.visits /\ state'.earned = state.earned
      /\ requests' = requests
  BY DEF GivenBack
<1>2. TypeOK /\ state \in State /\ g \in DOMAIN gifts /\ g = txs[t].gift
  BY <1>1 DEF WalletOK, RowsOK, RowsKnown, TypeOK
<1>3. state.used > 0 /\ state.used \in Nat
  <2>1. Count({"USED"}) > 0
    <3>1. used # {}
      BY <1>1, <1>2 DEF GiftsIn
    <3> QED BY <1>2, <3>1, Present
  <2>2. Count({"USED"}) \in Nat
    BY <1>2, CountsFinite
  <2> QED BY <2>1, <2>2 DEF WalletOK, Counted
<1> HIDE DEF g, used
<1>4. ShownGifts(gifts') = [ShownGifts(gifts) EXCEPT ![g] = "FREE"]
  BY <1>1, <1>2, GiftShows DEF WalletGift
<1>5. ShownLedger(txs') = Append(ShownLedger(txs), Wallet!Reversal(t))
  BY <1>1, <1>2, LedgerReverses
<1>6. /\ DOMAIN ShownLedger(txs) = DOMAIN txs
      /\ \A f \in DOMAIN ShownLedger(txs) : ShownLedger(txs)[f].reverses # t
  BY <1>1, EntryStands
<1>7. /\ ShownLedger(txs)[t].kind = "redeem" /\ ShownLedger(txs)[t].gifts = {g}
      /\ ShownGifts(gifts)[g] = "USED"
  BY <1>1, <1>2 DEF ShownLedger, WalletEntry, ShownGifts, WalletGift
<1>8. Wallet!Count(0, 0, -1, 1)
  <2>1. /\ state'.visits = state.visits + 0 /\ state'.earned = state.earned + 0
        /\ state'.used = state.used + (-1)
    BY <1>1, <1>2, <1>3 DEF State, AtLeastZero
  <2> QED BY <1>1, <1>2, <2>1, CountersShow
<1>9. Wallet!TakeBack(t, g)
  BY <1>1, <1>4, <1>5, <1>6, <1>7, <1>8
     DEF Wallet!TakeBack, Wallet!Stands, ShownGifts, ShownLedger
<1>10. t \in DOMAIN ShownLedger(txs) /\ g \in ShownLedger(txs)[t].gifts
  BY <1>6, <1>7
<1> QED BY <1>9, <1>10 DEF Wallet!Next, ShownLedger

\* A visit that is reversed had nothing but free gifts, and all of them go: the clamps do not
\* bite.
LEMMA VoidedShows ==
    ASSUME WalletOK, NEW t \in DOMAIN txs, NEW gone \in SUBSET txs[t].gifts, Voided(t, gone)
    PROVE  Wallet!Next
<1> DEFINE free == GiftsIn({"AVAILABLE"})
           counted == GiftsIn(GiftStatus \ {"CANCELLED"})
           n == Cardinality(gone)
<1>1. /\ gone = {g \in txs[t].gifts : gifts[g].status = "AVAILABLE"}
      /\ txs[t].type = "VISIT_EARN" /\ txs[t].status = "COMPLETED"
      /\ \A g \in txs[t].gifts : gifts[g].status \notin {"USED", "PENDING_REDEMPTION"}
      /\ Undone(txs, txs', t)
      /\ DOMAIN gifts' = DOMAIN gifts
      /\ \A g \in DOMAIN gifts : g \notin gone => gifts'[g] = gifts[g]
      /\ \A g \in DOMAIN gifts : g \in gone => gifts'[g].status = "CANCELLED"
      /\ state'.visits = AtLeastZero(state.visits - 1)
      /\ state'.earned = AtLeastZero(state.earned - n)
      /\ state'.available = AtLeastZero(state.available - n)
      /\ state'.used = state.used /\ requests' = requests
  BY DEF Voided
<1>2. TypeOK /\ state \in State /\ txs[t].gifts \subseteq DOMAIN gifts
  BY DEF WalletOK, RowsOK, RowsKnown, TypeOK
<1>3. gone = txs[t].gifts
  BY AllGone DEF WalletOK
<1>4. /\ n \in Nat /\ n <= Count({"AVAILABLE"}) /\ n <= Count(GiftStatus \ {"CANCELLED"})
      /\ Count({"AVAILABLE"}) \in Nat /\ Count(GiftStatus \ {"CANCELLED"}) \in Nat
      /\ Count({"PENDING_REDEMPTION"}) \in Nat
  <2>1. gone \in SUBSET free /\ gone \in SUBSET counted
    BY <1>1, <1>2 DEF GiftsIn, GiftStatus
  <2>2. n \in Nat /\ n <= Count({"AVAILABLE"}) /\ Count({"AVAILABLE"}) \in Nat
    BY <1>2, <2>1, Present
  <2>3. n <= Count(GiftStatus \ {"CANCELLED"}) /\ Count(GiftStatus \ {"CANCELLED"}) \in Nat
    BY <1>2, <2>1, Present
  <2> QED BY <1>2, <2>2, <2>3, CountsFinite
<1>5. /\ state.available = Count({"AVAILABLE"}) + Count({"PENDING_REDEMPTION"})
      /\ state.earned = Count(GiftStatus \ {"CANCELLED"})
  BY DEF WalletOK, Counted
<1>6. state.visits \in Nat /\ state.visits > 0
  <2> DEFINE visits == Visiting
  <2>1. t \in visits
    BY <1>1 DEF Visiting, Standing
  <2>2. IsFiniteSet(visits) /\ state.visits = Cardinality(visits)
    BY <1>2, CountsFinite DEF WalletOK, Counted
  <2> HIDE DEF visits
  <2>3. Cardinality(visits) \in Nat /\ Cardinality(visits) # 0
    BY <2>1, <2>2, FS_CardinalityType, FS_EmptySet
  <2> QED BY <2>2, <2>3
<1> HIDE DEF free, counted
<1>7. ShownGifts(gifts') =
         [g \in DOMAIN ShownGifts(gifts) |-> IF g \in gone THEN "VOID" ELSE ShownGifts(gifts)[g]]
  <2>1. \A g \in DOMAIN gifts :
           WalletGift(gifts'[g]) = IF g \in gone THEN "VOID" ELSE WalletGift(gifts[g])
    <3>1. \A gift : gift.status = "CANCELLED" => WalletGift(gift) = "VOID"
      BY DEF WalletGift
    <3> QED BY <1>1, <3>1
  <2> QED BY <1>1, <2>1 DEF ShownGifts
<1>8. ShownLedger(txs') = Append(ShownLedger(txs), Wallet!Reversal(t))
  BY <1>1, <1>2, LedgerReverses
<1>9. /\ DOMAIN ShownLedger(txs) = DOMAIN txs
      /\ \A f \in DOMAIN ShownLedger(txs) : ShownLedger(txs)[f].reverses # t
  BY <1>1, EntryStands
<1>10. /\ ShownLedger(txs)[t].kind = "visit" /\ ShownLedger(txs)[t].gifts = gone
       /\ \A g \in gone : ShownGifts(gifts)[g] = "FREE"
  BY <1>1, <1>2, <1>3 DEF ShownLedger, WalletEntry, ShownGifts, WalletGift
<1>11. Wallet!Count(-1, -n, 0, -n)
  <2>1. /\ state'.visits = state.visits + (-1) /\ state'.earned = state.earned + (-n)
        /\ state'.used = state.used + 0 /\ state'.available = state.available + (-n)
    <3> HIDE DEF n
    <3> QED BY <1>1, <1>2, <1>4, <1>5, <1>6 DEF State, AtLeastZero
  <2>2. -n \in Int /\ -1 \in Int /\ 0 \in Int
    BY <1>4
  <2> HIDE DEF n
  <2> QED BY <1>2, <2>1, <2>2, CountersShow
<1>12. Wallet!Void(t)
  <2> DEFINE taken == ShownLedger(txs)[t].gifts
  <2>1. taken = gone
    BY <1>10
  <2>2. /\ ShownGifts(gifts') =
              [g \in DOMAIN ShownGifts(gifts) |-> IF g \in taken THEN "VOID" ELSE ShownGifts(gifts)[g]]
        /\ \A g \in taken : ShownGifts(gifts)[g] = "FREE"
        /\ Wallet!Count(-1, -Cardinality(taken), 0, -Cardinality(taken))
    BY <1>7, <1>10, <1>11, <2>1
  <2>3. Wallet!Stands(t, "visit")
    BY <1>9, <1>10 DEF Wallet!Stands, ShownLedger
  <2>4. Wallet!Cardinality(taken) = Cardinality(taken)
    <3> HIDE DEF taken
    <3> QED BY Zenon DEF Wallet!Cardinality, Cardinality
  <2> QED BY ONLY <1>1, <1>8, <2>2, <2>3, <2>4 DEF Wallet!Void, ShownGifts, ShownLedger
<1> QED BY <1>9, <1>12 DEF Wallet!Next, ShownLedger

\* A visit shows with the gifts it brings.
LEMMA GaveShows ==
    ASSUME WalletOK, NEW n \in Nat, n \in Rewards, Gave(n)
    PROVE  Wallet!Next
<1> DEFINE old == Len(gifts)
           last == Len(txs)
           visit == last + 1
           new == old + 1 .. old + n
           before == ShownGifts(gifts)
           after == ShownGifts(gifts')
           free == [i \in 1..n |-> "FREE"]
           ledger == ShownLedger(txs)
           later == ShownLedger(txs')
           entry == Wallet!Entry("visit", new)
           logged == Append(ledger, entry)
           brought == [i \in 1..n |-> Wallet!Entry("gift", {old + i})]
<1>1. /\ DOMAIN txs' = 1..(visit + n) /\ DOMAIN gifts' = 1..(old + n)
      /\ \A t \in DOMAIN txs : txs'[t] = txs[t]
      /\ txs'[visit] = VisitTx(new)
      /\ \A i \in 1..n : txs'[visit + i] = GiftCreatedTx(visit, old + i)
      /\ \A g \in DOMAIN gifts : gifts'[g] = gifts[g]
      /\ \A i \in 1..n : gifts'[old + i] = NewGift(visit + i)
      /\ state'.visits = state.visits + 1 /\ state'.earned = state.earned + n
      /\ state'.available = state.available + n /\ state'.used = state.used
      /\ requests' = requests
  BY DEF Gave
<1>2. /\ TypeOK /\ state \in State /\ old \in Nat /\ last \in Nat
      /\ DOMAIN gifts = 1..old /\ DOMAIN txs = 1..last
  BY DEF WalletOK, RowsOK, TypeOK
<1>3. visit \in Nat /\ visit = last + 1 /\ new \in SUBSET Nat /\ new = old + 1 .. old + n
  BY <1>2
<1> HIDE DEF old, last, visit, new
<1>4. /\ WalletEntry(VisitTx(new)) = entry
      /\ \A i \in 1..n : WalletEntry(GiftCreatedTx(visit, old + i)) = Wallet!Entry("gift", {old + i})
      /\ \A i \in 1..n : WalletGift(NewGift(visit + i)) = "FREE"
  <2>1. WalletEntry(VisitTx(new)) = entry
    BY <1>2, <1>3, VisitTxFields DEF WalletEntry, Wallet!Entry, None
  <2>2. ASSUME NEW i \in 1..n
        PROVE  /\ WalletEntry(GiftCreatedTx(visit, old + i)) = Wallet!Entry("gift", {old + i})
               /\ WalletGift(NewGift(visit + i)) = "FREE"
    <3>1. old + i \in Nat /\ visit + i \in Nat
      BY <1>2, <1>3
    <3>2. LET tx == GiftCreatedTx(visit, old + i) IN
          tx.type = "GIFT_CREATED" /\ tx.gift = old + i
      BY <1>2, <1>3, <3>1, GiftCreatedTxFields
    <3>3. NewGift(visit + i).status = "AVAILABLE"
      BY <3>1, NewGiftFields
    <3> QED BY <3>2, <3>3 DEF WalletEntry, WalletGift, Wallet!Entry, None
  <2> QED BY <2>1, <2>2
<1>5. AddsAll(old, n, before, free, after)
  <2>1. /\ before = [i \in 1..old |-> WalletGift(gifts[i])]
        /\ after = [i \in 1..(old + n) |-> WalletGift(gifts'[i])]
    BY <1>1, <1>2 DEF ShownGifts
  <2>2. \A i \in 1..old : i \in 1..(old + n)
    BY <1>2
  <2>3. \A i \in 1..n : old + i \in 1..(old + n)
    BY <1>2
  <2> HIDE DEF before, after
  <2>4. \A i \in 1..old : after[i] = before[i]
    BY <1>1, <1>2, <2>1, <2>2
  <2>5. \A i \in 1..n : after[old + i] = free[i]
    BY <1>1, <1>4, <2>1, <2>3
  <2> QED BY <2>1, <2>4, <2>5 DEF AddsAll
<1>6. /\ ledger = [t \in 1..last |-> WalletEntry(txs[t])]
      /\ later = [t \in 1..(visit + n) |-> WalletEntry(txs'[t])]
  BY <1>1, <1>2 DEF ShownLedger
<1> DEFINE most == [t \in 1..visit |-> later[t]]
<1>7. AddsOne(last, ledger, entry, most)
  <2>1. \A t \in 1..last : t \in 1..visit /\ t \in 1..(visit + n)
    BY <1>2, <1>3
  <2>2. visit \in 1..visit /\ visit \in 1..(visit + n)
    BY <1>2, <1>3
  <2> HIDE DEF ledger, later, entry
  <2>3. \A t \in 1..last : most[t] = ledger[t]
    BY <1>1, <1>2, <1>6, <2>1
  <2>4. most[visit] = entry
    BY <1>1, <1>4, <1>6, <2>2
  <2> HIDE DEF most
  <2>5. most = [t \in 1..visit |-> most[t]] /\ ledger = [t \in 1..last |-> ledger[t]]
    BY <1>6 DEF most
  <2> QED BY <1>3, <2>3, <2>4, <2>5 DEF AddsOne
<1>8. AddsAll(visit, n, most, brought, later)
  <2>1. \A t \in 1..visit : t \in 1..(visit + n)
    BY <1>3
  <2>2. \A i \in 1..n : visit + i \in 1..(visit + n)
    BY <1>3
  <2> HIDE DEF later
  <2>3. \A i \in 1..n : later[visit + i] = brought[i]
    BY <1>1, <1>4, <1>6, <2>2
  <2>4. \A t \in 1..visit : later[t] = most[t]
    OBVIOUS
  <2>5. later = [t \in 1..(visit + n) |-> later[t]] /\ most = [t \in 1..visit |-> most[t]]
    BY <1>6
  <2>6. brought = [i \in 1..n |-> brought[i]]
    OBVIOUS
  <2> HIDE DEF most, brought
  <2> QED BY <2>3, <2>4, <2>5, <2>6 DEF AddsAll
<1> HIDE DEF before, after, free, ledger, later, entry, brought, most
<1>9. after = before \o free
  BY <1>2, <1>5, ConcatIs
<1>10. later = logged \o brought
  <2>1. most = Append(ledger, entry)
    BY <1>2, <1>7, AppendIs
  <2> QED BY <1>3, <1>8, <2>1, ConcatIs
<1>11. Len(before) = old
  <2> DEFINE S == {before[i] : i \in 1..old}
  <2>1. before = [i \in 1..old |-> before[i]] /\ \A i \in 1..old : before[i] \in S
    BY <1>5 DEF AddsAll
  <2> HIDE DEF S
  <2> QED BY <1>2, <2>1, IsSequence
<1>12. Wallet!Count(1, n, 0, n)
  <2>1. state'.used = state.used + 0
    BY <1>1, <1>2 DEF State
  <2>2. 1 \in Int /\ n \in Int /\ 0 \in Int
    OBVIOUS
  <2>3. /\ state'.visits = state.visits + 1 /\ state'.earned = state.earned + n
        /\ state'.available = state.available + n
    BY <1>1
  <2> QED BY ONLY <1>2, <2>1, <2>2, <2>3, CountersShow
<1>13. Wallet!Visit(n)
  <2>1. /\ ShownGifts(gifts') = ShownGifts(gifts) \o [i \in 1..n |-> "FREE"]
        /\ Len(ShownGifts(gifts)) = old
    BY <1>9, <1>11 DEF before, after, free
  <2>2. ShownLedger(txs') =
           Append(ShownLedger(txs), Wallet!Entry("visit", old + 1 .. old + n))
              \o [i \in 1..n |-> Wallet!Entry("gift", {old + i})]
    BY <1>3, <1>10 DEF ledger, later, entry, brought
  <2> QED BY <1>1, <1>12, <2>1, <2>2 DEF Wallet!Visit, ShownGifts, ShownLedger
<1> QED BY <1>13 DEF Wallet!Next

\* An entry is reversed, and marked.
LEMMA ReversalMarks ==
    ASSUME TypeOK, ReversalsMark, NEW t \in DOMAIN txs, Undone(txs, txs', t)
    PROVE  ReversalsMark'
<1>1. t \in Nat /\ ReversalTx(t).type = "REVERSAL" /\ ReversalTx(t).related = t
  BY TxFields, ReversalTxFields
<1> SUFFICES ASSUME NEW u \in DOMAIN txs', txs'[u].type = "REVERSAL"
             PROVE  txs'[u].related \in DOMAIN txs' /\ txs'[txs'[u].related].status = "REVERSED"
  BY DEF ReversalsMark
<1>2. CASE u = Len(txs) + 1
  BY <1>1, <1>2 DEF Undone
<1>3. CASE u \in DOMAIN txs
  <2>1. txs'[u].type = txs[u].type /\ txs'[u].related = txs[u].related
    BY <1>3 DEF Undone
  <2>2. txs[u].related \in DOMAIN txs /\ txs[txs[u].related].status = "REVERSED"
    BY <1>3, <2>1 DEF ReversalsMark
  <2> QED BY <2>1, <2>2 DEF Undone
<1> QED BY <1>2, <1>3 DEF Undone

\* Entries that are added without a reversal leave the old ones as they are.
LEMMA ReversalsKept ==
    ASSUME ReversalsMark, DOMAIN txs \subseteq DOMAIN txs', \A t \in DOMAIN txs : txs'[t] = txs[t],
           \A t \in DOMAIN txs' : t \in DOMAIN txs \/ txs'[t].type # "REVERSAL"
    PROVE  ReversalsMark'
BY DEF ReversalsMark

LEMMA ReversalsStep == RowsOK /\ ReversalsMark /\ StepOfTables => ReversalsMark'
<1> SUFFICES ASSUME RowsOK, ReversalsMark, StepOfTables PROVE ReversalsMark'
  OBVIOUS
<1>1. TypeOK
  BY DEF RowsOK
<1>2. ASSUME txs' = txs PROVE ReversalsMark'
  BY <1>2 DEF ReversalsMark
<1>3. ASSUME NEW n \in Nat, Gave(n) PROVE ReversalsMark'
  <2> DEFINE visit == Len(txs) + 1
  <2>1. Given(visit)
    BY <1>1, <1>3, GivenRows
  <2> HIDE DEF visit
  <2>2. \A t \in DOMAIN txs' : t \in DOMAIN txs \/ txs'[t].type # "REVERSAL"
    BY <2>1 DEF Given
  <2> QED BY <2>1, <2>2, ReversalsKept DEF Given
<1>4. ASSUME NEW r \in DOMAIN requests, NEW gift \in Gift, NEW request \in Request,
             Redeemed(r, gift, request)
      PROVE  ReversalsMark'
  <2> DEFINE g == requests[r].gift
             tx == RedeemTx(g, r)
  <2>1. tx.type = "GIFT_REDEEM"
    BY <1>1, RequestFields, RedeemTxFields
  <2>2. Added(txs, txs', tx)
    BY <1>4 DEF Redeemed
  <2> HIDE DEF tx
  <2> QED BY <2>1, <2>2, ReversalsKept DEF Added
<1>5. ASSUME NEW t \in DOMAIN txs, NEW gone \in SUBSET txs[t].gifts, Voided(t, gone)
      PROVE  ReversalsMark'
  BY <1>1, <1>5, ReversalMarks DEF Voided
<1>6. ASSUME NEW t \in DOMAIN txs, NEW gift \in Gift, GivenBack(t, gift) PROVE ReversalsMark'
  BY <1>1, <1>6, ReversalMarks DEF GivenBack
<1> QED BY <1>2, <1>3, <1>4, <1>5, <1>6 DEF StepOfTables, Asked

LEMMA WalletCorrect == Spec => []WalletOK
<1>1. Init => ReversalsMark
  BY DEF Init, ReversalsMark
<1>2. RowsOK /\ ReversalsMark /\ [Next]_vars => ReversalsMark'
  BY StepEffect, ReversalsStep
<1>3. RowsOK /\ Held /\ Linked /\ Counted /\ ReversalsMark => WalletOK
  BY DEF WalletOK
<1> QED BY <1>1, <1>2, <1>3, RowsCorrect, HeldCorrect, LinkedCorrect, CountedCorrect, PTL DEF Spec

\* The first rows are those of an empty wallet.
LEMMA InitWallet == Init => Wallet!Init
<1> SUFFICES ASSUME Init PROVE Wallet!Init
  OBVIOUS
<1>1. /\ DOMAIN gifts = {} /\ DOMAIN txs = {} /\ DOMAIN requests = {}
      /\ state.visits = 0 /\ state.earned = 0 /\ state.used = 0 /\ state.available = 0
  BY DEF Init
<1>2. [g \in DOMAIN gifts |-> WalletGift(gifts[g])] = <<>>
  BY <1>1
<1>3. [r \in DOMAIN requests |-> WalletRequest(requests[r])] = <<>>
  BY <1>1
<1>4. [t \in DOMAIN txs |-> WalletEntry(txs[t])] = <<>>
  BY <1>1
<1> QED BY <1>1, <1>2, <1>3, <1>4 DEF Wallet!Init

\* Every step of the rows is one of the wallet, or does not show.
LEMMA StepWallet == WalletOK /\ [Next]_vars => [Wallet!Next]_(Wallet!vars)
<1> SUFFICES ASSUME WalletOK, [Next]_vars PROVE Wallet!Next \/ UNCHANGED Wallet!vars
  OBVIOUS
<1>1. StepOfTables
  BY StepEffect DEF WalletOK
<1>2. CASE UNCHANGED <<state, gifts, txs, requests>>
  BY <1>2 DEF Wallet!vars
<1> QED BY <1>1, <1>2, GaveShows, AskedShows, RedeemedShows, AnsweredShows, VoidedShows,
           GivenBackShows DEF StepOfTables

\* Whatever the settings and the history, what the client sees of the rows is a plain wallet of
\* gifts: the refinement of GiftWallet by visits.py, redemptions.py and reversal.py.
THEOREM KeepsWalletCorrect == Spec => KeepsWallet
BY WalletCorrect, InitWallet, StepWallet, PTL DEF Spec, KeepsWallet, Wallet!Spec

=============================================================================
