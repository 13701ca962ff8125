------------------------------ MODULE Cashback ------------------------------
(***************************************************************************)
(* The CASHBACK engine for one client in one organization: the services    *)
(* loyalty/services/{cashback,redemptions,reversal}.py over the rows of     *)
(* user_organization_states, cashback_lots, transactions and               *)
(* redemption_requests, with the two Celery jobs that sweep expired rows.  *)
(*                                                                         *)
(* One action is one @transaction.atomic block.  Every block that touches   *)
(* the client's balance holds FOR UPDATE the row it decides on (the         *)
(* request, the lot, the ledger entry) and the state row, so the blocks of  *)
(* one client take effect one at a time; a block that raises is rolled      *)
(* back and changes nothing, and has no action here.  Two things are NOT    *)
(* one block.  A confirmation decides on the request's row and then waits   *)
(* for the state row, while the clock and the other blocks go on: its two   *)
(* halves are BeginConfirm and Confirm.  A job reads the ids and its own    *)
(* clock first and then runs one block per row.                            *)
(*                                                                         *)
(* A row's index in its sequence stands for its primary key and for the     *)
(* order of creation (earned_at, created_at).  None = 0 is SQL NULL.        *)
(*                                                                         *)
(* The operators named Mut... are deliberate faults, each written before    *)
(* the definition it can replace: no definition uses them, and every        *)
(* property below fails under one of them (PROJECT.json, "mutants").         *)
(***************************************************************************)
EXTENDS Integers, Sequences, FiniteSets, Sums

CONSTANTS
    Programs,       \* the settings a director may give the program
    Amounts,        \* the purchase totals and spend amounts an admin may type
    Ttl,            \* REDEMPTION_TTL_SECONDS, in clock ticks
    BatchSize,      \* batch_size of the two jobs
    LotWorkers,     \* concurrent executions of expire_cashback_lots
    RequestWorkers, \* concurrent executions of cleanup_expired_redemptions
    MaxLots,        \* bound: lots the operations create
    MaxTxs,         \* bound: ledger length up to which operations add entries
    MaxRequests,    \* bound: redemption requests
    MaxTime         \* bound: the last tick of the clock

\* CashbackProgram: shares in basis points, the lifetime of a lot, the least purchase.
\* The model's validators bound them further; nothing below needs that.
Settings == [rate : Nat, maxSpend : Nat, expiry : Nat, minPurchase : Nat, active : BOOLEAN]

ASSUME CashbackAssumption ==
    /\ Programs # {} /\ Programs \subseteq Settings
    /\ Amounts \subseteq Nat \ {0}
    /\ {Ttl, BatchSize} \subseteq Nat \ {0}
    /\ {MaxLots, MaxTxs, MaxRequests, MaxTime} \subseteq Nat

VARIABLES
    now,        \* timezone.now(), in ticks
    orgStatus,  \* Organization.status
    program,    \* the organization's CashbackProgram row
    state,      \* the UserOrganizationState row
    lots,       \* CashbackLot rows
    txs,        \* Transaction rows: the ledger
    requests,   \* RedemptionRequest rows
    confirming, \* the requests whose row a confirmation holds locked, past its checks
    lotJobs,    \* per worker: the clock and the unvisited ids of an expire_lots run
    requestJobs \* per worker: the same of an expire_pending run

vars == <<now, orgStatus, program, state, lots, txs, requests, lotJobs, requestJobs, confirming>>

-----------------------------------------------------------------------------
(* Rows *)

None == 0
LotId == 1..MaxLots
NoSplit == [l \in LotId |-> 0]
Idle == [at |-> 0, ids |-> {}]

LotStatus == {"ACTIVE", "SPENT", "EXPIRED", "CANCELLED"}
RequestStatus == {"PENDING", "CONFIRMED", "REJECTED", "EXPIRED", "CANCELLED"}
TxType == {"CASHBACK_EARN", "CASHBACK_SPEND", "CASHBACK_EXPIRE", "REVERSAL"}

State == [available : Int, earned : Nat, spent : Nat, expired : Nat]

Lot == [original : Nat, remaining : Nat, status : LotStatus, expiresAt : Nat, source : Nat]

\* metadata.consumed_lots of a CASHBACK_SPEND: how much was taken from each lot.
Split == [LotId -> Nat]

\* lot, redemption, consumed and unrecoverable are keys of the JSON metadata;
\* related is related_transaction.
Tx == [type : TxType, status : {"COMPLETED", "REVERSED"}, amount : Int, lot : Nat,
       consumed : Split, redemption : Nat, related : Nat, unrecoverable : Int]

Request == [status : RequestStatus, spend : Nat, earn : Nat, expiry : Nat,
            expiresAt : Nat, resolvedAt : Nat, result : SUBSET Nat]

Job == [at : Nat, ids : SUBSET Nat]

\* The run after it has been through one id.
Visited(job, id) == IF job.ids = {id} THEN Idle ELSE [job EXCEPT !.ids = @ \ {id}]

NewLot(amount, expiry, source) ==
    [original |-> amount, remaining |-> amount, status |-> "ACTIVE",
     expiresAt |-> now + expiry, source |-> source]

BlankTx(type, amount) ==
    [type |-> type, status |-> "COMPLETED", amount |-> amount, lot |-> None,
     consumed |-> NoSplit, redemption |-> None, related |-> None, unrecoverable |-> 0]

EarnTx(amount, lot, redemption) ==
    [BlankTx("CASHBACK_EARN", amount) EXCEPT !.lot = lot, !.redemption = redemption]

SpendTx(amount, split, redemption) ==
    [BlankTx("CASHBACK_SPEND", amount) EXCEPT !.consumed = split, !.redemption = redemption]

ExpireTx(amount, lot) == [BlankTx("CASHBACK_EXPIRE", amount) EXCEPT !.lot = lot]

MutReversalSign(amount, original, unrecoverable) ==
    [BlankTx("REVERSAL", -amount) EXCEPT !.related = original, !.unrecoverable = unrecoverable]

ReversalTx(amount, original, unrecoverable) ==
    [BlankTx("REVERSAL", amount) EXCEPT !.related = original, !.unrecoverable = unrecoverable]

-----------------------------------------------------------------------------
(* Money and the quote *)

\* money.apply_bps: a share in basis points, rounded down.
ApplyBps(amount, bps) ==
    IF amount <= 0 \/ bps <= 0 THEN 0 ELSE (amount * bps) \div 10000

AtLeastZero(n) == IF n < 0 THEN 0 ELSE n

\* The sum of a split.
Total(split) == SumTo(split, MaxLots)

\* Sum('remaining_amount') over the lots in ids.
Remaining(ids) ==
    SumTo([l \in DOMAIN lots |-> IF l \in ids THEN lots[l].remaining ELSE 0], Len(lots))

\* active_lots_qs at the current instant.
UsableLots ==
    {l \in DOMAIN lots : /\ lots[l].status = "ACTIVE"
                         /\ lots[l].remaining > 0
                         /\ lots[l].expiresAt > now}

AvailableAmount == Remaining(UsableLots)

\* order_by('expires_at', 'earned_at'), which is also the lots' Meta.ordering.
BurnsBefore(k, l) ==
    \/ lots[k].expiresAt < lots[l].expiresAt
    \/ lots[k].expiresAt = lots[l].expiresAt /\ k < l

\* The rows of _spend_lots_fifo's query, in its order.
BurnOrder ==
    CHOOSE order \in [1..Cardinality(UsableLots) -> UsableLots] :
        /\ \A l \in UsableLots : \E k \in DOMAIN order : order[k] = l
        /\ \A j, k \in DOMAIN order : j < k => BurnsBefore(order[j], order[k])

Lesser(m, n) == IF m <= n THEN m ELSE n

MutTakeAll(spent, l) == [left |-> 0, taken |-> [spent.taken EXCEPT ![l] = spent.left]]

\* One turn of the loop.  From the turn on at which it breaks nothing is taken.
TakeFrom(spent, l) ==
    LET take == Lesser(lots[l].remaining, spent.left) IN
    [left |-> spent.left - take, taken |-> [spent.taken EXCEPT ![l] = take]]

\* _spend_lots_fifo: what it takes from each lot, and the shortfall it raises on.
SpendLotsFifo(amount) ==
    LET order == BurnOrder
        spent[k \in 0..Cardinality(UsableLots)] ==
            IF k = 0 THEN [left |-> amount, taken |-> NoSplit]
            ELSE TakeFrom(spent[k - 1], order[k])
    IN  spent[Cardinality(UsableLots)]

MutConsumeUnsaved(lot, take) ==
    [lot EXCEPT !.status = IF take > 0 /\ take = lot.remaining THEN "SPENT" ELSE @]
MutConsumeStatus(lot, take) == [lot EXCEPT !.remaining = @ - take]

Consume(lot, take) ==
    [lot EXCEPT !.remaining = @ - take,
                !.status = IF take > 0 /\ take = lot.remaining THEN "SPENT" ELSE @]

\* A burnt or cancelled lot.
Emptied(lot, status) == [lot EXCEPT !.remaining = 0, !.status = status]

\* ensure_organization_operational; the loyalty type of this organization is CASHBACK.
Operational == orgStatus = "ACTIVE" /\ program.active

\* The checks of quote() that raise.
Quotable(total) == Operational /\ total > 0 /\ total >= program.minPurchase

EarnAmount(cashPaid) == ApplyBps(cashPaid, program.rate)

\* validate_spend.
SpendAllowed(total, spend) ==
    /\ spend <= total
    /\ spend <= AvailableAmount
    /\ spend <= ApplyBps(total, program.maxSpend)

\* The bounds on what the operations add.  The sweeps are not bounded by MaxTxs:
\* a lot burns at most once, so they add at most MaxLots entries more.
Room(newTxs, newLots) ==
    /\ Len(txs) + newTxs <= MaxTxs
    /\ Len(lots) + newLots <= MaxLots

-----------------------------------------------------------------------------
(* Purchases and redemption requests *)

\* earn_only.  A purchase too small to earn only touches the activity time.
EarnOnly(total) ==
    /\ Quotable(total)
    /\ LET earn == EarnAmount(total) IN
       /\ earn > 0
       /\ Room(1, 1)
       /\ txs' = Append(txs, EarnTx(earn, Len(lots) + 1, None))
       /\ lots' = Append(lots, NewLot(earn, program.expiry, Len(txs) + 1))
       /\ state' = [state EXCEPT !.available = @ + earn, !.earned = @ + earn]
    /\ UNCHANGED <<now, orgStatus, program, requests, lotJobs, requestJobs, confirming>>

\* create_cashback_request: quoted and validated now, carried out at confirm.
CreateCashbackRequest(total, spend) ==
    /\ Len(requests) < MaxRequests
    /\ Quotable(total)
    /\ spend > 0
    /\ SpendAllowed(total, spend)
    /\ requests' = Append(requests,
          [status |-> "PENDING", spend |-> spend, earn |-> EarnAmount(total - spend),
           expiry |-> program.expiry, expiresAt |-> now + Ttl,
           resolvedAt |-> 0, result |-> {}])
    /\ UNCHANGED <<now, orgStatus, program, state, lots, txs, lotJobs, requestJobs, confirming>>

\* A request that has left PENDING, with the result_transactions it stores.
Resolved(request, outcome, result) ==
    [request EXCEPT !.status = outcome, !.resolvedAt = now, !.result = result]

MutConfirmableTwice(r) == now < requests[r].expiresAt
MutConfirmableLate(r) == requests[r].status = "PENDING"

\* The checks of confirm on the locked request.
Confirmable(r) == requests[r].status = "PENDING" /\ now < requests[r].expiresAt

\* The entries apply_confirmed_redemption writes for request r: the spend and, if
\* the cash part earns, the earning.
RedemptionTxs(r, split) ==
    LET spendTx == SpendTx(requests[r].spend, split, r)
        earnTx == EarnTx(requests[r].earn, Len(lots) + 1, r)
    IN  IF requests[r].earn > 0 THEN <<spendTx, earnTx>> ELSE <<spendTx>>

\* apply_confirmed_redemption: the amounts and the expiry are those of the quote the
\* request was made from, the lots are those of this instant.
ApplyRedemption(r, split) ==
    LET spend == requests[r].spend
        earn == requests[r].earn
        spentLots == [l \in DOMAIN lots |-> Consume(lots[l], split[l])]
        added == RedemptionTxs(r, split)
    IN  /\ Room(Len(added), Len(added) - 1)
        /\ txs' = txs \o added
        /\ lots' = IF earn > 0
                   THEN Append(spentLots, NewLot(earn, requests[r].expiry, Len(txs) + 2))
                   ELSE spentLots
        /\ state' = [state EXCEPT !.available = @ - spend + earn,
                                  !.spent = @ + spend,
                                  !.earned = @ + earn]

\* confirm, up to the wait for the state row: the request's row is locked and the checks
\* are passed, of the deadline and of the organization.  On a CONFIRMED request it returns
\* the stored result; on an expired one _expire is rolled back by the exception that
\* follows it: neither changes a row.
BeginConfirm(r) ==
    /\ r \notin confirming
    /\ Confirmable(r)
    /\ Operational
    /\ confirming' = confirming \cup {r}
    /\ UNCHANGED <<now, orgStatus, program, state, lots, txs, requests, lotJobs, requestJobs>>

\* confirm, from lock_state on: the lots and the time are those of now, and neither the
\* deadline nor the organization is looked at again.
Confirm(r) ==
    /\ r \in confirming
    /\ LET spent == SpendLotsFifo(requests[r].spend)
           split == spent.taken
       IN  /\ spent.left = 0
           /\ ApplyRedemption(r, split)
           /\ requests' = [requests EXCEPT ![r] = Resolved(@, "CONFIRMED",
                 Len(txs) + 1 .. Len(txs) + Len(RedemptionTxs(r, split)))]
    /\ confirming' = confirming \ {r}
    /\ UNCHANGED <<now, orgStatus, program, lotJobs, requestJobs>>

\* The lots no longer cover the spend, or the connection is lost: rolled back.
AbandonConfirm(r) ==
    /\ r \in confirming
    /\ confirming' = confirming \ {r}
    /\ UNCHANGED <<now, orgStatus, program, state, lots, txs, requests, lotJobs, requestJobs>>

MutUnlocked(r) == TRUE

\* select_for_update of a request waits while a confirmation holds its row.
Unlocked(r) == r \notin confirming

\* reject by the client, cancel_by_admin: a CASHBACK request has no gift to release.
Resolve(r, outcome) ==
    /\ Unlocked(r)
    /\ requests[r].status = "PENDING"
    /\ requests' = [requests EXCEPT ![r] = Resolved(@, outcome, @.result)]

Reject(r) ==
    /\ Resolve(r, "REJECTED")
    /\ UNCHANGED <<now, orgStatus, program, state, lots, txs, lotJobs, requestJobs, confirming>>

CancelByAdmin(r) ==
    /\ Resolve(r, "CANCELLED")
    /\ UNCHANGED <<now, orgStatus, program, state, lots, txs, lotJobs, requestJobs, confirming>>

-----------------------------------------------------------------------------
(* Reversals *)

MutReversibleAgain(t, type) == txs[t].type = type

\* The checks of reverse_transaction on the locked entry.
Reversible(t, type) == txs[t].status = "COMPLETED" /\ txs[t].type = type

MutReversedUnmarked(t, compensation) == Append(txs, compensation)

\* reverse_transaction marks the original and adds the compensating entry.
Reversed(t, compensation) ==
    Append([txs EXCEPT ![t].status = "REVERSED"], compensation)

\* reverse_transaction / _reverse_cashback_earn.  force is the director's.
ReverseEarn(t, force) ==
    /\ Reversible(t, "CASHBACK_EARN")
    /\ Room(1, 0)
    /\ LET l == txs[t].lot
           withdrawn == lots[l].remaining
           spentPart == lots[l].original - lots[l].remaining
       IN  /\ spentPart > 0 => force
           /\ lots' = [lots EXCEPT ![l] = Emptied(@, "CANCELLED")]
           /\ txs' = Reversed(t, ReversalTx(-withdrawn, t, spentPart))
           /\ state' = [state EXCEPT !.available = AtLeastZero(@ - withdrawn),
                                     !.earned = AtLeastZero(@ - txs[t].amount)]
    /\ UNCHANGED <<now, orgStatus, program, requests, lotJobs, requestJobs, confirming>>

MutRestorableActive(split) ==
    {l \in DOMAIN lots : split[l] > 0 /\ lots[l].expiresAt > now /\ lots[l].status = "ACTIVE"}
MutRestorableUndated(split) ==
    {l \in DOMAIN lots : split[l] > 0 /\ lots[l].status \notin {"EXPIRED", "CANCELLED"}}

\* The lots of a split that _reverse_cashback_spend can give the amount back to.
Restorable(split) ==
    {l \in DOMAIN lots : /\ split[l] > 0
                         /\ lots[l].expiresAt > now
                         /\ lots[l].status \notin {"EXPIRED", "CANCELLED"}}

\* reverse_transaction / _reverse_cashback_spend.  What cannot be restored is lost.
ReverseSpend(t) ==
    /\ Reversible(t, "CASHBACK_SPEND")
    /\ Room(1, 0)
    /\ LET split == txs[t].consumed
           back == Restorable(split)
           restored == Total([l \in LotId |-> IF l \in back THEN split[l] ELSE 0])
       IN  /\ lots' = [l \in DOMAIN lots |->
                         IF l \in back
                         THEN [lots[l] EXCEPT !.remaining = @ + split[l], !.status = "ACTIVE"]
                         ELSE lots[l]]
           /\ txs' = Reversed(t, ReversalTx(restored, t, 0))
           /\ state' = [state EXCEPT !.available = @ + restored,
                                     !.spent = AtLeastZero(@ - txs[t].amount)]
    /\ UNCHANGED <<now, orgStatus, program, requests, lotJobs, requestJobs, confirming>>

-----------------------------------------------------------------------------
(* The sweeping jobs *)

\* The rows the queries of the two jobs select.
OverdueLot(l) ==
    l \in DOMAIN lots /\ lots[l].status = "ACTIVE" /\ lots[l].expiresAt <= now

OverdueRequest(r) ==
    r \in DOMAIN requests /\ requests[r].status = "PENDING" /\ requests[r].expiresAt <= now

\* expire_lots, the query: the first BatchSize lots due, in Meta.ordering.
StartLotSweep(w) ==
    LET due == {l \in DOMAIN lots : OverdueLot(l)} IN
    /\ lotJobs[w].ids = {}
    /\ due # {}
    /\ lotJobs' = [lotJobs EXCEPT ![w] =
          [at |-> now,
           ids |-> {l \in due : Cardinality({k \in due : BurnsBefore(k, l)}) < BatchSize}]]
    /\ UNCHANGED <<now, orgStatus, program, state, lots, txs, requests, requestJobs, confirming>>

MutBurnDueAnyStatus(lot, at) == lot.expiresAt <= at
MutBurnDueInverted(lot, at) == lot.status = "ACTIVE" /\ lot.expiresAt > at

\* The second look of a job's block at the row it has locked, by the run's own clock.
BurnDue(lot, at) == lot.status = "ACTIVE" /\ lot.expiresAt <= at

MutExpiryDueInverted(request, at) == request.status = "PENDING" /\ request.expiresAt > at

ExpiryDue(request, at) == request.status = "PENDING" /\ request.expiresAt <= at

\* expire_lots, one row: lock the lot, check it again, burn it.
ExpireLot(w, l) ==
    /\ l \in lotJobs[w].ids
    /\ lotJobs' = [lotJobs EXCEPT ![w] = Visited(@, l)]
    /\ IF BurnDue(lots[l], lotJobs[w].at)
       THEN /\ lots' = [lots EXCEPT ![l] = Emptied(@, "EXPIRED")]
            /\ LET amount == lots[l].remaining IN
               IF amount > 0
               THEN /\ txs' = Append(txs, ExpireTx(amount, l))
                    /\ state' = [state EXCEPT !.available = AtLeastZero(@ - amount),
                                              !.expired = @ + amount]
               ELSE UNCHANGED <<txs, state>>
       ELSE UNCHANGED <<lots, txs, state>>
    /\ UNCHANGED <<now, orgStatus, program, requests, requestJobs, confirming>>

\* expire_pending, the query.  The newest requests come first in Meta.ordering.
StartRequestSweep(w) ==
    LET due == {r \in DOMAIN requests : OverdueRequest(r)} IN
    /\ requestJobs[w].ids = {}
    /\ due # {}
    /\ requestJobs' = [requestJobs EXCEPT ![w] =
          [at |-> now, ids |-> {r \in due : Cardinality({q \in due : q > r}) < BatchSize}]]
    /\ UNCHANGED <<now, orgStatus, program, state, lots, txs, requests, lotJobs, confirming>>

\* expire_pending, one row.
ExpireRequest(w, r) ==
    /\ r \in requestJobs[w].ids
    /\ Unlocked(r)
    /\ requestJobs' = [requestJobs EXCEPT ![w] = Visited(@, r)]
    /\ IF ExpiryDue(requests[r], requestJobs[w].at)
       THEN requests' = [requests EXCEPT ![r] = Resolved(@, "EXPIRED", @.result)]
       ELSE UNCHANGED requests
    /\ UNCHANGED <<now, orgStatus, program, state, lots, txs, lotJobs, confirming>>

\* A worker dies, or a database error leaves the loop: the rows not yet visited are
\* dropped, the rows already committed stay.
AbortLotSweep(w) ==
    /\ lotJobs[w].ids # {}
    /\ lotJobs' = [lotJobs EXCEPT ![w] = Idle]
    /\ UNCHANGED <<now, orgStatus, program, state, lots, txs, requests, requestJobs, confirming>>

AbortRequestSweep(w) ==
    /\ requestJobs[w].ids # {}
    /\ requestJobs' = [requestJobs EXCEPT ![w] = Idle]
    /\ UNCHANGED <<now, orgStatus, program, state, lots, txs, requests, lotJobs, confirming>>

-----------------------------------------------------------------------------
(* The director and the clock *)

\* OrganizationBlockView / OrganizationUnblockView.
SetOrganizationStatus(status) ==
    /\ orgStatus # status
    /\ orgStatus' = status
    /\ UNCHANGED <<now, program, state, lots, txs, requests, lotJobs, requestJobs, confirming>>

\* OrganizationDetailView.patch with a cashback_program.
UpdateProgram(settings) ==
    /\ program # settings
    /\ program' = settings
    /\ UNCHANGED <<now, orgStatus, state, lots, txs, requests, lotJobs, requestJobs, confirming>>

Tick ==
    /\ now < MaxTime
    /\ now' = now + 1
    /\ UNCHANGED <<orgStatus, program, state, lots, txs, requests, lotJobs, requestJobs,
                   confirming>>

-----------------------------------------------------------------------------

Init ==
    /\ now = 0
    /\ orgStatus = "ACTIVE"
    /\ program \in Programs
    /\ state = [available |-> 0, earned |-> 0, spent |-> 0, expired |-> 0]
    /\ lots = <<>>
    /\ txs = <<>>
    /\ requests = <<>>
    /\ confirming = {}
    /\ lotJobs = [w \in LotWorkers |-> Idle]
    /\ requestJobs = [w \in RequestWorkers |-> Idle]

Next ==
    \/ \E total \in Amounts : EarnOnly(total)
    \/ \E total, spend \in Amounts : CreateCashbackRequest(total, spend)
    \/ \E r \in DOMAIN requests :
          BeginConfirm(r) \/ Confirm(r) \/ AbandonConfirm(r) \/ Reject(r) \/ CancelByAdmin(r)
    \/ \E t \in DOMAIN txs : ReverseSpend(t)
    \/ \E t \in DOMAIN txs, force \in BOOLEAN : ReverseEarn(t, force)
    \/ \E w \in LotWorkers :
          StartLotSweep(w) \/ AbortLotSweep(w) \/ \E l \in lotJobs[w].ids : ExpireLot(w, l)
    \/ \E w \in RequestWorkers :
          \/ StartRequestSweep(w)
          \/ AbortRequestSweep(w)
          \/ \E r \in requestJobs[w].ids : ExpireRequest(w, r)
    \/ \E status \in {"ACTIVE", "BLOCKED"} : SetOrganizationStatus(status)
    \/ \E settings \in Programs : UpdateProgram(settings)
    \/ Tick

Spec == Init /\ [][Next]_vars

\* Celery beat starts each job again and again, a free worker takes it, and a row's
\* block is retried by the next run until one run gets through it: a run may be cut
\* off, but not every run before its first row.  A confirmation that waits for the state
\* row comes to an end, one way or the other: the blocks it waits for are short.
Fairness ==
    /\ \A w \in LotWorkers :
          /\ WF_vars(StartLotSweep(w))
          /\ SF_vars(\E l \in lotJobs[w].ids : ExpireLot(w, l))
    /\ \A w \in RequestWorkers :
          /\ WF_vars(StartRequestSweep(w))
          /\ SF_vars(\E r \in requestJobs[w].ids : ExpireRequest(w, r))
    /\ \A r \in 1..MaxRequests : WF_vars(Confirm(r) \/ AbandonConfirm(r))

FairSpec == Spec /\ Fairness

-----------------------------------------------------------------------------
(* Properties *)

\* Every row has the shape of its model; the aggregate's totals never go negative.
TypeOK ==
    /\ now \in Nat
    /\ orgStatus \in {"ACTIVE", "BLOCKED"}
    /\ program \in Programs
    /\ state \in State
    /\ lots \in Seq(Lot) /\ Len(lots) <= MaxLots
    /\ txs \in Seq(Tx)
    /\ requests \in Seq(Request) /\ confirming \subseteq DOMAIN requests
    /\ lotJobs \in [LotWorkers -> Job]
    /\ requestJobs \in [RequestWorkers -> Job]

Entries(type) == {t \in DOMAIN txs : txs[t].type = type}
Completed(type) == {t \in Entries(type) : txs[t].status = "COMPLETED"}
Sum(entries) ==
    SumTo([t \in DOMAIN txs |-> IF t \in entries THEN txs[t].amount ELSE 0], Len(txs))

\* organization_statistics of a CASHBACK organization over its whole life.
OrganizationStatistics ==
    [earned  |-> Sum(Completed("CASHBACK_EARN")),
     spent   |-> Sum(Completed("CASHBACK_SPEND")),
     expired |-> Sum(Completed("CASHBACK_EXPIRE")),
     active  |-> AvailableAmount]

\* What an entry adds to the balance.
Signed(tx) ==
    IF tx.type \in {"CASHBACK_SPEND", "CASHBACK_EXPIRE"} THEN -tx.amount ELSE tx.amount

\* The aggregate agrees with the ledger: the balance is what the entries add up to,
\* reversed originals and their compensations included ("the source of truth is
\* transactions and cashback_lots").
LedgerBalance ==
    state.available = SumTo([t \in DOMAIN txs |-> Signed(txs[t])], Len(txs))

\* The aggregate agrees with the lots: the balance is what the ACTIVE lots hold, so it
\* is never negative and the max(0, ...) clamps of expire_lots and reversal never bite.
AggregateMatchesLots ==
    state.available = Remaining({l \in DOMAIN lots : lots[l].status = "ACTIVE"})

\* The client's running totals are those the organization's statistics derive from the
\* entries that still stand, and the balances differ by the lots the sweep has yet to burn.
TotalsMatchLedger ==
    LET statistics == OrganizationStatistics
        overdue == {l \in DOMAIN lots : lots[l].status = "ACTIVE" /\ lots[l].expiresAt <= now}
    IN  /\ state.earned = statistics.earned
        /\ state.spent = statistics.spent
        /\ state.expired = statistics.expired
        /\ state.available - statistics.active = Remaining(overdue)

\* How much of lot l the standing spends have consumed.
ConsumedOf(l) ==
    SumTo([t \in DOMAIN txs |->
             IF t \in Completed("CASHBACK_SPEND") THEN txs[t].consumed[l] ELSE 0], Len(txs))

\* No tyiyn of a lot is spent twice or appears from nowhere, whatever spends, reversals
\* and re-spends came between: a live lot holds exactly what the standing spends left.
LotConservation ==
    \A l \in DOMAIN lots :
        /\ lots[l].remaining + ConsumedOf(l) <= lots[l].original
        /\ lots[l].status \in {"ACTIVE", "SPENT"} /\ lots[l].expiresAt > now
              => lots[l].remaining + ConsumedOf(l) = lots[l].original

\* A lot's status says what it holds, and the lot and its CASHBACK_EARN entry name
\* each other: _reverse_cashback_earn finds the lot it must cancel.
LotIntegrity ==
    \A l \in DOMAIN lots :
        /\ lots[l].remaining <= lots[l].original
        /\ (lots[l].status = "ACTIVE") <=> (lots[l].remaining > 0)
        /\ lots[l].source \in Entries("CASHBACK_EARN")
        /\ txs[lots[l].source].lot = l
        /\ txs[lots[l].source].amount = lots[l].original
        /\ (lots[l].status = "CANCELLED") <=> (txs[lots[l].source].status = "REVERSED")

\* A confirmed request has exactly one spend, of the amount the client agreed to, and
\* answers a repeated confirm with it; no other request has any entry.
ConfirmedOnce ==
    \A r \in DOMAIN requests :
        LET mine == {t \in DOMAIN txs : txs[t].redemption = r}
            spends == mine \cap Entries("CASHBACK_SPEND")
        IN  IF requests[r].status = "CONFIRMED"
            THEN /\ requests[r].result = mine
                 /\ \E t \in spends : spends = {t} /\ txs[t].amount = requests[r].spend
            ELSE mine = {} /\ requests[r].result = {}

\* A request whose deadline has passed before anybody began to confirm it.
Lapsed(r) ==
    /\ requests[r].expiresAt <= now
    /\ requests[r].status # "CONFIRMED"
    /\ r \notin confirming

\* A request is decided once.  A confirmation that looked at the deadline in time may end
\* after it, but one that has lapsed is never confirmed; and the sweep, which read its ids
\* and its clock before it waited for the row, expires only lapsed requests.
DeadlineRespected ==
    [][\A r \in DOMAIN requests :
          /\ requests[r].status # "PENDING" => requests'[r] = requests[r]
          /\ Lapsed(r) => Lapsed(r)'
          /\ requests'[r].status = "EXPIRED" /\ requests[r].status # "EXPIRED" => Lapsed(r)]_vars

\* A lot burns at most once, however many runs of the job overlap or are repeated
\* ("all jobs are idempotent"), and a burnt lot has its ledger entry.
BurnedOnce ==
    \A l \in DOMAIN lots :
        LET burns == {t \in Entries("CASHBACK_EXPIRE") : txs[t].lot = l} IN
        /\ Cardinality(burns) <= 1
        /\ lots[l].status = "EXPIRED" => burns # {}
        /\ burns # {} => lots[l].status \in {"EXPIRED", "CANCELLED"} /\ lots[l].expiresAt <= now

\* Deadlines are kept: value never flows back into a lot that is burnt, cancelled or
\* past its date, and leaves a lot past its date only by burning or cancelling it.
DeadLotsStayDead ==
    [][\A l \in DOMAIN lots :
          /\ lots[l].status \in {"EXPIRED", "CANCELLED"}
                => lots'[l].status \in {"EXPIRED", "CANCELLED"} /\ lots'[l].remaining = 0
          /\ lots[l].expiresAt <= now /\ lots'[l] # lots[l]
                => lots'[l].status \in {"EXPIRED", "CANCELLED"}]_vars

\* The ledger is append-only: an entry stays as written, but for its status going from
\* COMPLETED to REVERSED ("records are neither deleted nor edited").
LedgerAppendOnly ==
    [][/\ Len(txs') >= Len(txs)
       /\ \A t \in DOMAIN txs :
             \/ txs'[t] = txs[t]
             \/ /\ txs[t].status = "COMPLETED"
                /\ txs'[t] = [txs[t] EXCEPT !.status = "REVERSED"]]_vars

\* What the client sees of the rows.
Accruals ==
    {ApplyBps(total - spend, settings.rate) :
        total \in Amounts, spend \in Amounts \cup {0}, settings \in Programs}
Kind(type) ==
    CASE type = "CASHBACK_EARN" -> "accrual"
      [] type = "CASHBACK_SPEND" -> "spend"
      [] type = "CASHBACK_EXPIRE" -> "burn"
      [] type = "REVERSAL" -> "reversal"
AccountEntry(tx) ==
    [kind |-> Kind(tx.type), amount |-> Signed(tx), request |-> tx.redemption,
     reverses |-> tx.related]
AccountRequest(request) ==
    [spend |-> request.spend,
     status |-> CASE request.status = "PENDING" -> "PENDING"
                  [] request.status = "CONFIRMED" -> "SETTLED"
                  [] OTHER -> "DROPPED"]

Account == INSTANCE LoyaltyAccount WITH
    balance <- state.available,
    ledger <- [t \in DOMAIN txs |-> AccountEntry(txs[t])],
    requests <- [r \in DOMAIN requests |-> AccountRequest(requests[r])]

\* Lots, their dates, the order they are spent in, overlapping jobs and switched-off programs
\* do not show: every step is one of a plain account, or none of the client's business.
KeepsAccount == Account!Spec

\* Every lot past its date is burnt, spent or cancelled in the end, although runs of
\* the job take only a batch and may be cut off.
LotsBurn == \A l \in LotId : OverdueLot(l) ~> ~OverdueLot(l)

\* No request stays PENDING for ever past its deadline, although the batch is taken
\* from the newest ones.
RequestsResolve == \A r \in 1..MaxRequests : OverdueRequest(r) ~> ~OverdueRequest(r)

=============================================================================
