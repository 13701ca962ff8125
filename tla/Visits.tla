------------------------------- MODULE Visits -------------------------------
(***************************************************************************)
(* The VISIT engine for one client in one organization: visits, gifts and   *)
(* gift redemption (loyalty/services/{visits,redemptions,reversal}.py) over  *)
(* the rows of user_organization_states, gifts, transactions and            *)
(* redemption_requests, with the job that expires requests.                *)
(*                                                                         *)
(* As in Cashback, one action is one @transaction.atomic block, but for a   *)
(* confirmation, which waits for the state row between its two halves; a    *)
(* row's index is its key, None = 0 is NULL, and the Mut... operators are   *)
(* deliberate faults that no definition uses.                              *)
(***************************************************************************)
EXTENDS Integers, Sequences, FiniteSets

CONSTANTS
    Programs,       \* the settings a director may give the program
    Ttl,            \* REDEMPTION_TTL_SECONDS, in clock ticks
    BatchSize,      \* batch_size of expire_pending
    RequestWorkers, \* concurrent executions of cleanup_expired_redemptions
    MaxGifts,       \* bound: gifts the visits create
    MaxTxs,         \* bound: ledger length
    MaxRequests,    \* bound: redemption requests
    MaxTime         \* bound: the last tick of the clock

\* VisitProgram: the visits a gift takes, the gifts it gives.
Settings == [target : Nat \ {0}, rewards : Nat \ {0}, active : BOOLEAN]

ASSUME VisitsAssumption ==
    /\ Programs # {} /\ Programs \subseteq Settings
    /\ {Ttl, BatchSize} \subseteq Nat \ {0}
    /\ {MaxGifts, MaxTxs, MaxRequests, MaxTime} \subseteq Nat

VARIABLES
    now,        \* timezone.now(), in ticks
    orgStatus,  \* Organization.status
    program,    \* the organization's VisitProgram row
    state,      \* the UserOrganizationState row
    gifts,      \* Gift rows
    txs,        \* Transaction rows: the ledger
    requests,   \* RedemptionRequest rows
    confirming, \* the requests whose row a confirmation holds locked, past its checks
    requestJobs \* per worker: the clock and the unvisited ids of an expire_pending run

vars == <<now, orgStatus, program, state, gifts, txs, requests, requestJobs, confirming>>

-----------------------------------------------------------------------------
(* Rows *)

None == 0
Idle == [at |-> 0, ids |-> {}]

GiftStatus == {"AVAILABLE", "PENDING_REDEMPTION", "USED", "CANCELLED"}
RequestStatus == {"PENDING", "CONFIRMED", "REJECTED", "EXPIRED", "CANCELLED"}
TxType == {"VISIT_EARN", "GIFT_CREATED", "GIFT_REDEEM", "REVERSAL"}

\* visit_progress, total_visits, total_gifts_earned, total_gifts_used, available_gifts.
State == [progress : Nat, visits : Nat, earned : Nat, used : Nat, available : Nat]

\* source is source_transaction, redeem is redeem_transaction.
Gift == [status : GiftStatus, source : Nat, redeem : Nat]

\* gifts, target, gift and redemption are keys of the JSON metadata.
Tx == [type : TxType, status : {"COMPLETED", "REVERSED"}, gifts : SUBSET Nat, target : Nat,
       gift : Nat, redemption : Nat, related : Nat]

Request == [gift : Nat, status : RequestStatus, expiresAt : Nat, resolvedAt : Nat,
            result : SUBSET Nat]

Job == [at : Nat, ids : SUBSET Nat]

Visited(job, id) == IF job.ids = {id} THEN Idle ELSE [job EXCEPT !.ids = @ \ {id}]

BlankTx(type) ==
    [type |-> type, status |-> "COMPLETED", gifts |-> {}, target |-> 0, gift |-> None,
     redemption |-> None, related |-> None]

VisitTx(created) ==
    [BlankTx("VISIT_EARN") EXCEPT !.gifts = created, !.target = program.target]

GiftCreatedTx(visit, gift) ==
    [BlankTx("GIFT_CREATED") EXCEPT !.related = visit, !.gift = gift, !.target = program.target]

RedeemTx(gift, redemption) ==
    [BlankTx("GIFT_REDEEM") EXCEPT !.gift = gift, !.redemption = redemption]

ReversalTx(original) == [BlankTx("REVERSAL") EXCEPT !.related = original]

NewGift(source) == [status |-> "AVAILABLE", source |-> source, redeem |-> None]

AtLeastZero(n) == IF n < 0 THEN 0 ELSE n

\* ensure_organization_operational; the loyalty type of this organization is VISIT.
Operational == orgStatus = "ACTIVE" /\ program.active

Room(newTxs, newGifts) ==
    /\ Len(txs) + newTxs <= MaxTxs
    /\ Len(gifts) + newGifts <= MaxGifts

-----------------------------------------------------------------------------
(* Visits and gift requests *)

\* earn_visit.  One visit gives at most one round of gifts, however far the progress
\* is past the target.
EarnVisit ==
    LET reached == state.progress + 1 >= program.target
        n == IF reached THEN program.rewards ELSE 0
        visit == Len(txs) + 1
    IN  /\ Operational
        /\ Room(1 + n, n)
        /\ txs' = Append(txs, VisitTx(Len(gifts) + 1 .. Len(gifts) + n))
                    \o [i \in 1..n |-> GiftCreatedTx(visit, Len(gifts) + i)]
        /\ gifts' = gifts \o [i \in 1..n |-> NewGift(visit + i)]
        /\ state' = [state EXCEPT
              !.progress = @ + 1 - (IF reached THEN program.target ELSE 0),
              !.visits = @ + 1,
              !.earned = @ + n,
              !.available = @ + n]
        /\ UNCHANGED <<now, orgStatus, program, requests, requestJobs, confirming>>

MutRequestableHeld(g) == gifts[g].status \in {"AVAILABLE", "PENDING_REDEMPTION"}

\* The check of create_gift_request on the locked gift.
Requestable(g) == gifts[g].status = "AVAILABLE"

\* create_gift_request.  The bounds leave the clock room to reach every deadline.
CreateGiftRequest(g) ==
    /\ Len(requests) < MaxRequests
    /\ now + Ttl <= MaxTime
    /\ Operational
    /\ Requestable(g)
    /\ requests' = Append(requests,
          [gift |-> g, status |-> "PENDING", expiresAt |-> now + Ttl, resolvedAt |-> 0,
           result |-> {}])
    /\ gifts' = [gifts EXCEPT ![g] = [@ EXCEPT !.status = "PENDING_REDEMPTION"]]
    /\ UNCHANGED <<now, orgStatus, program, state, txs, requestJobs, confirming>>

\* A request that has left PENDING, with the result_transactions it stores.
Resolved(request, outcome, result) ==
    [request EXCEPT !.status = outcome, !.resolvedAt = now, !.result = result]

MutReleasedNever(gift) == gift

\* _release_gift.
Released(gift) ==
    IF gift.status = "PENDING_REDEMPTION" THEN [gift EXCEPT !.status = "AVAILABLE"] ELSE gift

\* confirm of a GIFT request, up to the wait for the state row: the request's row is locked,
\* the deadline and the organization are looked at.  A repeated confirm and a late one change
\* no row: the _expire of the late one is rolled back by the exception that follows it.
BeginConfirm(r) ==
    /\ r \notin confirming
    /\ requests[r].status = "PENDING"
    /\ now < requests[r].expiresAt
    /\ Operational
    /\ confirming' = confirming \cup {r}
    /\ UNCHANGED <<now, orgStatus, program, state, gifts, txs, requests, requestJobs>>

\* confirm of a GIFT request, from lock_state on.
Confirm(r) ==
    LET g == requests[r].gift IN
    /\ r \in confirming
    /\ gifts[g].status = "PENDING_REDEMPTION"
    /\ Room(1, 0)
    /\ txs' = Append(txs, RedeemTx(g, r))
    /\ gifts' = [gifts EXCEPT ![g] = [@ EXCEPT !.status = "USED", !.redeem = Len(txs) + 1]]
    /\ state' = [state EXCEPT !.available = AtLeastZero(@ - 1), !.used = @ + 1]
    /\ requests' = [requests EXCEPT ![r] = Resolved(@, "CONFIRMED", {Len(txs) + 1})]
    /\ confirming' = confirming \ {r}
    /\ UNCHANGED <<now, orgStatus, program, requestJobs>>

\* The connection is lost, or a statement fails: rolled back.
AbandonConfirm(r) ==
    /\ r \in confirming
    /\ confirming' = confirming \ {r}
    /\ UNCHANGED <<now, orgStatus, program, state, gifts, txs, requests, requestJobs>>

\* select_for_update of a request waits while a confirmation holds its row.
Unlocked(r) == r \notin confirming

\* reject by the client, cancel_by_admin, and the row of expire_pending: the request is
\* resolved and its gift released in one block.
Resolve(r, outcome) ==
    /\ requests' = [requests EXCEPT ![r] = Resolved(@, outcome, {})]
    /\ gifts' = [gifts EXCEPT ![requests[r].gift] = Released(@)]

Reject(r) ==
    /\ Unlocked(r)
    /\ requests[r].status = "PENDING"
    /\ Resolve(r, "REJECTED")
    /\ UNCHANGED <<now, orgStatus, program, state, txs, requestJobs, confirming>>

CancelByAdmin(r) ==
    /\ Unlocked(r)
    /\ requests[r].status = "PENDING"
    /\ Resolve(r, "CANCELLED")
    /\ UNCHANGED <<now, orgStatus, program, state, txs, requestJobs, confirming>>

-----------------------------------------------------------------------------
(* Reversals *)

MutReversibleAgain(t, type) == txs[t].type = type

\* The checks of reverse_transaction on the locked entry.
Reversible(t, type) == txs[t].status = "COMPLETED" /\ txs[t].type = type

MutReversedUnmarked(t) == Append(txs, ReversalTx(t))

\* reverse_transaction marks the original and adds the compensating entry.
Reversed(t) == Append([txs EXCEPT ![t] = [@ EXCEPT !.status = "REVERSED"]], ReversalTx(t))

MutVoidablePending(t) == \A g \in txs[t].gifts : gifts[g].status # "USED"

\* _reverse_visit refuses when a gift of the visit is used or held by a request.
Voidable(t) == \A g \in txs[t].gifts : gifts[g].status \notin {"USED", "PENDING_REDEMPTION"}

MutCompensatedUnclamped(progress, voided, target) ==
    IF voided # {} /\ target > 0 THEN progress + target - 1 ELSE progress - 1
MutCompensatedWithoutTarget(progress, voided, target) == AtLeastZero(progress - 1)

\* The progress after _reverse_visit.
Compensated(progress, voided, target) ==
    IF voided # {} /\ target > 0
    THEN AtLeastZero(progress + target - 1)
    ELSE AtLeastZero(progress - 1)

\* reverse_transaction / _reverse_visit.
ReverseVisit(t) ==
    LET voided == {g \in txs[t].gifts : gifts[g].status = "AVAILABLE"} IN
    /\ Reversible(t, "VISIT_EARN")
    /\ Voidable(t)
    /\ Room(1, 0)
    /\ gifts' = [g \in DOMAIN gifts |->
                   IF g \in voided THEN [gifts[g] EXCEPT !.status = "CANCELLED"] ELSE gifts[g]]
    /\ txs' = Reversed(t)
    /\ state' = [state EXCEPT
          !.progress = Compensated(@, voided, txs[t].target),
          !.visits = AtLeastZero(@ - 1),
          !.earned = AtLeastZero(@ - Cardinality(voided)),
          !.available = AtLeastZero(@ - Cardinality(voided))]
    /\ UNCHANGED <<now, orgStatus, program, requests, requestJobs, confirming>>

\* reverse_transaction / _reverse_gift_redeem.
ReverseRedeem(t) ==
    LET g == txs[t].gift IN
    /\ Reversible(t, "GIFT_REDEEM")
    /\ gifts[g].status = "USED"
    /\ Room(1, 0)
    /\ gifts' = [gifts EXCEPT ![g] = [@ EXCEPT !.status = "AVAILABLE", !.redeem = None]]
    /\ txs' = Reversed(t)
    /\ state' = [state EXCEPT !.available = @ + 1, !.used = AtLeastZero(@ - 1)]
    /\ UNCHANGED <<now, orgStatus, program, requests, requestJobs, confirming>>

-----------------------------------------------------------------------------
(* The job, the director and the clock *)

OverdueRequest(r) ==
    r \in DOMAIN requests /\ requests[r].status = "PENDING" /\ requests[r].expiresAt <= now

\* expire_pending, the query.  The newest requests come first in Meta.ordering.
StartRequestSweep(w) ==
    LET due == {r \in DOMAIN requests : OverdueRequest(r)} IN
    /\ requestJobs[w].ids = {}
    /\ due # {}
    /\ requestJobs' = [requestJobs EXCEPT ![w] =
          [at |-> now, ids |-> {r \in due : Cardinality({q \in due : q > r}) < BatchSize}]]
    /\ UNCHANGED <<now, orgStatus, program, state, gifts, txs, requests, confirming>>

ExpiryDue(request, at) == request.status = "PENDING" /\ request.expiresAt <= at

\* expire_pending, one row.
ExpireRequest(w, r) ==
    /\ r \in requestJobs[w].ids
    /\ Unlocked(r)
    /\ requestJobs' = [requestJobs EXCEPT ![w] = Visited(@, r)]
    /\ IF ExpiryDue(requests[r], requestJobs[w].at)
       THEN Resolve(r, "EXPIRED")
       ELSE UNCHANGED <<requests, gifts>>
    /\ UNCHANGED <<now, orgStatus, program, state, txs, confirming>>

\* A worker dies, or a database error leaves the loop.
AbortRequestSweep(w) ==
    /\ requestJobs[w].ids # {}
    /\ requestJobs' = [requestJobs EXCEPT ![w] = Idle]
    /\ UNCHANGED <<now, orgStatus, program, state, gifts, txs, requests, confirming>>

SetOrganizationStatus(status) ==
    /\ orgStatus # status
    /\ orgStatus' = status
    /\ UNCHANGED <<now, program, state, gifts, txs, requests, requestJobs, confirming>>

\* OrganizationDetailView.patch with a visit_program.
UpdateProgram(settings) ==
    /\ program # settings
    /\ program' = settings
    /\ UNCHANGED <<now, orgStatus, state, gifts, txs, requests, requestJobs, confirming>>

Tick ==
    /\ now < MaxTime
    /\ now' = now + 1
    /\ UNCHANGED <<orgStatus, program, state, gifts, txs, requests, requestJobs, confirming>>

-----------------------------------------------------------------------------

Init ==
    /\ now = 0
    /\ orgStatus = "ACTIVE"
    /\ program \in Programs
    /\ state = [progress |-> 0, visits |-> 0, earned |-> 0, used |-> 0, available |-> 0]
    /\ gifts = <<>>
    /\ txs = <<>>
    /\ requests = <<>>
    /\ confirming = {}
    /\ requestJobs = [w \in RequestWorkers |-> Idle]

Next ==
    \/ EarnVisit
    \/ \E g \in DOMAIN gifts : CreateGiftRequest(g)
    \/ \E r \in DOMAIN requests :
          BeginConfirm(r) \/ Confirm(r) \/ AbandonConfirm(r) \/ Reject(r) \/ CancelByAdmin(r)
    \/ \E t \in DOMAIN txs : ReverseVisit(t) \/ ReverseRedeem(t)
    \/ \E w \in RequestWorkers :
          \/ StartRequestSweep(w)
          \/ AbortRequestSweep(w)
          \/ \E r \in requestJobs[w].ids : ExpireRequest(w, r)
    \/ \E status \in {"ACTIVE", "BLOCKED"} : SetOrganizationStatus(status)
    \/ \E settings \in Programs : UpdateProgram(settings)
    \/ Tick

Spec == Init /\ [][Next]_vars

\* As in Cashback: time passes, the job is started again and again, not every run is cut off
\* before its first row, and a confirmation that waits for the state row comes to an end.
Fairness ==
    /\ WF_vars(Tick)
    /\ \A w \in RequestWorkers :
          /\ WF_vars(StartRequestSweep(w))
          /\ SF_vars(\E r \in requestJobs[w].ids : ExpireRequest(w, r))
    /\ \A r \in 1..MaxRequests : WF_vars(Confirm(r) \/ AbandonConfirm(r))

FairSpec == Spec /\ Fairness

-----------------------------------------------------------------------------
(* Properties *)

\* Every row has the shape of its model; the counters never go negative.
TypeOK ==
    /\ now \in Nat
    /\ orgStatus \in {"ACTIVE", "BLOCKED"}
    /\ program \in Programs
    /\ state \in State
    /\ gifts \in Seq(Gift)
    /\ txs \in Seq(Tx)
    /\ requests \in Seq(Request) /\ confirming \subseteq DOMAIN requests
    /\ requestJobs \in [RequestWorkers -> Job]

GiftsIn(statuses) == {g \in DOMAIN gifts : gifts[g].status \in statuses}
Standing(type) == {t \in DOMAIN txs : txs[t].type = type /\ txs[t].status = "COMPLETED"}

\* organization_statistics of a VISIT organization over its whole life.
OrganizationStatistics ==
    [visits    |-> Cardinality(Standing("VISIT_EARN")),
     used      |-> Cardinality(GiftsIn({"USED"})),
     available |-> Cardinality(GiftsIn({"AVAILABLE"}))]

\* The client's counters agree with the gifts and with the organization's statistics through
\* every confirmation, release and reversal: the max(0, ...) clamps never bite.
CountersMatch ==
    /\ state.visits = OrganizationStatistics.visits
    /\ state.used = OrganizationStatistics.used
    /\ state.available =
          OrganizationStatistics.available + Cardinality(GiftsIn({"PENDING_REDEMPTION"}))
    /\ state.earned = Cardinality(GiftsIn(GiftStatus \ {"CANCELLED"}))

\* A gift is held exactly while one pending request asks for it: it is not promised
\* twice, and no resolution, late sweep or reversal leaves it held for nobody or frees it
\* under a request the client may still confirm.
HeldByOneRequest ==
    \A g \in DOMAIN gifts :
        LET asking == {r \in DOMAIN requests :
                          requests[r].gift = g /\ requests[r].status = "PENDING"}
        IN  IF gifts[g].status = "PENDING_REDEMPTION"
            THEN \E r \in asking : asking = {r}
            ELSE asking = {}

\* A confirmed request has exactly one GIFT_REDEEM entry, for its own gift, and answers a
\* repeated confirm with it; a gift is USED exactly while one such entry stands, and names it.
RedeemedOnce ==
    /\ \A r \in DOMAIN requests :
          LET mine == {t \in DOMAIN txs : txs[t].redemption = r} IN
          /\ requests[r].result = mine
          /\ IF requests[r].status = "CONFIRMED"
             THEN \E t \in mine : mine = {t} /\ txs[t].gift = requests[r].gift
             ELSE mine = {}
    /\ \A g \in DOMAIN gifts :
          {t \in Standing("GIFT_REDEEM") : txs[t].gift = g}
             = IF gifts[g].status = "USED" THEN {gifts[g].redeem} ELSE {}

\* A gift is cancelled exactly when the visit that earned it is reversed: a used or
\* requested gift blocks the reversal, and a reversal leaves no gift behind.
CancelledWithVisit ==
    \A g \in DOMAIN gifts :
        LET visit == txs[gifts[g].source].related IN
        /\ g \in txs[visit].gifts
        /\ (gifts[g].status = "CANCELLED") <=> (txs[visit].status = "REVERSED")

\* What the client sees of the rows.
Rewards == {0} \cup {settings.rewards : settings \in Programs}
WalletGift(gift) ==
    CASE gift.status = "AVAILABLE" -> "FREE"
      [] gift.status = "PENDING_REDEMPTION" -> "HELD"
      [] gift.status = "USED" -> "USED"
      [] gift.status = "CANCELLED" -> "VOID"
WalletRequest(request) ==
    [gift |-> request.gift,
     status |-> CASE request.status = "PENDING" -> "PENDING"
                  [] request.status = "CONFIRMED" -> "SETTLED"
                  [] OTHER -> "DROPPED"]
WalletEntry(tx) ==
    CASE tx.type = "VISIT_EARN" ->
            [kind |-> "visit", gifts |-> tx.gifts, request |-> None, reverses |-> None]
      [] tx.type = "GIFT_CREATED" ->
            [kind |-> "gift", gifts |-> {tx.gift}, request |-> None, reverses |-> None]
      [] tx.type = "GIFT_REDEEM" ->
            [kind |-> "redeem", gifts |-> {tx.gift}, request |-> tx.redemption, reverses |-> None]
      [] tx.type = "REVERSAL" ->
            [kind |-> "reversal", gifts |-> {}, request |-> None, reverses |-> tx.related]

Wallet == INSTANCE GiftWallet WITH
    gifts <- [g \in DOMAIN gifts |-> WalletGift(gifts[g])],
    requests <- [r \in DOMAIN requests |-> WalletRequest(requests[r])],
    ledger <- [t \in DOMAIN txs |-> WalletEntry(txs[t])],
    counters <- [visits |-> state.visits, earned |-> state.earned, used |-> state.used,
                 available |-> state.available]

\* Targets, settings, clamps, sweeps and stale ids do not show: every step is one of a plain
\* wallet, in which an entry is reversed at most once, a gift is given, used and taken away
\* only with its entry and the counters are exact, or none of the client's business.
KeepsWallet == Wallet!Spec

\* No gift stays held for ever: the sweep gives it back if the client never answers.
GiftsComeBack ==
    \A g \in 1..MaxGifts :
        (g \in GiftsIn({"PENDING_REDEMPTION"})) ~> (g \notin GiftsIn({"PENDING_REDEMPTION"}))

\* The visits whose gifts stand, and what those gifts took off the card: for each as many
\* visits as its target was.
Giving == {t \in Standing("VISIT_EARN") : txs[t].gifts # {}}
TakenVisits == UNION {{t} \X (1..txs[t].target) : t \in Giving}

\* No visit is lost to the client: the visits that stand are still on the card or were taken
\* for gifts that stand, whatever targets the gifts had, and also when the visit that completed
\* a card is reversed after later ones.  The clamp of the progress errs in his favour.
NoVisitLost == state.visits <= state.progress + Cardinality(TakenVisits)

\* "The progress is compensated": with unchanging settings, the visits that stand are
\* those on the card and those the standing gifts took.
VisitsAccountedFor ==
    state.visits = state.progress + program.target * Cardinality(Giving)

=============================================================================
