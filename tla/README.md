# Verification of the AlaSoft Loyalty backend

This directory is a TLA+ development about the Django backend in `src/`: a
loyalty service in which an organization runs either a VISIT program (a card of
visits that earns gifts) or a CASHBACK program (purchases earn lots of cash-back
that burn after a while), the client confirms every redemption, administrators
and the director can reverse operations, and Celery jobs sweep what has expired.

Every definition is written from the Python code. `PROJECT.json` maps it to the
lines it stands for, lists the runs, the mutants, the hazards and the theorems.

    tlc -workers 4 -config MCCashbackLedger.cfg MCCashback.tla
    tlapm AccountProofs.tla

## 1. Inventory

| Component | State | Operations | Hard behaviour |
|---|---|---|---|
| Cash-back engine `loyalty/services/cashback.py` | `user_organization_states` (balance and totals), `cashback_lots`, `transactions` (the ledger) | `quote`, `earn_only`, `apply_confirmed_redemption` with `_spend_lots_fifo`, `expire_lots` | the same money is kept three times (aggregate, lots, ledger); FIFO across lots; lots burn while requests wait |
| Visit engine `loyalty/services/visits.py` | the same state row (card and counters), `gifts`, `transactions` | `earn_visit` | the program changes while a card is half full |
| Redemption requests `loyalty/services/redemptions.py` | `redemption_requests`, the status of the gift held | `create_*_request`, `confirm`, `reject`, `cancel_by_admin`, `expire_pending` | deadline against confirmation against sweep; repeated confirm; gift held and released |
| Reversal `loyalty/services/reversal.py` | entry marked REVERSED, a compensating entry, lots, gifts, counters | `reverse_transaction` of four types | reversals in any order, after burns, after re-spends |
| Jobs `loyalty/tasks.py`, `core/celery.py` | the ids and the clock of a run, outside the database | `expire_cashback_lots`, `cleanup_expired_redemptions`, `notify_expiring` | overlap, stale ids, crash in mid-batch, redelivery (`acks_late`) |
| Idempotency `common/idempotency.py` | `idempotency_records` | `run_idempotent`, `cleanup_idempotency_records` | several transactions around a handler; concurrent and repeated POSTs; death between them |
| Organizations, director `organizations/`, `director/views.py` | `organizations`, the two programs, `organization_admins` | create, patch, block, unblock, create/revoke admin, forced reversal | unlocked read-modify-write; checks and writes apart; every request of an administrator carries an old copy of its organization |
| Registration `users/services.py` | `otp_challenges`, `users` | request/verify/consume OTP, registration, PIN reset, cleanup | no lock on an account that does not exist yet; several transactions per request |
| Sessions and profile `users/views.py`, `users/services.py` | the user's row (PIN, failures, lock, QR), devices, refresh tokens | PIN login, PIN reset, refresh, logout, devices, PATCH of the profile, QR rotation | no transaction but the reset's: requests overlap between any two statements; full saves of a row read at authentication |
| Notifications `notifications/` | `notifications`, devices, the Celery queue | `notify_user`, `send_sms`, the two send tasks | queued after commit, provider errors after acceptance, retries, redelivery |
| Audit, statistics, resolve, screens, rendering, settings, commands | audit rows or none | rows written or read beside the operations | no decision depends on them |

How they interact: an administrator's POST passes authentication, finds the
organization from the administrator's membership (never from the body), enters
`run_idempotent` and inside it one service function, which is one
`@transaction.atomic` block. The block checks the organization and its program,
locks the rows it decides on with `SELECT ... FOR UPDATE` (the request, the lot, the
entry, the gift) and the client's state row (`lock_state`), writes rows, an audit row and
notification rows, and commits; push tasks are queued by `on_commit`. The client
confirms through his own endpoints. Beat starts the sweeping jobs, which touch the
same rows from their own processes.

What makes each correct:

* **cash-back** – balance = sum of ACTIVE lots = sum of the ledger; totals = standing
  entries; no part of a lot is spent twice; burnt and cancelled lots stay empty;
* **visits** – counters = gifts and standing entries; a gift is promised to one request at
  a time, used under one standing entry, cancelled with its visit;
* **requests** – confirmed once, with the agreed amount, by a confirmation that began before the
  deadline; resolved in the end;
* **reversal** – each entry reversed at most once, by one compensation, and the ledger is
  never otherwise edited;
* **jobs** – a lot burns once however runs overlap or die, and every overdue row is
  reached in the end;
* **organizations** – the program of an organization's type exists; a setting changes only by a
  request that names it; one active administrator per organization and per user; an
  administrator reverses only entries of the organization that let him in;
* **registration** – a confirmation is used once, for its own phone and purpose; a phone is
  registered once; open challenges are closed in the end;
* **idempotency** – an operation is carried out once per key, and a repetition gets the
  answer of that very operation;
* **sessions** – a token that was exchanged is dead; a device that was logged out stays silent
  until it is enrolled again; a new PIN, QR code or lock is not taken back by an older request;
* **notifications** – what is settled is not sent again, and no message more often than its list of devices
  or its retries allow; every notification settles unless its task is lost.

## 2. Modules

| Module | What it is |
|---|---|
| `Sums` | the sum of a table's column, as a recursive function |
| `LoyaltyAccount` | the abstract specification: an account with a balance, entries and requests, without lots, dates, programs or jobs |
| `Cashback` | one client of a CASHBACK organization: quotes, purchases, requests, confirmation, reversals of earnings and spends, both sweeps, the director, the clock; `KeepsAccount` instantiates `LoyaltyAccount` |
| `GiftWallet` | the abstract specification of the other: gifts, requests, entries and counters, without targets, settings, clamps or jobs |
| `Visits` | one client of a VISIT organization: visits, gifts, requests, reversals of visits and redemptions, the sweep, the director, the clock; `KeepsWallet` instantiates `GiftWallet` |
| `Idempotency` | the steps of `run_idempotent` in several threads, crashes, the cleanup |
| `Organizations` | the tenants: PATCH in four steps, block, grants and revocations in two, requests of administrators from authentication to operation or reversal, reversals by the director |
| `Registration` | challenges, right and wrong codes, registration in two steps, PIN reset, cleanup, the clock |
| `Sessions` | one registered client: logins, refreshes, logouts, devices, PATCH, QR rotation, statement by statement in several threads |
| `Notifications` | rows, callbacks after commit, the broker's bag of tasks, workers that send, retry, die; devices |
| `MCCashback`, `MCVisits`, `MCIdempotency`, `MCOrganizations`, `MCRegistration`, `MCSessions`, `MCNotifications` | small instances for TLC |
| `CashbackProofs`, `AccountProofs` | the cash-back engine: rows and money; then, on top of it, lots, requests and the refinement |
| `VisitsProofs`, `IdempotencyProofs` | the visit engine; `run_idempotent` |
| `OrganizationsProofs`, `RegistrationProofs` | the tenants; registration |
| `SessionsProofs`, `NotificationsProofs` | the sessions; the notifications |

### One action is one transaction

Every block that touches a client's balance holds the row lock of what it decides on and
of the state row, at READ COMMITTED, so two blocks of one client that touch the same rows
take effect one after the other. A block that raises is rolled back and has no action. A sweep is
*not* one block: `StartLotSweep` is its query (the ids and `now` of that instant),
`ExpireLot` is one iteration with its second look at the locked row and with the *run's*
clock, `AbortLotSweep` is the death of the worker. The same holds of requests.
`confirm` is one block with a wait in it: it locks the request, looks at its status, its deadline and
the organization (`BeginConfirm`), and only then waits for the state row (`lock_state`), after which it reads
the lots and stamps the request by a later clock (`Confirm`). Between the two anything may happen but what
wants the same request: `confirming` is the set of the rows held, and `Reject`, `CancelByAdmin` and
`ExpireRequest` ask `Unlocked`. `AbandonConfirm` rolls a confirmation back: the lots no longer cover it, or the
process dies. The other blocks read what they act on under the lock they decide by, the organization excepted. `create_cashback_request`
locks nothing: its quote is that of an instant, which is why a confirmation looks at the lots anew, and the action takes the
INSERT for that instant.

`run_idempotent` is not one block either: `Insert`, `Lookup`, `Commit`, `Respond`,
`Save` and `Forget` are separate steps, and `Crash` may come between any two.

Some blocks decide on rows they have not locked, and these are cut where the database lets
others in. `OrganizationDetailView.patch` is `PatchRead` (the SELECT), `PatchCheck` (the query for
transactions), `PatchSave` (the UPDATE, which waits for the row lock, and the lookup of the program)
and `PatchCommit`; `OrganizationAdminView.post` is `GrantRead` and `GrantCommit`, which the unique
constraints guard; `complete_registration` is `RegisterRead` and `RegisterCommit` under the
lock of the challenge; `request_otp`, which has no transaction at all, is `RequestOtp`, `RetireOlder` and
`InsertChallenge`. `PatchAbort`, `GrantAbort` and `Die` roll a block back at any point.

Of the session requests only `reset_pin` is a transaction. In `Sessions` the others are cut into the
statements they make: what a request read at its start (`row`, a token's state) travels in its thread, each
save is an action that names its columns, and `Die` may end a request between any two. A push or SMS
task is cut the same way: taking it, one call of a provider, switching a device off, saving the row, the
retry, the acknowledgement; `CutOff` ends it anywhere and the broker may deliver it again. With
`CELERY_TASK_ACKS_LATE` on Redis the broker may also deliver it while its worker goes on (`Redeliver`), since
nothing but a lost connection or the visibility timeout tells it so.

Two clients share no row but the organization's, which the blocks only read, so a module
is about one client in one organization.

### Correspondence

* Rows are records in sequences; the index stands for the primary key and the order of
  creation; `None = 0` is NULL. JSON metadata is reduced to the keys the code reads
  again: the lot of an earning, `consumed_lots` of a spend (`consumed`, an amount per
  lot), the gifts of a visit, `unrecoverable_spent_part`.
* Money is integers (tyiyn) and `ApplyBps` is the floor of `amount * bps / 10000`, as in
  `common/money.py`.
* `SpendLotsFifo(amount)` is the loop of `_spend_lots_fifo`, turn by turn over the rows in the order
  of its query (`BurnOrder`). What it is for, everything from the lots that burn first and the rest from
  the last one touched, is `FifoSplits` in `CashbackProofs`, and proved of it.
* In the mapping of `KeepsWallet` a request that was rejected, cancelled or expired is DROPPED, an entry
  keeps its gifts, its request and what it reverses, and the progress, the targets, the deadlines and the jobs do
  not show. A step of the sweep that finds nothing to do, like a change of the program, is a stutter.
* Purchases too small to earn only touch the activity time and change nothing else, so
  `EarnOnly` has no such step.
* A `confirm` that arrives late calls `_expire` and then raises inside the same
  transaction (`redemptions.py:174`): nothing is written, and the action does not exist.
  The row stays PENDING until the sweep, which is why `RequestsResolve` and
  `GiftsComeBack` are liveness properties of the *sweep*.
* In `Cashback` and `Visits` the organization's check and the operation are one step. In the code
  the organization is read at authentication; `Organizations` has the two apart, with the
  operation reduced to its entry (`Authenticate`, `Operate`). `Reverse` names any entry of any organization, as
  the URL does, and `OfTenant` is the check of `reversal.py:67`; the entry's client and amounts are the engines'.
* In `Organizations` a program's numbers are one value (`terms`), a request of an
  administrator remembers the membership and the organization it was authenticated with
  (`user._active_admin_membership`), and `blocked` is a history: what the director blocked
  and has not unblocked.
* In `Registration` a code is right or wrong; `wrong` is a history of the wrong ones entered for a
  challenge, while `attempts` is the column, which the rolled-back block never changes (finding 4);
  `pins` is a history of the PINs set and the confirmations used for them. A deleted challenge stays in the sequence with
  `live = FALSE`, so that indices keep naming rows.
* In `Sessions` PINs, QR codes and refresh tokens are numbers in the order they were made, so that an
  older value is a smaller one. PIN hashes are taken to use the current parameters of the hasher, so
  that `check_pin` never saves a new hash (`users/models.py:121-128`).
* In `Notifications` `accepted`, `lost`, `again` and `shared` are histories: how often a provider took the message,
  whether a task was lost with its worker or its dispatch, whether one was delivered again, and whether a push was
  so while a worker still had it.
* `KeepsAccount` is the refinement of `LoyaltyAccount`: the balance is `state.available`, an entry is its kind,
  signed amount, request and the entry it reverses, a request is its spend and open, settled or
  dropped. Lots, their dates, the split of a spend, the programs, the clock and the jobs have no image: a
  query of a job, a tick or an empty burn is a stuttering step. `Accruals` is what a purchase of the
  given amounts can earn under the given programs.
* `OrganizationStatistics` of both engines is `organization_statistics` without its
  period; the client's counters are compared with it.

## 3. Runs

| Run | Instance | What it asks |
|---|---|---|
| `cashback_ledger` | 3 lots, ledger of 5, 1 request, 1 sweep, clock 0..2, two lifetimes of lots | agreement of aggregate, lots and ledger in every order of operations; a request has its own entries, once; dead lots stay dead; the refinement of `LoyaltyAccount` |
| `cashback_sweeps` | 2 lots that outlive their requests by a tick, 2 requests, 2 lot sweeps and 1 request sweep with batches of one, clock 0..2, half of a purchase payable by cash-back | overlapping sweeps on stale ids; requests decided once and on the right side of their deadlines although confirmations wait after their checks; every overdue lot and request is reached although runs die |
| `visits` | 3 programs (card of 2, two gifts at once, switched off), 2 gifts, 2 requests, ledger of 7 | agreement of gifts, requests, counters and ledger; no visit is lost to the client; the refinement of `GiftWallet`; gifts come back |
| `visits_lost` | one unchanging card of 2 | a statement of the docs, violated (finding 1) |
| `idempotency` | 2 threads, 1 key, 2 bodies, 3 POSTs, retention of 1 | one effect per key unless a handler failed after its commit, faithful answers, no key locked for ever |
| `idempotency_late` | the same | one effect per key without that exception: the documented promise, violated (finding 2) |
| `organizations` | 2 organizations, 2 users, 2 PATCHes, 2 grants, 1 request of an administrator, ledger of 3, 2 values of the settings, `PatchesOrGrants` | the program of the type exists; no setting is written back; one active administrator per organization and user; tenant isolation of reversals, each entry reversed once; clients stay clients |
| `organizations_block` | 1 organization, 1 value of the settings | a statement of the docs, violated (finding 3) |
| `registration` | 1 phone, 2 threads, 3 challenges, one wrong code for the last, clock 0..3, retention longer than both lifetimes | confirmations used once, a phone registered once, challenges closed in the end |
| `registration_attempts` | the same with a limit of 2 wrong codes | what a test says of the limit, violated (finding 4) |
| `sessions` | 1 device, 2 threads, 3 tokens, 2 PINs, 2 QR codes, 2 attempts, `RowOrTokens` | exchanged tokens are dead; logged-out devices are silent; only a PATCH takes a PIN or QR code back |
| `notifications` | 2 devices, 2 workers, 1 retry, 2 notifications, 1 task cut off or delivered to a second worker | what is settled is not sent again, and nothing more often than it may be; every notification settles |

**Bounds.** `MaxLots`, `MaxTxs`, `MaxRequests`, `MaxGifts`, `MaxTime`, `MaxSends`, `MaxTokens`, `MaxNotes` and
the others named `Max...` cap the sequences and the clock; each is a guard of the operations that add rows, and the
sweeps are exempt so that the bound never stops them. Amounts are chosen so that a purchase of 3
earns 2 (or 1 beside a spend of 1): two lots of 2 are crossed by a spend of 3, which
leaves one lot exhausted and the next partly spent. The two lifetimes let a younger lot burn
before an older one. Three time steps are enough to have a lot live, due and burnt under a
sweep whose clock is behind, which happens in `cashback_ledger`; in `cashback_sweeps` the lots live two ticks and
the requests one, so that a late confirmation would find its lots alive. Two sweeps are the least that overlap; the third would
only repeat the second. So are two PATCHes, two grants and two session requests: each action looks at its own
thread, the row and the lock. Two memberships are enough for an administrator to be replaced. In `cashback_sweeps`
the batch of one makes every second row wait for another run, which is what the liveness of the
sweeps is about. With one phone the registrations compete for it; phones share nothing but the constants.

Two instances have a state constraint, which cuts a product of two halves that do not meet.
`PatchesOrGrants`: once a PATCH has been sent there is one organization with at most one membership
and no grant under way, and one entry; a PATCH touches no membership, and a grant or a revocation of an organization only
needs that it exists. Before the first PATCH, at most one grant is under way once there is an entry: two grants compete
for memberships and phones, of which an entry only remembers the one it was made with. A ledger of three has two
entries, of one organization or two, and the reversal of one, or an entry reversed twice. `RowOrTokens`: a second refresh token is issued only while the user's row is as
it was at the start; no statement reads the row and the tokens both. Neither run has a liveness
property, which a constraint could make pass vacuously.

**Deadlock** is not checked: the clock and the bounds run out.

**Fairness.** `WF` of the end of a confirmation, one way or the other: a transaction does not hold its locks for ever,
since the statements it waits for end and a lost connection rolls it back. `WF` of starting a sweep: beat puts the task in the queue every minute or every
fifteen minutes and a worker takes it. `SF` of the rows of a started run: a run may be cut
off, even again and again, but not every run before its first row; with only `WF`, an
endless series of workers dying at once would be allowed, and no code survives that. `Visits` also
has `WF(Tick)` since a gift must come back although nobody does anything but wait. In
`Idempotency` and `Registration` only the clock and the periodic cleanup are fair; no thread is. In `Notifications`
there is `WF` of the work of every worker, since each call of a provider has a timeout
(`providers/sms.py`, `providers/push.py`) and Celery goes on to the next task, and of the callback of a committed request,
which runs or dies with its process; workers may still be cut off or have their task delivered to another, up to `MaxFaults` times. `Sessions` and `Organizations`
have no liveness property and no fairness. No fairness is assumed of clients, administrators or the director.

**Mutants.** Every property of a passing run is violated when one definition is replaced by a
fault of the kind a developer makes (a dropped status check, an unsaved field, a sign, an
off-by-one in a guard); these are the `Mut...` operators, and no definition uses them.

## 4. What is proved

**Cash-back.** For every value of the constants that meets `CashbackAssumption` (any set of
programs, any positive amounts, any batch size, any number of workers). All of `Cashback`'s safety
properties are theorems, and so is the refinement. Two theorems say more than a run asks: `SpendsFifoCorrect`,
that the loop of `_spend_lots_fifo` takes from the lots that burn first and fails exactly for what the usable
lots lack, and `LedgerAppendOnlyCorrect`, that an entry changes only by the mark of its reversal.

| Module | Invariant | Theorems |
|---|---|---|
| `CashbackProofs` (the rows) | `RowsOK`, `LockedPending` | `TypeCorrect`, `LockedPendingCorrect`, `DeadlineCorrect` (`DeadlineRespected`), `LedgerAppendOnlyCorrect`, `SpendsFifoCorrect` |
| `CashbackProofs` (the money) | `MoneyOK` | `LedgerBalanceCorrect`, `AggregateMatchesLotsCorrect`, `TotalsMatchLedgerCorrect` |
| `AccountProofs` (the lots) | `LotsOK` | `LotIntegrityCorrect`, `LotConservationCorrect`, `BurnedOnceCorrect`, `DeadLotsStayDeadCorrect` |
| `AccountProofs` (the account) | `AccountOK` | `ConfirmedOnceCorrect`, `KeepsAccountCorrect` |

No property is inductive by itself; each invariant adds to the one before what the next properties need.

* `RowsOK`: every reference of an entry and of a lot points at a row, the ids of a run are rows, and its clock
  is not ahead of `now`. `ReverseEarn` leaves a lot well formed only if the entry names one; a
  sweep keeps the deadline only if its clock is past.
* `LockedPending`: a request whose confirmation waits is PENDING. `Confirm` does not look at the status again, so that a
  request is decided once (`DeadlineRespected`) and settled once (`ConfirmedOnce`) only because the row is held.
* `MoneyOK`: the balance, what the lots hold and what the ledger adds up to are equal, and so are the
  totals and the standing entries. The three move by one amount in every step; that amount is what the step takes
  from ACTIVE lots, so `StatusMatches` (a lot is ACTIVE as long as it holds something) is part of it, and
  that entries other than compensations are not negative. From it follows that the `max(0, ...)` clamps never bite.
* `LotsOK`: a lot and its earning name each other and agree on the amount (`Linked`); what a lot holds and what the
  standing spends took from it is at most what it was created with, and exactly that while the lot is
  live (`Conserved`); a burnt lot has one burn, dated after its end (`Burnt`); no spend took from a lot that
  did not exist yet (`SharesKnown`), without which a new lot might start in debt. The reversal of a spend keeps
  `Conserved` because `Restorable` looks at status and date of each lot, and `Tick` because the
  equality is claimed only of lots before their date.
* `AccountOK`: a request has exactly the entries it answers with, what was compensated is marked, a spend is the sum of
  what it took, a request earns what some quote said (`Records`).

`StepAccount` then maps each action to one of `LoyaltyAccount` or to a stutter: the balance covers a request
since the usable lots are a part of what the ACTIVE lots hold (`CreateAsks`), a reversal of an
earning takes back no more than the balance has (`ReverseEarnShows`), and no entry is reversed twice since a
compensated one is marked (`ReversalShows`).

**Visits.** For any settings the model admits, any batch and any number of workers:

* `TypeCorrect`: `Spec => []TypeOK`, so that no counter goes below zero;
* `HeldByOneRequestCorrect`: `Spec => []HeldByOneRequest`, which no run asks for since `KeepsWallet` implies it;
* `RedeemedOnceCorrect`: `Spec => []RedeemedOnce`;
* `CancelledWithVisitCorrect`: `Spec => []CancelledWithVisit`;
* `CountersMatchCorrect`: `Spec => []CountersMatch`;
* `NoVisitLostCorrect`: `Spec => []NoVisitLost`, what remains true of finding 1: the clamp never costs the client a visit;
* `KeepsWalletCorrect`: `Spec => KeepsWallet`, the refinement of `GiftWallet`.

`RowsOK` (shapes, references between rows that exist, and `LockedPending`) comes first. Each action is then described by what it does to the tables
(`StepOfTables`: a visit with or without gifts, a request, an answer, a reversal of either kind), so that
the invariants are proved over a handful of shapes, not over every handler. None of them is inductive alone:
that a gift is held by one request needs that a sweep looks at the locked row again; that a redemption stands
for its gift needs the request that names it; that a cancelled gift has a reversed visit needs
that a visit and its gifts name each other; and the counters are cardinalities of sets of
rows, which each shape changes by exactly the rows it adds or moves. `NoVisitLost` compares two counters with what the
gifts took, a cardinality too: a visit that completes its card takes its own target, whatever the target was before and is
later, and a reversal gives that very number back, since all gifts of a visit go together (`AllGone`).

The refinement needs all of these at once (`WalletOK`), and that what was compensated is marked (`ReversalsMark`): the
wallet reverses an entry only if no other entry reverses it, the code only if it is not marked. `StepWallet` maps each shape
to one step: a gift that an open request names is HELD (`Held`), a visit that is reversed loses all it brought
(`Linked`, `AllGone`), and the counters are never clamped (`Counted`).

**Idempotency.** For any threads, keys, bodies and retention, with a crash between any two steps:

* `TypeCorrect`: `Spec => []TypeOK`, with the unique constraint;
* `RepeatedOnlyAfterFailureCorrect`: `Spec => []RepeatedOnlyAfterFailure`;
* `AnswersFaithfulCorrect`: `Spec => []AnswersFaithful`.

The invariant `IdempotencyOK` is about why a record is gone. `GoneForAReason`: it was past the retention, or it is given
up, which means that all its operations failed and no thread owns it any more. From this and the unique
constraint follows `Succession`: of two records of one key, the earlier was too old for the later one, or given up.
`OwnRecords` says what a thread knows of its record at each step (that nothing was committed under it
yet, or which operation was), and `OneOperation` that a record never has two; without them a record might be given
up while its operation stands.

**Tenants.** For any organizations, phones, values of the settings and numbers of threads
(`OrganizationsAssumption`):

* `ProgramOfTypeCorrect`: `Spec => []ProgramOfType`;
* `ProgramEditsKeptCorrect`: `Spec => ProgramEditsKept`;
* `TypeCorrect`: `Spec => []TypeOK`, which contains the two uniqueness constraints on
  active memberships;
* `TenantIsolationCorrect`: `Spec => []TenantIsolation`;
* `ClientsStayClientsCorrect`: `Spec => ClientsStayClients`.

The invariant has two halves that a step changes one at a time. `DirectorInv` says of the PATCH
requests that at most one per organization is between its UPDATE and its commit (the row
lock), and that the program it found is therefore still the one in the table: without it, neither
that the commit leaves the program of the new type nor that it restores no old setting
follows. `AdminInv` says that memberships, grants, revocations, requests and entries point at rows that
exist, and that an account which a grant found to exist is an administrator's: this and the
unique phone are what keeps a client a client. `LedgerOK` in it says that the entry a compensation
names is marked REVERSED, which is why no second one can name it; and a membership never changes its organization, which is why the one a
request was let in with is still the one to compare with.

**Registration.** For any phones, threads and lifetimes:

* `PinsVerifiedCorrect`: `Spec => []PinsVerified`;
* `RegisteredOnceCorrect`: `Spec => []RegisteredOnce`;
* `TypeCorrect`: `Spec => []TypeOK`.

`RegisterCommit` uses its challenge without a second look at it, so `PinsVerified` needs `Held`: the
challenge that a registration under way has locked stays the confirmed one it saw, whatever the
cleanup, other requests and resets do. `RegisteredOnce` needs only the unique phone: without an account
there is nothing that two registrations could both lock.

**Sessions.** For any devices, threads, limits and lockout (`SessionsAssumption`):

* `RotatedDeadCorrect`: `Spec => []RotatedDead`;
* `LoggedOutSilentCorrect`: `Spec => LoggedOutSilent`;
* `StaleWritesCorrect`: `Spec => StaleWrites`;
* `TypeCorrect`: `Spec => []TypeOK`.

The invariant `SessionsOK` says what the copy is worth that a request carries between its statements. No row, in the table or in a
thread, has a PIN or QR code that is yet to be made, nor a lock longer than a lockout (`RowIn`); a login counts or clears
failures only on a row it saw unlocked; a refresh that looks for its device or issues a token has already blacklisted the old one
(`RequestIn`). `RotatedDead` is not inductive without the last, and `StaleWrites` needs the first two: a count that locks the
account sets the longest lock there can be, so that a stale one shortens none.

**Notifications.** For any devices, workers, retries and tasks cut off (`NotificationsAssumption`):

* `SettledQuietCorrect`: `Spec => SettledQuiet`;
* `TypeCorrect`: `Spec => []TypeOK`, so that SENT is said only of what a provider accepted.

`NotificationsOK` says that a notification has one carrier at a time, its callback, one task in the broker or one worker
(`Alone`). A push keeps to that when its task comes again after its worker is gone, and loses it only when it comes while the
worker goes on (`Single`, `shared`). An SMS keeps to it only until its task comes again in either way (`Kept`): its retry may be in the broker
already when the task that queued it is delivered again. `Quiet` follows the carrier: a push that is not shared is under way
only for a row that waits, and nothing carries an SMS that is SENT and never came again.

The limit in `SettledQuiet` needs a second invariant on top, `Budget`: what carries a notification agrees with what was accepted
for it. Nothing was accepted while the callback is due; an SMS in the broker with `n` retries was accepted at most `n` times, and a worker that
has `k` devices of a push left has had at most the others accept it (`Allowance`). It holds until the task comes again, after
which no limit does: the code keeps no record of the devices it has sent to.

**Sums.** `CashbackProofs` first derives the laws of `SumTo` (`SumToStep`, `SumToAdd`, `SumToUpdate`,
`SumToNonNegative`) from its recursive definition. The library's induction theorem takes an
operator as its parameter, which the SMT and Zenon backends cannot instantiate, so `LeastElement` and
`SetInduction` establish induction over a set instead, and `PartialSumsDef` that the recursive
function exists. `SpendsFifoCorrect` follows the loop by the same induction.

**Only model-checked.** Every liveness property (`LotsBurn`, `RequestsResolve`, `GiftsComeBack`, `KeysComeFree`,
`ChallengesSettle`, `NotificationsSettle`): the proof system does not reach fairness and `ENABLED`. Every other property of
a passing run is a theorem.

## 5. Findings

1. `visits_lost` – the reversal of an earlier visit of a completed card is clamped at
   progress 0: the visit is gone from `total_visits` and nothing is compensated.
2. `idempotency_late` – an exception after the service's commit deletes the idempotency record, and
   the repetition with the same key carries the operation out again.
3. `organizations_block` – a PATCH saves every column it read at its start, the status included, and
   so undoes a block that was committed in between.
4. `registration_attempts` – the count of wrong codes and the status FAILED are written in the block that the
   answer to a wrong code rolls back: the limit of attempts never takes effect.

Observations without a run of their own:

* `reversal.py:188` computes the spent part of an earning as `original - remaining`: an earning whose lot has
  burnt can only be reversed by force, with the burnt amount noted as spent.
* `reversal.py:165` puts the card to `progress + target - 1` when the visit that completed it is reversed, which is
  "one less than the threshold" only if no visit followed. After later visits the card is full without a gift, which the next visit brings; no visit
  is lost by it (`NoVisitLost`).
* `director/views.py:153` checks that an organization has no transactions before its type changes, and locks
  nothing: the first operation may commit before the change. A PATCH that names no type makes no such check and yet saves
  the type it read, like the status of finding 3.
* `loyalty/services/state.py:10`: an operation looks at the organization its request was authenticated with. A block or a change of
  type that commits after that does not stop it, and no property says that it does.
* `redemptions.py:177`, `:184`, `:219`: the deadline is looked at before the wait for the state row, and the request is stamped after it:
  `resolved_at` of a confirmed request may lie after its `expires_at`. `DeadlineRespected` therefore says that what had
  lapsed before its confirmation began is not confirmed.
* `reversal.py:45`: an administrator reverses without a look at the organization's status or program.
* `users/views.py:202`: PATCH of the profile saves all columns, so that it takes back a QR code, a PIN or a lock
  that was committed after it read the row (`StaleWrites` names it as the only request that does), while
  the rotation is said to happen only on the client's initiative (`users/views.py:224`).
* `users/models.py:135`: overlapping logins with wrong PINs each add one to the count they read, so that counts get lost.
* `users/views.py:163`: two overlapping refreshes of one token both get a new pair; a refresh and a logout of
  one token may both succeed.
* `notifications/tasks.py:46-48`: the device saved after a refused push was read before the push: a token
  that was registered in between is wiped. Every answer 400 or 404 counts as an invalid token.
* A row whose task could not be queued stays QUEUED for ever; nothing looks for such rows.
* `notifications/tasks.py:79`: `except MaxRetriesExceededError` is not reached, since `retry(exc=exc)` raises `exc`
  itself; the row is FAILED nevertheless. The SMS task has no check of the row's status, so that
  one delivered again sends again.
* `notifications/tasks.py:18`, `:34-41`: the row is looked at once, without a lock, so that a push whose task is delivered to a second
  worker (`core/settings/base.py:149-160`) goes out twice, the second time maybe for a row that says SENT. It also
  goes out to a device that was logged out after its devices were listed.
* `notify_expiring_cashback` delivered again makes its notifications again.
* `cashback.py:322`: a row whose block always raises would stop every run of the sweep at the same place.

## 6. Plan

Done: all modules of section 2. What would come next:

* A sweep of requests that never stop coming: `RequestsResolve` is about a finite number of them, while each run takes the newest
  first (`redemptions.py:325`).
* `CashbackLocks`: the row locks of `expire_lots` (lot, then state) and of confirmation and reversal (state, then
  lots) as separate steps, with the database's choice of a victim; the engines take a deadlock for a block that did not start.
* Liveness of `Organizations` and `Sessions`, should the code get a retry or a job there: today nothing in them is promised to happen.

## 7. Not modelled, and why

* Audit rows, screens, client resolution, rendering and settings decide nothing about the state above. Texts of
  notifications are left out.
* The director's login only issues tokens. The lifetimes of tokens and the blacklist's cleanup are the library's.
* In `Organizations` the columns that nothing reads back (name, address, logo) are left out.
* Statistics over a period are queries; over the whole life they are compared with the aggregates.
* The engines assume that an operation sees the organization's row of the instant it commits (`Organizations` has
  the two apart), that a block never raises for ever on one row, and that a database
  deadlock, which aborts one block, is like that block not having started.
