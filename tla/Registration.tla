---------------------------- MODULE Registration ----------------------------
(***************************************************************************)
(* Confirmation of a phone number and the accounts that rest on it          *)
(* (users/services.py): one-time challenges, their confirmation, the        *)
(* registration of a client and the reset of his PIN, each of which uses a  *)
(* confirmation up, and the hourly cleanup.                                *)
(*                                                                         *)
(* request_otp has no transaction: its reads, the UPDATE that retires older *)
(* challenges and the INSERT are separate actions.  complete_registration   *)
(* is one transaction, but the account it does not find cannot be locked:   *)
(* what it reads and what it writes are separate actions, under the row     *)
(* lock of the challenge.  A code is only right or wrong.                   *)
(* The Mut... operators are deliberate faults that no definition uses.      *)
(***************************************************************************)
EXTENDS Integers, Sequences, FiniteSets

CONSTANTS
    Phones,          \* telephone numbers of clients
    Threads,         \* threads of the server
    Ttl,             \* OTP_TTL_SECONDS, in clock ticks
    VerificationTtl, \* OTP_VERIFICATION_TTL_SECONDS
    Cooldown,        \* OTP_RESEND_COOLDOWN_SECONDS
    Keep,            \* keep_days of cleanup_otp_challenges
    MaxAttempts,     \* OTP_MAX_ATTEMPTS
    MaxWrong,        \* bound: wrong codes entered for one challenge
    Mistyped,        \* bound: the challenges for which they are entered
    MaxChallenges,   \* bound: challenges created
    MaxTime          \* bound: the last tick of the clock

ASSUME RegistrationAssumption ==
    /\ {Ttl, VerificationTtl, Keep, MaxAttempts} \subseteq Nat \ {0}
    /\ {Cooldown, MaxWrong, MaxChallenges, MaxTime} \subseteq Nat
    /\ Mistyped \subseteq Nat

VARIABLES
    now,        \* timezone.now(), in ticks
    challenges, \* OtpChallenge rows by primary key; a deleted row stays with live = FALSE
    accounts,   \* phones whose account exists; a registration creates it complete
    threads,    \* what each thread is doing
    pins        \* every PIN set so far, with the challenge that was used up for it

vars == <<now, challenges, accounts, threads, pins>>

-----------------------------------------------------------------------------
(* Rows and threads *)

Idle == [phase |-> "idle"]

OtpPurpose == {"REGISTER", "LOGIN", "PIN_RESET"}
OtpStatus == {"PENDING", "VERIFIED", "CONSUMED", "EXPIRED", "FAILED"}

\* usableUntil is verification_expires_at, 0 before the confirmation; wrong is no column: it
\* counts the wrong codes that were entered.
OtpChallenge == [phone : Phones, purpose : OtpPurpose, status : OtpStatus, attempts : Nat,
                 createdAt : Nat, expiresAt : Nat, usableUntil : Nat, live : BOOLEAN,
                 wrong : Nat]

\* request_otp remembers the clock of its start.
Requesting == [phase : {"expire", "insert"}, phone : Phones, purpose : OtpPurpose, at : Nat]
Registering == [phase : {"register"}, challenge : Nat \ {0}]

PinSet == [phone : Phones, challenge : Nat \ {0}, how : {"registration", "reset"}]

Live == {i \in DOMAIN challenges : challenges[i].live}
For(phone, purpose) == {i \in Live : challenges[i].phone = phone /\ challenges[i].purpose = purpose}
Retired(rows, which) ==
    [i \in DOMAIN rows |-> IF i \in which THEN [rows[i] EXCEPT !.status = "EXPIRED"] ELSE rows[i]]

MutLocked(i) == FALSE

\* The challenge is locked by the SELECT FOR UPDATE of a registration under way.
Locked(i) == \E t \in Threads : threads[t].phase = "register" /\ threads[t].challenge = i

-----------------------------------------------------------------------------
(* One-time challenges *)

\* A REGISTER of a number that has an account becomes a LOGIN.
EffectivePurpose(phone, purpose) ==
    IF purpose = "REGISTER" /\ phone \in accounts THEN "LOGIN" ELSE purpose

\* request_otp up to its first write: the account that LOGIN and PIN_RESET need, and the
\* pause since the last challenge.  The bound leaves the clock room for the cleanup.
RequestOtp(t, phone, asked) ==
    LET purpose == EffectivePurpose(phone, asked) IN
    /\ threads[t] = Idle
    /\ now + Ttl <= MaxTime
    /\ purpose # "REGISTER" => phone \in accounts
    /\ \A i \in For(phone, purpose) : challenges[i].createdAt + Cooldown <= now
    /\ threads' = [threads EXCEPT ![t] =
          [phase |-> "expire", phone |-> phone, purpose |-> purpose, at |-> now]]
    /\ UNCHANGED <<now, challenges, accounts, pins>>

\* "Older pending challenges are no longer valid."
RetireOlder(t) ==
    LET older == {i \in For(threads[t].phone, threads[t].purpose) :
                     challenges[i].status = "PENDING"} IN
    /\ threads[t].phase = "expire"
    /\ challenges' = Retired(challenges, older)
    /\ threads' = [threads EXCEPT ![t].phase = "insert"]
    /\ UNCHANGED <<now, accounts, pins>>

\* The INSERT; the code goes out by SMS.
InsertChallenge(t) ==
    /\ threads[t].phase = "insert"
    /\ Len(challenges) < MaxChallenges
    /\ challenges' = Append(challenges,
          [phone |-> threads[t].phone, purpose |-> threads[t].purpose, status |-> "PENDING",
           attempts |-> 0, createdAt |-> now, expiresAt |-> threads[t].at + Ttl,
           usableUntil |-> 0, live |-> TRUE, wrong |-> 0])
    /\ threads' = [threads EXCEPT ![t] = Idle]
    /\ UNCHANGED <<now, accounts, pins>>

\* The challenge a code is compared with.
Open(i) ==
    /\ i \in Live
    /\ ~Locked(i)
    /\ challenges[i].status = "PENDING"
    /\ now < challenges[i].expiresAt

\* verify_otp with the right code.  A repetition while the confirmation is usable gives the
\* same answer and changes nothing.
Verify(i) ==
    /\ Open(i)
    /\ challenges' = [challenges EXCEPT ![i].status = "VERIFIED",
                                        ![i].usableUntil = now + VerificationTtl]
    /\ UNCHANGED <<now, accounts, threads, pins>>

\* What verify_otp writes of a wrong code: one more attempt, FAILED at the limit.
Counted(challenge) ==
    LET attempts == challenge.attempts + 1 IN
    [challenge EXCEPT !.attempts = attempts,
                      !.status = IF attempts >= MaxAttempts THEN "FAILED" ELSE @]

\* transaction.atomic(): an exception that leaves the block takes back what the block wrote.
AfterRaise(before, written) == before

\* verify_otp with a wrong code: the answer is a DomainError raised within the block.
WrongCode(i) ==
    LET challenge == challenges[i] IN
    /\ Open(i)
    /\ challenge.wrong < MaxWrong /\ i \in Mistyped
    /\ challenges' = [challenges EXCEPT ![i] =
          [AfterRaise(challenge, Counted(challenge)) EXCEPT !.wrong = challenge.wrong + 1]]
    /\ UNCHANGED <<now, accounts, threads, pins>>

MutUsable(i, purposes) == challenges[i].live /\ challenges[i].purpose \in purposes

\* The conditions of consume_verification.
Usable(i, purposes) ==
    /\ challenges[i].live
    /\ challenges[i].status = "VERIFIED"
    /\ challenges[i].purpose \in purposes
    /\ now < challenges[i].usableUntil

Consumed(i) == [challenges EXCEPT ![i].status = "CONSUMED"]

-----------------------------------------------------------------------------
(* Accounts *)

\* complete_registration up to the look at the account: the challenge is locked and used
\* up within the transaction, nobody else sees it yet.
RegisterRead(t, i) ==
    /\ threads[t] = Idle
    /\ ~Locked(i)
    /\ Usable(i, {"REGISTER", "LOGIN"})
    /\ challenges[i].phone \notin accounts
    /\ threads' = [threads EXCEPT ![t] = [phase |-> "register", challenge |-> i]]
    /\ UNCHANGED <<now, challenges, accounts, pins>>

MutPhoneFree(phone) == TRUE

\* The unique constraint on the phone lets the INSERT of the account through.
PhoneFree(phone) == phone \notin accounts

\* The account, its PIN and the consumed challenge are committed together; a violated
\* constraint rolls all of it back (Die).
RegisterCommit(t) ==
    LET i == threads[t].challenge
        phone == challenges[i].phone
    IN
    /\ threads[t].phase = "register"
    /\ PhoneFree(phone)
    /\ accounts' = accounts \cup {phone}
    /\ challenges' = Consumed(i)
    /\ pins' = Append(pins, [phone |-> phone, challenge |-> i, how |-> "registration"])
    /\ threads' = [threads EXCEPT ![t] = Idle]
    /\ UNCHANGED now

\* reset_pin: challenge and account are both locked, one block.
ResetPin(i) ==
    /\ ~Locked(i)
    /\ Usable(i, {"PIN_RESET"})
    /\ challenges[i].phone \in accounts
    /\ challenges' = Consumed(i)
    /\ pins' = Append(pins, [phone |-> challenges[i].phone, challenge |-> i, how |-> "reset"])
    /\ UNCHANGED <<now, accounts, threads>>

\* The request fails or its process dies: what was not committed is gone.
Die(t) ==
    /\ threads[t] # Idle
    /\ threads' = [threads EXCEPT ![t] = Idle]
    /\ UNCHANGED <<now, challenges, accounts, pins>>

-----------------------------------------------------------------------------
(* The cleanup and the clock *)

MutOverdue == {i \in Live : challenges[i].status = "PENDING" /\ challenges[i].expiresAt < now
                            /\ challenges[i].purpose = "REGISTER"}

Overdue == {i \in Live : challenges[i].status = "PENDING" /\ challenges[i].expiresAt <= now}

\* The two statements of cleanup_otp_challenges, not in one transaction.
CleanupExpire ==
    /\ Overdue # {}
    /\ challenges' = Retired(challenges, Overdue)
    /\ UNCHANGED <<now, accounts, threads, pins>>

CleanupDelete ==
    LET old == {i \in Live : challenges[i].createdAt + Keep <= now} IN
    /\ old # {}
    /\ \A i \in old : ~Locked(i)
    /\ challenges' = [i \in DOMAIN challenges |->
          [challenges[i] EXCEPT !.live = @ /\ i \notin old]]
    /\ UNCHANGED <<now, accounts, threads, pins>>

Tick ==
    /\ now < MaxTime
    /\ now' = now + 1
    /\ UNCHANGED <<challenges, accounts, threads, pins>>

-----------------------------------------------------------------------------

Init ==
    /\ now = 0
    /\ challenges = <<>>
    /\ accounts = {}
    /\ threads = [t \in Threads |-> Idle]
    /\ pins = <<>>

Next ==
    \/ \E t \in Threads :
          \/ \E phone \in Phones, asked \in OtpPurpose : RequestOtp(t, phone, asked)
          \/ RetireOlder(t) \/ InsertChallenge(t)
          \/ \E i \in DOMAIN challenges : RegisterRead(t, i)
          \/ RegisterCommit(t) \/ Die(t)
    \/ \E i \in DOMAIN challenges : Verify(i) \/ WrongCode(i) \/ ResetPin(i)
    \/ CleanupExpire \/ CleanupDelete \/ Tick

Spec == Init /\ [][Next]_vars

\* Celery beat runs the cleanup every hour, and time passes.  Nothing is assumed of clients
\* or of the threads that serve them.
Fairness == WF_vars(Tick) /\ WF_vars(CleanupExpire)

FairSpec == Spec /\ Fairness

-----------------------------------------------------------------------------
(* Properties *)

\* Every row and thread has its shape, and two registrations never hold the same challenge.
TypeOK ==
    /\ now \in Nat
    /\ challenges \in Seq(OtpChallenge)
    /\ accounts \in SUBSET Phones
    /\ threads \in [Threads -> Requesting \cup Registering \cup {Idle}]
    /\ \A t, u \in Threads :
          threads[t].phase = "register" /\ threads[u] = threads[t] => t = u
    /\ pins \in Seq(PinSet)

\* A confirmation is used once, for its own phone and its own purpose, and one that is used
\* up has set a PIN: neither repeated and overlapping requests nor one that is rolled
\* back nor the cleanup can spend a confirmation twice or for nothing.
PinsVerified ==
    /\ \A i \in DOMAIN pins :
          LET challenge == challenges[pins[i].challenge] IN
          /\ pins[i].challenge \in DOMAIN challenges
          /\ challenge.status = "CONSUMED"
          /\ challenge.phone = pins[i].phone
          /\ (challenge.purpose = "PIN_RESET") = (pins[i].how = "reset")
    /\ \A i, j \in DOMAIN pins : pins[i].challenge = pins[j].challenge => i = j
    /\ \A i \in DOMAIN challenges :
          challenges[i].status = "CONSUMED" => \E j \in DOMAIN pins : pins[j].challenge = i

\* A phone is registered once, before any reset of its PIN, however many confirmations it
\* has and however many registrations overlap, and an account never stays without a PIN.
RegisteredOnce ==
    /\ accounts = {pins[i].phone : i \in DOMAIN pins}
    /\ \A i \in DOMAIN pins :
          pins[i].how = "registration" <=> \A j \in 1..i-1 : pins[j].phone # pins[i].phone

\* "[...] отменяет срок жизни и лимит попыток" is said never to happen (test_auth.py): a
\* challenge for which MaxAttempts wrong codes were entered cannot be confirmed any more.
\* The count and the status FAILED are written in a block that the answer rolls back.
AttemptsLimited ==
    \A i \in DOMAIN challenges :
        challenges[i].wrong >= MaxAttempts => challenges[i].status # "PENDING"

\* A challenge nobody confirms does not stay open: the client may go away, the cleanup
\* retires it.
ChallengesSettle ==
    \A i \in 1..MaxChallenges :
        (i \in Live /\ challenges[i].status = "PENDING")
            ~> ~(i \in Live /\ challenges[i].status = "PENDING")

=============================================================================
