------------------------------ MODULE Sessions ------------------------------
(***************************************************************************)
(* The sessions of one registered client (users/views.py, users/services.py *)
(* and users/models.py): login by PIN with its count of failures and its    *)
(* lock, the reset of the PIN, refresh tokens and their rotation, logout,   *)
(* devices, the profile and the QR code.                                   *)
(*                                                                         *)
(* Only reset_pin is a transaction.  Every other request works on the rows  *)
(* it read at its start and saves single statements, so what it reads and   *)
(* each thing it writes are actions of their own; a request may die         *)
(* between any two of them.                                                *)
(*                                                                         *)
(* PINs and QR tokens are numbered in the order they are made; a refresh    *)
(* token is its index in tokens, None = 0 stands for "" and NULL.           *)
(* The Mut... operators are deliberate faults that no definition uses.      *)
(***************************************************************************)
EXTENDS Integers, Sequences

CONSTANTS
    Devices,        \* device_id values
    Threads,        \* threads of the server
    PinMaxAttempts, \* PIN_MAX_ATTEMPTS
    Lockout,        \* PIN_LOCKOUT_SECONDS, in clock ticks
    MaxTokens,      \* bound: refresh tokens issued
    MaxPins,        \* bound: PINs set
    MaxQrs,         \* bound: QR tokens made
    MaxTime         \* bound: the last tick of the clock

ASSUME SessionsAssumption ==
    /\ {PinMaxAttempts, Lockout} \subseteq Nat \ {0}
    /\ {MaxTokens, MaxPins, MaxQrs, MaxTime} \subseteq Nat

VARIABLES
    now,     \* timezone.now(), in ticks
    user,    \* the columns of the User row that requests write
    made,    \* how many PINs and QR tokens there have been
    devices, \* UserDevice rows; one that was never registered is an inactive one
    tokens,  \* refresh tokens, in the order they were issued
    threads  \* the request each thread is serving

vars == <<now, user, made, devices, tokens, threads>>

-----------------------------------------------------------------------------
(* Rows and requests *)

None == 0
Idle == [phase |-> "idle"]

User == [pin : Nat \ {0}, failed : 0..PinMaxAttempts-1, lockedUntil : Nat, qr : Nat \ {0}]

\* push tells whether the device has an FCM token.
Device == [active : BOOLEAN, push : BOOLEAN, jti : Nat]
Unknown == [active |-> FALSE, push |-> FALSE, jti |-> None]

\* device is none for a login without one; parent is the token exchanged for this one.
NoDevice == "none"
AnyDevice == Devices \cup {NoDevice}
Token == [device : AnyDevice, parent : Nat, blacklisted : BOOLEAN]

\* row is the User row as the request read it.
LoggingIn == [phase : {"count", "reset"}, row : User, device : AnyDevice]
Enrolling == [phase : {"enrol"}, device : Devices, login : BOOLEAN]
Refreshing == [phase : {"blacklist", "find"}, token : Nat \ {0}]
Issuing == [phase : {"issue"}, device : AnyDevice, parent : Nat]
LoggingOut == [phase : {"revoke", "silence"}, token : Nat \ {0}, device : AnyDevice]
Patching == [phase : {"patch"}, row : User]
Request ==
    LoggingIn \cup Enrolling \cup Refreshing \cup Issuing \cup LoggingOut \cup Patching \cup {Idle}

Goes(t, request) == threads' = [threads EXCEPT ![t] = request]

Locked(row) == row.lockedUntil > now

-----------------------------------------------------------------------------
(* Login *)

\* pin_login up to the comparison: the row is read without a lock.
PinLogin(t, right, device) ==
    /\ threads[t] = Idle
    /\ ~Locked(user)
    /\ Goes(t, [phase |-> IF right THEN "reset" ELSE "count", row |-> user, device |-> device])
    /\ UNCHANGED <<now, user, made, devices, tokens>>

MutFailed(row) ==
    IF row.failed < PinMaxAttempts THEN [user EXCEPT !.failed = row.failed + 1]
    ELSE [user EXCEPT !.failed = 0, !.lockedUntil = now + Lockout]

\* The count of the row that was read, plus one; at the limit it starts again and the
\* account is locked.  Two columns are saved.
Failed(row) ==
    IF row.failed + 1 < PinMaxAttempts THEN [user EXCEPT !.failed = row.failed + 1]
    ELSE [user EXCEPT !.failed = 0, !.lockedUntil = now + Lockout]

RegisterFailedPin(t) ==
    /\ threads[t].phase = "count"
    /\ user' = Failed(threads[t].row)
    /\ Goes(t, Idle)
    /\ UNCHANGED <<now, made, devices, tokens>>

MutAttemptsCleared(row) ==
    IF row.failed = 0 /\ row.lockedUntil = None THEN user
    ELSE [row EXCEPT !.failed = 0, !.lockedUntil = None]

\* reset_pin_attempts: two columns, and only when the row read has something to clear.
AttemptsCleared(row) ==
    IF row.failed = 0 /\ row.lockedUntil = None THEN user
    ELSE [user EXCEPT !.failed = 0, !.lockedUntil = None]

ResetPinAttempts(t) ==
    LET device == threads[t].device IN
    /\ threads[t].phase = "reset"
    /\ user' = AttemptsCleared(threads[t].row)
    /\ Goes(t, IF device = NoDevice
               THEN [phase |-> "issue", device |-> NoDevice, parent |-> None]
               ELSE [phase |-> "enrol", device |-> device, login |-> TRUE])
    /\ UNCHANGED <<now, made, devices, tokens>>

-----------------------------------------------------------------------------
(* Devices and tokens *)

\* POST of a device by a client who is logged in.
PostDevice(t, device) ==
    /\ threads[t] = Idle
    /\ tokens # <<>>
    /\ Goes(t, [phase |-> "enrol", device |-> device, login |-> FALSE])
    /\ UNCHANGED <<now, user, made, devices, tokens>>

\* upsert_device: update_or_create, with or without an FCM token; the token stays bound.
Upserted(device, push) ==
    [devices EXCEPT ![device] = [@ EXCEPT !.active = TRUE, !.push = push]]

UpsertDevice(t, push) ==
    LET device == threads[t].device IN
    /\ threads[t].phase = "enrol"
    /\ devices' = Upserted(device, push)
    /\ Goes(t, IF threads[t].login
               THEN [phase |-> "issue", device |-> device, parent |-> None]
               ELSE Idle)
    /\ UNCHANGED <<now, user, made, tokens>>

MutBound(rows, device, token) ==
    IF device = NoDevice THEN rows
    ELSE [rows EXCEPT ![device].jti = token, ![device].active = TRUE]

\* The device saves the token's jti, and no other column that was read before.
Bound(rows, device, token) ==
    IF device = NoDevice THEN rows ELSE [rows EXCEPT ![device] = [@ EXCEPT !.jti = token]]

Issued(device, parent) ==
    Append(tokens, [device |-> device, parent |-> parent, blacklisted |-> FALSE])

\* The end of issue_tokens: the pair goes to the client.
IssueTokens(t) ==
    LET device == threads[t].device IN
    /\ threads[t].phase = "issue"
    /\ Len(tokens) < MaxTokens
    /\ tokens' = Issued(device, threads[t].parent)
    /\ devices' = Bound(devices, device, Len(tokens) + 1)
    /\ Goes(t, Idle)
    /\ UNCHANGED <<now, user, made>>

\* The confirmed reset of the PIN: one transaction that holds the user's row and issues
\* tokens, too.
ResetPin(device, push) ==
    LET enrolled == IF device = NoDevice THEN devices ELSE Upserted(device, push) IN
    /\ made.pin < MaxPins
    /\ Len(tokens) < MaxTokens
    /\ made' = [made EXCEPT !.pin = @ + 1]
    /\ user' = [user EXCEPT !.pin = made.pin + 1, !.failed = 0, !.lockedUntil = None]
    /\ tokens' = Issued(device, None)
    /\ devices' = Bound(enrolled, device, Len(tokens) + 1)
    /\ UNCHANGED <<now, threads>>

\* RefreshToken(...) refuses a token on the blacklist.
CheckRefresh(t, token) ==
    /\ threads[t] = Idle
    /\ ~tokens[token].blacklisted
    /\ Goes(t, [phase |-> "blacklist", token |-> token])
    /\ UNCHANGED <<now, user, made, devices, tokens>>

MutBlacklist(token) == tokens

\* .blacklist() is a get_or_create: a token on the list already is no error.
Blacklist(token) == [tokens EXCEPT ![token] = [@ EXCEPT !.blacklisted = TRUE]]

BlacklistOld(t) ==
    /\ threads[t].phase = "blacklist"
    /\ tokens' = Blacklist(threads[t].token)
    /\ Goes(t, [threads[t] EXCEPT !.phase = "find"])
    /\ UNCHANGED <<now, user, made, devices>>

\* The device whose refresh_jti is that of the old token, if there is one.
FindDevice(t) ==
    LET token == threads[t].token
        bound == {device \in Devices : devices[device].jti = token}
    IN
    /\ threads[t].phase = "find"
    /\ \E device \in IF bound = {} THEN {NoDevice} ELSE bound :
          Goes(t, [phase |-> "issue", device |-> device, parent |-> token])
    /\ UNCHANGED <<now, user, made, devices, tokens>>

\* logout, with or without a device_id: the same check, then the blacklist ...
Logout(t, token, device) ==
    /\ threads[t] = Idle
    /\ ~tokens[token].blacklisted
    /\ Goes(t, [phase |-> "revoke", token |-> token, device |-> device])
    /\ UNCHANGED <<now, user, made, devices, tokens>>

RevokeToken(t) ==
    /\ threads[t].phase = "revoke"
    /\ tokens' = Blacklist(threads[t].token)
    /\ Goes(t, IF threads[t].device = NoDevice THEN Idle
               ELSE [threads[t] EXCEPT !.phase = "silence"])
    /\ UNCHANGED <<now, user, made, devices>>

\* ... and one UPDATE of the device.
SilenceDevice(t) ==
    /\ threads[t].phase = "silence"
    /\ devices' = [devices EXCEPT ![threads[t].device] = Unknown]
    /\ Goes(t, Idle)
    /\ UNCHANGED <<now, user, made, tokens>>

-----------------------------------------------------------------------------
(* The profile *)

\* Authentication reads the user ...
ReadProfile(t) ==
    /\ threads[t] = Idle
    /\ tokens # <<>>
    /\ Goes(t, [phase |-> "patch", row |-> user])
    /\ UNCHANGED <<now, user, made, devices, tokens>>

\* ... and PATCH saves all its columns, not only the names it is about.
PatchProfile(t) ==
    /\ threads[t].phase = "patch"
    /\ user' = threads[t].row
    /\ Goes(t, Idle)
    /\ UNCHANGED <<now, made, devices, tokens>>

\* rotate_qr_token saves its own column.
RotateQr ==
    /\ tokens # <<>>
    /\ made.qr < MaxQrs
    /\ made' = [made EXCEPT !.qr = @ + 1]
    /\ user' = [user EXCEPT !.qr = made.qr + 1]
    /\ UNCHANGED <<now, devices, tokens, threads>>

\* The request fails or its process dies; its statements so far stay.
Die(t) ==
    /\ threads[t] # Idle
    /\ Goes(t, Idle)
    /\ UNCHANGED <<now, user, made, devices, tokens>>

Tick ==
    /\ now < MaxTime
    /\ now' = now + 1
    /\ UNCHANGED <<user, made, devices, tokens, threads>>

-----------------------------------------------------------------------------

\* The client has just registered on no device.
Init ==
    /\ now = 0
    /\ user = [pin |-> 1, failed |-> 0, lockedUntil |-> None, qr |-> 1]
    /\ made = [pin |-> 1, qr |-> 1]
    /\ devices = [device \in Devices |-> Unknown]
    /\ tokens = <<>>
    /\ threads = [t \in Threads |-> Idle]

Next ==
    \/ \E t \in Threads :
          \/ \E right \in BOOLEAN, device \in AnyDevice : PinLogin(t, right, device)
          \/ RegisterFailedPin(t) \/ ResetPinAttempts(t)
          \/ \E device \in Devices : PostDevice(t, device)
          \/ \E push \in BOOLEAN : UpsertDevice(t, push)
          \/ IssueTokens(t)
          \/ \E token \in DOMAIN tokens :
                CheckRefresh(t, token) \/ \E device \in AnyDevice : Logout(t, token, device)
          \/ BlacklistOld(t) \/ FindDevice(t)
          \/ RevokeToken(t) \/ SilenceDevice(t)
          \/ ReadProfile(t) \/ PatchProfile(t)
          \/ Die(t)
    \/ \E device \in AnyDevice, push \in BOOLEAN : ResetPin(device, push)
    \/ RotateQr \/ Tick

Spec == Init /\ [][Next]_vars

-----------------------------------------------------------------------------
(* Properties *)

\* Every row and request has its shape, the count of failures stays below the limit however
\* logins overlap, and the jti of a device is that of a token issued for it.
TypeOK ==
    /\ now \in Nat
    /\ user \in User
    /\ made \in [pin : Nat \ {0}, qr : Nat \ {0}]
    /\ devices \in [Devices -> Device]
    /\ tokens \in Seq(Token)
    /\ threads \in [Threads -> Request]
    /\ \A device \in Devices :
          devices[device].jti # None =>
              /\ devices[device].jti \in DOMAIN tokens
              /\ tokens[devices[device].jti].device = device

\* "The old token is put out": a token that was exchanged for another one is on the blacklist
\* for good, whoever refreshes or logs out at the same time and wherever a request dies.
RotatedDead ==
    \A i \in DOMAIN tokens :
        tokens[i].parent # None =>
            /\ tokens[i].parent \in DOMAIN tokens
            /\ tokens[tokens[i].parent].blacklisted

\* A device that was logged out gets no push until a login or the client himself registers
\* it again: a refresh that had read it before does not switch it on.
LoggedOutSilent ==
    [][\A device \in Devices :
          ~devices[device].active /\ devices'[device].active =>
              \/ \E t \in Threads :
                    /\ threads[t].phase = "enrol" /\ threads[t].device = device
                    /\ threads'[t] # threads[t]
              \/ made'.pin # made.pin]_vars

\* A new PIN or QR code is taken back only by a PATCH of the profile that had read the row
\* before it, and never by a login, whatever it had read; a lock is lifted early only by a
\* new PIN, by such a PATCH or by a right PIN that was checked before the lock.
StaleWrites ==
    [][/\ user'.pin < user.pin \/ user'.qr < user.qr =>
              \E t \in Threads :
                  /\ threads[t].phase = "patch" /\ threads'[t] # threads[t]
                  /\ threads[t].row = user'
       /\ Locked(user) /\ user'.lockedUntil < user.lockedUntil =>
              \/ made'.pin # made.pin
              \/ \E t \in Threads :
                    /\ threads[t].phase \in {"patch", "reset"} /\ threads'[t] # threads[t]
                    /\ threads[t].row.lockedUntil < user.lockedUntil]_vars

=============================================================================
