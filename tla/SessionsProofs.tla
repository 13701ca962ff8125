--------------------------- MODULE SessionsProofs ---------------------------
(***************************************************************************)
(* What the sessions of a client keep whatever requests overlap or die, for *)
(* all values of the constants of Sessions.                                *)
(*                                                                         *)
(* The requests are not transactions, so the invariant is about what a      *)
(* request carries from one statement to the next (RequestIn): how old the  *)
(* row is that it read, and that the token it exchanges is dead before the  *)
(* new one is made.                                                        *)
(***************************************************************************)
EXTENDS Sessions, TLAPS

\* A row that was read or is in the table: no PIN or QR code in it is yet to be made, and no
\* lock is longer than a lockout.
RowIn(row, all, time) ==
    /\ row.pin <= all.pin /\ row.qr <= all.qr
    /\ row.lockedUntil <= time + Lockout

\* What a request carries: a login's row was not locked, a token it names exists, and the one
\* it exchanges is dead.
RequestIn(r, all, time, issued) ==
    /\ r.phase \in {"count", "reset", "patch"} => RowIn(r.row, all, time)
    /\ r.phase \in {"count", "reset"} => r.row.lockedUntil <= time
    /\ r.phase \in {"blacklist", "find", "revoke"} => r.token \in DOMAIN issued
    /\ r.phase = "find" => issued[r.token].blacklisted
    /\ r.phase = "issue" /\ r.parent # None =>
          r.parent \in DOMAIN issued /\ issued[r.parent].blacklisted

DeadParents(issued) ==
    \A i \in DOMAIN issued : issued[i].parent # None =>
        issued[i].parent \in DOMAIN issued /\ issued[issued[i].parent].blacklisted

\* A device is bound to a token that was issued for it.
BoundIn(rows, issued) ==
    \A device \in Devices : rows[device].jti # None =>
        rows[device].jti \in DOMAIN issued /\ issued[rows[device].jti].device = device

Shapes ==
    /\ now \in Nat
    /\ user \in User
    /\ made \in [pin : Nat \ {0}, qr : Nat \ {0}]
    /\ devices \in [Devices -> Device]
    /\ tokens \in Seq(Token)
    /\ threads \in [Threads -> Request]

SessionsOK ==
    /\ Shapes
    /\ RowIn(user, made, now)
    /\ \A t \in Threads : RequestIn(threads[t], made, now, tokens)
    /\ DeadParents(tokens)
    /\ BoundIn(devices, tokens)

LEMMA InvariantMeans == SessionsOK => TypeOK /\ RotatedDead
BY DEF SessionsOK, Shapes, TypeOK, RotatedDead, DeadParents, BoundIn

-----------------------------------------------------------------------------
(* Requests by their phase *)

LEMMA Requests ==
    ASSUME NEW r \in Request
    PROVE  /\ r.phase \in {"count", "reset"} => r \in LoggingIn
           /\ r.phase = "enrol" => r \in Enrolling
           /\ r.phase \in {"blacklist", "find"} => r \in Refreshing
           /\ r.phase = "issue" => r \in Issuing
           /\ r.phase \in {"revoke", "silence"} => r \in LoggingOut
           /\ r.phase = "patch" => r \in Patching
           /\ r.phase = "idle" => r = Idle
<1>1. CASE r \in LoggingIn
  BY <1>1 DEF LoggingIn
<1>2. CASE r \in Enrolling
  BY <1>2 DEF Enrolling
<1>3. CASE r \in Refreshing
  BY <1>3 DEF Refreshing
<1>4. CASE r \in Issuing
  BY <1>4 DEF Issuing
<1>5. CASE r \in LoggingOut
  BY <1>5 DEF LoggingOut
<1>6. CASE r \in Patching
  BY <1>6 DEF Patching
<1>7. CASE r = Idle
  BY <1>7 DEF Idle
<1> QED BY <1>1, <1>2, <1>3, <1>4, <1>5, <1>6, <1>7 DEF Request

LEMMA RowFields ==
    ASSUME NEW row \in User
    PROVE  /\ row.pin \in Nat \ {0} /\ row.qr \in Nat \ {0} /\ row.lockedUntil \in Nat
           /\ row.failed \in 0..PinMaxAttempts-1
BY DEF User

LEMMA RequestRow ==
    ASSUME NEW r \in Request, r.phase \in {"count", "reset", "patch"}
    PROVE  r.row \in User
<1>1. r \in LoggingIn \/ r \in Patching
  BY Requests
<1> QED BY <1>1 DEF LoggingIn, Patching

-----------------------------------------------------------------------------
(* Time goes on, PINs, QR codes and tokens are added, dead tokens stay dead *)

Grown(issued, after) ==
    \A i \in DOMAIN issued :
        /\ i \in DOMAIN after /\ after[i].device = issued[i].device
        /\ issued[i].blacklisted => after[i].blacklisted

Later(all, time, all2, time2) ==
    /\ all.pin \in Nat /\ all.qr \in Nat /\ time \in Nat
    /\ all2.pin \in Nat /\ all2.qr \in Nat /\ time2 \in Nat
    /\ all.pin <= all2.pin /\ all.qr <= all2.qr /\ time <= time2

LEMMA RowKept ==
    ASSUME NEW row \in User, NEW all, NEW time, NEW all2, NEW time2,
           Later(all, time, all2, time2), RowIn(row, all, time)
    PROVE  RowIn(row, all2, time2)
BY RowFields, SessionsAssumption DEF Later, RowIn

LEMMA RequestKept ==
    ASSUME NEW r \in Request, NEW all, NEW time, NEW all2, NEW time2, NEW issued, NEW after,
           Later(all, time, all2, time2), Grown(issued, after), RequestIn(r, all, time, issued)
    PROVE  RequestIn(r, all2, time2, after)
<1>1. ASSUME r.phase \in {"count", "reset", "patch"} PROVE RowIn(r.row, all2, time2)
  BY <1>1, RequestRow, RowKept DEF RequestIn
<1>2. ASSUME r.phase \in {"count", "reset"} PROVE r.row.lockedUntil <= time2
  <2>1. r.row.lockedUntil \in Nat /\ r.row.lockedUntil <= time
    BY <1>2, RequestRow, RowFields DEF RequestIn
  <2> QED BY <2>1 DEF Later
<1> QED BY <1>1, <1>2 DEF RequestIn, Grown

\* The threads after a step of one of them.
LEMMA ThreadsStep ==
    ASSUME SessionsOK, NEW t \in Threads, NEW r \in Request, Goes(t, r),
           Later(made, now, made', now'), Grown(tokens, tokens'),
           RequestIn(r, made', now', tokens')
    PROVE  /\ threads' \in [Threads -> Request]
           /\ \A u \in Threads : RequestIn(threads'[u], made', now', tokens')
<1>1. /\ threads' \in [Threads -> Request] /\ threads'[t] = r
      /\ \A u \in Threads : u # t => threads'[u] = threads[u]
  BY DEF Goes, SessionsOK, Shapes
<1>2. ASSUME NEW u \in Threads PROVE RequestIn(threads'[u], made', now', tokens')
  <2>1. CASE u = t
    BY <1>1, <2>1
  <2>2. CASE u # t
    <3>1. threads'[u] = threads[u] /\ threads[u] \in Request
      BY <1>1, <2>2 DEF SessionsOK, Shapes
    <3>2. RequestIn(threads[u], made, now, tokens)
      BY DEF SessionsOK
    <3> DEFINE old == threads[u]
    <3>3. old \in Request /\ RequestIn(old, made, now, tokens) /\ threads'[u] = old
      BY <3>1, <3>2
    <3> HIDE DEF old
    <3>4. RequestIn(old, made', now', tokens')
      BY <3>3, RequestKept
    <3> QED BY <3>3, <3>4
  <2> QED BY <2>1, <2>2
<1> QED BY <1>1, <1>2

LEMMA ThreadsStay ==
    ASSUME SessionsOK, threads' = threads,
           Later(made, now, made', now'), Grown(tokens, tokens')
    PROVE  /\ threads' \in [Threads -> Request]
           /\ \A u \in Threads : RequestIn(threads'[u], made', now', tokens')
<1>1. threads \in [Threads -> Request]
  BY DEF SessionsOK, Shapes
<1>2. ASSUME NEW u \in Threads PROVE RequestIn(threads'[u], made', now', tokens')
  <2> DEFINE old == threads[u]
  <2>1. old \in Request /\ RequestIn(old, made, now, tokens) /\ threads'[u] = old
    BY <1>1 DEF SessionsOK
  <2> HIDE DEF old
  <2>2. RequestIn(old, made', now', tokens')
    BY <2>1, RequestKept
  <2> QED BY <2>1, <2>2
<1> QED BY <1>1, <1>2

LEMMA SameTime ==
    ASSUME SessionsOK, made' = made, now' = now
    PROVE  Later(made, now, made', now')
BY DEF SessionsOK, Shapes, Later

LEMMA SameTokens ==
    ASSUME tokens' = tokens
    PROVE  Grown(tokens, tokens')
BY DEF Grown

-----------------------------------------------------------------------------
(* Tokens and devices *)

LEMMA IssuedToken ==
    ASSUME SessionsOK, NEW device \in AnyDevice, NEW parent \in Nat,
           parent # None => parent \in DOMAIN tokens /\ tokens[parent].blacklisted
    PROVE  LET after == Issued(device, parent) IN
           /\ after \in Seq(Token) /\ Grown(tokens, after) /\ DeadParents(after)
           /\ Len(tokens) + 1 \in DOMAIN after /\ after[Len(tokens) + 1].device = device
<1> DEFINE new == Len(tokens) + 1
           row == [device |-> device, parent |-> parent, blacklisted |-> FALSE]
           after == Issued(device, parent)
<1>1. tokens \in Seq(Token) /\ row \in Token
  BY DEF SessionsOK, Shapes, Token
<1>2. row.device = device /\ row.parent = parent
  OBVIOUS
<1>3. after = Append(tokens, row)
  BY DEF Issued
<1> HIDE DEF row, after
<1>4. /\ after \in Seq(Token) /\ DOMAIN after = DOMAIN tokens \cup {new}
      /\ after[new] = row /\ \A i \in DOMAIN tokens : after[i] = tokens[i]
  BY <1>1, <1>3
<1> HIDE DEF new
<1>5. Grown(tokens, after)
  BY <1>4 DEF Grown
<1>6. DeadParents(after)
  BY <1>2, <1>4 DEF SessionsOK, DeadParents
<1> QED BY <1>2, <1>4, <1>5, <1>6 DEF new, after

LEMMA BlacklistedToken ==
    ASSUME SessionsOK, NEW token \in DOMAIN tokens
    PROVE  LET after == Blacklist(token) IN
           /\ after \in Seq(Token) /\ Grown(tokens, after) /\ DeadParents(after)
           /\ token \in DOMAIN after /\ after[token].blacklisted
<1> DEFINE row == [tokens[token] EXCEPT !.blacklisted = TRUE]
           after == Blacklist(token)
<1>1. tokens \in Seq(Token) /\ tokens[token] \in Token
  BY DEF SessionsOK, Shapes
<1>2. /\ row \in Token /\ row.device = tokens[token].device
      /\ row.parent = tokens[token].parent /\ row.blacklisted
  BY <1>1 DEF Token
<1>3. after = [tokens EXCEPT ![token] = row]
  BY DEF Blacklist
<1> HIDE DEF row, after
<1>4. /\ after \in Seq(Token) /\ DOMAIN after = DOMAIN tokens /\ after[token] = row
      /\ \A i \in DOMAIN tokens : i # token => after[i] = tokens[i]
  BY <1>1, <1>2, <1>3
<1>5. Grown(tokens, after)
  BY <1>2, <1>4 DEF Grown
<1>6. DeadParents(after)
  BY <1>2, <1>4 DEF SessionsOK, DeadParents
<1> QED BY <1>2, <1>4, <1>5, <1>6 DEF after

\* A device keeps its jti or has that of a token issued for it.
LEMMA DevicesStep ==
    ASSUME NEW rows, NEW rows2, NEW issued, NEW after, BoundIn(rows, issued), Grown(issued, after),
           \A device \in Devices :
              \/ rows2[device].jti = rows[device].jti
              \/ rows2[device].jti = None
              \/ rows2[device].jti \in DOMAIN after /\ after[rows2[device].jti].device = device
    PROVE  BoundIn(rows2, after)
BY DEF BoundIn, Grown

LEMMA UpsertedDevice ==
    ASSUME SessionsOK, NEW device \in Devices, NEW push \in BOOLEAN
    PROVE  LET after == Upserted(device, push) IN
           /\ after \in [Devices -> Device]
           /\ \A d \in Devices : after[d].jti = devices[d].jti
           /\ \A d \in Devices : d # device => after[d] = devices[d]
<1> DEFINE row == [devices[device] EXCEPT !.active = TRUE, !.push = push]
           after == Upserted(device, push)
<1>1. devices \in [Devices -> Device] /\ devices[device] \in Device
  BY DEF SessionsOK, Shapes
<1>2. row \in Device /\ row.jti = devices[device].jti
  BY <1>1 DEF Device
<1>3. after = [devices EXCEPT ![device] = row]
  BY DEF Upserted
<1> HIDE DEF row, after
<1>4. /\ after \in [Devices -> Device] /\ after[device] = row
      /\ \A d \in Devices : d # device => after[d] = devices[d]
  BY <1>1, <1>2, <1>3
<1> QED BY <1>2, <1>4 DEF after

LEMMA BoundDevice ==
    ASSUME NEW rows \in [Devices -> Device], NEW device \in AnyDevice, NEW token \in Nat
    PROVE  LET after == Bound(rows, device, token) IN
           /\ after \in [Devices -> Device]
           /\ \A d \in Devices : d # device => after[d] = rows[d]
           /\ \A d \in Devices : after[d].jti = rows[d].jti \/ (d = device /\ after[d].jti = token)
           /\ \A d \in Devices : after[d].active = rows[d].active
<1> DEFINE after == Bound(rows, device, token)
<1>1. CASE device = NoDevice
  BY <1>1 DEF Bound
<1>2. CASE device # NoDevice
  <2> DEFINE row == [rows[device] EXCEPT !.jti = token]
  <2>1. device \in Devices
    BY <1>2 DEF AnyDevice
  <2>2. row \in Device /\ row.jti = token /\ row.active = rows[device].active
    BY <2>1 DEF Device
  <2>3. after = [rows EXCEPT ![device] = row]
    BY <1>2 DEF Bound
  <2> HIDE DEF row, after
  <2>4. /\ after \in [Devices -> Device] /\ after[device] = row
        /\ \A d \in Devices : d # device => after[d] = rows[d]
    BY <2>1, <2>2, <2>3
  <2> QED BY <2>2, <2>4 DEF after
<1> QED BY <1>1, <1>2

-----------------------------------------------------------------------------
(* Every step keeps the invariant *)

\* What a step leaves alone needs no second look.
TablesKept == UNCHANGED <<devices, tokens>>
RowsKept == UNCHANGED <<now, user, made>>

LEMMA TablesStay ==
    ASSUME SessionsOK, TablesKept
    PROVE  /\ devices' \in [Devices -> Device] /\ tokens' \in Seq(Token)
           /\ DeadParents(tokens') /\ BoundIn(devices', tokens') /\ Grown(tokens, tokens')
BY DEF SessionsOK, Shapes, TablesKept, Grown

LEMMA RowsStay ==
    ASSUME SessionsOK, RowsKept
    PROVE  /\ now' \in Nat /\ user' \in User /\ made' \in [pin : Nat \ {0}, qr : Nat \ {0}]
           /\ RowIn(user', made', now') /\ Later(made, now, made', now')
BY DEF SessionsOK, Shapes, RowsKept, Later

\* A request goes on to one that carries what it must; no table changes.
LEMMA TurnKeeps ==
    ASSUME SessionsOK, NEW t \in Threads, NEW r \in Request, Goes(t, r),
           RequestIn(r, made, now, tokens), RowsKept, TablesKept
    PROVE  SessionsOK'
<1>1. RequestIn(r, made', now', tokens')
  BY DEF RowsKept, TablesKept
<1> QED BY <1>1, TablesStay, RowsStay, ThreadsStep DEF SessionsOK, Shapes

LEMMA IdleRequest == Idle \in Request /\ \A all, time, issued : RequestIn(Idle, all, time, issued)
<1>1. Idle.phase = "idle"
  BY DEF Idle
<1> QED BY <1>1 DEF Request, RequestIn

LEMMA PinLoginKeeps ==
    ASSUME SessionsOK, NEW t \in Threads, NEW right \in BOOLEAN, NEW device \in AnyDevice,
           PinLogin(t, right, device)
    PROVE  SessionsOK'
<1> DEFINE r == [phase |-> IF right THEN "reset" ELSE "count", row |-> user, device |-> device]
<1>1. Goes(t, r) /\ RowsKept /\ TablesKept /\ ~Locked(user)
  BY DEF PinLogin, RowsKept, TablesKept
<1>2. user \in User /\ RowIn(user, made, now) /\ now \in Nat
  BY DEF SessionsOK, Shapes
<1>3. user.lockedUntil <= now
  BY <1>1, <1>2, RowFields DEF Locked
<1>4. r \in LoggingIn /\ r.phase \in {"count", "reset"} /\ r.row = user
  BY <1>2 DEF LoggingIn
<1> HIDE DEF r
<1>5. r \in Request /\ RequestIn(r, made, now, tokens)
  BY <1>2, <1>3, <1>4 DEF Request, RequestIn
<1> QED BY <1>1, <1>5, TurnKeeps

\* Statements on the user's row: columns of the row as it is, with no longer lock.
LEMMA UserKeeps ==
    ASSUME SessionsOK, NEW t \in Threads, NEW r \in Request, Goes(t, r),
           RequestIn(r, made, now, tokens), UNCHANGED <<now, made>>, TablesKept,
           user' \in User, RowIn(user', made, now)
    PROVE  SessionsOK'
<1>1. RequestIn(r, made', now', tokens') /\ RowIn(user', made', now')
  BY DEF TablesKept
<1>2. /\ now' \in Nat /\ made' \in [pin : Nat \ {0}, qr : Nat \ {0}]
      /\ Later(made, now, made', now')
  BY SameTime DEF SessionsOK, Shapes
<1> QED BY <1>1, <1>2, TablesStay, ThreadsStep DEF SessionsOK, Shapes

LEMMA FailedRow ==
    ASSUME SessionsOK, NEW row \in User
    PROVE  LET after == Failed(row) IN
           /\ after \in User /\ RowIn(after, made, now)
           /\ after.pin = user.pin /\ after.qr = user.qr
           /\ after.lockedUntil = user.lockedUntil \/ after.lockedUntil = now + Lockout
<1> DEFINE after == Failed(row)
<1>1. /\ user \in User /\ RowIn(user, made, now) /\ now \in Nat
      /\ Lockout \in Nat /\ PinMaxAttempts \in Nat \ {0}
  BY SessionsAssumption DEF SessionsOK, Shapes
<1>2. CASE row.failed + 1 < PinMaxAttempts
  <2>1. after = [user EXCEPT !.failed = row.failed + 1]
    BY <1>2 DEF Failed
  <2>2. row.failed + 1 \in 0..PinMaxAttempts-1
    BY <1>1, <1>2, RowFields
  <2>3. after \in User /\ after.pin = user.pin /\ after.qr = user.qr
        /\ after.lockedUntil = user.lockedUntil
    BY <1>1, <2>1, <2>2 DEF User
  <2> HIDE DEF after
  <2> QED BY <1>1, <2>3 DEF RowIn, after
<1>3. CASE ~(row.failed + 1 < PinMaxAttempts)
  <2>1. after = [user EXCEPT !.failed = 0, !.lockedUntil = now + Lockout]
    BY <1>3 DEF Failed
  <2>2. 0 \in 0..PinMaxAttempts-1 /\ now + Lockout \in Nat
    BY <1>1
  <2>3. after \in User /\ after.pin = user.pin /\ after.qr = user.qr
        /\ after.lockedUntil = now + Lockout
    BY <1>1, <2>1, <2>2 DEF User
  <2> HIDE DEF after
  <2> QED BY <1>1, <2>2, <2>3 DEF RowIn, after
<1> QED BY <1>2, <1>3

LEMMA ClearedRow ==
    ASSUME SessionsOK, NEW row
    PROVE  LET after == AttemptsCleared(row) IN
           /\ after \in User /\ RowIn(after, made, now)
           /\ after.pin = user.pin /\ after.qr = user.qr
           /\ after.lockedUntil = user.lockedUntil \/ after.lockedUntil = None
<1> DEFINE after == AttemptsCleared(row)
<1>1. /\ user \in User /\ RowIn(user, made, now) /\ now \in Nat
      /\ Lockout \in Nat /\ PinMaxAttempts \in Nat \ {0}
  BY SessionsAssumption DEF SessionsOK, Shapes
<1>2. CASE row.failed = 0 /\ row.lockedUntil = None
  BY <1>1, <1>2 DEF AttemptsCleared
<1>3. CASE ~(row.failed = 0 /\ row.lockedUntil = None)
  <2>1. after = [user EXCEPT !.failed = 0, !.lockedUntil = None]
    BY <1>3 DEF AttemptsCleared
  <2>2. 0 \in 0..PinMaxAttempts-1 /\ None \in Nat /\ None <= now + Lockout
    BY <1>1 DEF None
  <2>3. after \in User /\ after.pin = user.pin /\ after.qr = user.qr /\ after.lockedUntil = None
    BY <1>1, <2>1, <2>2 DEF User
  <2> HIDE DEF after
  <2> QED BY <1>1, <2>2, <2>3 DEF RowIn, after
<1> QED BY <1>2, <1>3

LEMMA RegisterFailedPinKeeps ==
    ASSUME SessionsOK, NEW t \in Threads, RegisterFailedPin(t)
    PROVE  SessionsOK'
<1> DEFINE row == threads[t].row
<1>1. /\ threads[t].phase = "count" /\ user' = Failed(row)
      /\ Goes(t, Idle) /\ UNCHANGED <<now, made>> /\ TablesKept
  BY DEF RegisterFailedPin, TablesKept
<1>2. threads[t] \in Request
  BY DEF SessionsOK, Shapes
<1>3. row \in User
  BY <1>1, <1>2, RequestRow
<1> HIDE DEF row
<1>4. user' \in User /\ RowIn(user', made, now)
  BY <1>1, <1>3, FailedRow
<1> QED BY <1>1, <1>4, IdleRequest, UserKeeps

LEMMA IssuingRequest ==
    ASSUME NEW device \in AnyDevice, NEW parent \in Nat, NEW issued,
           parent # None => parent \in DOMAIN issued /\ issued[parent].blacklisted
    PROVE  LET r == [phase |-> "issue", device |-> device, parent |-> parent] IN
           r \in Request /\ \A all, time : RequestIn(r, all, time, issued)
<1> DEFINE r == [phase |-> "issue", device |-> device, parent |-> parent]
<1>1. r \in Issuing /\ r.phase = "issue" /\ r.parent = parent
  BY DEF Issuing
<1> HIDE DEF r
<1>2. r \in Request /\ \A all, time : RequestIn(r, all, time, issued)
  BY <1>1 DEF Request, RequestIn
<1> QED BY <1>2 DEF r

LEMMA EnrollingRequest ==
    ASSUME NEW device \in Devices, NEW login \in BOOLEAN
    PROVE  LET r == [phase |-> "enrol", device |-> device, login |-> login] IN
           r \in Request /\ \A all, time, issued : RequestIn(r, all, time, issued)
<1> DEFINE r == [phase |-> "enrol", device |-> device, login |-> login]
<1>1. r \in Enrolling /\ r.phase = "enrol"
  BY DEF Enrolling
<1> HIDE DEF r
<1>2. r \in Request /\ \A all, time, issued : RequestIn(r, all, time, issued)
  BY <1>1 DEF Request, RequestIn
<1> QED BY <1>2 DEF r

LEMMA ResetPinAttemptsKeeps ==
    ASSUME SessionsOK, NEW t \in Threads, ResetPinAttempts(t)
    PROVE  SessionsOK'
<1> DEFINE row == threads[t].row
           device == threads[t].device
           r == IF device = NoDevice
                THEN [phase |-> "issue", device |-> NoDevice, parent |-> None]
                ELSE [phase |-> "enrol", device |-> device, login |-> TRUE]
<1>1. /\ threads[t].phase = "reset" /\ user' = AttemptsCleared(row)
      /\ Goes(t, r) /\ UNCHANGED <<now, made>> /\ TablesKept
  BY DEF ResetPinAttempts, TablesKept
<1>2. threads[t] \in LoggingIn
  BY <1>1, Requests DEF SessionsOK, Shapes
<1>3. device \in AnyDevice /\ NoDevice \in AnyDevice /\ None \in Nat
  BY <1>2 DEF LoggingIn, AnyDevice, None
<1> HIDE DEF row, device
<1>4. user' \in User /\ RowIn(user', made, now)
  BY <1>1, ClearedRow
<1>5. r \in Request /\ RequestIn(r, made, now, tokens)
  <2>1. CASE device = NoDevice
    BY <1>3, <2>1, IssuingRequest
  <2>2. CASE device # NoDevice
    <3>1. device \in Devices
      BY <1>3, <2>2 DEF AnyDevice
    <3> QED BY <2>2, <3>1, EnrollingRequest
  <2> QED BY <2>1, <2>2
<1> HIDE DEF r
<1> QED BY <1>1, <1>4, <1>5, UserKeeps

LEMMA PostDeviceKeeps ==
    ASSUME SessionsOK, NEW t \in Threads, NEW device \in Devices, PostDevice(t, device)
    PROVE  SessionsOK'
<1> DEFINE r == [phase |-> "enrol", device |-> device, login |-> FALSE]
<1>1. Goes(t, r) /\ RowsKept /\ TablesKept
  BY DEF PostDevice, RowsKept, TablesKept
<1>2. r \in Request /\ RequestIn(r, made, now, tokens)
  BY EnrollingRequest
<1> HIDE DEF r
<1> QED BY <1>1, <1>2, TurnKeeps

\* Statements on devices and tokens.
LEMMA TablesKeep ==
    ASSUME SessionsOK, NEW t \in Threads, NEW r \in Request, Goes(t, r), RowsKept,
           devices' \in [Devices -> Device], tokens' \in Seq(Token),
           Grown(tokens, tokens'), DeadParents(tokens'), BoundIn(devices', tokens'),
           RequestIn(r, made, now, tokens')
    PROVE  SessionsOK'
<1>1. RequestIn(r, made', now', tokens')
  BY DEF RowsKept
<1> QED BY <1>1, RowsStay, ThreadsStep DEF SessionsOK, Shapes

LEMMA UpsertDeviceKeeps ==
    ASSUME SessionsOK, NEW t \in Threads, NEW push \in BOOLEAN, UpsertDevice(t, push)
    PROVE  SessionsOK'
<1> DEFINE device == threads[t].device
           r == IF threads[t].login
                THEN [phase |-> "issue", device |-> device, parent |-> None]
                ELSE Idle
<1>1. /\ threads[t].phase = "enrol" /\ devices' = Upserted(device, push)
      /\ Goes(t, r) /\ RowsKept /\ tokens' = tokens
  BY DEF UpsertDevice, RowsKept
<1>2. threads[t] \in Enrolling
  BY <1>1, Requests DEF SessionsOK, Shapes
<1>3. device \in Devices /\ device \in AnyDevice /\ None \in Nat
  BY <1>2 DEF Enrolling, AnyDevice, None
<1> HIDE DEF device
<1>4. r \in Request /\ RequestIn(r, made, now, tokens)
  BY <1>3, IssuingRequest, IdleRequest
<1> HIDE DEF r
<1>5. devices' \in [Devices -> Device] /\ \A d \in Devices : devices'[d].jti = devices[d].jti
  BY <1>1, <1>3, UpsertedDevice
<1>6. tokens' \in Seq(Token) /\ DeadParents(tokens') /\ Grown(tokens, tokens')
  BY <1>1, SameTokens DEF SessionsOK, Shapes
<1>7. BoundIn(devices', tokens')
  BY <1>5, <1>6, DevicesStep DEF SessionsOK
<1> QED BY <1>1, <1>4, <1>5, <1>6, <1>7, TablesKeep

\* A device that is given the jti of the token issued for it.
LEMMA IssuedBound ==
    ASSUME SessionsOK, NEW rows \in [Devices -> Device],
           \A d \in Devices : rows[d].jti = devices[d].jti,
           NEW device \in AnyDevice, NEW parent \in Nat,
           parent # None => parent \in DOMAIN tokens /\ tokens[parent].blacklisted,
           tokens' = Issued(device, parent), devices' = Bound(rows, device, Len(tokens) + 1)
    PROVE  /\ devices' \in [Devices -> Device] /\ tokens' \in Seq(Token)
           /\ Grown(tokens, tokens') /\ DeadParents(tokens') /\ BoundIn(devices', tokens')
           /\ \A d \in Devices : devices'[d].active = rows[d].active
<1> DEFINE new == Len(tokens) + 1
<1>1. tokens \in Seq(Token) /\ new \in Nat
  BY DEF SessionsOK, Shapes
<1>2. /\ tokens' \in Seq(Token) /\ Grown(tokens, tokens') /\ DeadParents(tokens')
      /\ new \in DOMAIN tokens' /\ tokens'[new].device = device
  BY IssuedToken
<1>3. devices' = Bound(rows, device, new)
  OBVIOUS
<1> HIDE DEF new
<1>4. /\ devices' \in [Devices -> Device]
      /\ \A d \in Devices : devices'[d].jti = rows[d].jti \/ (d = device /\ devices'[d].jti = new)
      /\ \A d \in Devices : devices'[d].active = rows[d].active
  BY <1>1, <1>3, BoundDevice
<1>5. BoundIn(devices', tokens')
  <2>1. \A d \in Devices :
           \/ devices'[d].jti = devices[d].jti
           \/ devices'[d].jti = None
           \/ devices'[d].jti \in DOMAIN tokens' /\ tokens'[devices'[d].jti].device = d
    BY <1>2, <1>4
  <2> QED BY <1>2, <2>1, DevicesStep DEF SessionsOK
<1> QED BY <1>2, <1>4, <1>5

LEMMA IssueTokensKeeps ==
    ASSUME SessionsOK, NEW t \in Threads, IssueTokens(t)
    PROVE  SessionsOK'
<1> DEFINE device == threads[t].device
           parent == threads[t].parent
<1>1. /\ threads[t].phase = "issue" /\ tokens' = Issued(device, parent)
      /\ devices' = Bound(devices, device, Len(tokens) + 1)
      /\ Goes(t, Idle) /\ RowsKept
  BY DEF IssueTokens, RowsKept
<1>2. threads[t] \in Issuing
  BY <1>1, Requests DEF SessionsOK, Shapes
<1>3. /\ device \in AnyDevice /\ parent \in Nat
      /\ parent # None => parent \in DOMAIN tokens /\ tokens[parent].blacklisted
  BY <1>1, <1>2 DEF Issuing, SessionsOK, RequestIn
<1>4. devices \in [Devices -> Device]
  BY DEF SessionsOK, Shapes
<1> HIDE DEF device, parent
<1>5. /\ devices' \in [Devices -> Device] /\ tokens' \in Seq(Token)
      /\ Grown(tokens, tokens') /\ DeadParents(tokens') /\ BoundIn(devices', tokens')
  BY <1>1, <1>3, <1>4, IssuedBound
<1> QED BY <1>1, <1>5, IdleRequest, TablesKeep

\* A row with a new PIN or a new QR code.
LEMMA NewPin ==
    ASSUME SessionsOK, made' = [made EXCEPT !.pin = made.pin + 1],
           user' = [user EXCEPT !.pin = made.pin + 1, !.failed = 0, !.lockedUntil = None],
           now' = now
    PROVE  /\ now' \in Nat /\ user' \in User /\ made' \in [pin : Nat \ {0}, qr : Nat \ {0}]
           /\ RowIn(user', made', now') /\ Later(made, now, made', now')
           /\ user'.pin > user.pin /\ user'.qr = user.qr /\ made'.pin # made.pin
<1>1. /\ user \in User /\ made \in [pin : Nat \ {0}, qr : Nat \ {0}] /\ now \in Nat
      /\ Lockout \in Nat /\ PinMaxAttempts \in Nat \ {0} /\ RowIn(user, made, now)
  BY SessionsAssumption DEF SessionsOK, Shapes
<1>2. made' \in [pin : Nat \ {0}, qr : Nat \ {0}] /\ made'.pin = made.pin + 1 /\ made'.qr = made.qr
  BY <1>1
<1>3. 0 \in 0..PinMaxAttempts-1 /\ None \in Nat /\ None <= now + Lockout
  BY <1>1 DEF None
<1>4. user' \in User /\ user'.pin = made.pin + 1 /\ user'.qr = user.qr /\ user'.lockedUntil = None
  <2> DEFINE pin == made.pin + 1
  <2>1. pin \in Nat \ {0} /\ user' = [user EXCEPT !.pin = pin, !.failed = 0, !.lockedUntil = None]
    BY <1>1
  <2> HIDE DEF pin
  <2>2. user' \in User /\ user'.pin = pin /\ user'.qr = user.qr /\ user'.lockedUntil = None
    BY <1>1, <1>3, <2>1 DEF User
  <2> QED BY <2>2 DEF pin
<1>5. /\ made.pin \in Nat /\ made.qr \in Nat /\ user.pin \in Nat /\ user.qr \in Nat
      /\ user.pin <= made.pin /\ user.qr <= made.qr
  BY <1>1, RowFields DEF RowIn
<1>6. RowIn(user', made', now')
  BY <1>2, <1>3, <1>4, <1>5 DEF RowIn
<1>7. Later(made, now, made', now')
  BY <1>1, <1>2, <1>5 DEF Later
<1> QED BY <1>1, <1>2, <1>4, <1>5, <1>6, <1>7

LEMMA NewQr ==
    ASSUME SessionsOK, made' = [made EXCEPT !.qr = made.qr + 1],
           user' = [user EXCEPT !.qr = made.qr + 1], now' = now
    PROVE  /\ now' \in Nat /\ user' \in User /\ made' \in [pin : Nat \ {0}, qr : Nat \ {0}]
           /\ RowIn(user', made', now') /\ Later(made, now, made', now')
           /\ user'.pin = user.pin /\ user'.qr > user.qr /\ user'.lockedUntil = user.lockedUntil
<1>1. /\ user \in User /\ made \in [pin : Nat \ {0}, qr : Nat \ {0}] /\ now \in Nat
      /\ RowIn(user, made, now)
  BY DEF SessionsOK, Shapes
<1>2. made' \in [pin : Nat \ {0}, qr : Nat \ {0}] /\ made'.qr = made.qr + 1 /\ made'.pin = made.pin
  BY <1>1
<1>3. /\ user' \in User /\ user'.qr = made.qr + 1 /\ user'.pin = user.pin
      /\ user'.lockedUntil = user.lockedUntil
  BY <1>1 DEF User
<1>4. /\ made.pin \in Nat /\ made.qr \in Nat /\ user.pin \in Nat /\ user.qr \in Nat
      /\ user.pin <= made.pin /\ user.qr <= made.qr /\ user.lockedUntil <= now + Lockout
  BY <1>1, RowFields DEF RowIn
<1>5. RowIn(user', made', now')
  BY <1>2, <1>3, <1>4 DEF RowIn
<1>6. Later(made, now, made', now')
  BY <1>1, <1>2, <1>4 DEF Later
<1> QED BY <1>1, <1>2, <1>3, <1>4, <1>5, <1>6

LEMMA ResetPinKeeps ==
    ASSUME SessionsOK, NEW device \in AnyDevice, NEW push \in BOOLEAN, ResetPin(device, push)
    PROVE  SessionsOK'
<1> DEFINE enrolled == IF device = NoDevice THEN devices ELSE Upserted(device, push)
<1>1. /\ made' = [made EXCEPT !.pin = made.pin + 1]
      /\ user' = [user EXCEPT !.pin = made.pin + 1, !.failed = 0, !.lockedUntil = None]
      /\ tokens' = Issued(device, None) /\ devices' = Bound(enrolled, device, Len(tokens) + 1)
      /\ now' = now /\ threads' = threads
  BY DEF ResetPin
<1>2. enrolled \in [Devices -> Device] /\ \A d \in Devices : enrolled[d].jti = devices[d].jti
  <2>1. CASE device = NoDevice
    BY <2>1 DEF SessionsOK, Shapes
  <2>2. CASE device # NoDevice
    <3>1. device \in Devices
      BY <2>2 DEF AnyDevice
    <3> QED BY <2>2, <3>1, UpsertedDevice
  <2> QED BY <2>1, <2>2
<1> HIDE DEF enrolled
<1>3. None \in Nat
  BY DEF None
<1>4. /\ devices' \in [Devices -> Device] /\ tokens' \in Seq(Token)
      /\ Grown(tokens, tokens') /\ DeadParents(tokens') /\ BoundIn(devices', tokens')
  BY <1>1, <1>2, <1>3, IssuedBound
<1>5. /\ now' \in Nat /\ user' \in User /\ made' \in [pin : Nat \ {0}, qr : Nat \ {0}]
      /\ RowIn(user', made', now') /\ Later(made, now, made', now')
  BY <1>1, NewPin
<1> QED BY <1>1, <1>4, <1>5, ThreadsStay DEF SessionsOK, Shapes

LEMMA RotateQrKeeps == SessionsOK /\ RotateQr => SessionsOK'
<1> SUFFICES ASSUME SessionsOK, RotateQr PROVE SessionsOK'
  OBVIOUS
<1>1. /\ made' = [made EXCEPT !.qr = made.qr + 1] /\ user' = [user EXCEPT !.qr = made.qr + 1]
      /\ now' = now /\ threads' = threads /\ TablesKept
  BY DEF RotateQr, TablesKept
<1>2. /\ now' \in Nat /\ user' \in User /\ made' \in [pin : Nat \ {0}, qr : Nat \ {0}]
      /\ RowIn(user', made', now') /\ Later(made, now, made', now')
  BY <1>1, NewQr
<1> QED BY <1>1, <1>2, TablesStay, ThreadsStay DEF SessionsOK, Shapes

LEMMA CheckRefreshKeeps ==
    ASSUME SessionsOK, NEW t \in Threads, NEW token \in DOMAIN tokens, CheckRefresh(t, token)
    PROVE  SessionsOK'
<1> DEFINE r == [phase |-> "blacklist", token |-> token]
<1>1. Goes(t, r) /\ RowsKept /\ TablesKept
  BY DEF CheckRefresh, RowsKept, TablesKept
<1>2. token \in Nat \ {0}
  BY DEF SessionsOK, Shapes
<1>3. r \in Refreshing /\ r.phase = "blacklist" /\ r.token = token
  BY <1>2 DEF Refreshing
<1> HIDE DEF r
<1>4. r \in Request /\ RequestIn(r, made, now, tokens)
  BY <1>3 DEF Request, RequestIn
<1> QED BY <1>1, <1>4, TurnKeeps

\* The token a request names is put on the blacklist.
LEMMA BlacklistKeeps ==
    ASSUME SessionsOK, NEW t \in Threads, NEW token \in DOMAIN tokens, tokens' = Blacklist(token),
           NEW r \in Request, Goes(t, r), RowsKept, devices' = devices,
           RequestIn(r, made, now, tokens')
    PROVE  SessionsOK'
<1>1. tokens' \in Seq(Token) /\ Grown(tokens, tokens') /\ DeadParents(tokens')
  BY BlacklistedToken
<1>2. devices' \in [Devices -> Device]
  BY DEF SessionsOK, Shapes
<1>3. BoundIn(devices', tokens')
  BY <1>1, DevicesStep DEF SessionsOK
<1> QED BY <1>1, <1>2, <1>3, TablesKeep

LEMMA BlacklistOldKeeps ==
    ASSUME SessionsOK, NEW t \in Threads, BlacklistOld(t)
    PROVE  SessionsOK'
<1> DEFINE token == threads[t].token
           r == [threads[t] EXCEPT !.phase = "find"]
<1>1. /\ threads[t].phase = "blacklist" /\ tokens' = Blacklist(token)
      /\ Goes(t, r) /\ RowsKept /\ devices' = devices
  BY DEF BlacklistOld, RowsKept
<1>2. threads[t] \in Refreshing
  BY <1>1, Requests DEF SessionsOK, Shapes
<1>3. token \in DOMAIN tokens
  BY <1>1 DEF SessionsOK, RequestIn
<1>4. r \in Refreshing /\ r.phase = "find" /\ r.token = token
  BY <1>2 DEF Refreshing
<1> HIDE DEF token, r
<1>5. token \in DOMAIN tokens' /\ tokens'[token].blacklisted
  BY <1>1, <1>3, BlacklistedToken
<1>6. r \in Request /\ RequestIn(r, made, now, tokens')
  BY <1>4, <1>5 DEF Request, RequestIn
<1> QED BY <1>1, <1>3, <1>6, BlacklistKeeps

LEMMA FindDeviceKeeps ==
    ASSUME SessionsOK, NEW t \in Threads, FindDevice(t)
    PROVE  SessionsOK'
<1> DEFINE token == threads[t].token
           bound == {device \in Devices : devices[device].jti = token}
           r(device) == [phase |-> "issue", device |-> device, parent |-> token]
<1>1. threads[t].phase = "find" /\ RowsKept /\ TablesKept
  BY DEF FindDevice, RowsKept, TablesKept
<1>2. PICK device \in IF bound = {} THEN {NoDevice} ELSE bound : Goes(t, r(device))
  BY DEF FindDevice
<1>3. device \in AnyDevice
  BY <1>2 DEF AnyDevice
<1>4. threads[t] \in Refreshing
  BY <1>1, Requests DEF SessionsOK, Shapes
<1>5. token \in Nat /\ token \in DOMAIN tokens /\ tokens[token].blacklisted
  BY <1>1, <1>4 DEF Refreshing, SessionsOK, RequestIn
<1> HIDE DEF token
<1>6. r(device) \in Request /\ RequestIn(r(device), made, now, tokens)
  BY <1>3, <1>5, IssuingRequest
<1> HIDE DEF r
<1> QED BY <1>1, <1>2, <1>6, TurnKeeps

LEMMA LogoutKeeps ==
    ASSUME SessionsOK, NEW t \in Threads, NEW token \in DOMAIN tokens, NEW device \in AnyDevice,
           Logout(t, token, device)
    PROVE  SessionsOK'
<1> DEFINE r == [phase |-> "revoke", token |-> token, device |-> device]
<1>1. Goes(t, r) /\ RowsKept /\ TablesKept
  BY DEF Logout, RowsKept, TablesKept
<1>2. token \in Nat \ {0}
  BY DEF SessionsOK, Shapes
<1>3. r \in LoggingOut /\ r.phase = "revoke" /\ r.token = token
  BY <1>2 DEF LoggingOut
<1> HIDE DEF r
<1>4. r \in Request /\ RequestIn(r, made, now, tokens)
  BY <1>3 DEF Request, RequestIn
<1> QED BY <1>1, <1>4, TurnKeeps

LEMMA RevokeTokenKeeps ==
    ASSUME SessionsOK, NEW t \in Threads, RevokeToken(t)
    PROVE  SessionsOK'
<1> DEFINE token == threads[t].token
           silence == [threads[t] EXCEPT !.phase = "silence"]
           r == IF threads[t].device = NoDevice THEN Idle ELSE silence
<1>1. /\ threads[t].phase = "revoke" /\ tokens' = Blacklist(token)
      /\ Goes(t, r) /\ RowsKept /\ devices' = devices
  BY DEF RevokeToken, RowsKept
<1>2. threads[t] \in LoggingOut
  BY <1>1, Requests DEF SessionsOK, Shapes
<1>3. token \in DOMAIN tokens
  BY <1>1 DEF SessionsOK, RequestIn
<1>4. silence \in LoggingOut /\ silence.phase = "silence"
  BY <1>2 DEF LoggingOut
<1> HIDE DEF token, silence
<1>5. silence \in Request /\ RequestIn(silence, made, now, tokens')
  BY <1>4 DEF Request, RequestIn
<1>6. r \in Request /\ RequestIn(r, made, now, tokens')
  BY <1>5, IdleRequest
<1> HIDE DEF r
<1> QED BY <1>1, <1>3, <1>6, BlacklistKeeps

LEMMA SilenceDeviceKeeps ==
    ASSUME SessionsOK, NEW t \in Threads, SilenceDevice(t)
    PROVE  SessionsOK'
<1> DEFINE device == threads[t].device
<1>1. /\ devices' = [devices EXCEPT ![device] = Unknown]
      /\ Goes(t, Idle) /\ RowsKept /\ tokens' = tokens
  BY DEF SilenceDevice, RowsKept
<1>2. Unknown \in Device /\ Unknown.jti = None
  BY DEF Unknown, Device, None
<1> HIDE DEF device
<1>3. /\ devices' \in [Devices -> Device]
      /\ \A d \in Devices : devices'[d].jti = devices[d].jti \/ devices'[d].jti = None
  BY <1>1, <1>2 DEF SessionsOK, Shapes
<1>4. tokens' \in Seq(Token) /\ DeadParents(tokens') /\ Grown(tokens, tokens')
  BY <1>1, SameTokens DEF SessionsOK, Shapes
<1>5. BoundIn(devices', tokens')
  BY <1>3, <1>4, DevicesStep DEF SessionsOK
<1>6. RequestIn(Idle, made, now, tokens')
  BY IdleRequest
<1> QED BY <1>1, <1>3, <1>4, <1>5, <1>6, IdleRequest, TablesKeep

LEMMA ReadProfileKeeps ==
    ASSUME SessionsOK, NEW t \in Threads, ReadProfile(t)
    PROVE  SessionsOK'
<1> DEFINE r == [phase |-> "patch", row |-> user]
<1>1. Goes(t, r) /\ RowsKept /\ TablesKept
  BY DEF ReadProfile, RowsKept, TablesKept
<1>2. user \in User /\ RowIn(user, made, now)
  BY DEF SessionsOK, Shapes
<1>3. r \in Patching /\ r.phase = "patch" /\ r.row = user
  BY <1>2 DEF Patching
<1> HIDE DEF r
<1>4. r \in Request /\ RequestIn(r, made, now, tokens)
  BY <1>2, <1>3 DEF Request, RequestIn
<1> QED BY <1>1, <1>4, TurnKeeps

LEMMA PatchProfileKeeps ==
    ASSUME SessionsOK, NEW t \in Threads, PatchProfile(t)
    PROVE  SessionsOK'
<1>1. /\ threads[t].phase = "patch" /\ user' = threads[t].row
      /\ Goes(t, Idle) /\ UNCHANGED <<now, made>> /\ TablesKept
  BY DEF PatchProfile, TablesKept
<1>2. threads[t] \in Request /\ RequestIn(threads[t], made, now, tokens)
  BY DEF SessionsOK, Shapes
<1>3. user' \in User
  BY <1>1, <1>2, RequestRow
<1>4. RowIn(user', made, now)
  BY <1>1, <1>2 DEF RequestIn
<1> QED BY <1>1, <1>3, <1>4, IdleRequest, UserKeeps

LEMMA DieKeeps ==
    ASSUME SessionsOK, NEW t \in Threads, Die(t)
    PROVE  SessionsOK'
<1>1. Goes(t, Idle) /\ RowsKept /\ TablesKept
  BY DEF Die, RowsKept, TablesKept
<1> QED BY <1>1, IdleRequest, TurnKeeps

LEMMA TickKeeps == SessionsOK /\ Tick => SessionsOK'
<1> SUFFICES ASSUME SessionsOK, Tick PROVE SessionsOK'
  OBVIOUS
<1>1. now' = now + 1 /\ user' = user /\ made' = made /\ threads' = threads /\ TablesKept
  BY DEF Tick, TablesKept
<1>2. now \in Nat /\ user \in User /\ made \in [pin : Nat \ {0}, qr : Nat \ {0}]
  BY DEF SessionsOK, Shapes
<1>3. now' \in Nat /\ Later(made, now, made', now')
  BY <1>1, <1>2 DEF Later
<1>4. RowIn(user', made', now')
  BY <1>1, <1>2, <1>3, RowKept DEF SessionsOK
<1> QED BY <1>1, <1>2, <1>3, <1>4, TablesStay, ThreadsStay DEF SessionsOK, Shapes

LEMMA StutterKeeps == SessionsOK /\ UNCHANGED vars => SessionsOK'
<1> SUFFICES ASSUME SessionsOK, UNCHANGED vars PROVE SessionsOK'
  OBVIOUS
<1>1. RowsKept /\ TablesKept /\ threads' = threads
  BY DEF vars, RowsKept, TablesKept
<1> QED BY <1>1, RowsStay, TablesStay, ThreadsStay DEF SessionsOK, Shapes

LEMMA InitKeeps == Init => SessionsOK
<1> SUFFICES ASSUME Init PROVE SessionsOK
  OBVIOUS
<1>1. Unknown \in Device /\ Unknown.jti = None
  BY DEF Unknown, Device, None
<1>2. /\ PinMaxAttempts \in Nat \ {0} /\ Lockout \in Nat /\ 0 \in 0..PinMaxAttempts-1
      /\ None = 0
  BY SessionsAssumption DEF None
<1>3. now = 0 /\ tokens = <<>>
  BY DEF Init
<1>4. user \in User /\ made \in [pin : Nat \ {0}, qr : Nat \ {0}] /\ RowIn(user, made, now)
  BY <1>2 DEF Init, User, RowIn
<1>5. devices \in [Devices -> Device] /\ \A d \in Devices : devices[d].jti = None
  BY <1>1 DEF Init
<1>6. threads \in [Threads -> Request] /\ \A t \in Threads : threads[t] = Idle
  BY IdleRequest DEF Init
<1>7. \A t \in Threads : RequestIn(threads[t], made, now, tokens)
  BY <1>6, IdleRequest
<1>8. tokens \in Seq(Token) /\ DeadParents(tokens) /\ BoundIn(devices, tokens)
  BY <1>3, <1>5 DEF DeadParents, BoundIn
<1> QED BY <1>3, <1>4, <1>5, <1>6, <1>7, <1>8 DEF SessionsOK, Shapes

LEMMA NextKeeps == SessionsOK /\ [Next]_vars => SessionsOK'
<1> SUFFICES ASSUME SessionsOK, [Next]_vars PROVE SessionsOK'
  OBVIOUS
<1>1. ASSUME NEW t \in Threads,
             \/ \E right \in BOOLEAN, device \in AnyDevice : PinLogin(t, right, device)
             \/ RegisterFailedPin(t) \/ ResetPinAttempts(t)
             \/ \E device \in Devices : PostDevice(t, device)
             \/ \E push \in BOOLEAN : UpsertDevice(t, push)
      PROVE  SessionsOK'
  BY <1>1, PinLoginKeeps, RegisterFailedPinKeeps, ResetPinAttemptsKeeps, PostDeviceKeeps,
     UpsertDeviceKeeps
<1>2. ASSUME NEW t \in Threads,
             \/ IssueTokens(t)
             \/ \E token \in DOMAIN tokens :
                   CheckRefresh(t, token) \/ \E device \in AnyDevice : Logout(t, token, device)
             \/ BlacklistOld(t) \/ FindDevice(t)
      PROVE  SessionsOK'
  BY <1>2, IssueTokensKeeps, CheckRefreshKeeps, LogoutKeeps, BlacklistOldKeeps, FindDeviceKeeps
<1>3. ASSUME NEW t \in Threads,
             \/ RevokeToken(t) \/ SilenceDevice(t)
             \/ ReadProfile(t) \/ PatchProfile(t)
             \/ Die(t)
      PROVE  SessionsOK'
  BY <1>3, RevokeTokenKeeps, SilenceDeviceKeeps, ReadProfileKeeps, PatchProfileKeeps, DieKeeps
<1>4. CASE \E device \in AnyDevice, push \in BOOLEAN : ResetPin(device, push)
  BY <1>4, ResetPinKeeps
<1>5. CASE RotateQr \/ Tick \/ UNCHANGED vars
  BY <1>5, RotateQrKeeps, TickKeeps, StutterKeeps
<1> QED BY <1>1, <1>2, <1>3, <1>4, <1>5 DEF Next

-----------------------------------------------------------------------------
(* What a step may never do *)

LEMMA IdleElse == \A r : r.phase # "idle" => r # Idle
BY DEF Idle

LEMMA Woken ==
    ASSUME SessionsOK, NEW t \in Threads, NEW r, Goes(t, r), r # threads[t]
    PROVE  threads'[t] # threads[t]
BY DEF SessionsOK, Shapes, Goes

Silent ==
    \A device \in Devices :
        ~devices[device].active /\ devices'[device].active =>
            \/ \E t \in Threads :
                  /\ threads[t].phase = "enrol" /\ threads[t].device = device
                  /\ threads'[t] # threads[t]
            \/ made'.pin # made.pin

LEMMA NextSilent == SessionsOK /\ [Next]_vars => Silent
<1> SUFFICES ASSUME SessionsOK, [Next]_vars PROVE Silent
  OBVIOUS
<1>1. ASSUME NEW t \in Threads, NEW push \in BOOLEAN, UpsertDevice(t, push) PROVE Silent
  <2> DEFINE device == threads[t].device
             issue == [phase |-> "issue", device |-> device, parent |-> None]
             r == IF threads[t].login THEN issue ELSE Idle
  <2>1. /\ threads[t].phase = "enrol" /\ devices' = Upserted(device, push) /\ Goes(t, r)
    BY <1>1 DEF UpsertDevice
  <2>2. threads[t] \in Enrolling
    BY <2>1, Requests DEF SessionsOK, Shapes
  <2>3. device \in Devices
    BY <2>2 DEF Enrolling
  <2>4. issue.phase # "enrol" /\ Idle.phase # "enrol"
    BY DEF Idle
  <2>5. r # threads[t]
    BY <2>1, <2>4
  <2> HIDE DEF device, r
  <2>6. threads'[t] # threads[t]
    BY <2>1, <2>5, Woken
  <2>7. \A d \in Devices : d # device => devices'[d] = devices[d]
    BY <2>1, <2>3, UpsertedDevice
  <2> QED BY <2>1, <2>6, <2>7 DEF Silent, device
<1>2. ASSUME NEW t \in Threads, IssueTokens(t) PROVE Silent
  <2> DEFINE device == threads[t].device
             new == Len(tokens) + 1
  <2>1. threads[t].phase = "issue" /\ devices' = Bound(devices, device, new)
    BY <1>2 DEF IssueTokens
  <2>2. threads[t] \in Issuing /\ devices \in [Devices -> Device] /\ new \in Nat
    BY <2>1, Requests DEF SessionsOK, Shapes
  <2>3. device \in AnyDevice
    BY <2>2 DEF Issuing
  <2> HIDE DEF device, new
  <2>4. \A d \in Devices : devices'[d].active = devices[d].active
    BY <2>1, <2>2, <2>3, BoundDevice
  <2> QED BY <2>4 DEF Silent
<1>3. ASSUME NEW device \in AnyDevice, NEW push \in BOOLEAN, ResetPin(device, push) PROVE Silent
  <2>1. made'.pin # made.pin
    BY <1>3, NewPin DEF ResetPin
  <2> QED BY <2>1 DEF Silent
<1>4. ASSUME NEW t \in Threads, SilenceDevice(t) PROVE Silent
  <2> DEFINE device == threads[t].device
  <2>1. devices' = [devices EXCEPT ![device] = Unknown] /\ ~Unknown.active
    BY <1>4 DEF SilenceDevice, Unknown
  <2> HIDE DEF device
  <2>2. \A d \in Devices : devices'[d] = devices[d] \/ ~devices'[d].active
    BY <2>1 DEF SessionsOK, Shapes
  <2> QED BY <2>2 DEF Silent
<1>5. CASE devices' = devices
  BY <1>5 DEF Silent
<1> QED BY <1>1, <1>2, <1>3, <1>4, <1>5
        DEF Next, vars, PinLogin, RegisterFailedPin, ResetPinAttempts, PostDevice, CheckRefresh,
            BlacklistOld, FindDevice, Logout, RevokeToken, ReadProfile, PatchProfile, RotateQr,
            Die, Tick

Stale ==
    /\ user'.pin < user.pin \/ user'.qr < user.qr =>
          \E t \in Threads :
              /\ threads[t].phase = "patch" /\ threads'[t] # threads[t]
              /\ threads[t].row = user'
    /\ Locked(user) /\ user'.lockedUntil < user.lockedUntil =>
          \/ made'.pin # made.pin
          \/ \E t \in Threads :
                /\ threads[t].phase \in {"patch", "reset"} /\ threads'[t] # threads[t]
                /\ threads[t].row.lockedUntil < user.lockedUntil

LEMMA NextStale == SessionsOK /\ [Next]_vars => Stale
<1> SUFFICES ASSUME SessionsOK, [Next]_vars PROVE Stale
  OBVIOUS
<1>1. /\ user \in User /\ now \in Nat /\ RowIn(user, made, now)
      /\ user.pin \in Nat /\ user.qr \in Nat /\ user.lockedUntil \in Nat
      /\ Lockout \in Nat /\ user.lockedUntil <= now + Lockout
  BY RowFields, SessionsAssumption DEF SessionsOK, Shapes, RowIn
<1>2. ASSUME NEW t \in Threads, RegisterFailedPin(t) PROVE Stale
  <2> DEFINE row == threads[t].row
  <2>1. threads[t].phase = "count" /\ user' = Failed(row)
    BY <1>2 DEF RegisterFailedPin
  <2>2. row \in User
    BY <2>1, RequestRow DEF SessionsOK, Shapes
  <2> HIDE DEF row
  <2>3. /\ user'.pin = user.pin /\ user'.qr = user.qr
        /\ user'.lockedUntil = user.lockedUntil \/ user'.lockedUntil = now + Lockout
    BY <2>1, <2>2, FailedRow
  <2>4. ~(user'.pin < user.pin) /\ ~(user'.qr < user.qr) /\ ~(user'.lockedUntil < user.lockedUntil)
    BY <1>1, <2>3
  <2> QED BY <2>4 DEF Stale
<1>3. ASSUME NEW t \in Threads, ResetPinAttempts(t) PROVE Stale
  <2> DEFINE row == threads[t].row
             device == threads[t].device
             issue == [phase |-> "issue", device |-> NoDevice, parent |-> None]
             enrol == [phase |-> "enrol", device |-> device, login |-> TRUE]
             r == IF device = NoDevice THEN issue ELSE enrol
  <2>1. threads[t].phase = "reset" /\ user' = AttemptsCleared(row) /\ Goes(t, r)
    BY <1>3 DEF ResetPinAttempts
  <2>2. issue.phase # "reset" /\ enrol.phase # "reset"
    OBVIOUS
  <2>3. r # threads[t]
    BY <2>1, <2>2
  <2>4. row \in User /\ row.lockedUntil <= now
    BY <2>1, RequestRow DEF SessionsOK, Shapes, RequestIn
  <2> HIDE DEF row, r
  <2>5. threads'[t] # threads[t]
    BY <2>1, <2>3, Woken
  <2>6. user'.pin = user.pin /\ user'.qr = user.qr
    BY <2>1, ClearedRow
  <2>7. ~(user'.pin < user.pin) /\ ~(user'.qr < user.qr)
    BY <1>1, <2>6
  <2>8. Locked(user) => row.lockedUntil < user.lockedUntil
    BY <1>1, <2>4, RowFields DEF Locked
  <2> QED BY <2>1, <2>5, <2>7, <2>8 DEF Stale, row
<1>4. ASSUME NEW device \in AnyDevice, NEW push \in BOOLEAN, ResetPin(device, push) PROVE Stale
  <2>1. /\ user'.pin > user.pin /\ user'.qr = user.qr /\ made'.pin # made.pin /\ user' \in User
    BY <1>4, NewPin DEF ResetPin
  <2>2. ~(user'.pin < user.pin) /\ ~(user'.qr < user.qr)
    BY <1>1, <2>1, RowFields
  <2> QED BY <2>1, <2>2 DEF Stale
<1>5. ASSUME RotateQr PROVE Stale
  <2>1. /\ user'.pin = user.pin /\ user'.qr > user.qr /\ user'.lockedUntil = user.lockedUntil
        /\ user' \in User
    BY <1>5, NewQr DEF RotateQr
  <2>2. ~(user'.pin < user.pin) /\ ~(user'.qr < user.qr) /\ ~(user'.lockedUntil < user.lockedUntil)
    BY <1>1, <2>1, RowFields
  <2> QED BY <2>2 DEF Stale
<1>6. ASSUME NEW t \in Threads, PatchProfile(t) PROVE Stale
  <2>1. threads[t].phase = "patch" /\ user' = threads[t].row /\ Goes(t, Idle)
    BY <1>6 DEF PatchProfile
  <2>2. Idle # threads[t]
    BY <2>1, IdleElse
  <2>3. threads'[t] # threads[t]
    BY <2>1, <2>2, Woken
  <2> QED BY <2>1, <2>3 DEF Stale
<1>7. CASE user' = user
  <2>1. ~(user'.pin < user.pin) /\ ~(user'.qr < user.qr) /\ ~(user'.lockedUntil < user.lockedUntil)
    BY <1>1, <1>7
  <2> QED BY <2>1 DEF Stale
<1> QED BY <1>2, <1>3, <1>4, <1>5, <1>6, <1>7
        DEF Next, vars, PinLogin, PostDevice, UpsertDevice, IssueTokens, CheckRefresh,
            BlacklistOld, FindDevice, Logout, RevokeToken, SilenceDevice, ReadProfile, Die, Tick

-----------------------------------------------------------------------------
(* The theorems *)

LEMMA Invariant == Spec => []SessionsOK
<1> QED BY InitKeeps, NextKeeps, PTL DEF Spec

\* Rows and requests keep their shapes, the count of failures stays below the limit and a
\* device is bound only to a token issued for it, for any number of overlapping requests.
THEOREM TypeCorrect == Spec => []TypeOK
<1>1. SessionsOK => TypeOK
  BY InvariantMeans
<1> QED BY <1>1, Invariant, PTL

\* token_refresh and logout: the token that another one was issued for is on the blacklist
\* for good, whatever overlaps and wherever a request dies.
THEOREM RotatedDeadCorrect == Spec => []RotatedDead
<1>1. SessionsOK => RotatedDead
  BY InvariantMeans
<1> QED BY <1>1, Invariant, PTL

\* issue_tokens after a logout: only upsert_device of a login or of the client, or a reset of
\* the PIN, switches a device on again.
THEOREM LoggedOutSilentCorrect == Spec => LoggedOutSilent
<1>1. SessionsOK /\ [Next]_vars =>
         [\A device \in Devices :
             ~devices[device].active /\ devices'[device].active =>
                 \/ \E t \in Threads :
                       /\ threads[t].phase = "enrol" /\ threads[t].device = device
                       /\ threads'[t] # threads[t]
                 \/ made'.pin # made.pin]_vars
  BY NextSilent DEF Silent
<1> QED BY <1>1, Invariant, PTL DEF Spec, LoggedOutSilent

\* The saves of logins name their columns, that of a PATCH does not: no other request takes a
\* PIN or a QR code back, and no stale count of failures shortens a lock.
THEOREM StaleWritesCorrect == Spec => StaleWrites
<1>1. SessionsOK /\ [Next]_vars =>
         [/\ user'.pin < user.pin \/ user'.qr < user.qr =>
                 \E t \in Threads :
                     /\ threads[t].phase = "patch" /\ threads'[t] # threads[t]
                     /\ threads[t].row = user'
          /\ Locked(user) /\ user'.lockedUntil < user.lockedUntil =>
                 \/ made'.pin # made.pin
                 \/ \E t \in Threads :
                       /\ threads[t].phase \in {"patch", "reset"} /\ threads'[t] # threads[t]
                       /\ threads[t].row.lockedUntil < user.lockedUntil]_vars
  BY NextStale DEF Stale
<1> QED BY <1>1, Invariant, PTL DEF Spec, StaleWrites

=============================================================================
