------------------------- MODULE RegistrationProofs -------------------------
(***************************************************************************)
(* Theorems about Registration, for any phones, threads and lifetimes.      *)
(*                                                                         *)
(* IInv is the inductive invariant.  PinsVerified alone is not inductive: a *)
(* registration under way commits without a second look at its challenge,   *)
(* so the row lock must keep what it saw (Held).  RegisteredOnce needs the  *)
(* unique constraint on the phone and nothing of the locks.                *)
(***************************************************************************)
EXTENDS Registration, SequenceTheorems, TLAPS

\* The challenge of a registration under way stays the confirmed one that it locked.
Held ==
    \A t \in Threads : threads[t].phase = "register" =>
        LET i == threads[t].challenge IN
        /\ i \in DOMAIN challenges
        /\ challenges[i].status = "VERIFIED"
        /\ challenges[i].purpose \in {"REGISTER", "LOGIN"}

IInv == TypeOK /\ Held /\ PinsVerified /\ RegisteredOnce

-----------------------------------------------------------------------------
(* Rows *)

\* What adding a row to a table does.
LEMMA Appended ==
    ASSUME NEW S, NEW s \in Seq(S), NEW e \in S
    PROVE  /\ Append(s, e) \in Seq(S)
           /\ Len(Append(s, e)) = Len(s) + 1
           /\ DOMAIN Append(s, e) = 1..(Len(s) + 1)
           /\ \A i \in DOMAIN s : Append(s, e)[i] = s[i]
           /\ Append(s, e)[Len(s) + 1] = e
           /\ Len(s) \in Nat
           /\ DOMAIN s = 1..Len(s)
OBVIOUS

\* Rewriting rows of a table in place.
LEMMA Replaced ==
    ASSUME NEW S, NEW s \in Seq(S), NEW r, DOMAIN r = DOMAIN s,
           r = [i \in DOMAIN s |-> r[i]], \A i \in DOMAIN s : r[i] \in S
    PROVE  r \in Seq(S)
OBVIOUS

\* The fields of a challenge have their types.
LEMMA ChallengeFields ==
    ASSUME NEW c \in OtpChallenge
    PROVE  /\ c.phone \in Phones /\ c.purpose \in OtpPurpose /\ c.status \in OtpStatus
           /\ c.createdAt \in Nat /\ c.expiresAt \in Nat /\ c.usableUntil \in Nat
           /\ c.live \in BOOLEAN /\ c.attempts \in Nat /\ c.wrong \in Nat
BY DEF OtpChallenge

\* A challenge with another status is well-formed and keeps its other fields.
LEMMA StatusChanged ==
    ASSUME NEW c \in OtpChallenge, NEW status \in OtpStatus,
           NEW d, d = [c EXCEPT !.status = status]
    PROVE  /\ d \in OtpChallenge
           /\ d.status = status /\ d.phone = c.phone /\ d.purpose = c.purpose
BY DEF OtpChallenge

-----------------------------------------------------------------------------
(* What the steps do to the two properties *)

\* What no step but the two that set a PIN does to the challenges: rows stay, with their
\* phone and purpose, none is used up and none of those used up comes back.
KeepsUse ==
    /\ DOMAIN challenges \subseteq DOMAIN challenges'
    /\ \A i \in DOMAIN challenges :
          /\ challenges'[i].phone = challenges[i].phone
          /\ challenges'[i].purpose = challenges[i].purpose
          /\ (challenges'[i].status = "CONSUMED") <=> (challenges[i].status = "CONSUMED")
    /\ \A i \in DOMAIN challenges' :
          i \notin DOMAIN challenges => challenges'[i].status # "CONSUMED"

\* Such a step leaves the PINs verified.
LEMMA PinsKept ==
    ASSUME PinsVerified, KeepsUse, UNCHANGED pins
    PROVE  PinsVerified'
<1>1. \A i \in DOMAIN pins :
         LET challenge == challenges'[pins[i].challenge] IN
         /\ pins[i].challenge \in DOMAIN challenges'
         /\ challenge.status = "CONSUMED"
         /\ challenge.phone = pins[i].phone
         /\ (challenge.purpose = "PIN_RESET") = (pins[i].how = "reset")
  BY DEF PinsVerified, KeepsUse
<1>2. \A i, j \in DOMAIN pins : pins[i].challenge = pins[j].challenge => i = j
  BY DEF PinsVerified
<1>3. \A i \in DOMAIN challenges' :
         challenges'[i].status = "CONSUMED" => \E j \in DOMAIN pins : pins[j].challenge = i
  BY DEF PinsVerified, KeepsUse
<1> QED BY <1>1, <1>2, <1>3 DEF PinsVerified

\* Using up a confirmed challenge for a PIN of its own phone and purpose does, too.
LEMMA PinAdded ==
    ASSUME PinsVerified, TypeOK,
           NEW i \in DOMAIN challenges, challenges[i].status # "CONSUMED",
           NEW how \in {"registration", "reset"},
           (challenges[i].purpose = "PIN_RESET") = (how = "reset"),
           challenges' = Consumed(i),
           pins' = Append(pins, [phone |-> challenges[i].phone, challenge |-> i, how |-> how])
    PROVE  PinsVerified'
<1> DEFINE pin == [phone |-> challenges[i].phone, challenge |-> i, how |-> how]
<1>1. challenges[i] \in OtpChallenge /\ i \in Nat \ {0} /\ pins \in Seq(PinSet)
  BY DEF TypeOK
<1>2. pin \in PinSet
  BY <1>1, ChallengeFields DEF PinSet
<1>3. pin.phone = challenges[i].phone /\ pin.challenge = i /\ pin.how = how
  OBVIOUS
<1> HIDE DEF pin
<1>4. /\ DOMAIN pins' = 1..(Len(pins) + 1) /\ DOMAIN pins = 1..Len(pins) /\ Len(pins) \in Nat
      /\ \A j \in DOMAIN pins : pins'[j] = pins[j]
      /\ pins'[Len(pins) + 1] = pin
  BY <1>1, <1>2, Appended DEF pin
<1>5. \A j \in DOMAIN pins' : j \in DOMAIN pins \/ j = Len(pins) + 1
  BY <1>4
<1>6. /\ DOMAIN challenges' = DOMAIN challenges
      /\ challenges'[i] = [challenges[i] EXCEPT !.status = "CONSUMED"]
      /\ \A j \in DOMAIN challenges : j # i => challenges'[j] = challenges[j]
  BY DEF Consumed
<1>7. /\ challenges'[i].status = "CONSUMED" /\ challenges'[i].phone = challenges[i].phone
      /\ challenges'[i].purpose = challenges[i].purpose
  BY <1>1, <1>6, StatusChanged DEF OtpStatus
<1>8. \A j \in DOMAIN pins : pins[j].challenge # i
  BY DEF PinsVerified
<1>9. ASSUME NEW j \in DOMAIN pins'
      PROVE  /\ pins'[j].challenge \in DOMAIN challenges'
             /\ challenges'[pins'[j].challenge].status = "CONSUMED"
             /\ challenges'[pins'[j].challenge].phone = pins'[j].phone
             /\ (challenges'[pins'[j].challenge].purpose = "PIN_RESET") = (pins'[j].how = "reset")
  <2>1. CASE j \in DOMAIN pins
    <3>1. pins'[j] = pins[j] /\ pins[j].challenge \in DOMAIN challenges /\ pins[j].challenge # i
      BY <1>4, <1>8, <2>1 DEF PinsVerified
    <3>2. challenges'[pins'[j].challenge] = challenges[pins[j].challenge]
      BY <1>6, <3>1
    <3> QED BY <1>6, <2>1, <3>1, <3>2 DEF PinsVerified
  <2>2. CASE j = Len(pins) + 1
    <3>1. /\ pins'[j].challenge = i /\ pins'[j].how = how
          /\ pins'[j].phone = challenges[i].phone
      BY <1>3, <1>4, <2>2
    <3> QED BY <1>6, <1>7, <3>1
  <2> QED BY <1>5, <2>1, <2>2
<1>10. \A j, k \in DOMAIN pins' : pins'[j].challenge = pins'[k].challenge => j = k
  BY <1>3, <1>4, <1>5, <1>8 DEF PinsVerified
<1>11. \A j \in DOMAIN challenges' :
          challenges'[j].status = "CONSUMED" => \E k \in DOMAIN pins' : pins'[k].challenge = j
  <2>1. Len(pins) + 1 \in DOMAIN pins' /\ DOMAIN pins \subseteq DOMAIN pins'
    BY <1>4
  <2>2. ASSUME NEW j \in DOMAIN challenges, j # i, challenges'[j].status = "CONSUMED"
        PROVE  \E k \in DOMAIN pins' : pins'[k].challenge = j
    <3>1. PICK k \in DOMAIN pins : pins[k].challenge = j
      BY <1>6, <2>2 DEF PinsVerified
    <3> QED BY <1>4, <2>1, <3>1
  <2> QED BY <1>3, <1>4, <1>6, <2>1, <2>2
<1> QED BY <1>9, <1>10, <1>11 DEF PinsVerified

\* A PIN that registers exactly the phones without an account keeps RegisteredOnce.
LEMMA PhoneAdded ==
    ASSUME RegisteredOnce, TypeOK, NEW pin \in PinSet,
           (pin.how = "registration") <=> (pin.phone \notin accounts),
           accounts' = accounts \cup {pin.phone},
           pins' = Append(pins, pin)
    PROVE  RegisteredOnce'
<1>1. /\ DOMAIN pins' = 1..(Len(pins) + 1) /\ DOMAIN pins = 1..Len(pins) /\ Len(pins) \in Nat
      /\ \A j \in DOMAIN pins : pins'[j] = pins[j]
      /\ pins'[Len(pins) + 1] = pin
  <2>1. pins \in Seq(PinSet)
    BY DEF TypeOK
  <2> QED BY <2>1, Appended
<1>2. \A j \in DOMAIN pins' : j \in DOMAIN pins \/ j = Len(pins) + 1
  BY <1>1
<1>3. accounts' = {pins'[i].phone : i \in DOMAIN pins'}
  <2>1. accounts = {pins[i].phone : i \in DOMAIN pins}
    BY DEF RegisteredOnce
  <2>2. Len(pins) + 1 \in DOMAIN pins' /\ DOMAIN pins \subseteq DOMAIN pins'
    BY <1>1
  <2> QED BY <1>1, <1>2, <2>1, <2>2
<1>4. ASSUME NEW i \in DOMAIN pins'
      PROVE  pins'[i].how = "registration" <=> \A j \in 1..i-1 : pins'[j].phone # pins'[i].phone
  <2>1. CASE i \in DOMAIN pins
    <3>1. \A j \in 1..i-1 : j \in DOMAIN pins
      BY <1>1, <2>1
    <3> QED BY <1>1, <2>1, <3>1 DEF RegisteredOnce
  <2>2. CASE i = Len(pins) + 1
    <3>1. 1..i-1 = DOMAIN pins
      BY <1>1, <2>2
    <3>2. pin.phone \notin accounts <=> \A j \in DOMAIN pins : pins[j].phone # pin.phone
      BY DEF RegisteredOnce
    <3> QED BY <1>1, <2>2, <3>1, <3>2
  <2> QED BY <1>2, <2>1, <2>2
<1> QED BY <1>3, <1>4 DEF RegisteredOnce

-----------------------------------------------------------------------------
(* One lemma per action *)

\* The type of a thread's record says what it holds.
LEMMA ThreadFields ==
    ASSUME NEW x \in Requesting \cup Registering \cup {Idle}
    PROVE  /\ x.phase \in {"expire", "insert"} =>
                /\ x \in Requesting
                /\ x.phone \in Phones /\ x.purpose \in OtpPurpose /\ x.at \in Nat
           /\ x.phase = "register" => x \in Registering
BY DEF Requesting, Registering, Idle

\* Expiring challenges that were pending, the only ones retired, uses none up.
LEMMA RetiredKeeps ==
    ASSUME TypeOK, NEW which \in SUBSET DOMAIN challenges,
           \A i \in which : challenges[i].status = "PENDING",
           challenges' = Retired(challenges, which)
    PROVE  /\ challenges' \in Seq(OtpChallenge)
           /\ KeepsUse
           /\ \A i \in DOMAIN challenges \ which : challenges'[i] = challenges[i]
<1>1. /\ challenges \in Seq(OtpChallenge)
      /\ \A i \in DOMAIN challenges : challenges[i] \in OtpChallenge
  BY DEF TypeOK
<1>2. /\ DOMAIN challenges' = DOMAIN challenges
      /\ challenges' = [i \in DOMAIN challenges |-> challenges'[i]]
      /\ \A i \in DOMAIN challenges \ which : challenges'[i] = challenges[i]
      /\ \A i \in which : challenges'[i] = [challenges[i] EXCEPT !.status = "EXPIRED"]
  BY DEF Retired
<1>3. \A i \in which :
         /\ challenges'[i] \in OtpChallenge
         /\ challenges'[i].status = "EXPIRED"
         /\ challenges'[i].phone = challenges[i].phone
         /\ challenges'[i].purpose = challenges[i].purpose
  <2>1. "EXPIRED" \in OtpStatus
    BY DEF OtpStatus
  <2>2. ASSUME NEW i \in which
        PROVE  /\ challenges'[i] \in OtpChallenge
               /\ challenges'[i].status = "EXPIRED"
               /\ challenges'[i].phone = challenges[i].phone
               /\ challenges'[i].purpose = challenges[i].purpose
    <3>1. challenges[i] \in OtpChallenge /\ challenges'[i] = [challenges[i] EXCEPT !.status = "EXPIRED"]
      BY <1>1, <1>2
    <3> QED BY <2>1, <3>1, StatusChanged
  <2> QED BY <2>2
<1>4. challenges' \in Seq(OtpChallenge)
  <2>1. \A i \in DOMAIN challenges : challenges'[i] \in OtpChallenge
    BY <1>1, <1>2, <1>3
  <2> QED BY <1>1, <1>2, <2>1, Replaced
<1> QED BY <1>2, <1>3, <1>4 DEF KeepsUse

\* Threads that start or go on with a request hold no more than before.
LEMMA RequestingKeeps ==
    ASSUME TypeOK, NEW t \in Threads, NEW x \in Requesting \cup {Idle},
           threads' = [threads EXCEPT ![t] = x]
    PROVE  /\ threads' \in [Threads -> Requesting \cup Registering \cup {Idle}]
           /\ \A u \in Threads :
                 threads'[u].phase = "register" => u # t /\ threads'[u] = threads[u]
           /\ \A u, v \in Threads :
                 threads'[u].phase = "register" /\ threads'[v] = threads'[u] => u = v
<1>1. threads \in [Threads -> Requesting \cup Registering \cup {Idle}]
  BY DEF TypeOK
<1>2. x.phase # "register"
  BY DEF Requesting, Idle
<1>3. threads' \in [Threads -> Requesting \cup Registering \cup {Idle}]
  BY <1>1
<1>4. \A u \in Threads : threads'[u] = IF u = t THEN x ELSE threads[u]
  BY <1>1
<1>5. \A u, v \in Threads :
         threads[u].phase = "register" /\ threads[v] = threads[u] => u = v
  BY DEF TypeOK
<1> QED BY <1>2, <1>3, <1>4, <1>5

\* request_otp starts: no row changes.
LEMMA RequestOtpKeeps ==
    ASSUME IInv, NEW t \in Threads, NEW phone \in Phones, NEW asked \in OtpPurpose,
           RequestOtp(t, phone, asked)
    PROVE  IInv'
<1> DEFINE purpose == EffectivePurpose(phone, asked)
           x == [phase |-> "expire", phone |-> phone, purpose |-> purpose, at |-> now]
<1>1. TypeOK /\ Held /\ PinsVerified /\ RegisteredOnce
  BY DEF IInv
<1>2. threads' = [threads EXCEPT ![t] = x] /\ UNCHANGED <<now, challenges, accounts, pins>>
  BY DEF RequestOtp
<1>3. purpose \in OtpPurpose
  BY DEF EffectivePurpose, OtpPurpose
<1>4. x \in Requesting
  BY <1>1, <1>3 DEF Requesting, TypeOK
<1> HIDE DEF x
<1>5. TypeOK'
  BY <1>1, <1>2, <1>4, RequestingKeeps DEF TypeOK
<1>6. Held'
  BY <1>1, <1>2, <1>4, RequestingKeeps DEF Held
<1> QED BY <1>1, <1>2, <1>5, <1>6 DEF IInv, PinsVerified, RegisteredOnce

\* The UPDATE of request_otp retires pending challenges, which no registration holds.
LEMMA RetireOlderKeeps ==
    ASSUME IInv, NEW t \in Threads, RetireOlder(t)
    PROVE  IInv'
<1> DEFINE older == {i \in For(threads[t].phone, threads[t].purpose) :
                        challenges[i].status = "PENDING"}
           x == [threads[t] EXCEPT !.phase = "insert"]
<1>1. TypeOK /\ Held /\ PinsVerified /\ RegisteredOnce
  BY DEF IInv
<1>2. /\ threads[t].phase = "expire"
      /\ challenges' = Retired(challenges, older)
      /\ threads' = [threads EXCEPT ![t] = x]
      /\ UNCHANGED <<now, accounts, pins>>
  BY DEF RetireOlder
<1>3. threads[t] \in Requesting
  BY <1>1, <1>2, ThreadFields DEF TypeOK
<1>4. x \in Requesting
  BY <1>3 DEF Requesting
<1>5. older \in SUBSET DOMAIN challenges /\ \A i \in older : challenges[i].status = "PENDING"
  BY DEF For, Live
<1> HIDE DEF x, older
<1>6. /\ challenges' \in Seq(OtpChallenge) /\ KeepsUse
      /\ \A i \in DOMAIN challenges \ older : challenges'[i] = challenges[i]
  BY <1>1, <1>2, <1>5, RetiredKeeps
<1>7. TypeOK'
  BY <1>1, <1>2, <1>4, <1>6, RequestingKeeps DEF TypeOK
<1>8. Held'
  <2>1. \A u \in Threads : threads'[u].phase = "register" => threads'[u] = threads[u]
    BY <1>1, <1>2, <1>4, RequestingKeeps
  <2>2. DOMAIN challenges \subseteq DOMAIN challenges'
    BY <1>6 DEF KeepsUse
  <2>3. \A i \in DOMAIN challenges :
           challenges[i].status = "VERIFIED" => challenges'[i] = challenges[i]
    BY <1>5, <1>6
  <2> QED BY <1>1, <2>1, <2>2, <2>3 DEF Held
<1>9. PinsVerified'
  BY <1>1, <1>2, <1>6, PinsKept
<1> QED BY <1>1, <1>2, <1>7, <1>8, <1>9 DEF IInv, RegisteredOnce

\* The INSERT of request_otp adds a pending challenge.
LEMMA InsertChallengeKeeps ==
    ASSUME IInv, NEW t \in Threads, InsertChallenge(t)
    PROVE  IInv'
<1> DEFINE x == threads[t]
           c == [phone |-> x.phone, purpose |-> x.purpose, status |-> "PENDING", attempts |-> 0,
                 createdAt |-> now, expiresAt |-> x.at + Ttl, usableUntil |-> 0, live |-> TRUE,
                 wrong |-> 0]
<1>1. TypeOK /\ Held /\ PinsVerified /\ RegisteredOnce
  BY DEF IInv
<1>2. /\ x.phase = "insert"
      /\ challenges' = Append(challenges, c)
      /\ threads' = [threads EXCEPT ![t] = Idle]
      /\ UNCHANGED <<now, accounts, pins>>
  BY DEF InsertChallenge
<1>3. x.phone \in Phones /\ x.purpose \in OtpPurpose /\ x.at \in Nat
  BY <1>1, <1>2, ThreadFields DEF TypeOK
<1>4. c \in OtpChallenge
  <2>1. x.at + Ttl \in Nat /\ now \in Nat
    BY <1>1, <1>3, RegistrationAssumption DEF TypeOK
  <2> HIDE DEF x
  <2> QED BY <1>3, <2>1 DEF OtpChallenge, OtpStatus
<1>5. c.status = "PENDING"
  OBVIOUS
<1> HIDE DEF c
<1>6. challenges \in Seq(OtpChallenge)
  BY <1>1 DEF TypeOK
<1>7. /\ challenges' \in Seq(OtpChallenge)
      /\ DOMAIN challenges' = 1..(Len(challenges) + 1) /\ DOMAIN challenges = 1..Len(challenges)
      /\ Len(challenges) \in Nat
      /\ \A i \in DOMAIN challenges : challenges'[i] = challenges[i]
      /\ challenges'[Len(challenges) + 1] = c
  BY <1>2, <1>4, <1>6, Appended
<1>8. DOMAIN challenges \subseteq DOMAIN challenges'
  BY <1>7
<1>9. KeepsUse
  <2>1. \A i \in DOMAIN challenges' : i \notin DOMAIN challenges => i = Len(challenges) + 1
    BY <1>7
  <2> QED BY <1>5, <1>7, <1>8, <2>1 DEF KeepsUse
<1>10. TypeOK'
  BY <1>1, <1>2, <1>7, RequestingKeeps DEF TypeOK
<1>11. Held'
  <2>1. \A u \in Threads : threads'[u].phase = "register" => threads'[u] = threads[u]
    BY <1>1, <1>2, RequestingKeeps
  <2> QED BY <1>1, <1>7, <1>8, <2>1 DEF Held
<1>12. PinsVerified'
  BY <1>1, <1>2, <1>9, PinsKept
<1> QED BY <1>1, <1>2, <1>10, <1>11, <1>12 DEF IInv, RegisteredOnce

\* One challenge that no registration holds changes, and is not used up.
LEMMA OneChanged ==
    ASSUME IInv, NEW i \in DOMAIN challenges, ~Locked(i), challenges[i].status # "CONSUMED",
           NEW c \in OtpChallenge, challenges' = [challenges EXCEPT ![i] = c],
           c.phone = challenges[i].phone, c.purpose = challenges[i].purpose,
           c.status # "CONSUMED", UNCHANGED <<now, accounts, threads, pins>>
    PROVE  IInv'
<1>1. TypeOK /\ Held /\ PinsVerified /\ RegisteredOnce
  BY DEF IInv
<1>2. challenges \in Seq(OtpChallenge)
  BY <1>1 DEF TypeOK
<1>3. /\ challenges' \in Seq(OtpChallenge) /\ DOMAIN challenges' = DOMAIN challenges
      /\ challenges'[i] = c
      /\ \A j \in DOMAIN challenges : j # i => challenges'[j] = challenges[j]
  BY <1>2
<1>4. KeepsUse
  BY <1>3 DEF KeepsUse
<1>5. TypeOK'
  BY <1>1, <1>3 DEF TypeOK
<1>6. Held'
  BY <1>1, <1>3 DEF Held, Locked
<1>7. PinsVerified'
  BY <1>1, <1>4, PinsKept
<1> QED BY <1>1, <1>5, <1>6, <1>7 DEF IInv, RegisteredOnce

\* verify_otp confirms a pending challenge.
LEMMA VerifyKeeps ==
    ASSUME IInv, NEW i \in DOMAIN challenges, Verify(i)
    PROVE  IInv'
<1> DEFINE c == [challenges[i] EXCEPT !.status = "VERIFIED", !.usableUntil = now + VerificationTtl]
<1>1. challenges[i] \in OtpChallenge /\ now + VerificationTtl \in Nat
  BY RegistrationAssumption DEF IInv, TypeOK
<1>2. /\ c \in OtpChallenge /\ c.status = "VERIFIED"
      /\ c.phone = challenges[i].phone /\ c.purpose = challenges[i].purpose
  BY <1>1 DEF OtpChallenge, OtpStatus
<1>3. /\ ~Locked(i) /\ challenges[i].status = "PENDING"
      /\ challenges' = [challenges EXCEPT ![i] = c]
      /\ UNCHANGED <<now, accounts, threads, pins>>
  BY DEF Verify, Open
<1> HIDE DEF c
<1> QED BY <1>2, <1>3, OneChanged

\* verify_otp refuses a wrong code: what it wrote is taken back.
LEMMA WrongCodeKeeps ==
    ASSUME IInv, NEW i \in DOMAIN challenges, WrongCode(i)
    PROVE  IInv'
<1> DEFINE c == [challenges[i] EXCEPT !.wrong = challenges[i].wrong + 1]
<1>1. challenges[i] \in OtpChallenge
  BY DEF IInv, TypeOK
<1>2. /\ c \in OtpChallenge /\ c.status = challenges[i].status
      /\ c.phone = challenges[i].phone /\ c.purpose = challenges[i].purpose
  BY <1>1 DEF OtpChallenge
<1>3. /\ ~Locked(i) /\ challenges[i].status = "PENDING"
      /\ challenges' = [challenges EXCEPT ![i] = c]
      /\ UNCHANGED <<now, accounts, threads, pins>>
  BY DEF WrongCode, Open, AfterRaise
<1> HIDE DEF c
<1> QED BY <1>2, <1>3, OneChanged

\* complete_registration locks a confirmed challenge that nobody else holds.
LEMMA RegisterReadKeeps ==
    ASSUME IInv, NEW t \in Threads, NEW i \in DOMAIN challenges, RegisterRead(t, i)
    PROVE  IInv'
<1> DEFINE x == [phase |-> "register", challenge |-> i]
<1>1. TypeOK /\ Held /\ PinsVerified /\ RegisteredOnce
  BY DEF IInv
<1>2. /\ ~Locked(i) /\ challenges[i].status = "VERIFIED"
      /\ challenges[i].purpose \in {"REGISTER", "LOGIN"}
      /\ threads' = [threads EXCEPT ![t] = x]
      /\ UNCHANGED <<now, challenges, accounts, pins>>
  BY DEF RegisterRead, Usable
<1>3. i \in Nat \ {0} /\ threads \in [Threads -> Requesting \cup Registering \cup {Idle}]
  BY <1>1 DEF TypeOK
<1>4. x \in Registering /\ x.phase = "register" /\ x.challenge = i
  BY <1>3 DEF Registering
<1> HIDE DEF x
<1>5. /\ threads' \in [Threads -> Requesting \cup Registering \cup {Idle}]
      /\ \A u \in Threads : threads'[u] = IF u = t THEN x ELSE threads[u]
  BY <1>2, <1>3, <1>4
<1>6. \A u \in Threads : threads[u] # x
  BY <1>2, <1>4 DEF Locked
<1>7. \A u, v \in Threads :
         threads'[u].phase = "register" /\ threads'[v] = threads'[u] => u = v
  <2>1. \A u, v \in Threads :
           threads[u].phase = "register" /\ threads[v] = threads[u] => u = v
    BY <1>1 DEF TypeOK
  <2> QED BY <1>5, <1>6, <2>1
<1>8. TypeOK'
  BY <1>1, <1>2, <1>5, <1>7 DEF TypeOK
<1>9. Held'
  BY <1>1, <1>2, <1>4, <1>5 DEF Held
<1> QED BY <1>1, <1>2, <1>8, <1>9 DEF IInv, PinsVerified, RegisteredOnce

\* Consuming a challenge leaves the table well-formed and the other rows alone.
LEMMA ConsumedRows ==
    ASSUME TypeOK, NEW i \in DOMAIN challenges, challenges' = Consumed(i)
    PROVE  /\ challenges' \in Seq(OtpChallenge) /\ DOMAIN challenges' = DOMAIN challenges
           /\ \A j \in DOMAIN challenges : j # i => challenges'[j] = challenges[j]
<1> DEFINE c == [challenges[i] EXCEPT !.status = "CONSUMED"]
<1>1. challenges \in Seq(OtpChallenge) /\ challenges[i] \in OtpChallenge
  BY DEF TypeOK
<1>2. c \in OtpChallenge
  BY <1>1 DEF OtpChallenge, OtpStatus
<1>3. challenges' = [challenges EXCEPT ![i] = c]
  BY DEF Consumed
<1> HIDE DEF c
<1> QED BY <1>1, <1>2, <1>3

\* A PIN for a phone that a challenge names is well-formed.
LEMMA PinType ==
    ASSUME TypeOK, NEW i \in DOMAIN challenges, NEW how \in {"registration", "reset"},
           NEW pin, pin = [phone |-> challenges[i].phone, challenge |-> i, how |-> how]
    PROVE  /\ pin \in PinSet
           /\ pin.phone = challenges[i].phone /\ pin.how = how /\ pin.phone \in Phones
<1>1. i \in Nat \ {0} /\ challenges[i].phone \in Phones
  BY ChallengeFields DEF TypeOK
<1> QED BY <1>1 DEF PinSet

\* The commit of complete_registration.
LEMMA RegisterCommitKeeps ==
    ASSUME IInv, NEW t \in Threads, RegisterCommit(t)
    PROVE  IInv'
<1> DEFINE i == threads[t].challenge
           pin == [phone |-> challenges[i].phone, challenge |-> i, how |-> "registration"]
<1>1. TypeOK /\ Held /\ PinsVerified /\ RegisteredOnce
  BY DEF IInv
<1>2. /\ threads[t].phase = "register"
      /\ challenges[i].phone \notin accounts
      /\ accounts' = accounts \cup {challenges[i].phone}
      /\ challenges' = Consumed(i)
      /\ pins' = Append(pins, pin)
      /\ threads' = [threads EXCEPT ![t] = Idle]
      /\ UNCHANGED now
  BY DEF RegisterCommit, PhoneFree
<1>3. /\ i \in DOMAIN challenges /\ challenges[i].status = "VERIFIED"
      /\ challenges[i].purpose \in {"REGISTER", "LOGIN"}
  BY <1>1, <1>2 DEF Held
<1>4. /\ pin \in PinSet /\ pin.phone = challenges[i].phone /\ pin.how = "registration"
      /\ pin.phone \in Phones
  BY <1>1, <1>3, PinType
<1>5. PinsVerified'
  <2> HIDE DEF i
  <2> QED BY <1>1, <1>2, <1>3, PinAdded
<1> HIDE DEF pin
<1>6. RegisteredOnce'
  BY <1>1, <1>2, <1>4, PhoneAdded
<1>7. /\ challenges' \in Seq(OtpChallenge) /\ DOMAIN challenges' = DOMAIN challenges
      /\ \A j \in DOMAIN challenges : j # i => challenges'[j] = challenges[j]
  BY <1>1, <1>2, <1>3, ConsumedRows
<1>8. TypeOK'
  <2>1. pins' \in Seq(PinSet) /\ accounts' \in SUBSET Phones /\ now' \in Nat
    BY <1>1, <1>2, <1>4 DEF TypeOK
  <2> QED BY <1>1, <1>2, <1>7, <2>1, RequestingKeeps DEF TypeOK
<1>9. Held'
  <2>1. \A u \in Threads :
           threads'[u].phase = "register" => u # t /\ threads'[u] = threads[u]
    BY <1>1, <1>2, RequestingKeeps
  <2>2. ASSUME NEW u \in Threads, u # t, threads[u].phase = "register"
        PROVE  threads[u].challenge # i
    <3>1. threads[u] \in Registering /\ threads[t] \in Registering
      BY <1>1, <1>2, <2>2, ThreadFields DEF TypeOK
    <3>2. threads[u] # threads[t]
      BY <1>1, <2>2 DEF TypeOK
    <3> QED BY <3>1, <3>2 DEF Registering
  <2> HIDE DEF i
  <2> QED BY <1>1, <1>7, <2>1, <2>2 DEF Held
<1> QED BY <1>5, <1>6, <1>8, <1>9 DEF IInv

\* reset_pin, for an account that exists.
LEMMA ResetPinKeeps ==
    ASSUME IInv, NEW i \in DOMAIN challenges, ResetPin(i)
    PROVE  IInv'
<1> DEFINE pin == [phone |-> challenges[i].phone, challenge |-> i, how |-> "reset"]
<1>1. TypeOK /\ Held /\ PinsVerified /\ RegisteredOnce
  BY DEF IInv
<1>2. /\ ~Locked(i) /\ challenges[i].status = "VERIFIED"
      /\ challenges[i].purpose = "PIN_RESET"
      /\ challenges[i].phone \in accounts
      /\ challenges' = Consumed(i)
      /\ pins' = Append(pins, pin)
      /\ UNCHANGED <<now, accounts, threads>>
  BY DEF ResetPin, Usable
<1>3. pin \in PinSet /\ pin.phone = challenges[i].phone /\ pin.how = "reset"
  BY <1>1, PinType
<1>4. PinsVerified'
  BY <1>1, <1>2, PinAdded
<1> HIDE DEF pin
<1>5. RegisteredOnce'
  <2>1. accounts' = accounts \cup {pin.phone}
    BY <1>2, <1>3
  <2> QED BY <1>1, <1>2, <1>3, <2>1, PhoneAdded
<1>6. /\ challenges' \in Seq(OtpChallenge) /\ DOMAIN challenges' = DOMAIN challenges
      /\ \A j \in DOMAIN challenges : j # i => challenges'[j] = challenges[j]
  BY <1>1, <1>2, ConsumedRows
<1>7. TypeOK'
  <2>1. pins' \in Seq(PinSet)
    BY <1>1, <1>2, <1>3 DEF TypeOK
  <2> QED BY <1>1, <1>2, <1>6, <2>1 DEF TypeOK
<1>8. Held'
  BY <1>1, <1>2, <1>6 DEF Held, Locked
<1> QED BY <1>4, <1>5, <1>7, <1>8 DEF IInv

\* A rollback.
LEMMA DieKeeps ==
    ASSUME IInv, NEW t \in Threads, Die(t)
    PROVE  IInv'
<1>1. TypeOK /\ Held /\ PinsVerified /\ RegisteredOnce
  BY DEF IInv
<1>2. threads' = [threads EXCEPT ![t] = Idle] /\ UNCHANGED <<now, challenges, accounts, pins>>
  BY DEF Die
<1>3. TypeOK'
  BY <1>1, <1>2, RequestingKeeps DEF TypeOK
<1>4. Held'
  BY <1>1, <1>2, RequestingKeeps DEF Held
<1> QED BY <1>1, <1>2, <1>3, <1>4 DEF IInv, PinsVerified, RegisteredOnce

\* The first statement of the cleanup retires pending challenges.
LEMMA CleanupExpireKeeps ==
    ASSUME IInv, CleanupExpire
    PROVE  IInv'
<1>1. TypeOK /\ Held /\ PinsVerified /\ RegisteredOnce
  BY DEF IInv
<1>2. /\ challenges' = Retired(challenges, Overdue)
      /\ UNCHANGED <<now, accounts, threads, pins>>
  BY DEF CleanupExpire
<1>3. Overdue \in SUBSET DOMAIN challenges /\ \A i \in Overdue : challenges[i].status = "PENDING"
  BY DEF Overdue, Live
<1>4. /\ challenges' \in Seq(OtpChallenge) /\ KeepsUse
      /\ \A i \in DOMAIN challenges \ Overdue : challenges'[i] = challenges[i]
  BY <1>1, <1>2, <1>3, RetiredKeeps
<1>5. TypeOK'
  BY <1>1, <1>2, <1>4 DEF TypeOK
<1>6. Held'
  <2>1. \A i \in DOMAIN challenges :
           i \in DOMAIN challenges'
           /\ (challenges[i].status = "VERIFIED" => challenges'[i] = challenges[i])
    BY <1>3, <1>4 DEF KeepsUse
  <2> QED BY <1>1, <1>2, <2>1 DEF Held
<1>7. PinsVerified'
  BY <1>1, <1>2, <1>4, PinsKept
<1> QED BY <1>1, <1>2, <1>5, <1>6, <1>7 DEF IInv, RegisteredOnce

\* The second one deletes old rows, whatever their status.
LEMMA CleanupDeleteKeeps ==
    ASSUME IInv, CleanupDelete
    PROVE  IInv'
<1>1. TypeOK /\ Held /\ PinsVerified /\ RegisteredOnce
  BY DEF IInv
<1>2. PICK old \in SUBSET DOMAIN challenges :
         /\ challenges' = [i \in DOMAIN challenges |->
                             [challenges[i] EXCEPT !.live = @ /\ i \notin old]]
         /\ UNCHANGED <<now, accounts, threads, pins>>
  BY DEF CleanupDelete, Live
<1>3. challenges \in Seq(OtpChallenge) /\ \A i \in DOMAIN challenges : challenges[i] \in OtpChallenge
  BY <1>1 DEF TypeOK
<1>4. ASSUME NEW i \in DOMAIN challenges
      PROVE  /\ challenges'[i] \in OtpChallenge
             /\ challenges'[i].status = challenges[i].status
             /\ challenges'[i].phone = challenges[i].phone
             /\ challenges'[i].purpose = challenges[i].purpose
  <2> DEFINE live == challenges[i].live /\ i \notin old
  <2>1. challenges'[i] = [challenges[i] EXCEPT !.live = live]
    BY <1>2
  <2>2. live \in BOOLEAN /\ challenges[i] \in OtpChallenge
    BY <1>3
  <2> HIDE DEF live
  <2> QED BY <2>1, <2>2 DEF OtpChallenge
<1>5. DOMAIN challenges' = DOMAIN challenges /\ challenges' = [i \in DOMAIN challenges |-> challenges'[i]]
  BY <1>2
<1>6. challenges' \in Seq(OtpChallenge)
  BY <1>3, <1>4, <1>5, Replaced
<1>7. KeepsUse
  BY <1>4, <1>5 DEF KeepsUse
<1>8. TypeOK'
  BY <1>1, <1>2, <1>6 DEF TypeOK
<1>9. Held'
  BY <1>1, <1>2, <1>4, <1>5 DEF Held
<1>10. PinsVerified'
  BY <1>1, <1>2, <1>7, PinsKept
<1> QED BY <1>1, <1>2, <1>8, <1>9, <1>10 DEF IInv, RegisteredOnce

-----------------------------------------------------------------------------
(* The theorems *)

\* At the start there is no row and no registration.
LEMMA InitIInv == Init => IInv
<1> SUFFICES ASSUME Init PROVE IInv
  OBVIOUS
<1>1. /\ now = 0 /\ challenges = <<>> /\ accounts = {} /\ pins = <<>>
      /\ threads = [t \in Threads |-> Idle]
  BY DEF Init
<1>2. \A t \in Threads : threads[t].phase # "register"
  BY <1>1 DEF Idle
<1>3. TypeOK /\ Held
  BY <1>1, <1>2 DEF TypeOK, Held
<1>4. PinsVerified /\ RegisteredOnce
  BY <1>1 DEF PinsVerified, RegisteredOnce
<1> QED BY <1>3, <1>4 DEF IInv

\* Every step keeps the invariant: one lemma above for each.
LEMMA NextIInv == IInv /\ [Next]_vars => IInv'
<1> SUFFICES ASSUME IInv, [Next]_vars PROVE IInv'
  OBVIOUS
<1>1. CASE UNCHANGED vars
  BY <1>1 DEF vars, IInv, TypeOK, Held, PinsVerified, RegisteredOnce
<1>2. CASE Tick
  <2>1. now \in Nat /\ now' = now + 1 /\ UNCHANGED <<challenges, accounts, threads, pins>>
    BY <1>2 DEF Tick, IInv, TypeOK
  <2>2. now' \in Nat
    BY <2>1
  <2> QED BY <2>1, <2>2 DEF IInv, TypeOK, Held, PinsVerified, RegisteredOnce
<1>3. ASSUME NEW t \in Threads,
             \/ \E phone \in Phones, asked \in OtpPurpose : RequestOtp(t, phone, asked)
             \/ RetireOlder(t) \/ InsertChallenge(t)
             \/ \E i \in DOMAIN challenges : RegisterRead(t, i)
             \/ RegisterCommit(t) \/ Die(t)
      PROVE  IInv'
  BY <1>3, RequestOtpKeeps, RetireOlderKeeps, InsertChallengeKeeps, RegisterReadKeeps,
     RegisterCommitKeeps, DieKeeps
<1>4. ASSUME NEW i \in DOMAIN challenges, Verify(i) \/ WrongCode(i) \/ ResetPin(i)
      PROVE  IInv'
  BY <1>4, VerifyKeeps, WrongCodeKeeps, ResetPinKeeps
<1>5. CASE CleanupExpire \/ CleanupDelete
  BY <1>5, CleanupExpireKeeps, CleanupDeleteKeeps
<1> QED BY <1>1, <1>2, <1>3, <1>4, <1>5 DEF Next

\* The inductive invariant holds in every reachable state.
THEOREM RegistrationInvariant == Spec => []IInv
BY InitIInv, NextIInv, PTL DEF Spec

\* Every row and thread keeps its shape, and no challenge is held by two registrations.
THEOREM TypeCorrect == Spec => []TypeOK
<1>1. IInv => TypeOK
  BY DEF IInv
<1> QED BY <1>1, RegistrationInvariant, PTL

\* Every confirmation is used at most once, for its own phone and purpose, and for a PIN.
THEOREM PinsVerifiedCorrect == Spec => []PinsVerified
<1>1. IInv => PinsVerified
  BY DEF IInv
<1> QED BY <1>1, RegistrationInvariant, PTL

\* Every phone is registered at most once, and before any reset of its PIN.
THEOREM RegisteredOnceCorrect == Spec => []RegisteredOnce
<1>1. IInv => RegisteredOnce
  BY DEF IInv
<1> QED BY <1>1, RegistrationInvariant, PTL

=============================================================================
