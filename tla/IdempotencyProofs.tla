------------------------- MODULE IdempotencyProofs --------------------------
(***************************************************************************)
(* What run_idempotent promises of its records, its operations and its      *)
(* answers, after any history and for all values of the constants of        *)
(* Idempotency: any number of threads, keys and bodies, with crashes         *)
(* between any two steps.                                                  *)
(*                                                                         *)
(* The argument is about why a row is gone.  It was old, or its attempt has  *)
(* failed and given it up (GoneForAReason); so of two rows of one key the    *)
(* first was old for the second, or given up (Succession).                 *)
(***************************************************************************)
EXTENDS Idempotency, FiniteSetTheorems, TLAPS

\* The phases in which a thread owns the record it inserted.
Owning == {"handle", "respond", "forget", "save"}
Owns(a, i) == attempts[a].phase \in Owning /\ attempts[a].id = i

\* Every operation of record i was followed by a failure of its handler.
AllFailed(i) == \A e \in DOMAIN effects : effects[e].record = i => effects[e].failed
GivenUp(i) == AllFailed(i) /\ \A a \in Attempts : ~Owns(a, i)

Typed ==
    /\ now \in Nat
    /\ records \in Seq(Record)
    /\ attempts \in [Attempts -> Attempt \cup {Idle}]
    /\ effects \in Seq(Effect)
    /\ answers \subseteq Answer
    /\ sends \in Nat

\* The unique constraint.
UniqueKeys ==
    \A i, j \in DOMAIN records :
        records[i].live /\ records[j].live /\ records[i].key = records[j].key => i = j

\* What a thread knows of its record and of the operation it has committed.
Knows(a) ==
    /\ attempts[a].id \in DOMAIN records
    /\ records[attempts[a].id].key = attempts[a].key
    /\ records[attempts[a].id].body = attempts[a].body
    /\ attempts[a].phase = "handle" => \A e \in DOMAIN effects : effects[e].record # attempts[a].id
    /\ attempts[a].phase \in {"respond", "save"} =>
          attempts[a].op \in DOMAIN effects /\ effects[attempts[a].op].record = attempts[a].id
    /\ attempts[a].phase = "forget" => AllFailed(attempts[a].id)

OwnRecords ==
    /\ \A a \in Attempts : attempts[a].phase \in Owning => Knows(a)
    /\ \A a, b \in Attempts :
          /\ attempts[a].phase \in Owning /\ attempts[b].phase \in Owning
          /\ attempts[a].id = attempts[b].id
          => a = b

\* An operation ran under one record, and a record had at most one operation.
OneOperation ==
    /\ \A e \in DOMAIN effects : effects[e].record \in DOMAIN records
    /\ \A e, f \in DOMAIN effects : effects[e].record = effects[f].record => e = f
    /\ \A i \in DOMAIN records : records[i].result # None =>
          records[i].result \in DOMAIN effects /\ effects[records[i].result].record = i

GoneForAReason == \A i \in DOMAIN records : records[i].live \/ Old(i) \/ GivenUp(i)

Succession ==
    \A i, j \in DOMAIN records : i < j /\ records[i].key = records[j].key =>
        records[i].createdAt + Retention < records[j].createdAt \/ GivenUp(i)

IdempotencyOK ==
    /\ Typed /\ UniqueKeys /\ OwnRecords /\ OneOperation /\ GoneForAReason /\ Succession
    /\ AnswersFaithful

-----------------------------------------------------------------------------
(* What the invariant says *)

LEMMA UniqueMeans == Typed /\ UniqueKeys => TypeOK
<1> SUFFICES ASSUME Typed, UniqueKeys, NEW key \in Keys PROVE Cardinality(Holding(key)) <= 1
  BY DEF Typed, TypeOK
<1> DEFINE rows == Holding(key)
<1>1. \A i, j \in rows : i = j
  BY DEF UniqueKeys, Holding
<1> HIDE DEF rows
<1>2. CASE rows = {}
  <2>1. Cardinality(rows) = 0
    BY <1>2, FS_EmptySet
  <2> QED BY <2>1 DEF rows
<1>3. CASE rows # {}
  <2>1. PICK i \in rows : TRUE
    BY <1>3
  <2>2. rows = {i}
    BY <1>1, <2>1
  <2>3. Cardinality(rows) = 1
    BY <2>2, FS_Singleton
  <2> QED BY <2>3 DEF rows
<1> QED BY <1>2, <1>3

LEMMA SuccessionMeans == IdempotencyOK => RepeatedOnlyAfterFailure
<1> SUFFICES ASSUME IdempotencyOK, NEW e \in DOMAIN effects, NEW f \in DOMAIN effects,
                    e # f, SameKey(e, f)
             PROVE  /\ effects[e].record # effects[f].record
                    /\ effects[e].record < effects[f].record => effects[e].failed \/ Apart(e, f)
  BY DEF RepeatedOnlyAfterFailure
<1> DEFINE i == effects[e].record
           j == effects[f].record
<1>1. i # j /\ i \in DOMAIN records /\ j \in DOMAIN records
  BY DEF IdempotencyOK, OneOperation
<1>2. ASSUME i < j PROVE effects[e].failed \/ Apart(e, f)
  <2>1. records[i].createdAt + Retention < records[j].createdAt \/ GivenUp(i)
    BY <1>1, <1>2 DEF IdempotencyOK, Succession, SameKey
  <2> QED BY <2>1 DEF Apart, GivenUp, AllFailed
<1> QED BY <1>1, <1>2

-----------------------------------------------------------------------------
(* What the steps do *)

LEMMA ThreadFields ==
    ASSUME Typed, NEW a \in Attempts, attempts[a].phase \in Phase
    PROVE  /\ attempts[a] \in Attempt
           /\ attempts[a].key \in Keys /\ attempts[a].body \in Bodies
           /\ attempts[a].id \in Nat /\ attempts[a].op \in Nat
<1>1. attempts[a] \in Attempt \cup {Idle}
  BY DEF Typed
<1>2. Idle.phase \notin Phase
  BY DEF Idle, Phase
<1>3. attempts[a] \in Attempt
  BY <1>1, <1>2
<1> QED BY <1>3 DEF Attempt

LEMMA OwningPhases == Owning \subseteq Phase
BY DEF Owning, Phase

\* Only thread a changes, and becomes to.
Turned(a, to) ==
    /\ attempts' \in [Attempts -> Attempt \cup {Idle}]
    /\ attempts'[a] = to
    /\ \A b \in Attempts : b # a => attempts'[b] = attempts[b]

LEMMA ThreadTurned ==
    ASSUME Typed, NEW a \in Attempts, NEW to \in Attempt \cup {Idle},
           attempts' = [attempts EXCEPT ![a] = to]
    PROVE  Turned(a, to)
BY DEF Typed, Turned

\* A thread goes on with the same request, record and operation in another phase.
SameCall(to, from) == to.key = from.key /\ to.body = from.body /\ to.id = from.id /\ to.op = from.op

LEMMA ThreadMoved ==
    ASSUME Typed, NEW a \in Attempts, attempts[a].phase \in Phase, NEW phase \in Phase,
           attempts' = Moved(a, phase)
    PROVE  \E to \in Attempt : to.phase = phase /\ SameCall(to, attempts[a]) /\ Turned(a, to)
<1> DEFINE to == [attempts[a] EXCEPT !.phase = phase]
<1>1. to \in Attempt /\ to.phase = phase /\ SameCall(to, attempts[a])
  BY ThreadFields DEF Attempt, SameCall
<1>2. attempts' = [attempts EXCEPT ![a] = to]
  BY DEF Moved
<1> HIDE DEF to
<1>3. Turned(a, to)
  BY <1>1, <1>2, ThreadTurned
<1> QED BY <1>1, <1>3

LEMMA ThreadDone ==
    ASSUME Typed, NEW a \in Attempts, attempts' = Done(a)
    PROVE  Turned(a, Idle) /\ Idle.phase \notin Phase
<1>1. Idle \in Attempt \cup {Idle} /\ Idle.phase \notin Phase
  BY DEF Idle, Phase
<1>2. attempts' = [attempts EXCEPT ![a] = Idle]
  BY DEF Done
<1> QED BY <1>1, <1>2, ThreadTurned

\* An answer is added.
LEMMA Replied ==
    ASSUME Typed, NEW a \in Attempts, attempts[a].phase \in Phase, NEW op \in Nat, Reply(a, op)
    PROVE  /\ answers' \subseteq Answer
           /\ \A x \in answers' : x \in answers \/
                 (x.op = op /\ x.key = attempts[a].key /\ x.body = attempts[a].body)
<1> DEFINE new == [key |-> attempts[a].key, body |-> attempts[a].body, op |-> op]
<1>1. new \in Answer
  BY ThreadFields DEF Answer
<1>2. answers' = answers \cup {new}
  BY DEF Reply
<1>3. new.op = op /\ new.key = attempts[a].key /\ new.body = attempts[a].body
  OBVIOUS
<1> HIDE DEF new
<1> QED BY <1>1, <1>2, <1>3 DEF Typed

\* A thread that owns no record after the step; no row and no operation changes.
Rested(a) ==
    /\ \E to \in Attempt \cup {Idle} : to.phase \notin Owning /\ Turned(a, to)
    /\ UNCHANGED <<now, records, effects>>
    /\ answers' \subseteq Answer
    /\ \A x \in answers' : x \in answers \/ x.op = None \/
          \E i \in DOMAIN records : /\ records[i].result = x.op /\ records[i].key = x.key
                                    /\ records[i].body = x.body

LEMMA SendRests ==
    ASSUME Typed, NEW a \in Attempts, NEW key \in Keys, NEW body \in Bodies, Send(a, key, body)
    PROVE  Rested(a)
<1> DEFINE to == [phase |-> "insert", key |-> key, body |-> body, id |-> None, op |-> None]
<1>1. to \in Attempt \cup {Idle} /\ to.phase \notin Owning
  BY DEF Attempt, Phase, Owning, None
<1>2. attempts' = [attempts EXCEPT ![a] = to] /\ UNCHANGED <<now, records, effects, answers>>
  BY DEF Send
<1> HIDE DEF to
<1>3. Turned(a, to)
  BY <1>1, <1>2, ThreadTurned
<1> QED BY <1>1, <1>2, <1>3 DEF Rested, Typed

LEMMA ConflictRests ==
    ASSUME Typed, NEW a \in Attempts, Insert(a), ~Free(attempts[a].key)
    PROVE  Rested(a)
<1>1. /\ attempts[a].phase \in Phase /\ attempts' = Moved(a, "lookup") /\ "lookup" \in Phase
      /\ UNCHANGED <<now, records, effects, answers>>
  BY DEF Insert, Phase
<1>2. PICK to \in Attempt : to.phase = "lookup" /\ Turned(a, to)
  BY <1>1, ThreadMoved
<1> QED BY <1>1, <1>2 DEF Rested, Typed, Owning

LEMMA LookupRests ==
    ASSUME Typed, NEW a \in Attempts, Lookup(a)
    PROVE  Rested(a)
<1> DEFINE replay == {i \in Holding(attempts[a].key) : Replayable(i, attempts[a].body)}
<1>1. /\ attempts[a].phase \in Phase /\ attempts' = Done(a)
      /\ UNCHANGED <<now, records, effects>>
      /\ IF replay = {} THEN Reply(a, None) ELSE \E i \in replay : Reply(a, records[i].result)
  BY DEF Lookup, Phase
<1>2. Turned(a, Idle) /\ Idle.phase \notin Owning
  BY <1>1, ThreadDone, OwningPhases
<1>3. CASE Reply(a, None)
  <2>1. None \in Nat
    BY DEF None
  <2>2. /\ answers' \subseteq Answer
        /\ \A x \in answers' : x \in answers \/ x.op = None
    BY <1>1, <1>3, <2>1, Replied
  <2> QED BY <1>1, <1>2, <2>2 DEF Rested
<1>4. ASSUME NEW i \in replay, Reply(a, records[i].result) PROVE Rested(a)
  <2>1. /\ i \in DOMAIN records /\ records[i].key = attempts[a].key
        /\ records[i].body = attempts[a].body
    BY DEF Holding, Replayable
  <2>2. records[i].result \in Nat
    <3>1. records[i] \in Record
      BY <2>1 DEF Typed
    <3> QED BY <3>1 DEF Record
  <2>3. /\ answers' \subseteq Answer
        /\ \A x \in answers' : x \in answers \/
              (x.op = records[i].result /\ x.key = attempts[a].key /\ x.body = attempts[a].body)
    BY <1>1, <1>4, <2>2, Replied
  <2> HIDE DEF replay
  <2> QED BY <1>1, <1>2, <2>1, <2>3 DEF Rested
<1> QED BY <1>1, <1>3, <1>4

LEMMA CrashRests ==
    ASSUME Typed, NEW a \in Attempts, Crash(a)
    PROVE  Rested(a)
<1>1. attempts' = Done(a) /\ UNCHANGED <<now, records, effects, answers>>
  BY DEF Crash
<1>2. Turned(a, Idle) /\ Idle.phase \notin Owning
  BY <1>1, ThreadDone, OwningPhases
<1> QED BY <1>1, <1>2 DEF Rested, Typed

\* Only row i of a table changes; a row is added.
Rewritten(rows, after, i, row) ==
    /\ DOMAIN after = DOMAIN rows
    /\ after[i] = row
    /\ \A j \in DOMAIN rows : j # i => after[j] = rows[j]

Added(rows, after, row) ==
    LET new == Len(rows) + 1 IN
    /\ \A i \in DOMAIN rows : i < new
    /\ DOMAIN after = DOMAIN rows \cup {new}
    /\ \A i \in DOMAIN rows : after[i] = rows[i]
    /\ after[new] = row

LEMMA RowRewritten ==
    ASSUME NEW S, NEW s \in Seq(S), NEW i \in DOMAIN s, NEW row \in S
    PROVE  /\ [s EXCEPT ![i] = row] \in Seq(S)
           /\ Rewritten(s, [s EXCEPT ![i] = row], i, row)
BY DEF Rewritten

LEMMA RowAdded ==
    ASSUME NEW S, NEW s \in Seq(S), NEW row \in S
    PROVE  Append(s, row) \in Seq(S) /\ Added(s, Append(s, row), row)
BY DEF Added

\* A thread inserts a record.
Opened(a, to, row) ==
    LET key == attempts[a].key
        new == Len(records) + 1
    IN  /\ Free(key) /\ attempts[a].phase = "insert"
        /\ row.live /\ row.key = key /\ row.body = attempts[a].body /\ row.result = None
        /\ row.createdAt = now
        /\ records' \in Seq(Record) /\ Added(records, records', row)
        /\ to.phase = "handle" /\ to.id = new /\ to.key = key /\ to.body = attempts[a].body
        /\ Turned(a, to)
        /\ UNCHANGED <<now, effects, answers, sends>>

LEMMA InsertOpens ==
    ASSUME Typed, NEW a \in Attempts, Insert(a), Free(attempts[a].key)
    PROVE  \E to, row : Opened(a, to, row)
<1> DEFINE new == Len(records) + 1
           to == [attempts[a] EXCEPT !.phase = "handle", !.id = new]
           row == [live |-> TRUE, key |-> attempts[a].key, body |-> attempts[a].body,
                   result |-> None, createdAt |-> now]
<1>1. /\ attempts[a].phase \in Phase /\ attempts[a].phase = "insert"
      /\ records' = Append(records, row) /\ attempts' = [attempts EXCEPT ![a] = to]
      /\ UNCHANGED <<now, effects, answers, sends>>
  BY DEF Insert, Phase
<1>2. records \in Seq(Record) /\ now \in Nat /\ new \in Nat
  BY DEF Typed
<1>3. attempts[a] \in Attempt /\ attempts[a].key \in Keys /\ attempts[a].body \in Bodies
  BY <1>1, ThreadFields
<1>4. /\ row \in Record
      /\ row.live /\ row.key = attempts[a].key /\ row.body = attempts[a].body
      /\ row.result = None /\ row.createdAt = now
  BY <1>2, <1>3 DEF Record, None
<1>5. /\ to \in Attempt \cup {Idle}
      /\ to.phase = "handle" /\ to.id = new /\ to.key = attempts[a].key
      /\ to.body = attempts[a].body
  BY <1>2, <1>3 DEF Attempt, Phase
<1> HIDE DEF to, row
<1>6. Turned(a, to)
  BY <1>1, <1>5, ThreadTurned
<1>7. records' \in Seq(Record) /\ Added(records, records', row)
  BY <1>1, <1>2, <1>4, RowAdded
<1>8. Opened(a, to, row)
  BY <1>1, <1>4, <1>5, <1>6, <1>7 DEF Opened
<1> QED BY <1>8

\* A thread goes on from its service to its way out: rolled back, or with its operation.
WentOn(a, to) ==
    /\ \/ attempts[a].phase = "handle" /\ to.phase = "forget"
       \/ attempts[a].phase = "respond" /\ to.phase = "save"
    /\ SameCall(to, attempts[a]) /\ Turned(a, to)
    /\ UNCHANGED <<now, records, effects, answers, sends>>

LEMMA RefuseGoesOn ==
    ASSUME Typed, NEW a \in Attempts, Refuse(a) \/ Respond(a)
    PROVE  \E to : WentOn(a, to)
<1>1. CASE Refuse(a)
  <2>1. /\ attempts[a].phase \in Phase /\ attempts' = Moved(a, "forget") /\ "forget" \in Phase
    BY <1>1 DEF Refuse, Phase
  <2>2. PICK to \in Attempt : to.phase = "forget" /\ SameCall(to, attempts[a]) /\ Turned(a, to)
    BY <2>1, ThreadMoved
  <2> QED BY <1>1, <2>2 DEF Refuse, WentOn
<1>2. CASE Respond(a)
  <2>1. /\ attempts[a].phase \in Phase /\ attempts' = Moved(a, "save") /\ "save" \in Phase
    BY <1>2 DEF Respond, Phase
  <2>2. PICK to \in Attempt : to.phase = "save" /\ SameCall(to, attempts[a]) /\ Turned(a, to)
    BY <2>1, ThreadMoved
  <2> QED BY <1>2, <2>2 DEF Respond, WentOn
<1> QED BY <1>1, <1>2

\* The service commits an operation.
Committed(a, to, effect) ==
    /\ attempts[a].phase = "handle"
    /\ effect.record = attempts[a].id /\ effects' \in Seq(Effect)
    /\ Added(effects, effects', effect)
    /\ to.phase = "respond" /\ to.key = attempts[a].key /\ to.body = attempts[a].body
    /\ to.id = attempts[a].id /\ to.op = Len(effects) + 1
    /\ Turned(a, to)
    /\ UNCHANGED <<now, records, answers, sends>>

LEMMA CommitCommits ==
    ASSUME Typed, NEW a \in Attempts, Commit(a)
    PROVE  \E to, effect : Committed(a, to, effect)
<1> DEFINE new == Len(effects) + 1
           to == [attempts[a] EXCEPT !.phase = "respond", !.op = new]
           effect == [record |-> attempts[a].id, failed |-> FALSE]
<1>1. /\ attempts[a].phase \in Phase /\ attempts[a].phase = "handle"
      /\ effects' = Append(effects, effect) /\ attempts' = [attempts EXCEPT ![a] = to]
      /\ UNCHANGED <<now, records, answers, sends>>
  BY DEF Commit, Phase
<1>2. effects \in Seq(Effect) /\ new \in Nat
  BY DEF Typed
<1>3. attempts[a] \in Attempt /\ attempts[a].id \in Nat
  BY <1>1, ThreadFields
<1>4. effect \in Effect /\ effect.record = attempts[a].id
  BY <1>3 DEF Effect
<1>5. /\ to \in Attempt \cup {Idle}
      /\ to.phase = "respond" /\ to.key = attempts[a].key /\ to.body = attempts[a].body
      /\ to.id = attempts[a].id /\ to.op = new
  BY <1>2, <1>3 DEF Attempt, Phase
<1> HIDE DEF to, effect
<1>6. Turned(a, to)
  BY <1>1, <1>5, ThreadTurned
<1>7. effects' \in Seq(Effect) /\ Added(effects, effects', effect)
  BY <1>1, <1>2, <1>4, RowAdded
<1>8. Committed(a, to, effect)
  BY <1>1, <1>4, <1>5, <1>6, <1>7 DEF Committed
<1> QED BY <1>8

\* The handler raises after its service has committed.
Raised(a, to, effect) ==
    LET op == attempts[a].op IN
    /\ attempts[a].phase = "respond"
    /\ effect.record = effects[op].record /\ effect.failed
    /\ effects' \in Seq(Effect) /\ Rewritten(effects, effects', op, effect)
    /\ to.phase = "forget" /\ SameCall(to, attempts[a]) /\ Turned(a, to)
    /\ UNCHANGED <<now, records, answers, sends>>

LEMMA RespondFailsRaises ==
    ASSUME Typed, OwnRecords, NEW a \in Attempts, RespondFails(a)
    PROVE  \E to, effect : Raised(a, to, effect)
<1> DEFINE op == attempts[a].op
           effect == [effects[op] EXCEPT !.failed = TRUE]
<1>1. /\ attempts[a].phase \in Phase /\ attempts[a].phase = "respond"
      /\ effects' = [effects EXCEPT ![op] = effect]
      /\ attempts' = Moved(a, "forget") /\ "forget" \in Phase
      /\ UNCHANGED <<now, records, answers, sends>>
  BY DEF RespondFails, Phase
<1>2. effects \in Seq(Effect) /\ op \in DOMAIN effects
  BY <1>1 DEF Typed, OwnRecords, Knows, Owning
<1>3. effects[op] \in Effect
  BY <1>2
<1>4. effect \in Effect /\ effect.record = effects[op].record /\ effect.failed
  BY <1>3 DEF Effect
<1> HIDE DEF effect
<1>5. effects' \in Seq(Effect) /\ Rewritten(effects, effects', op, effect)
  BY <1>1, <1>2, <1>4, RowRewritten
<1>6. PICK to \in Attempt : to.phase = "forget" /\ SameCall(to, attempts[a]) /\ Turned(a, to)
  BY <1>1, ThreadMoved
<1>7. Raised(a, to, effect)
  BY <1>1, <1>4, <1>5, <1>6 DEF Raised
<1> QED BY <1>7

\* A thread deletes its record and answers with an error.
Dropped(a, row) ==
    LET i == attempts[a].id IN
    /\ attempts[a].phase = "forget"
    /\ row.key = records[i].key /\ row.body = records[i].body /\ row.result = records[i].result
    /\ row.createdAt = records[i].createdAt /\ ~row.live
    /\ records' \in Seq(Record) /\ Rewritten(records, records', i, row)
    /\ Idle.phase \notin Owning /\ Turned(a, Idle)
    /\ answers' \subseteq Answer /\ \A x \in answers' : x \in answers \/ x.op = None
    /\ UNCHANGED <<now, effects, sends>>

LEMMA ForgetDrops ==
    ASSUME Typed, OwnRecords, NEW a \in Attempts, Forget(a)
    PROVE  \E row : Dropped(a, row)
<1> DEFINE i == attempts[a].id
           row == [records[i] EXCEPT !.live = FALSE]
<1>1. /\ attempts[a].phase \in Phase /\ attempts[a].phase = "forget"
      /\ records' = [records EXCEPT ![i] = row]
      /\ attempts' = Done(a) /\ Reply(a, None) /\ None \in Nat
      /\ UNCHANGED <<now, effects, sends>>
  BY DEF Forget, Forgotten, Phase, None
<1>2. records \in Seq(Record) /\ i \in DOMAIN records
  BY <1>1 DEF Typed, OwnRecords, Knows, Owning
<1>3. records[i] \in Record
  BY <1>2
<1>4. /\ row \in Record /\ row.key = records[i].key /\ row.body = records[i].body
      /\ row.result = records[i].result /\ row.createdAt = records[i].createdAt /\ ~row.live
  BY <1>3 DEF Record
<1> HIDE DEF row
<1>5. records' \in Seq(Record) /\ Rewritten(records, records', i, row)
  BY <1>1, <1>2, <1>4, RowRewritten
<1>6. Turned(a, Idle) /\ Idle.phase \notin Owning
  BY <1>1, ThreadDone, OwningPhases
<1>7. answers' \subseteq Answer /\ \A x \in answers' : x \in answers \/ x.op = None
  BY <1>1, Replied
<1>8. Dropped(a, row)
  BY <1>1, <1>4, <1>5, <1>6, <1>7 DEF Dropped
<1> QED BY <1>8

\* A thread stores its operation in its record and answers with it.
Saved(a, row) ==
    LET i == attempts[a].id
        op == attempts[a].op
    IN  /\ attempts[a].phase = "save"
        /\ row.key = records[i].key /\ row.body = records[i].body
        /\ row.createdAt = records[i].createdAt /\ row.live = records[i].live
        /\ row.result = op
        /\ records' \in Seq(Record) /\ Rewritten(records, records', i, row)
        /\ Idle.phase \notin Owning /\ Turned(a, Idle)
        /\ answers' \subseteq Answer
        /\ \A x \in answers' : x \in answers \/
              (x.op = op /\ x.key = attempts[a].key /\ x.body = attempts[a].body)
        /\ UNCHANGED <<now, effects, sends>>

LEMMA SaveSaves ==
    ASSUME Typed, OwnRecords, NEW a \in Attempts, Save(a), records[attempts[a].id].live
    PROVE  \E row : Saved(a, row)
<1> DEFINE i == attempts[a].id
           op == attempts[a].op
           row == [records[i] EXCEPT !.result = op]
<1>1. /\ attempts[a].phase \in Phase /\ attempts[a].phase = "save"
      /\ records' = [records EXCEPT ![i] = row]
      /\ attempts' = Done(a) /\ Reply(a, op)
      /\ UNCHANGED <<now, effects, sends>>
  BY DEF Save, Phase
<1>2. records \in Seq(Record) /\ i \in DOMAIN records
  BY <1>1 DEF Typed, OwnRecords, Knows, Owning
<1>3. records[i] \in Record /\ op \in Nat
  BY <1>1, <1>2, ThreadFields
<1>4. /\ row \in Record /\ row.key = records[i].key /\ row.body = records[i].body
      /\ row.result = op /\ row.createdAt = records[i].createdAt /\ row.live = records[i].live
  BY <1>3 DEF Record
<1> HIDE DEF row
<1>5. records' \in Seq(Record) /\ Rewritten(records, records', i, row)
  BY <1>1, <1>2, <1>4, RowRewritten
<1>6. Turned(a, Idle) /\ Idle.phase \notin Owning
  BY <1>1, ThreadDone, OwningPhases
<1>7. /\ answers' \subseteq Answer
      /\ \A x \in answers' : x \in answers \/
            (x.op = op /\ x.key = attempts[a].key /\ x.body = attempts[a].body)
  BY <1>1, <1>3, Replied
<1>8. Saved(a, row)
  BY <1>1, <1>4, <1>5, <1>6, <1>7 DEF Saved
<1> QED BY <1>8

LEMMA LateSaveRests ==
    ASSUME Typed, NEW a \in Attempts, Save(a), ~records[attempts[a].id].live
    PROVE  Rested(a)
<1>1. /\ attempts[a].phase \in Phase /\ attempts' = Done(a)
      /\ Reply(a, None) /\ None \in Nat
      /\ UNCHANGED <<now, records, effects>>
  BY DEF Save, Phase, None
<1>2. Turned(a, Idle) /\ Idle.phase \notin Owning
  BY <1>1, ThreadDone, OwningPhases
<1>3. answers' \subseteq Answer /\ \A x \in answers' : x \in answers \/ x.op = None
  BY <1>1, Replied
<1> QED BY <1>1, <1>2, <1>3 DEF Rested

\* Old rows are deleted.
Swept ==
    /\ records' \in Seq(Record) /\ DOMAIN records' = DOMAIN records
    /\ \A i \in DOMAIN records :
          /\ records'[i].key = records[i].key /\ records'[i].body = records[i].body
          /\ records'[i].result = records[i].result
          /\ records'[i].createdAt = records[i].createdAt
          /\ records'[i].live <=> records[i].live /\ ~Old(i)
    /\ UNCHANGED <<now, attempts, effects, answers, sends>>

LEMMA CleanupSweeps == ASSUME Typed, Cleanup PROVE Swept
<1>1. /\ records' = [i \in DOMAIN records |->
                       [records[i] EXCEPT !.live = records[i].live /\ ~Old(i)]]
      /\ UNCHANGED <<now, attempts, effects, answers, sends>>
  BY DEF Cleanup
<1>2. records \in Seq(Record) /\ Len(records) \in Nat /\ DOMAIN records = 1..Len(records)
  BY DEF Typed
<1>3. ASSUME NEW i \in DOMAIN records
      PROVE  /\ records'[i] \in Record
             /\ records'[i].key = records[i].key /\ records'[i].body = records[i].body
             /\ records'[i].result = records[i].result
             /\ records'[i].createdAt = records[i].createdAt
             /\ records'[i].live <=> records[i].live /\ ~Old(i)
  <2> DEFINE live == records[i].live /\ ~Old(i)
             row == [records[i] EXCEPT !.live = live]
  <2>1. records'[i] = row
    BY <1>1
  <2>2. live \in BOOLEAN /\ (live <=> records[i].live /\ ~Old(i))
    OBVIOUS
  <2> HIDE DEF live
  <2>3. records[i] \in Record
    BY <1>2
  <2>4. /\ row \in Record /\ row.key = records[i].key /\ row.body = records[i].body
        /\ row.result = records[i].result /\ row.createdAt = records[i].createdAt
        /\ row.live = live
    BY <2>2, <2>3 DEF Record
  <2> HIDE DEF row
  <2> QED BY <2>1, <2>2, <2>4
<1>4. DOMAIN records' = DOMAIN records
  BY <1>1
<1>5. records' \in Seq(Record)
  <2>1. \A i \in 1..Len(records) : records'[i] \in Record
    BY <1>2, <1>3
  <2>2. records' = [i \in 1..Len(records) |-> records'[i]]
    BY <1>1, <1>2, <1>4
  <2> QED BY ONLY <1>2, <2>1, <2>2
<1> QED BY <1>1, <1>3, <1>4, <1>5 DEF Swept

\* Every step is one of these, or leaves everything but the clock alone.
StepOfThreads ==
    \/ \E a \in Attempts : Rested(a)
    \/ \E a \in Attempts : \E to, row : Opened(a, to, row)
    \/ \E a \in Attempts : \E to : WentOn(a, to)
    \/ \E a \in Attempts : \E to, effect : Committed(a, to, effect)
    \/ \E a \in Attempts : \E to, effect : Raised(a, to, effect)
    \/ \E a \in Attempts : \E row : Dropped(a, row)
    \/ \E a \in Attempts : \E row : Saved(a, row)
    \/ Swept
    \/ now' \in Nat /\ now' >= now /\ UNCHANGED <<records, attempts, effects, answers>>

LEMMA StepEffect == Typed /\ OwnRecords /\ [Next]_vars => StepOfThreads
<1> SUFFICES ASSUME Typed, OwnRecords, [Next]_vars PROVE StepOfThreads
  OBVIOUS
<1>1. ASSUME NEW a \in Attempts, NEW key \in Keys, NEW body \in Bodies, Send(a, key, body)
      PROVE  StepOfThreads
  BY <1>1, SendRests DEF StepOfThreads
<1>2. ASSUME NEW a \in Attempts, Insert(a) PROVE StepOfThreads
  <2>1. CASE Free(attempts[a].key)
    BY <1>2, <2>1, InsertOpens DEF StepOfThreads
  <2>2. CASE ~Free(attempts[a].key)
    BY <1>2, <2>2, ConflictRests DEF StepOfThreads
  <2> QED BY <2>1, <2>2
<1>3. ASSUME NEW a \in Attempts, Lookup(a) PROVE StepOfThreads
  BY <1>3, LookupRests DEF StepOfThreads
<1>4. ASSUME NEW a \in Attempts, Commit(a) PROVE StepOfThreads
  BY <1>4, CommitCommits DEF StepOfThreads
<1>5. ASSUME NEW a \in Attempts, Refuse(a) \/ Respond(a) PROVE StepOfThreads
  BY <1>5, RefuseGoesOn DEF StepOfThreads
<1>6. ASSUME NEW a \in Attempts, RespondFails(a) PROVE StepOfThreads
  BY <1>6, RespondFailsRaises DEF StepOfThreads
<1>7. ASSUME NEW a \in Attempts, Forget(a) PROVE StepOfThreads
  BY <1>7, ForgetDrops DEF StepOfThreads
<1>8. ASSUME NEW a \in Attempts, Save(a) PROVE StepOfThreads
  <2>1. CASE records[attempts[a].id].live
    BY <1>8, <2>1, SaveSaves DEF StepOfThreads
  <2>2. CASE ~records[attempts[a].id].live
    BY <1>8, <2>2, LateSaveRests DEF StepOfThreads
  <2> QED BY <2>1, <2>2
<1>9. ASSUME NEW a \in Attempts, Crash(a) PROVE StepOfThreads
  BY <1>9, CrashRests DEF StepOfThreads
<1>10. CASE Cleanup
  BY <1>10, CleanupSweeps DEF StepOfThreads
<1>11. CASE Tick
  <2>1. now \in Nat
    BY DEF Typed
  <2> QED BY <1>11, <2>1 DEF Tick, StepOfThreads
<1>12. CASE UNCHANGED vars
  <2>1. now \in Nat
    BY DEF Typed
  <2> QED BY <1>12, <2>1 DEF vars, StepOfThreads
<1> QED BY <1>1, <1>2, <1>3, <1>4, <1>5, <1>6, <1>7, <1>8, <1>9, <1>10, <1>11, <1>12 DEF Next

-----------------------------------------------------------------------------
(* Every step keeps the invariant *)

LEMMA SendsStep == Typed /\ [Next]_vars => sends' \in Nat
<1> SUFFICES ASSUME Typed, [Next]_vars PROVE sends' \in Nat
  OBVIOUS
<1>1. sends \in Nat
  BY DEF Typed
<1>2. sends' = sends \/ sends' = sends + 1
  BY DEF Next, vars, Send, Insert, Lookup, Commit, Refuse, Respond, RespondFails, Forget, Save,
         Crash, Cleanup, Tick
<1> QED BY <1>1, <1>2

LEMMA TypedStep == Typed /\ StepOfThreads /\ sends' \in Nat => Typed'
<1> SUFFICES ASSUME Typed, StepOfThreads, sends' \in Nat PROVE Typed'
  OBVIOUS
<1>1. /\ now' \in Nat /\ records' \in Seq(Record)
      /\ attempts' \in [Attempts -> Attempt \cup {Idle}]
      /\ effects' \in Seq(Effect) /\ answers' \subseteq Answer
  BY DEF StepOfThreads, Typed, Rested, Opened, WentOn, Committed, Raised, Dropped, Saved, Swept,
         Turned
<1> QED BY <1>1 DEF Typed

\* The rest of the invariant.
Sound ==
    /\ UniqueKeys /\ OwnRecords /\ OneOperation /\ GoneForAReason /\ Succession
    /\ AnswersFaithful

\* A record given up stays so while nobody takes it and its operations stay as they are.
LEMMA GivenUpKept ==
    ASSUME NEW i, GivenUp(i), effects' = effects,
           \A b \in Attempts : attempts'[b].phase \in Owning /\ attempts'[b].id = i => Owns(b, i)
    PROVE  GivenUp(i)'
BY DEF GivenUp, AllFailed, Owns

\* The rows keep what they were inserted with.
SameRows ==
    /\ DOMAIN records' = DOMAIN records
    /\ \A i \in DOMAIN records :
          /\ records'[i].key = records[i].key /\ records'[i].body = records[i].body
          /\ records'[i].createdAt = records[i].createdAt

\* No thread takes a record or goes on with one.
LEMMA OwnersKept ==
    ASSUME Sound, SameRows, effects' = effects,
           \A b \in Attempts : attempts'[b].phase \in Owning => attempts'[b] = attempts[b]
    PROVE  OwnRecords' /\ Succession' /\ \A i : GivenUp(i) => GivenUp(i)'
<1>1. \A i : GivenUp(i) => GivenUp(i)'
  BY GivenUpKept DEF Owns
<1>2. ASSUME NEW b \in Attempts, attempts'[b].phase \in Owning PROVE Knows(b)'
  <2>1. attempts'[b] = attempts[b]
    BY <1>2
  <2>2. Knows(b)
    BY <1>2, <2>1 DEF Sound, OwnRecords
  <2>3. AllFailed(attempts[b].id)' <=> AllFailed(attempts[b].id)
    BY <2>1 DEF AllFailed
  <2> QED BY <2>1, <2>2, <2>3 DEF Knows, SameRows
<1>3. ASSUME NEW b \in Attempts, NEW c \in Attempts,
             attempts'[b].phase \in Owning, attempts'[c].phase \in Owning,
             attempts'[b].id = attempts'[c].id
      PROVE  b = c
  <2>1. attempts'[b] = attempts[b] /\ attempts'[c] = attempts[c]
    BY <1>3
  <2> QED BY <1>3, <2>1 DEF Sound, OwnRecords
<1>4. Succession'
  BY <1>1 DEF Sound, Succession, SameRows
<1> QED BY <1>1, <1>2, <1>3, <1>4 DEF OwnRecords

LEMMA RestedSound ==
    ASSUME Typed, Sound, NEW a \in Attempts, Rested(a)
    PROVE  Sound'
<1>1. PICK to \in Attempt \cup {Idle} : to.phase \notin Owning /\ Turned(a, to)
  BY DEF Rested
<1>2. \A b \in Attempts : attempts'[b].phase \in Owning => b # a /\ attempts'[b] = attempts[b]
  BY <1>1 DEF Turned
<1>3. now' = now /\ records' = records /\ effects' = effects
  BY DEF Rested
<1>4. OwnRecords' /\ Succession' /\ \A i : GivenUp(i) => GivenUp(i)'
  BY <1>2, <1>3, OwnersKept DEF SameRows
<1>5. UniqueKeys' /\ OneOperation'
  BY <1>3 DEF Sound, UniqueKeys, OneOperation
<1>6. GoneForAReason'
  BY <1>3, <1>4 DEF Sound, GoneForAReason, Old
<1>7. AnswersFaithful'
  <2>1. ASSUME NEW x \in answers', x.op # None
        PROVE  /\ x.op \in DOMAIN effects
               /\ records[effects[x.op].record].key = x.key
               /\ records[effects[x.op].record].body = x.body
    <3>1. CASE x \in answers
      BY <2>1, <3>1 DEF Sound, AnswersFaithful
    <3>2. ASSUME NEW i \in DOMAIN records, records[i].result = x.op, records[i].key = x.key,
                 records[i].body = x.body
          PROVE  /\ x.op \in DOMAIN effects
                 /\ records[effects[x.op].record].key = x.key
                 /\ records[effects[x.op].record].body = x.body
      <4>1. x.op \in DOMAIN effects /\ effects[x.op].record = i
        BY <2>1, <3>2 DEF Sound, OneOperation
      <4> QED BY <3>2, <4>1
    <3> QED BY <2>1, <3>1, <3>2 DEF Rested
  <2> QED BY <1>3, <2>1 DEF AnswersFaithful
<1> QED BY <1>4, <1>5, <1>6, <1>7 DEF Sound

\* The new record is the only live one of its key, and every earlier one has a reason.
LEMMA OpenedSound ==
    ASSUME Typed, Sound, NEW a \in Attempts, NEW to, NEW row, Opened(a, to, row)
    PROVE  Sound'
<1> DEFINE new == Len(records) + 1
           key == attempts[a].key
<1>1. /\ \A i \in DOMAIN records : i < new /\ i # new
      /\ DOMAIN records' = DOMAIN records \cup {new} /\ new \in Nat /\ DOMAIN records \subseteq Nat
      /\ \A i \in DOMAIN records : records'[i] = records[i]
      /\ records'[new] = row
  BY DEF Opened, Added, Typed
<1>2. /\ row.live /\ row.key = key /\ row.body = attempts[a].body /\ row.result = None
      /\ row.createdAt = now
      /\ to.phase = "handle" /\ to.id = new /\ to.key = key /\ to.body = attempts[a].body
      /\ attempts[a].phase = "insert"
      /\ now' = now /\ effects' = effects /\ answers' = answers
  BY DEF Opened
<1>3. attempts'[a] = to /\ \A b \in Attempts : b # a => attempts'[b] = attempts[b]
  BY DEF Opened, Turned
<1>4. \A i \in DOMAIN records : records[i].key = key => ~records[i].live
  BY DEF Opened, Free, Holding
<1> HIDE DEF new, key
<1>5. \A e \in DOMAIN effects : effects[e].record \in DOMAIN records /\ effects[e].record # new
  BY <1>1 DEF Sound, OneOperation
<1>6. \A b \in Attempts : attempts[b].phase \in Owning => attempts[b].id \in DOMAIN records
  BY DEF Sound, OwnRecords, Knows
<1>7. \A i : AllFailed(i)' <=> AllFailed(i)
  BY <1>2 DEF AllFailed
<1>8. \A i \in DOMAIN records : GivenUp(i) => GivenUp(i)'
  BY <1>1, <1>2, <1>3, GivenUpKept DEF Owns
<1>9. UniqueKeys'
  BY <1>1, <1>2, <1>4 DEF Sound, UniqueKeys
<1>10. OwnRecords'
  <2>1. ASSUME NEW b \in Attempts, attempts'[b].phase \in Owning PROVE Knows(b)'
    <3>1. CASE b = a
      <4>1. /\ attempts'[b].phase = "handle" /\ attempts'[b].id = new
            /\ attempts'[b].key = key /\ attempts'[b].body = attempts[a].body
        BY <1>2, <1>3, <3>1
      <4>2. /\ new \in DOMAIN records' /\ records'[new].key = key
            /\ records'[new].body = attempts[a].body
            /\ \A e \in DOMAIN effects' : effects'[e].record # new
        BY <1>1, <1>2, <1>5
      <4> QED BY ONLY <4>1, <4>2 DEF Knows
    <3>2. CASE b # a
      <4>1. attempts'[b] = attempts[b]
        BY <1>3, <3>2
      <4>2. Knows(b)
        BY <2>1, <4>1 DEF Sound, OwnRecords
      <4>3. AllFailed(attempts[b].id)' <=> AllFailed(attempts[b].id)
        BY <1>2, <4>1 DEF AllFailed
      <4> QED BY ONLY <1>1, <1>2, <4>1, <4>2, <4>3 DEF Knows
    <3> QED BY <3>1, <3>2
  <2>2. ASSUME NEW b \in Attempts, NEW c \in Attempts,
               attempts'[b].phase \in Owning, attempts'[c].phase \in Owning,
               attempts'[b].id = attempts'[c].id
        PROVE  b = c
    <3>1. \A d \in Attempts : d # a /\ attempts'[d].phase \in Owning =>
             attempts[d].phase \in Owning /\ attempts'[d].id = attempts[d].id
             /\ attempts[d].id # new
      BY <1>1, <1>3, <1>6
    <3>2. attempts'[a].id = new
      BY <1>2, <1>3
    <3>3. b # a /\ c # a => b = c
      BY <2>2, <3>1 DEF Sound, OwnRecords
    <3> QED BY <2>2, <3>1, <3>2, <3>3
  <2> QED BY <2>1, <2>2 DEF OwnRecords
<1>11. OneOperation'
  BY <1>1, <1>2 DEF Sound, OneOperation
<1>12. GoneForAReason'
  BY <1>1, <1>2, <1>8 DEF Sound, GoneForAReason, Old
<1>13. Succession'
  <2>1. ASSUME NEW i \in DOMAIN records', NEW j \in DOMAIN records', i < j,
               records'[i].key = records'[j].key
        PROVE  records'[i].createdAt + Retention < records'[j].createdAt \/ GivenUp(i)'
    <3>1. i # new /\ i \in DOMAIN records
      BY <1>1, <2>1
    <3>2. CASE j = new
      <4>1. ~records[i].live
        BY <1>1, <1>2, <1>4, <2>1, <3>1, <3>2
      <4>2. Old(i) \/ GivenUp(i)
        BY <3>1, <4>1 DEF Sound, GoneForAReason
      <4> QED BY <1>1, <1>2, <1>8, <3>1, <3>2, <4>2 DEF Old
    <3>3. CASE j \in DOMAIN records
      BY <1>1, <1>8, <2>1, <3>1, <3>3 DEF Sound, Succession
    <3> QED BY <1>1, <3>2, <3>3
  <2> QED BY <2>1 DEF Succession
<1>14. AnswersFaithful'
  BY <1>1, <1>2, <1>5 DEF Sound, AnswersFaithful
<1> QED BY <1>9, <1>10, <1>11, <1>12, <1>13, <1>14 DEF Sound

LEMMA WentOnSound ==
    ASSUME Typed, Sound, NEW a \in Attempts, NEW to, WentOn(a, to)
    PROVE  Sound'
<1>1. /\ attempts'[a] = to /\ \A b \in Attempts : b # a => attempts'[b] = attempts[b]
      /\ to.id = attempts[a].id /\ to.key = attempts[a].key /\ to.body = attempts[a].body
      /\ to.op = attempts[a].op
      /\ attempts[a].phase \in Owning
      /\ \/ attempts[a].phase = "handle" /\ to.phase = "forget"
         \/ attempts[a].phase = "respond" /\ to.phase = "save"
  BY DEF WentOn, Turned, SameCall, Owning
<1>2. now' = now /\ records' = records /\ effects' = effects /\ answers' = answers
  BY DEF WentOn
<1>3. \A b \in Attempts : attempts'[b].phase \in Owning =>
         attempts[b].phase \in Owning /\ attempts'[b].id = attempts[b].id
  BY <1>1
<1>4. \A i : GivenUp(i) => GivenUp(i)'
  BY <1>2, <1>3, GivenUpKept DEF Owns
<1>5. \A i : AllFailed(i)' <=> AllFailed(i)
  BY <1>2 DEF AllFailed
<1>6. UniqueKeys' /\ OneOperation' /\ AnswersFaithful'
  BY <1>2 DEF Sound, UniqueKeys, OneOperation, AnswersFaithful
<1>7. GoneForAReason' /\ Succession'
  BY <1>2, <1>4 DEF Sound, GoneForAReason, Succession, Old
<1>8. attempts[a].phase = "handle" => AllFailed(attempts[a].id)
  BY <1>1 DEF Sound, OwnRecords, Knows, AllFailed
<1>9. OwnRecords'
  <2>1. ASSUME NEW b \in Attempts, attempts'[b].phase \in Owning PROVE Knows(b)'
    <3>1. Knows(b) /\ attempts'[b].id = attempts[b].id
      BY <1>3, <2>1 DEF Sound, OwnRecords
    <3>2. AllFailed(attempts[b].id)' <=> AllFailed(attempts[b].id)
      BY <1>2, <3>1 DEF AllFailed
    <3>3. CASE b = a
      BY ONLY <1>1, <1>2, <1>8, <3>1, <3>2, <3>3 DEF Knows
    <3>4. CASE b # a
      <4>1. attempts'[b] = attempts[b]
        BY <1>1, <3>4
      <4> QED BY ONLY <1>2, <3>1, <3>2, <4>1 DEF Knows
    <3> QED BY <3>3, <3>4
  <2>2. ASSUME NEW b \in Attempts, NEW c \in Attempts,
               attempts'[b].phase \in Owning, attempts'[c].phase \in Owning,
               attempts'[b].id = attempts'[c].id
        PROVE  b = c
    <3>1. attempts[b].phase \in Owning /\ attempts[c].phase \in Owning
          /\ attempts[b].id = attempts[c].id
      BY <1>3, <2>2
    <3> QED BY <3>1 DEF Sound, OwnRecords
  <2> QED BY <2>1, <2>2 DEF OwnRecords
<1> QED BY <1>6, <1>7, <1>9 DEF Sound

LEMMA CommittedSound ==
    ASSUME Typed, Sound, NEW a \in Attempts, NEW to, NEW effect, Committed(a, to, effect)
    PROVE  Sound'
<1> DEFINE new == Len(effects) + 1
           mine == attempts[a].id
<1>1. /\ \A e \in DOMAIN effects : e < new /\ e # new
      /\ DOMAIN effects' = DOMAIN effects \cup {new}
      /\ \A e \in DOMAIN effects : effects'[e] = effects[e]
      /\ effects'[new] = effect /\ effect.record = mine
      /\ new # None
  BY DEF Committed, Added, Typed, None
<1>2. /\ attempts'[a] = to /\ \A b \in Attempts : b # a => attempts'[b] = attempts[b]
      /\ to.phase = "respond" /\ to.key = attempts[a].key /\ to.body = attempts[a].body
      /\ to.id = mine /\ to.op = new
      /\ attempts[a].phase = "handle" /\ attempts[a].phase \in Owning
  BY DEF Committed, Turned, Owning
<1>3. now' = now /\ records' = records /\ answers' = answers
  BY DEF Committed
<1>4. /\ mine \in DOMAIN records /\ records[mine].key = attempts[a].key
      /\ records[mine].body = attempts[a].body
      /\ \A e \in DOMAIN effects : effects[e].record # mine
  BY <1>2 DEF Sound, OwnRecords, Knows
<1>5. \A b \in Attempts : attempts'[b].phase \in Owning =>
         attempts[b].phase \in Owning /\ attempts'[b].id = attempts[b].id
  BY <1>2
<1>6. \A b \in Attempts : b # a /\ attempts[b].phase \in Owning => attempts[b].id # mine
  BY <1>2 DEF Sound, OwnRecords
<1>7. Owns(a, mine)
  BY <1>2 DEF Owns
<1> HIDE DEF new, mine
<1>8. \A i : i # mine /\ AllFailed(i) => AllFailed(i)'
  BY <1>1 DEF AllFailed
<1>9. ASSUME NEW i, GivenUp(i) PROVE GivenUp(i)'
  <2>1. i # mine /\ AllFailed(i)'
    BY <1>7, <1>8, <1>9 DEF GivenUp
  <2>2. \A b \in Attempts : ~Owns(b, i)'
    BY <1>5, <1>9 DEF GivenUp, Owns
  <2> QED BY <2>1, <2>2 DEF GivenUp
<1>10. UniqueKeys' /\ GoneForAReason' /\ Succession'
  BY <1>3, <1>9 DEF Sound, UniqueKeys, GoneForAReason, Succession, Old
<1>11. OwnRecords'
  <2>1. ASSUME NEW b \in Attempts, attempts'[b].phase \in Owning PROVE Knows(b)'
    <3>1. CASE b = a
      BY <1>1, <1>2, <1>3, <1>4, <3>1 DEF Knows
    <3>2. CASE b # a
      <4>1. attempts'[b] = attempts[b] /\ attempts[b].id # mine
        BY <1>2, <1>5, <1>6, <2>1, <3>2
      <4>2. Knows(b)
        BY <2>1, <4>1 DEF Sound, OwnRecords
      <4>3. AllFailed(attempts[b].id) => AllFailed(attempts[b].id)'
        BY <1>8, <4>1
      <4> QED BY ONLY <1>1, <1>3, <4>1, <4>2, <4>3 DEF Knows
    <3> QED BY <3>1, <3>2
  <2>2. ASSUME NEW b \in Attempts, NEW c \in Attempts,
               attempts'[b].phase \in Owning, attempts'[c].phase \in Owning,
               attempts'[b].id = attempts'[c].id
        PROVE  b = c
    <3>1. attempts[b].phase \in Owning /\ attempts[c].phase \in Owning
          /\ attempts[b].id = attempts[c].id
      BY <1>5, <2>2
    <3> QED BY <3>1 DEF Sound, OwnRecords
  <2> QED BY <2>1, <2>2 DEF OwnRecords
<1>12. OneOperation'
  <2>1. \A e \in DOMAIN effects' : effects'[e].record \in DOMAIN records'
    BY <1>1, <1>3, <1>4 DEF Sound, OneOperation
  <2>2. \A e, f \in DOMAIN effects' : effects'[e].record = effects'[f].record => e = f
    BY <1>1, <1>4 DEF Sound, OneOperation
  <2>3. \A i \in DOMAIN records' : records'[i].result # None =>
           records'[i].result \in DOMAIN effects' /\ effects'[records'[i].result].record = i
    BY <1>1, <1>3 DEF Sound, OneOperation
  <2> QED BY <2>1, <2>2, <2>3 DEF OneOperation
<1>13. AnswersFaithful'
  BY <1>1, <1>3 DEF Sound, AnswersFaithful
<1> QED BY <1>10, <1>11, <1>12, <1>13 DEF Sound

\* Its record's only operation has now failed.
LEMMA RaisedSound ==
    ASSUME Typed, Sound, NEW a \in Attempts, NEW to, NEW effect, Raised(a, to, effect)
    PROVE  Sound'
<1> DEFINE op == attempts[a].op
           mine == attempts[a].id
<1>1. /\ DOMAIN effects' = DOMAIN effects
      /\ effects'[op] = effect /\ effect.record = effects[op].record /\ effect.failed
      /\ \A e \in DOMAIN effects : e # op => effects'[e] = effects[e]
  BY DEF Raised, Rewritten
<1>2. /\ attempts'[a] = to /\ \A b \in Attempts : b # a => attempts'[b] = attempts[b]
      /\ to.phase = "forget" /\ to.key = attempts[a].key /\ to.body = attempts[a].body
      /\ to.id = mine
      /\ attempts[a].phase = "respond" /\ attempts[a].phase \in Owning
  BY DEF Raised, Turned, SameCall, Owning
<1>3. now' = now /\ records' = records /\ answers' = answers
  BY DEF Raised
<1>4. /\ mine \in DOMAIN records /\ records[mine].key = attempts[a].key
      /\ records[mine].body = attempts[a].body
      /\ op \in DOMAIN effects /\ effects[op].record = mine
  BY <1>2 DEF Sound, OwnRecords, Knows
<1>5. \A b \in Attempts : attempts'[b].phase \in Owning =>
         attempts[b].phase \in Owning /\ attempts'[b].id = attempts[b].id
  BY <1>2
<1> HIDE DEF op, mine
<1>6. \A e \in DOMAIN effects :
         effects'[e].record = effects[e].record /\ (effects[e].failed => effects'[e].failed)
  BY <1>1
<1>7. \A i : AllFailed(i) => AllFailed(i)'
  BY <1>1, <1>6 DEF AllFailed
<1>8. \A e \in DOMAIN effects' : effects'[e].record = mine => effects'[e].failed
  <2>1. \A e \in DOMAIN effects : effects[e].record = mine => e = op
    BY <1>4 DEF Sound, OneOperation
  <2> QED BY <1>1, <1>6, <2>1
<1>9. ASSUME NEW i, GivenUp(i) PROVE GivenUp(i)'
  <2>1. \A b \in Attempts : ~Owns(b, i)'
    BY <1>5, <1>9 DEF GivenUp, Owns
  <2> QED BY <1>7, <1>9, <2>1 DEF GivenUp
<1>10. UniqueKeys' /\ GoneForAReason' /\ Succession'
  BY <1>3, <1>9 DEF Sound, UniqueKeys, GoneForAReason, Succession, Old
<1>11. OwnRecords'
  <2>1. ASSUME NEW b \in Attempts, attempts'[b].phase \in Owning PROVE Knows(b)'
    <3>1. CASE b = a
      <4>1. attempts'[b].id = mine /\ attempts'[b].phase = "forget"
            /\ attempts'[b].key = attempts[a].key /\ attempts'[b].body = attempts[a].body
        BY <1>2, <3>1
      <4>2. AllFailed(attempts[b].id)'
        BY <1>8, <4>1 DEF AllFailed
      <4> QED BY <1>3, <1>4, <4>1, <4>2 DEF Knows
    <3>2. CASE b # a
      <4>1. attempts'[b] = attempts[b]
        BY <1>2, <3>2
      <4>2. Knows(b)
        BY <2>1, <4>1 DEF Sound, OwnRecords
      <4>3. AllFailed(attempts[b].id) => AllFailed(attempts[b].id)'
        BY <1>7, <4>1
      <4> QED BY ONLY <1>1, <1>3, <1>6, <4>1, <4>2, <4>3 DEF Knows
    <3> QED BY <3>1, <3>2
  <2>2. ASSUME NEW b \in Attempts, NEW c \in Attempts,
               attempts'[b].phase \in Owning, attempts'[c].phase \in Owning,
               attempts'[b].id = attempts'[c].id
        PROVE  b = c
    <3>1. attempts[b].phase \in Owning /\ attempts[c].phase \in Owning
          /\ attempts[b].id = attempts[c].id
      BY <1>5, <2>2
    <3> QED BY <3>1 DEF Sound, OwnRecords
  <2> QED BY <2>1, <2>2 DEF OwnRecords
<1>12. OneOperation'
  BY <1>1, <1>3, <1>6 DEF Sound, OneOperation
<1>13. AnswersFaithful'
  BY <1>1, <1>3, <1>6 DEF Sound, AnswersFaithful
<1> QED BY <1>10, <1>11, <1>12, <1>13 DEF Sound

\* The record is gone, its operations have failed and nobody else owns it.
LEMMA DroppedSound ==
    ASSUME Typed, Sound, NEW a \in Attempts, NEW row, Dropped(a, row)
    PROVE  Sound'
<1> DEFINE mine == attempts[a].id
<1>1. /\ attempts[a].phase = "forget" /\ attempts[a].phase \in Owning
      /\ Idle.phase \notin Owning /\ attempts'[a] = Idle
      /\ \A b \in Attempts : b # a => attempts'[b] = attempts[b]
      /\ now' = now /\ effects' = effects
      /\ \A x \in answers' : x \in answers \/ x.op = None
  BY DEF Dropped, Turned, Owning
<1>2. mine \in DOMAIN records /\ AllFailed(mine)
  BY <1>1 DEF Sound, OwnRecords, Knows
<1>3. /\ DOMAIN records' = DOMAIN records
      /\ \A i \in DOMAIN records :
            /\ records'[i].key = records[i].key /\ records'[i].body = records[i].body
            /\ records'[i].result = records[i].result
            /\ records'[i].createdAt = records[i].createdAt
            /\ i # mine => records'[i].live = records[i].live
      /\ ~records'[mine].live
  BY <1>2 DEF Dropped, Rewritten
<1>4. \A b \in Attempts : attempts'[b].phase \in Owning =>
         b # a /\ attempts'[b] = attempts[b] /\ attempts[b].phase \in Owning
  BY <1>1
<1>5. \A b \in Attempts : b # a /\ attempts[b].phase \in Owning => attempts[b].id # mine
  BY <1>1 DEF Sound, OwnRecords
<1> HIDE DEF mine
<1>6. OwnRecords' /\ Succession' /\ \A i : GivenUp(i) => GivenUp(i)'
  BY <1>1, <1>3, <1>4, OwnersKept DEF SameRows
<1>7. UniqueKeys'
  BY <1>3 DEF Sound, UniqueKeys
<1>8. OneOperation'
  BY <1>1, <1>3 DEF Sound, OneOperation
<1>9. ASSUME NEW i \in DOMAIN records' PROVE records'[i].live \/ Old(i)' \/ GivenUp(i)'
  <2>1. CASE i = mine
    <3>1. AllFailed(i)'
      BY <1>1, <1>2, <2>1 DEF AllFailed
    <3>2. \A b \in Attempts : ~Owns(b, i)'
      BY <1>4, <1>5, <2>1 DEF Owns
    <3> QED BY <3>1, <3>2 DEF GivenUp
  <2>2. CASE i # mine
    <3>1. records[i].live \/ Old(i) \/ GivenUp(i)
      BY <1>3 DEF Sound, GoneForAReason
    <3> QED BY <1>1, <1>3, <1>6, <2>2, <3>1 DEF Old
  <2> QED BY <2>1, <2>2
<1>10. AnswersFaithful'
  BY <1>1, <1>3 DEF Sound, AnswersFaithful, OneOperation
<1> QED BY <1>6, <1>7, <1>8, <1>9, <1>10 DEF Sound, GoneForAReason

LEMMA SavedSound ==
    ASSUME Typed, Sound, NEW a \in Attempts, NEW row, Saved(a, row)
    PROVE  Sound'
<1> DEFINE mine == attempts[a].id
           op == attempts[a].op
<1>1. /\ attempts[a].phase = "save" /\ attempts[a].phase \in Owning
      /\ Idle.phase \notin Owning /\ attempts'[a] = Idle
      /\ \A b \in Attempts : b # a => attempts'[b] = attempts[b]
      /\ now' = now /\ effects' = effects
      /\ \A x \in answers' : x \in answers \/
            (x.op = op /\ x.key = attempts[a].key /\ x.body = attempts[a].body)
  BY DEF Saved, Turned, Owning
<1>2. /\ mine \in DOMAIN records /\ op \in DOMAIN effects /\ effects[op].record = mine
      /\ records[mine].key = attempts[a].key /\ records[mine].body = attempts[a].body
  BY <1>1 DEF Sound, OwnRecords, Knows
<1>3. /\ DOMAIN records' = DOMAIN records
      /\ \A i \in DOMAIN records :
            /\ records'[i].key = records[i].key /\ records'[i].body = records[i].body
            /\ records'[i].createdAt = records[i].createdAt
            /\ records'[i].live = records[i].live
            /\ i # mine => records'[i].result = records[i].result
      /\ records'[mine].result = op
  BY <1>2 DEF Saved, Rewritten
<1>4. \A b \in Attempts : attempts'[b].phase \in Owning => attempts'[b] = attempts[b]
  BY <1>1
<1> HIDE DEF mine, op
<1>5. OwnRecords' /\ Succession' /\ \A i : GivenUp(i) => GivenUp(i)'
  BY <1>1, <1>3, <1>4, OwnersKept DEF SameRows
<1>6. UniqueKeys' /\ GoneForAReason'
  BY <1>1, <1>3, <1>5 DEF Sound, UniqueKeys, GoneForAReason, Old
<1>7. OneOperation'
  BY <1>1, <1>2, <1>3 DEF Sound, OneOperation
<1>8. AnswersFaithful'
  BY <1>1, <1>2, <1>3 DEF Sound, AnswersFaithful, OneOperation
<1> QED BY <1>5, <1>6, <1>7, <1>8 DEF Sound

\* The rows the cleanup deletes are old.
LEMMA SweptSound == Typed /\ Sound /\ Swept => Sound'
<1> SUFFICES ASSUME Typed, Sound, Swept PROVE Sound'
  OBVIOUS
<1>1. /\ DOMAIN records' = DOMAIN records
      /\ \A i \in DOMAIN records :
            /\ records'[i].key = records[i].key /\ records'[i].body = records[i].body
            /\ records'[i].result = records[i].result
            /\ records'[i].createdAt = records[i].createdAt
            /\ records'[i].live <=> records[i].live /\ ~Old(i)
      /\ now' = now /\ attempts' = attempts /\ effects' = effects /\ answers' = answers
  BY DEF Swept
<1>2. OwnRecords' /\ Succession' /\ \A i : GivenUp(i) => GivenUp(i)'
  BY <1>1, OwnersKept DEF SameRows
<1>3. UniqueKeys'
  BY <1>1 DEF Sound, UniqueKeys
<1>4. ASSUME NEW i \in DOMAIN records' PROVE records'[i].live \/ Old(i)' \/ GivenUp(i)'
  <2>1. records[i].live \/ Old(i) \/ GivenUp(i)
    BY <1>1 DEF Sound, GoneForAReason
  <2>2. Old(i) => Old(i)'
    BY <1>1 DEF Old
  <2> QED BY <1>1, <1>2, <2>1, <2>2
<1>5. OneOperation' /\ AnswersFaithful'
  BY <1>1 DEF Sound, OneOperation, AnswersFaithful
<1> QED BY <1>2, <1>3, <1>4, <1>5 DEF Sound, GoneForAReason

\* What was old stays old.
LEMMA LaterSound ==
    ASSUME Typed, Sound, now' \in Nat, now' >= now,
           UNCHANGED <<records, attempts, effects, answers>>
    PROVE  Sound'
<1>1. OwnRecords' /\ Succession' /\ \A i : GivenUp(i) => GivenUp(i)'
  BY OwnersKept DEF SameRows
<1>2. ASSUME NEW i \in DOMAIN records, Old(i) PROVE Old(i)'
  <2>1. records[i] \in Record /\ now \in Nat /\ Retention \in Nat
    BY IdempotencyAssumption DEF Typed
  <2>2. records[i].createdAt \in Nat
    BY <2>1 DEF Record
  <2> QED BY <1>2, <2>1, <2>2 DEF Old
<1>3. GoneForAReason'
  BY <1>1, <1>2 DEF Sound, GoneForAReason
<1>4. UniqueKeys' /\ OneOperation' /\ AnswersFaithful'
  BY DEF Sound, UniqueKeys, OneOperation, AnswersFaithful
<1> QED BY <1>1, <1>3, <1>4 DEF Sound

LEMMA InitSound == Init => IdempotencyOK
<1> SUFFICES ASSUME Init PROVE IdempotencyOK
  OBVIOUS
<1>1. /\ now = 0 /\ records = <<>> /\ effects = <<>> /\ answers = {} /\ sends = 0
      /\ DOMAIN records = {} /\ DOMAIN effects = {}
      /\ \A a \in Attempts : attempts[a] = Idle /\ attempts[a].phase \notin Owning
  BY DEF Init, Idle, Owning
<1>2. attempts \in [Attempts -> Attempt \cup {Idle}]
  BY DEF Init
<1>3. Typed
  BY <1>1, <1>2 DEF Typed
<1>4. UniqueKeys /\ OwnRecords /\ OneOperation /\ GoneForAReason /\ Succession /\ AnswersFaithful
  BY <1>1 DEF UniqueKeys, OwnRecords, OneOperation, GoneForAReason, Succession, AnswersFaithful
<1> QED BY <1>3, <1>4 DEF IdempotencyOK

LEMMA NextSound == IdempotencyOK /\ [Next]_vars => IdempotencyOK'
<1> SUFFICES ASSUME IdempotencyOK, [Next]_vars PROVE IdempotencyOK'
  OBVIOUS
<1>1. Typed /\ Sound
  BY DEF IdempotencyOK, Sound
<1>2. StepOfThreads
  BY <1>1, StepEffect DEF Sound
<1>3. Typed'
  BY <1>1, <1>2, SendsStep, TypedStep
<1>4. Sound'
  BY <1>1, <1>2, RestedSound, OpenedSound, WentOnSound, CommittedSound, RaisedSound, DroppedSound,
     SavedSound, SweptSound, LaterSound DEF StepOfThreads
<1> QED BY <1>3, <1>4 DEF IdempotencyOK, Sound

-----------------------------------------------------------------------------
(* The theorems *)

LEMMA Invariant == Spec => []IdempotencyOK
<1> QED BY InitSound, NextSound, PTL DEF Spec

\* Rows, threads and answers keep their shapes, and no two rows share an actor and a key.
THEOREM TypeCorrect == Spec => []TypeOK
<1>1. IdempotencyOK => TypeOK
  BY UniqueMeans DEF IdempotencyOK
<1> QED BY <1>1, Invariant, PTL

\* run_idempotent with the cleanup: a key is used for a second operation only when the
\* handler of the first failed or the retention has passed, whatever threads race or die.
THEOREM RepeatedOnlyAfterFailureCorrect == Spec => []RepeatedOnlyAfterFailure
<1> QED BY Invariant, SuccessionMeans, PTL

\* run_idempotent's replay: an answer of success is the outcome of an operation committed
\* under this key with this body.
THEOREM AnswersFaithfulCorrect == Spec => []AnswersFaithful
<1>1. IdempotencyOK => AnswersFaithful
  BY DEF IdempotencyOK
<1> QED BY <1>1, Invariant, PTL

=============================================================================
