---------------------------- MODULE Idempotency -----------------------------
(***************************************************************************)
(* common/idempotency.py: run_idempotent around a critical POST, with the   *)
(* job that deletes old records.                                           *)
(*                                                                         *)
(* run_idempotent is NOT one transaction: the record is inserted and        *)
(* committed, then the handler runs its own @transaction.atomic services    *)
(* and the queries of its response, then the record is deleted or           *)
(* completed.  Each of these is an action here, and the process may die     *)
(* between any two of them.                                                 *)
(*                                                                         *)
(* The unique constraint is on (actor, key): a member of Keys stands for    *)
(* such a pair.  A member of Bodies stands for an endpoint and a request    *)
(* hash: both must be equal for a replay.  The Mut... operators are          *)
(* deliberate faults that no definition uses.                              *)
(***************************************************************************)
EXTENDS Integers, Sequences, FiniteSets

CONSTANTS
    Attempts,  \* threads of the server, each serving one POST at a time
    Keys,      \* actors with their Idempotency-Key values
    Bodies,    \* endpoints with their request bodies
    Retention, \* IDEMPOTENCY_RETENTION_DAYS, in clock ticks
    MaxSends,  \* bound: POSTs sent
    MaxTime    \* bound: the last tick of the clock

ASSUME IdempotencyAssumption ==
    /\ Retention \in Nat \ {0}
    /\ {MaxSends, MaxTime} \subseteq Nat

VARIABLES
    now,       \* timezone.now(), in ticks
    records,   \* IdempotencyRecord rows by primary key; a deleted row stays as Deleted
    attempts,  \* what each thread is doing
    effects,   \* the operations the services have committed, in order
    answers,   \* every answer given: <<key, body, what>>
    sends      \* POSTs sent so far

vars == <<now, records, attempts, effects, answers, sends>>

-----------------------------------------------------------------------------
(* Rows and threads *)

None == 0

\* result is the operation whose outcome is the stored response_body; completed_at is
\* NULL while it is None.
Record == [live : BOOLEAN, key : Keys, body : Bodies, result : Nat, createdAt : Nat]

\* "insert" and "lookup" are the two database accesses before the handler, "handle" the
\* handler up to the commit of its service, "respond" the rest of the handler, "forget"
\* and "save" the two ways out.  id is the record's key, op the committed operation.
Phase == {"insert", "lookup", "handle", "respond", "forget", "save"}
Attempt == [phase : Phase, key : Keys, body : Bodies, id : Nat, op : Nat]
Idle == [phase |-> "idle"]

\* A committed operation: the record it ran under, which has its key and its body, and
\* whether the handler raised afterwards.
Effect == [record : Nat, failed : BOOLEAN]

\* An answer and the operation whose response it carries; None for an error.
Answer == [key : Keys, body : Bodies, op : Nat]

Moved(a, phase) == [attempts EXCEPT ![a] = [@ EXCEPT !.phase = phase]]
Done(a) == [attempts EXCEPT ![a] = Idle]

\* The rows with this key: by the unique constraint, at most one.
Holding(key) == {i \in DOMAIN records : records[i].live /\ records[i].key = key}

Reply(a, op) == answers' = answers \cup
    {[key |-> attempts[a].key, body |-> attempts[a].body, op |-> op]}

-----------------------------------------------------------------------------
(* run_idempotent *)

\* A POST arrives: the first time, again because the answer was lost or slow, or with
\* another body under the same key.
\* The bounds leave the clock room for the cleanup.
Send(a, key, body) ==
    /\ attempts[a].phase = "idle"
    /\ sends < MaxSends
    /\ now + Retention < MaxTime
    /\ sends' = sends + 1
    /\ attempts' = [attempts EXCEPT ![a] =
          [phase |-> "insert", key |-> key, body |-> body, id |-> None, op |-> None]]
    /\ UNCHANGED <<now, records, effects, answers>>

MutFree(key) == \A i \in Holding(key) : records[i].result # None

\* Whether the INSERT meets no row with the same (actor, key).
Free(key) == Holding(key) = {}

\* The INSERT, a block of its own; the IntegrityError of the constraint leads to the lookup.
Insert(a) ==
    LET key == attempts[a].key IN
    /\ attempts[a].phase = "insert"
    /\ now + Retention < MaxTime
    /\ IF Free(key)
       THEN /\ records' = Append(records, [live |-> TRUE, key |-> key, body |-> attempts[a].body,
                                           result |-> None, createdAt |-> now])
            /\ attempts' = [attempts EXCEPT ![a] = [@ EXCEPT !.phase = "handle", !.id = Len(records) + 1]]
       ELSE /\ attempts' = Moved(a, "lookup")
            /\ UNCHANGED records
    /\ UNCHANGED <<now, effects, answers, sends>>

MutReplayableAnyBody(i, body) == records[i].result # None

\* Whether record i answers this POST with its stored response.
Replayable(i, body) == records[i].body = body /\ records[i].result # None

\* The SELECT after the IntegrityError: the row may be gone by now, be of another body, or
\* be unfinished; those three are a 409.
Lookup(a) ==
    /\ attempts[a].phase = "lookup"
    /\ LET replay == {i \in Holding(attempts[a].key) : Replayable(i, attempts[a].body)} IN
       IF replay = {}
       THEN Reply(a, None)
       ELSE \E i \in replay : Reply(a, records[i].result)
    /\ attempts' = Done(a)
    /\ UNCHANGED <<now, records, effects, sends>>

\* The service inside the handler commits.
Commit(a) ==
    /\ attempts[a].phase = "handle"
    /\ effects' = Append(effects, [record |-> attempts[a].id, failed |-> FALSE])
    /\ attempts' = [attempts EXCEPT ![a] = [@ EXCEPT !.phase = "respond", !.op = Len(effects) + 1]]
    /\ UNCHANGED <<now, records, answers, sends>>

\* The service raises and is rolled back.
Refuse(a) ==
    /\ attempts[a].phase = "handle"
    /\ attempts' = Moved(a, "forget")
    /\ UNCHANGED <<now, records, effects, answers, sends>>

\* The handler builds the response; CashbackEarnView queries the balance for it.
Respond(a) ==
    /\ attempts[a].phase = "respond"
    /\ attempts' = Moved(a, "save")
    /\ UNCHANGED <<now, records, effects, answers, sends>>

\* That query, or anything else after the commit, raises.
RespondFails(a) ==
    /\ attempts[a].phase = "respond"
    /\ effects' = [effects EXCEPT ![attempts[a].op] = [@ EXCEPT !.failed = TRUE]]
    /\ attempts' = Moved(a, "forget")
    /\ UNCHANGED <<now, records, answers, sends>>

\* The row deleted by its primary key.
Forgotten(id) == [records EXCEPT ![id] = [@ EXCEPT !.live = FALSE]]

\* "except Exception": delete the record, raise.
Forget(a) ==
    /\ attempts[a].phase = "forget"
    /\ records' = Forgotten(attempts[a].id)
    /\ Reply(a, None)
    /\ attempts' = Done(a)
    /\ UNCHANGED <<now, effects, sends>>

\* record.save(update_fields): completes the row, or fails if the row is gone.
Save(a) ==
    LET id == attempts[a].id IN
    /\ attempts[a].phase = "save"
    /\ IF records[id].live
       THEN /\ records' = [records EXCEPT ![id] = [@ EXCEPT !.result = attempts[a].op]]
            /\ Reply(a, attempts[a].op)
       ELSE /\ Reply(a, None)
            /\ UNCHANGED records
    /\ attempts' = Done(a)
    /\ UNCHANGED <<now, effects, sends>>

\* The process dies or the connection to the client breaks: no answer.
Crash(a) ==
    /\ attempts[a].phase # "idle"
    /\ attempts' = Done(a)
    /\ UNCHANGED <<now, records, effects, answers, sends>>

MutOldFinished(i) == records[i].createdAt + Retention < now /\ records[i].result # None

\* cleanup_idempotency_records deletes by age alone, finished or not.
Old(i) == records[i].createdAt + Retention < now

Cleanup ==
    /\ \E i \in DOMAIN records : records[i].live /\ Old(i)
    /\ records' = [i \in DOMAIN records |-> [records[i] EXCEPT !.live = @ /\ ~Old(i)]]
    /\ UNCHANGED <<now, attempts, effects, answers, sends>>

Tick ==
    /\ now < MaxTime
    /\ now' = now + 1
    /\ UNCHANGED <<records, attempts, effects, answers, sends>>

-----------------------------------------------------------------------------

Init ==
    /\ now = 0
    /\ records = <<>>
    /\ attempts = [a \in Attempts |-> Idle]
    /\ effects = <<>>
    /\ answers = {}
    /\ sends = 0

Next ==
    \/ \E a \in Attempts :
          \/ \E key \in Keys, body \in Bodies : Send(a, key, body)
          \/ Insert(a) \/ Lookup(a) \/ Commit(a) \/ Refuse(a) \/ Respond(a) \/ RespondFails(a)
          \/ Forget(a) \/ Save(a) \/ Crash(a)
    \/ Cleanup
    \/ Tick

Spec == Init /\ [][Next]_vars

\* Celery beat runs the cleanup every day, and the days pass.  Nothing is assumed of the
\* threads, any of which may die.
Fairness == WF_vars(Tick) /\ WF_vars(Cleanup)

FairSpec == Spec /\ Fairness

-----------------------------------------------------------------------------
(* Properties *)

\* Every row, thread and answer has its shape, and (actor, key) is unique among the rows.
TypeOK ==
    /\ now \in Nat
    /\ records \in Seq(Record)
    /\ \A key \in Keys : Cardinality(Holding(key)) <= 1
    /\ attempts \in [Attempts -> Attempt \cup {Idle}]
    /\ effects \in Seq(Effect)
    /\ answers \subseteq Answer
    /\ sends \in Nat

SameKey(i, j) == records[effects[i].record].key = records[effects[j].record].key

\* The record of the first operation was too old for the record of the second to meet it.
Apart(i, j) ==
    records[effects[i].record].createdAt + Retention < records[effects[j].record].createdAt

\* "A repetition with the same key and body gives the same answer, the operation is not
\* repeated": whatever POSTs overlapped, were lost, died or were sent again, one key has
\* one operation within the retention.
NotRepeated ==
    \A i, j \in DOMAIN effects : i # j /\ SameKey(i, j) => Apart(i, j) \/ Apart(j, i)

\* What remains of it when a handler may raise after its service has committed: the key is
\* used again within the retention only after such a failure of the earlier operation.
RepeatedOnlyAfterFailure ==
    \A i, j \in DOMAIN effects : i # j /\ SameKey(i, j) =>
        /\ effects[i].record # effects[j].record
        /\ effects[i].record < effects[j].record => effects[i].failed \/ Apart(i, j)

\* A success is only ever answered with the outcome of an operation that was carried out
\* for this key with this very body; "the same key with another body" never gets it.
AnswersFaithful ==
    \A x \in answers : x.op # None =>
        /\ x.op \in DOMAIN effects
        /\ records[effects[x.op].record].key = x.key
        /\ records[effects[x.op].record].body = x.body

\* The unfinished record of an attempt that died does not lock its key for ever.
KeysComeFree ==
    \A i \in 1..MaxSends :
        (i \in DOMAIN records /\ records[i].live /\ records[i].result = None)
            ~> ~(i \in DOMAIN records /\ records[i].live /\ records[i].result = None)

=============================================================================
