--------------------------- MODULE Notifications ----------------------------
(***************************************************************************)
(* Push and SMS notifications (notifications/services.py and tasks.py): the *)
(* row that is committed with an operation, the task put into the broker    *)
(* once it is, the Celery workers that carry the tasks out and retry the    *)
(* SMS, and the devices a push goes to.                                    *)
(*                                                                         *)
(* The broker delivers at least once: a task is acknowledged after it has   *)
(* run (CELERY_TASK_ACKS_LATE).  That of a worker that dies comes again,    *)
(* unless its end is itself taken for an answer; and one whose worker has   *)
(* lost its connection to Redis, or takes longer than the visibility        *)
(* timeout, is delivered to another while the first still carries it out.   *)
(* The Mut... operators are deliberate faults that no definition uses.      *)
(***************************************************************************)
EXTENDS Integers, Sequences, FiniteSets, Bags

CONSTANTS
    Devices,    \* devices of the client
    Workers,    \* worker processes
    MaxRetries, \* max_retries of the SMS task
    MaxNotes,   \* bound: notifications
    MaxFaults   \* bound: tasks that are cut off or delivered to a second worker

ASSUME NotificationsAssumption ==
    /\ IsFiniteSet(Devices)
    /\ {MaxRetries, MaxNotes, MaxFaults} \subseteq Nat

VARIABLES
    notes,   \* Notification rows, by primary key
    queue,   \* the broker: the bag of tasks that wait
    workers, \* the task each worker is carrying out
    devices, \* the devices that are active and have an FCM token
    faults   \* tasks that were cut off or delivered to a second worker so far

vars == <<notes, queue, workers, devices, faults>>

-----------------------------------------------------------------------------
(* Rows and tasks *)

Idle == [phase |-> "idle"]

Channel == {"PUSH", "SMS"}
NotificationStatus == {"QUEUED", "SENT", "FAILED", "SKIPPED"}

\* due: the on_commit callback has yet to run.  The rest is no column: how often a provider
\* accepted the message, whether its task was lost, whether it came again, and whether that
\* was a push which a worker still had.
Notification == [channel : Channel, status : NotificationStatus, due : BOOLEAN,
                 accepted : Nat, lost : BOOLEAN, again : BOOLEAN, shared : BOOLEAN]

Task == [note : 1..MaxNotes, retries : 0..MaxRetries]

\* left: the devices of the list still to be gone through; status: what the row will say;
\* refused: the device whose token was just refused, in the phase "off".
Phone == "phone"
Running == [phase : {"send", "off", "save", "retry", "ack"}, task : Task,
            left : SUBSET (Devices \cup {Phone}), refused : SUBSET Devices,
            status : NotificationStatus]

Status(i) == notes[i].status
IsPush(task) == notes[task.note].channel = "PUSH"
Goes(w, running) == workers' = [workers EXCEPT ![w] = running]
Accepted(i) == [notes EXCEPT ![i] = [@ EXCEPT !.accepted = notes[i].accepted + 1]]

-----------------------------------------------------------------------------
(* The operation and its callback *)

\* notify_user or send_sms: the row is committed with the operation.
Notify(channel) ==
    /\ Len(notes) < MaxNotes
    /\ notes' = Append(notes, [channel |-> channel, status |-> "QUEUED", due |-> TRUE,
                               accepted |-> 0, lost |-> FALSE, again |-> FALSE,
                               shared |-> FALSE])
    /\ UNCHANGED <<queue, workers, devices, faults>>

\* _dispatch after the commit.
Dispatch(i) ==
    /\ notes[i].due
    /\ notes' = [notes EXCEPT ![i] = [@ EXCEPT !.due = FALSE]]
    /\ queue' = queue (+) SetToBag({[note |-> i, retries |-> 0]})
    /\ UNCHANGED <<workers, devices, faults>>

\* The broker cannot be reached, which is only logged, or the server dies first.
DispatchFails(i) ==
    /\ notes[i].due
    /\ notes' = [notes EXCEPT ![i] = [@ EXCEPT !.due = FALSE, !.lost = TRUE]]
    /\ UNCHANGED <<queue, workers, devices, faults>>

-----------------------------------------------------------------------------
(* The workers *)

MutSendable(task) == TRUE

\* A push is sent only for a row that still waits; an SMS whatever its row says.
Sendable(task) == IsPush(task) => Status(task.note) = "QUEUED"

\* The task starts: the row, and for a push the list of devices.  Until something is sent
\* the status is the one for that.
Take(w, task) ==
    LET targets == IF IsPush(task) THEN devices ELSE {Phone} IN
    /\ workers[w] = Idle
    /\ BagIn(task, queue)
    /\ queue' = queue (-) SetToBag({task})
    /\ Goes(w, [phase |-> IF ~Sendable(task) THEN "ack"
                          ELSE IF targets = {} THEN "save" ELSE "send",
                task |-> task, left |-> targets, refused |-> {},
                status |-> IF targets = {} THEN "SKIPPED" ELSE "FAILED"])
    /\ UNCHANGED <<notes, devices, faults>>

\* The worker after one target of the list: the row is saved after the last one.
After(running, target, status) ==
    LET left == running.left \ {target} IN
    [running EXCEPT !.left = left, !.refused = {}, !.status = status,
                    !.phase = IF left = {} THEN "save" ELSE "send"]

Sending(w, target) == workers[w].phase = "send" /\ target \in workers[w].left

\* provider.send to one target, in any order.
SendAccepted(w, target) ==
    /\ Sending(w, target)
    /\ notes' = Accepted(workers[w].task.note)
    /\ Goes(w, After(workers[w], target, "SENT"))
    /\ UNCHANGED <<queue, devices, faults>>

\* An error, or no answer in time to a message that may have been accepted all the same.
SendFails(w, target, accepted) ==
    /\ Sending(w, target)
    /\ notes' = IF accepted THEN Accepted(workers[w].task.note) ELSE notes
    /\ Goes(w, After(workers[w], target, workers[w].status))
    /\ UNCHANGED <<queue, devices, faults>>

\* FCM answers 400 or 404, which is taken for an invalid token ...
PushRefused(w, device) ==
    /\ Sending(w, device)
    /\ device # Phone
    /\ Goes(w, [workers[w] EXCEPT !.phase = "off", !.refused = {device}])
    /\ UNCHANGED <<notes, queue, devices, faults>>

\* ... and the device as it was read is switched off, its token cleared, whatever token has
\* been registered for it since.
SwitchOff(w) ==
    LET refused == workers[w].refused IN
    /\ workers[w].phase = "off"
    /\ devices' = devices \ refused
    /\ Goes(w, After(workers[w], CHOOSE device \in refused : TRUE, workers[w].status))
    /\ UNCHANGED <<notes, queue, faults>>

MutRetriable(running) == running.task.retries <= MaxRetries

\* self.retry in the SMS task; a push is never repeated.
Retriable(running) == running.task.retries < MaxRetries

\* The row is saved.  An SMS that was not sent is tried again; after the last retry the
\* error is raised once more and ends the task.
Save(w) ==
    LET running == workers[w]
        again == ~IsPush(running.task) /\ running.status = "FAILED" /\ Retriable(running)
    IN
    /\ running.phase = "save"
    /\ notes' = [notes EXCEPT ![running.task.note] = [@ EXCEPT !.status = running.status]]
    /\ Goes(w, [running EXCEPT !.phase = IF again THEN "retry" ELSE "ack"])
    /\ UNCHANGED <<queue, devices, faults>>

MutRetried(task) == task

Retried(task) == [task EXCEPT !.retries = @ + 1]

\* The next attempt is a task of its own; this one ends.
Retry(w) ==
    /\ workers[w].phase = "retry"
    /\ queue' = queue (+) SetToBag({Retried(workers[w].task)})
    /\ Goes(w, [workers[w] EXCEPT !.phase = "ack"])
    /\ UNCHANGED <<notes, devices, faults>>

Ack(w) ==
    /\ workers[w].phase = "ack"
    /\ Goes(w, Idle)
    /\ UNCHANGED <<notes, queue, devices, faults>>

\* The worker is gone and the broker delivers its task again; or only the child process is,
\* or an exception ends the task, and the task is acknowledged.
CutOff(w, redelivered) ==
    LET task == workers[w].task IN
    /\ workers[w] # Idle
    /\ faults < MaxFaults
    /\ faults' = faults + 1
    /\ Goes(w, Idle)
    /\ notes' = [notes EXCEPT ![task.note] = IF redelivered THEN [@ EXCEPT !.again = TRUE]
                                             ELSE [@ EXCEPT !.lost = TRUE]]
    /\ queue' = IF redelivered THEN queue (+) SetToBag({task}) ELSE queue
    /\ UNCHANGED devices

\* The broker takes a worker that goes on for lost: the task waits once more.  Neither task
\* looks at its row again, and what the first worker acknowledges is no longer there.
Redeliver(w) ==
    LET task == workers[w].task IN
    /\ workers[w] # Idle
    /\ faults < MaxFaults
    /\ faults' = faults + 1
    /\ notes' = [notes EXCEPT ![task.note] = [@ EXCEPT !.again = TRUE, !.shared = IsPush(task)]]
    /\ queue' = queue (+) SetToBag({task})
    /\ UNCHANGED <<workers, devices>>

-----------------------------------------------------------------------------
(* The devices *)

\* upsert_device with a token.
Register(device) ==
    /\ device \notin devices
    /\ devices' = devices \cup {device}
    /\ UNCHANGED <<notes, queue, workers, faults>>

\* logout with its device_id.
Logout(device) ==
    /\ device \in devices
    /\ devices' = devices \ {device}
    /\ UNCHANGED <<notes, queue, workers, faults>>

-----------------------------------------------------------------------------

Init ==
    /\ notes = <<>>
    /\ queue = EmptyBag
    /\ workers = [w \in Workers |-> Idle]
    /\ devices = Devices
    /\ faults = 0

\* What a worker does of itself.
Work(w) ==
    \/ \E task \in BagToSet(queue) : Take(w, task)
    \/ \E target \in Devices \cup {Phone} :
          \/ SendAccepted(w, target)
          \/ \E accepted \in BOOLEAN : SendFails(w, target, accepted)
          \/ PushRefused(w, target)
    \/ SwitchOff(w) \/ Save(w) \/ Retry(w) \/ Ack(w)

Callback(i) == Dispatch(i) \/ DispatchFails(i)

Next ==
    \/ \E channel \in Channel : Notify(channel)
    \/ \E i \in DOMAIN notes : Callback(i)
    \/ \E w \in Workers :
          \/ Work(w) \/ Redeliver(w)
          \/ \E redelivered \in BOOLEAN : CutOff(w, redelivered)
    \/ \E device \in Devices : Register(device) \/ Logout(device)

Spec == Init /\ [][Next]_vars

\* A worker goes on with its task, every call it makes has a timeout, and takes the next;
\* a request that has committed runs its callback or dies.
Fairness ==
    /\ \A w \in Workers : WF_vars(Work(w))
    /\ \A i \in 1..MaxNotes : WF_vars(i \in DOMAIN notes /\ Callback(i))

FairSpec == Spec /\ Fairness

-----------------------------------------------------------------------------
(* Properties *)

\* Every row and task has its shape, whatever is retried, and a row that nothing was sent for
\* does not say SENT.
TypeOK ==
    /\ notes \in Seq(Notification)
    /\ DOMAIN queue \subseteq Task
    /\ \A task \in DOMAIN queue : queue[task] \in Nat \ {0}
    /\ workers \in [Workers -> Running \cup {Idle}]
    /\ devices \subseteq Devices
    /\ faults \in 0..MaxFaults
    /\ \A i \in DOMAIN notes : Status(i) = "SENT" => notes[i].accepted > 0

\* How often a message may go out: a push once to each device, an SMS at first and for each
\* retry.
Times(i) == IF notes[i].channel = "PUSH" THEN Cardinality(Devices) ELSE MaxRetries + 1

\* What is settled stays quiet, and the rest is not repeated at will.  A push is not sent
\* for a row that has left QUEUED, also when its task comes again after its worker is gone;
\* only one that came while a worker still had it may have read the row too early.  An SMS
\* that is SENT goes out once more only if its task came again, and without that no message
\* goes out more often than it may, unanswered or not.
SettledQuiet ==
    [][\A i \in DOMAIN notes :
          notes'[i].accepted # notes[i].accepted =>
              /\ IF notes[i].channel = "PUSH" THEN Status(i) = "QUEUED" \/ notes[i].shared
                 ELSE Status(i) = "SENT" => notes[i].again
              /\ notes[i].again \/ notes[i].accepted < Times(i)]_vars

\* No task of the notification is left anywhere, and its row says how it ended, unless a
\* task of it was lost.
Settled(i) ==
    /\ ~notes[i].due
    /\ \A task \in BagToSet(queue) : task.note # i
    /\ \A w \in Workers : workers[w] # Idle => workers[w].task.note # i
    /\ Status(i) = "QUEUED" => notes[i].lost

\* Every notification settles: refused and unanswered messages, retries and redelivered
\* tasks come to an end.
NotificationsSettle ==
    \A i \in 1..MaxNotes : i \in DOMAIN notes ~> (i \in DOMAIN notes /\ Settled(i))

=============================================================================
