------------------------ MODULE NotificationsProofs -------------------------
(***************************************************************************)
(* What is settled is not sent again, and no message more often than it     *)
(* may be, for all values of the constants of Notifications: any number of  *)
(* devices, workers, retries and notifications and any number of tasks cut  *)
(* off or delivered to a second worker.                                    *)
(*                                                                         *)
(* The argument is that a notification has one carrier at a time (Alone):   *)
(* its callback, a task in the broker or a worker.  A push keeps to that    *)
(* until its task comes again while a worker still has it; an SMS until it  *)
(* comes again at all, since its retry may be in the broker when the task   *)
(* that queued it comes back (Single).                                     *)
(* As long as nothing came back, what carries a notification also knows     *)
(* how often it was sent (Budget): by the devices left of a list and by the *)
(* retries of a task.                                                      *)
(***************************************************************************)
EXTENDS Notifications, FiniteSetTheorems, TLAPS

Shapes ==
    /\ notes \in Seq(Notification) /\ Len(notes) <= MaxNotes
    /\ DOMAIN queue \subseteq Task
    /\ \A task \in DOMAIN queue : queue[task] \in Nat \ {0}
    /\ workers \in [Workers -> Running \cup {Idle}]
    /\ devices \subseteq Devices
    /\ faults \in 0..MaxFaults

Busy(w) == workers[w].phase # "idle"

\* A worker that may still send for row i.
Open == {"send", "off", "save"}

\* Tasks are about rows that exist; only an SMS is retried, and no more than it may be.
Known ==
    /\ \A task \in DOMAIN queue : task.note \in DOMAIN notes
    /\ \A w \in Workers : Busy(w) => workers[w].task.note \in DOMAIN notes
    /\ \A w \in Workers : workers[w].phase = "retry" =>
          ~IsPush(workers[w].task) /\ Retriable(workers[w])

\* SENT is said only of what a provider accepted.
Honest ==
    /\ \A i \in DOMAIN notes : Status(i) = "SENT" => notes[i].accepted > 0
    /\ \A w \in Workers : Busy(w) /\ workers[w].status = "SENT" =>
          notes[workers[w].task.note].accepted > 0

\* The worker carries the notification: until it has done with an SMS, or given back a push.
Bears(w, i) ==
    /\ Busy(w) /\ workers[w].task.note = i
    /\ notes[i].channel = "PUSH" \/ workers[w].phase # "ack"

Waits(i) == \E task \in DOMAIN queue : task.note = i

\* One carrier at a time.
Alone(i) ==
    /\ notes[i].due => ~Waits(i) /\ \A w \in Workers : ~Bears(w, i)
    /\ \A k, l \in DOMAIN queue : k.note = i /\ l.note = i => k = l /\ queue[k] = 1
    /\ Waits(i) => \A w \in Workers : ~Bears(w, i)
    /\ \A v, w \in Workers : Bears(v, i) /\ Bears(w, i) => v = w

\* A push is under way only for a row that waits; nothing carries an SMS that is SENT.
Quiet(i) ==
    /\ notes[i].channel = "PUSH" =>
          \A w \in Workers :
             workers[w].phase \in Open /\ workers[w].task.note = i => Status(i) = "QUEUED"
    /\ notes[i].channel # "PUSH" /\ Status(i) = "SENT" =>
          ~notes[i].due /\ ~Waits(i) /\ \A w \in Workers : ~Bears(w, i)

\* The broker has given it one carrier at a time.
Single(i) == ~notes[i].again \/ (notes[i].channel = "PUSH" /\ ~notes[i].shared)

Kept(i) == Single(i) => Alone(i) /\ Quiet(i)

NotificationsOK == Shapes /\ Known /\ Honest /\ \A i \in DOMAIN notes : Kept(i)

LEMMA SingleMeans ==
    ASSUME NEW i
    PROVE  /\ ~notes[i].again => Single(i)
           /\ notes[i].channel = "PUSH" => Single(i) \/ notes[i].shared
           /\ notes[i].channel # "PUSH" /\ Single(i) => ~notes[i].again
BY DEF Single

LEMMA InvariantMeans == NotificationsOK => TypeOK
BY DEF NotificationsOK, Shapes, Honest, TypeOK

-----------------------------------------------------------------------------
(* Tasks and rows *)

LEMMA TaskAdded ==
    ASSUME Shapes, NEW task \in Task, queue' = queue (+) SetToBag({task})
    PROVE  /\ DOMAIN queue' = DOMAIN queue \cup {task}
           /\ \A k \in DOMAIN queue : k # task => queue'[k] = queue[k]
           /\ task \notin DOMAIN queue => queue'[task] = 1
           /\ DOMAIN queue' \subseteq Task
           /\ \A k \in DOMAIN queue' : queue'[k] \in Nat \ {0}
<1>1. queue' = [k \in DOMAIN queue \cup {task} |->
                   (IF k \in DOMAIN queue THEN queue[k] ELSE 0) + (IF k \in {task} THEN 1 ELSE 0)]
  BY DEF (+), SetToBag
<1>2. \A k \in DOMAIN queue : queue[k] \in Nat \ {0}
  BY DEF Shapes
<1>3. DOMAIN queue' = DOMAIN queue \cup {task}
  BY <1>1
<1>4. \A k \in DOMAIN queue : k # task => queue'[k] = queue[k]
  BY <1>1, <1>2
<1>5. task \notin DOMAIN queue => queue'[task] = 1
  BY <1>1
<1>6. task \in DOMAIN queue => queue'[task] = queue[task] + 1
  BY <1>1
<1>7. \A k \in DOMAIN queue' : queue'[k] \in Nat \ {0}
  BY <1>2, <1>3, <1>4, <1>5, <1>6
<1> QED BY <1>3, <1>4, <1>5, <1>7 DEF Shapes

LEMMA TaskTaken ==
    ASSUME Shapes, NEW task \in DOMAIN queue, queue' = queue (-) SetToBag({task})
    PROVE  /\ \A k \in DOMAIN queue' : k \in DOMAIN queue
           /\ \A k \in DOMAIN queue' : k # task => queue'[k] = queue[k]
           /\ queue[task] = 1 => task \notin DOMAIN queue'
           /\ DOMAIN queue' \subseteq Task
           /\ \A k \in DOMAIN queue' : queue'[k] \in Nat \ {0}
<1> DEFINE less == [k \in DOMAIN queue |-> IF k \in {task} THEN queue[k] - 1 ELSE queue[k]]
<1>1. queue' = [k \in {d \in DOMAIN less : less[d] > 0} |-> less[k]]
  <2>1. \A k \in {task} : SetToBag({task})[k] = 1
    BY DEF SetToBag
  <2>2. DOMAIN SetToBag({task}) = {task}
    BY DEF SetToBag
  <2>3. less = [k \in DOMAIN queue |->
                  IF k \in DOMAIN SetToBag({task}) THEN queue[k] - SetToBag({task})[k] ELSE queue[k]]
    BY <2>1, <2>2
  <2> QED BY <2>3 DEF (-)
<1>2. \A k \in DOMAIN queue : queue[k] \in Nat \ {0}
  BY DEF Shapes
<1>3. /\ DOMAIN less = DOMAIN queue /\ less[task] = queue[task] - 1
      /\ \A k \in DOMAIN queue : k # task => less[k] = queue[k]
  OBVIOUS
<1> HIDE DEF less
<1>4. \A k \in DOMAIN queue' : k \in DOMAIN queue /\ less[k] > 0 /\ queue'[k] = less[k]
  BY <1>1, <1>3
<1>5. \A k \in DOMAIN queue' : queue'[k] \in Nat \ {0}
  <2> SUFFICES ASSUME NEW k \in DOMAIN queue' PROVE queue'[k] \in Nat \ {0}
    OBVIOUS
  <2>1. k \in DOMAIN queue /\ less[k] > 0 /\ queue'[k] = less[k]
    BY <1>4
  <2>2. queue[k] \in Nat
    BY <1>2, <2>1
  <2>3. less[k] = queue[k] \/ less[k] = queue[k] - 1
    BY <1>3, <2>1
  <2> QED BY ONLY <2>1, <2>2, <2>3
<1>6. \A k \in DOMAIN queue' : k # task => queue'[k] = queue[k]
  BY <1>3, <1>4
<1>7. ASSUME queue[task] = 1 PROVE task \notin DOMAIN queue'
  <2>1. ~(less[task] > 0)
    BY <1>3, <1>7
  <2> QED BY <1>4, <2>1
<1>8. DOMAIN queue' \subseteq Task
  BY <1>4 DEF Shapes
<1> QED BY <1>4, <1>5, <1>6, <1>7, <1>8

\* Only row i changes.
Rewritten(i, row) ==
    /\ notes' \in Seq(Notification) /\ Len(notes') = Len(notes) /\ DOMAIN notes' = DOMAIN notes
    /\ notes'[i] = row
    /\ \A j \in DOMAIN notes : j # i => notes'[j] = notes[j]

LEMMA RowRewritten ==
    ASSUME Shapes, NEW i \in DOMAIN notes, NEW row \in Notification,
           notes' = [notes EXCEPT ![i] = row]
    PROVE  Rewritten(i, row)
BY DEF Shapes, Rewritten

LEMMA NoteFields ==
    ASSUME Shapes, NEW i \in DOMAIN notes
    PROVE  /\ notes[i] \in Notification /\ notes[i].accepted \in Nat
           /\ i \in 1..MaxNotes
<1>1. notes \in Seq(Notification) /\ Len(notes) <= MaxNotes /\ MaxNotes \in Nat
  BY NotificationsAssumption DEF Shapes
<1>2. notes[i] \in Notification /\ i \in 1..MaxNotes
  BY <1>1
<1> QED BY <1>2 DEF Notification

LEMMA BusyWorker ==
    ASSUME Shapes, NEW w \in Workers, workers[w] # Idle \/ Busy(w)
    PROVE  workers[w] \in Running /\ Busy(w) /\ workers[w] # Idle
<1>1. Idle.phase = "idle"
  BY DEF Idle
<1>2. workers[w] \in Running
  BY <1>1 DEF Shapes, Busy
<1>3. workers[w].phase # "idle"
  BY <1>2 DEF Running
<1> QED BY <1>1, <1>2, <1>3 DEF Busy

LEMMA RunningFields ==
    ASSUME NEW r \in Running
    PROVE  /\ r.phase \in {"send", "off", "save", "retry", "ack"} /\ r.phase # "idle"
           /\ r.task \in Task /\ r.status \in NotificationStatus /\ r.refused \subseteq Devices
           /\ r.left \subseteq Devices \cup {Phone}
BY DEF Running

LEMMA TaskFields ==
    ASSUME NEW task \in Task
    PROVE  task.note \in 1..MaxNotes /\ task.retries \in 0..MaxRetries
BY DEF Task

\* Only worker w changes.
Turned(w, r) ==
    /\ workers' \in [Workers -> Running \cup {Idle}]
    /\ workers'[w] = r
    /\ \A v \in Workers : v # w => workers'[v] = workers[v]

LEMMA WorkerTurned ==
    ASSUME Shapes, NEW w \in Workers, NEW r \in Running \cup {Idle}, Goes(w, r)
    PROVE  Turned(w, r)
BY DEF Shapes, Goes, Turned

-----------------------------------------------------------------------------
(* What a step changes for one notification *)

\* Its carriers become fewer or go on.
LEMMA LessKept ==
    ASSUME NEW i, Kept(i),
           notes'[i].channel = notes[i].channel, notes'[i].status = notes[i].status,
           notes'[i].due => notes[i].due, Single(i)' => Single(i),
           \A k \in DOMAIN queue' : k.note = i => k \in DOMAIN queue /\ queue'[k] = queue[k],
           \A w \in Workers : workers'[w].phase # "idle" /\ workers'[w].task.note = i =>
              /\ Busy(w) /\ workers[w].task.note = i
              /\ workers[w].phase = "ack" => workers'[w].phase = "ack"
              /\ workers'[w].phase \in Open => workers[w].phase \in Open
    PROVE  Kept(i)'
<1> SUFFICES ASSUME Single(i)' PROVE Alone(i)' /\ Quiet(i)'
  BY DEF Kept
<1>1. Alone(i) /\ Quiet(i)
  BY DEF Kept
<1>2. \A w \in Workers : Bears(w, i)' => Bears(w, i)
  BY DEF Bears, Busy
<1>3. Waits(i)' => Waits(i)
  BY DEF Waits
<1>4. Alone(i)'
  <2>1. notes'[i].due => ~Waits(i)' /\ \A w \in Workers : ~Bears(w, i)'
    BY <1>1, <1>2, <1>3 DEF Alone
  <2>2. \A k, l \in DOMAIN queue' : k.note = i /\ l.note = i => k = l /\ queue'[k] = 1
    BY <1>1 DEF Alone
  <2>3. Waits(i)' => \A w \in Workers : ~Bears(w, i)'
    BY <1>1, <1>2, <1>3 DEF Alone
  <2>4. \A v, w \in Workers : Bears(v, i)' /\ Bears(w, i)' => v = w
    BY <1>1, <1>2 DEF Alone
  <2> QED BY <2>1, <2>2, <2>3, <2>4 DEF Alone
<1>5. Quiet(i)'
  <2>1. ASSUME notes'[i].channel = "PUSH", NEW w \in Workers, workers'[w].phase \in Open,
               workers'[w].task.note = i
        PROVE  notes'[i].status = "QUEUED"
    <3>1. workers'[w].phase # "idle"
      BY <2>1 DEF Open
    <3>2. workers[w].phase \in Open /\ workers[w].task.note = i
      BY <2>1, <3>1
    <3> QED BY <1>1, <2>1, <3>2 DEF Quiet, Status
  <2>2. notes'[i].channel # "PUSH" /\ notes'[i].status = "SENT" =>
           ~notes'[i].due /\ ~Waits(i)' /\ \A w \in Workers : ~Bears(w, i)'
    BY <1>1, <1>2, <1>3 DEF Quiet, Status
  <2> QED BY <2>1, <2>2 DEF Quiet, Status
<1> QED BY <1>4, <1>5

\* It is taken over by one new carrier, or by none.
LEMMA TakenOver ==
    ASSUME NEW i, Single(i)' => ~notes'[i].due,
           notes'[i].channel = notes[i].channel,
           Single(i)' =>
              \/ /\ \A w \in Workers : ~Bears(w, i)'
                 /\ \A k, l \in DOMAIN queue' : k.note = i /\ l.note = i => k = l /\ queue'[k] = 1
              \/ /\ ~Waits(i)'
                 /\ \A v, w \in Workers : Bears(v, i)' /\ Bears(w, i)' => v = w,
           notes[i].channel = "PUSH" /\ Single(i)' =>
              \A w \in Workers : workers'[w].phase \in Open /\ workers'[w].task.note = i =>
                 notes'[i].status = "QUEUED",
           notes[i].channel # "PUSH" /\ Single(i)' =>
              \/ notes'[i].status # "SENT"
              \/ ~Waits(i)' /\ \A w \in Workers : ~Bears(w, i)'
    PROVE  Kept(i)'
<1> SUFFICES ASSUME Single(i)' PROVE Alone(i)' /\ Quiet(i)'
  BY DEF Kept
<1>1. Alone(i)'
  <2>1. ASSUME ~Waits(i)' PROVE \A k \in DOMAIN queue' : k.note # i
    BY <2>1 DEF Waits
  <2> QED BY <2>1 DEF Alone
<1>2. Quiet(i)'
  BY DEF Quiet, Status
<1> QED BY <1>1, <1>2

\* The rows keep their channels and what was accepted for them.
SameNotes ==
    /\ notes' \in Seq(Notification) /\ Len(notes') = Len(notes) /\ DOMAIN notes' = DOMAIN notes
    /\ \A i \in DOMAIN notes :
          /\ notes'[i].channel = notes[i].channel
          /\ notes[i].accepted > 0 => notes'[i].accepted > 0

\* What is left to show of a step that turns one worker: what it carries now is sound.
Sound(r) ==
    r # Idle =>
        /\ r \in Running /\ r.task.note \in DOMAIN notes'
        /\ r.phase = "retry" => notes'[r.task.note].channel # "PUSH" /\ Retriable(r)
        /\ r.status = "SENT" => notes'[r.task.note].accepted > 0

LEMMA WorkersSound ==
    ASSUME Known, Honest, SameNotes, NEW w \in Workers, NEW r, Turned(w, r), Sound(r)
    PROVE  /\ \A v \in Workers : Busy(v)' => workers'[v].task.note \in DOMAIN notes'
           /\ \A v \in Workers : workers'[v].phase = "retry" =>
                 notes'[workers'[v].task.note].channel # "PUSH" /\ Retriable(workers'[v])
           /\ \A v \in Workers : Busy(v)' /\ workers'[v].status = "SENT" =>
                 notes'[workers'[v].task.note].accepted > 0
<1> SUFFICES ASSUME NEW v \in Workers, workers'[v].phase # "idle"
             PROVE  /\ workers'[v].task.note \in DOMAIN notes'
                    /\ workers'[v].phase = "retry" =>
                          notes'[workers'[v].task.note].channel # "PUSH" /\ Retriable(workers'[v])
                    /\ workers'[v].status = "SENT" =>
                          notes'[workers'[v].task.note].accepted > 0
  BY DEF Busy
<1>1. CASE v = w
  <2>1. workers'[v] = r
    BY <1>1 DEF Turned
  <2>2. r # Idle
    BY <2>1 DEF Idle
  <2> QED BY <2>1, <2>2 DEF Sound
<1>2. CASE v # w
  <2>1. workers'[v] = workers[v]
    BY <1>2 DEF Turned
  <2>2. Busy(v)
    BY <2>1 DEF Busy
  <2>3. workers[v].task.note \in DOMAIN notes
    BY <2>2 DEF Known
  <2>4. workers[v].phase = "retry" =>
           notes[workers[v].task.note].channel # "PUSH" /\ Retriable(workers[v])
    BY DEF Known, IsPush
  <2>5. workers[v].status = "SENT" => notes[workers[v].task.note].accepted > 0
    BY <2>2 DEF Honest
  <2> DEFINE i == workers[v].task.note
  <2>6. /\ i \in DOMAIN notes' /\ notes'[i].channel = notes[i].channel
        /\ notes[i].accepted > 0 => notes'[i].accepted > 0
    BY <2>3 DEF SameNotes
  <2> QED BY <2>1, <2>3, <2>4, <2>5, <2>6
<1> QED BY <1>1, <1>2

\* The same of a step that turns no worker.
LEMMA WorkersStay ==
    ASSUME Known, Honest, SameNotes, workers' = workers
    PROVE  /\ \A v \in Workers : Busy(v)' => workers'[v].task.note \in DOMAIN notes'
           /\ \A v \in Workers : workers'[v].phase = "retry" =>
                 notes'[workers'[v].task.note].channel # "PUSH" /\ Retriable(workers'[v])
           /\ \A v \in Workers : Busy(v)' /\ workers'[v].status = "SENT" =>
                 notes'[workers'[v].task.note].accepted > 0
<1> SUFFICES ASSUME NEW v \in Workers, Busy(v) \/ workers[v].phase = "retry"
             PROVE  /\ workers[v].task.note \in DOMAIN notes'
                    /\ workers[v].phase = "retry" =>
                          notes'[workers[v].task.note].channel # "PUSH" /\ Retriable(workers[v])
                    /\ workers[v].status = "SENT" =>
                          notes'[workers[v].task.note].accepted > 0
  BY DEF Busy
<1> DEFINE i == workers[v].task.note
<1>1. Busy(v)
  BY DEF Busy
<1>2. i \in DOMAIN notes
  BY <1>1 DEF Known
<1>3. /\ i \in DOMAIN notes' /\ notes'[i].channel = notes[i].channel
      /\ notes[i].accepted > 0 => notes'[i].accepted > 0
  BY <1>2 DEF SameNotes
<1>4. workers[v].phase = "retry" => notes[i].channel # "PUSH" /\ Retriable(workers[v])
  BY DEF Known, IsPush
<1>5. workers[v].status = "SENT" => notes[i].accepted > 0
  BY <1>1 DEF Honest
<1> QED BY <1>3, <1>4, <1>5

LEMMA InvariantKept ==
    ASSUME Shapes', \A task \in DOMAIN queue' : task.note \in DOMAIN notes',
           \A v \in Workers : Busy(v)' => workers'[v].task.note \in DOMAIN notes',
           \A v \in Workers : workers'[v].phase = "retry" =>
              notes'[workers'[v].task.note].channel # "PUSH" /\ Retriable(workers'[v]),
           \A v \in Workers : Busy(v)' /\ workers'[v].status = "SENT" =>
              notes'[workers'[v].task.note].accepted > 0,
           \A i \in DOMAIN notes' : notes'[i].status = "SENT" => notes'[i].accepted > 0,
           \A i \in DOMAIN notes' : Kept(i)'
    PROVE  NotificationsOK'
<1>1. Known'
  BY DEF Known, IsPush
<1>2. Honest'
  BY DEF Honest, Status
<1> QED BY <1>1, <1>2 DEF NotificationsOK

\* The rows change in nothing a carrier looks at.
SameRows ==
    /\ notes' \in Seq(Notification) /\ Len(notes') = Len(notes) /\ DOMAIN notes' = DOMAIN notes
    /\ \A i \in DOMAIN notes :
          /\ notes'[i].channel = notes[i].channel /\ notes'[i].status = notes[i].status
          /\ notes'[i].again = notes[i].again /\ notes'[i].shared = notes[i].shared
          /\ notes'[i].due => notes[i].due
          /\ notes[i].accepted > 0 => notes'[i].accepted > 0

LEMMA SameRowsNotes == SameRows => SameNotes
BY DEF SameRows, SameNotes

LEMMA SentStays ==
    ASSUME Honest, SameRows
    PROVE  \A i \in DOMAIN notes' : notes'[i].status = "SENT" => notes'[i].accepted > 0
BY DEF Honest, SameRows, Status

\* A step that turns no worker and leaves the broker alone.
LEMMA Rests ==
    ASSUME NotificationsOK, SameRows, workers' = workers, queue' = queue,
           devices' \subseteq Devices, faults' = faults
    PROVE  NotificationsOK'
<1>1. Shapes /\ Known /\ Honest /\ \A i \in DOMAIN notes : Kept(i)
  BY DEF NotificationsOK
<1>2. Shapes'
  BY <1>1 DEF Shapes, SameRows
<1>3. \A task \in DOMAIN queue' : task.note \in DOMAIN notes'
  BY <1>1 DEF Known, SameRows
<1>4. ASSUME NEW i \in DOMAIN notes PROVE Kept(i)'
  <2>1. Kept(i)
    BY <1>1
  <2>2. /\ notes'[i].channel = notes[i].channel /\ notes'[i].status = notes[i].status
        /\ notes'[i].due => notes[i].due
        /\ Single(i)' => Single(i)
    BY DEF SameRows, Single
  <2>3. \A w \in Workers : workers'[w].phase # "idle" /\ workers'[w].task.note = i =>
           /\ Busy(w) /\ workers[w].task.note = i
           /\ workers[w].phase = "ack" => workers'[w].phase = "ack"
           /\ workers'[w].phase \in Open => workers[w].phase \in Open
    BY DEF Busy
  <2>4. \A k \in DOMAIN queue' : k.note = i => k \in DOMAIN queue /\ queue'[k] = queue[k]
    OBVIOUS
  <2> QED BY <2>1, <2>2, <2>3, <2>4, LessKept
<1>5. \A i \in DOMAIN notes' : Kept(i)'
  BY <1>4 DEF SameRows
<1> QED BY <1>1, <1>2, <1>3, <1>5, SameRowsNotes, SentStays, WorkersStay, InvariantKept

\* A worker goes on with what it does, or ends it.
LEMMA GoesOn ==
    ASSUME NotificationsOK, SameRows, NEW w \in Workers, Busy(w), NEW r \in Running \cup {Idle},
           Goes(w, r), queue' = queue, devices' \subseteq Devices, faults' \in 0..MaxFaults,
           r # Idle => /\ r.task = workers[w].task
                       /\ workers[w].phase \in Open /\ r.phase \in Open
                       /\ r.status = "SENT" => notes'[r.task.note].accepted > 0
    PROVE  NotificationsOK'
<1>1. Shapes /\ Known /\ Honest /\ \A i \in DOMAIN notes : Kept(i)
  BY DEF NotificationsOK
<1>2. Turned(w, r)
  BY <1>1, WorkerTurned
<1>3. Shapes'
  BY <1>1, <1>2 DEF Shapes, SameRows, Turned
<1>4. \A task \in DOMAIN queue' : task.note \in DOMAIN notes'
  BY <1>1 DEF Known, SameRows
<1>5. workers[w].task.note \in DOMAIN notes'
  BY <1>1 DEF Known, SameRows
<1>6. Sound(r)
  BY <1>5 DEF Sound, Open
<1>7. ASSUME NEW i \in DOMAIN notes PROVE Kept(i)'
  <2>1. Kept(i)
    BY <1>1
  <2>2. /\ notes'[i].channel = notes[i].channel /\ notes'[i].status = notes[i].status
        /\ notes'[i].due => notes[i].due
        /\ Single(i)' => Single(i)
    BY DEF SameRows, Single
  <2>3. ASSUME NEW v \in Workers, workers'[v].phase # "idle", workers'[v].task.note = i
        PROVE  /\ Busy(v) /\ workers[v].task.note = i
               /\ workers[v].phase = "ack" => workers'[v].phase = "ack"
               /\ workers'[v].phase \in Open => workers[v].phase \in Open
    <3>1. CASE v = w
      <4>1. workers'[w] = r
        BY <1>2 DEF Turned
      <4>2. r # Idle
        BY <2>3, <3>1, <4>1 DEF Idle
      <4> QED BY <2>3, <3>1, <4>1, <4>2 DEF Open
    <3>2. CASE v # w
      <4>1. workers'[v] = workers[v]
        BY <1>2, <3>2 DEF Turned
      <4> QED BY <2>3, <4>1 DEF Busy
    <3> QED BY <3>1, <3>2
  <2>4. \A k \in DOMAIN queue' : k.note = i => k \in DOMAIN queue /\ queue'[k] = queue[k]
    OBVIOUS
  <2> QED BY <2>1, <2>2, <2>3, <2>4, LessKept
<1>8. \A i \in DOMAIN notes' : Kept(i)'
  BY <1>7 DEF SameRows
<1> QED BY <1>1, <1>2, <1>3, <1>4, <1>6, <1>8, SameRowsNotes, SentStays, WorkersSound, InvariantKept

\* A notification that the step is not about.
LEMMA OtherKept ==
    ASSUME NEW i, Kept(i), notes'[i] = notes[i],
           \A k \in DOMAIN queue' : k.note = i => k \in DOMAIN queue /\ queue'[k] = queue[k],
           \A w \in Workers : workers'[w].phase # "idle" /\ workers'[w].task.note = i =>
              workers'[w] = workers[w]
    PROVE  Kept(i)'
<1>1. /\ notes'[i].channel = notes[i].channel /\ notes'[i].status = notes[i].status
      /\ notes'[i].due => notes[i].due
      /\ Single(i)' => Single(i)
  BY DEF Single
<1>2. \A w \in Workers : workers'[w].phase # "idle" /\ workers'[w].task.note = i =>
         /\ Busy(w) /\ workers[w].task.note = i
         /\ workers[w].phase = "ack" => workers'[w].phase = "ack"
         /\ workers'[w].phase \in Open => workers[w].phase \in Open
  BY DEF Busy
<1> QED BY <1>1, <1>2, LessKept

\* A task put in for a notification that has none in the broker.
LEMMA OneTask ==
    ASSUME Shapes, NEW task \in Task, queue' = queue (+) SetToBag({task}), ~Waits(task.note)
    PROVE  /\ \A k, l \in DOMAIN queue' :
                 k.note = task.note /\ l.note = task.note => k = l /\ queue'[k] = 1
           /\ task \in DOMAIN queue'
<1>1. \A k \in DOMAIN queue : k.note # task.note
  BY DEF Waits
<1>2. /\ DOMAIN queue' = DOMAIN queue \cup {task}
      /\ task \notin DOMAIN queue => queue'[task] = 1
  BY TaskAdded
<1> QED BY <1>1, <1>2

\* What is in the broker of the others.
LEMMA OtherTasks ==
    ASSUME Shapes, NEW task \in Task, NEW i, i # task.note,
           queue' = queue (+) SetToBag({task})
    PROVE  \A k \in DOMAIN queue' : k.note = i => k \in DOMAIN queue /\ queue'[k] = queue[k]
BY TaskAdded

LEMMA AddedKnown ==
    ASSUME NotificationsOK, NEW task \in Task, task.note \in DOMAIN notes, SameNotes,
           queue' = queue (+) SetToBag({task})
    PROVE  \A k \in DOMAIN queue' : k.note \in DOMAIN notes'
<1>1. Shapes /\ Known
  BY DEF NotificationsOK
<1>2. DOMAIN queue' = DOMAIN queue \cup {task}
  BY <1>1, TaskAdded
<1> QED BY <1>1, <1>2 DEF Known, SameNotes

LEMMA AddedShapes ==
    ASSUME Shapes, NEW task \in Task, queue' = queue (+) SetToBag({task}),
           notes' \in Seq(Notification), Len(notes') = Len(notes),
           workers' \in [Workers -> Running \cup {Idle}], devices' = devices,
           faults' \in 0..MaxFaults
    PROVE  Shapes'
<1>1. DOMAIN queue' \subseteq Task /\ \A k \in DOMAIN queue' : queue'[k] \in Nat \ {0}
  BY TaskAdded
<1> QED BY <1>1 DEF Shapes

-----------------------------------------------------------------------------
(* The steps *)

LEMMA StepNotify ==
    ASSUME NotificationsOK, NEW channel \in Channel, Notify(channel)
    PROVE  NotificationsOK'
<1> DEFINE row == [channel |-> channel, status |-> "QUEUED", due |-> TRUE,
                   accepted |-> 0, lost |-> FALSE, again |-> FALSE, shared |-> FALSE]
           n == Len(notes) + 1
<1>1. Shapes /\ Known /\ Honest /\ \A i \in DOMAIN notes : Kept(i)
  BY DEF NotificationsOK
<1>2. row \in Notification /\ row.status = "QUEUED" /\ row.due
  BY DEF Notification, NotificationStatus
<1>3. notes' = Append(notes, row) /\ queue' = queue /\ workers' = workers
      /\ devices' = devices /\ faults' = faults /\ Len(notes) < MaxNotes
  BY DEF Notify
<1>4. MaxNotes \in Nat
  BY NotificationsAssumption
<1> HIDE DEF row
<1>5. /\ notes' \in Seq(Notification) /\ Len(notes') = n /\ n <= MaxNotes /\ n \notin DOMAIN notes
      /\ DOMAIN notes' = DOMAIN notes \cup {n} /\ notes'[n] = row
      /\ \A i \in DOMAIN notes : notes'[i] = notes[i]
  <2>1. notes \in Seq(Notification) /\ Len(notes) \in Nat
    BY <1>1 DEF Shapes
  <2> QED BY <1>2, <1>3, <1>4, <2>1
<1> HIDE DEF n
<1>6. Shapes'
  BY <1>1, <1>3, <1>5 DEF Shapes
<1>7. \A task \in DOMAIN queue' : task.note \in DOMAIN notes'
  BY <1>1, <1>3, <1>5 DEF Known
<1>8. ASSUME NEW v \in Workers, Busy(v) \/ workers[v].phase = "retry"
      PROVE  /\ workers[v].task.note \in DOMAIN notes'
             /\ workers[v].phase = "retry" =>
                   notes'[workers[v].task.note].channel # "PUSH" /\ Retriable(workers[v])
             /\ workers[v].status = "SENT" => notes'[workers[v].task.note].accepted > 0
  <2> DEFINE i == workers[v].task.note
  <2>1. Busy(v)
    BY <1>8 DEF Busy
  <2>2. i \in DOMAIN notes
    BY <1>1, <2>1 DEF Known
  <2>3. i \in DOMAIN notes' /\ notes'[i] = notes[i]
    BY <1>5, <2>2
  <2>4. workers[v].phase = "retry" => notes[i].channel # "PUSH" /\ Retriable(workers[v])
    BY <1>1 DEF Known, IsPush
  <2>5. workers[v].status = "SENT" => notes[i].accepted > 0
    BY <1>1, <2>1 DEF Honest
  <2> QED BY <2>3, <2>4, <2>5
<1>9. ASSUME NEW i \in DOMAIN notes' PROVE Kept(i)' /\ (notes'[i].status = "SENT" => notes'[i].accepted > 0)
  <2>1. CASE i = n
    <3>1. notes'[i].status = "QUEUED"
      BY <1>2, <1>5, <2>1
    <3>2. \A k \in DOMAIN queue' : k.note # i
      BY <1>1, <1>3, <1>5, <2>1 DEF Known
    <3>3. \A w \in Workers : ~(workers'[w].phase # "idle" /\ workers'[w].task.note = i)
      BY <1>1, <1>3, <1>5, <2>1 DEF Known, Busy
    <3>4. ~Waits(i)' /\ \A w \in Workers : ~Bears(w, i)'
      BY <3>2, <3>3 DEF Waits, Bears, Busy
    <3>5. Alone(i)'
      BY <3>2, <3>4 DEF Alone
    <3>6. Quiet(i)'
      BY <3>1, <3>4 DEF Quiet, Status
    <3> QED BY <3>1, <3>5, <3>6 DEF Kept
  <2>2. CASE i \in DOMAIN notes
    <3>1. Kept(i) /\ notes'[i] = notes[i]
      BY <1>1, <1>5, <2>2
    <3>2. Kept(i)'
      BY <1>3, <3>1, OtherKept
    <3> QED BY <1>1, <2>2, <3>1, <3>2 DEF Honest, Status
  <2> QED BY <1>5, <2>1, <2>2
<1>10. \A v \in Workers : Busy(v)' => Busy(v)
  BY <1>3 DEF Busy
<1> QED BY <1>3, <1>6, <1>7, <1>8, <1>9, <1>10, InvariantKept

LEMMA StepDispatchFails ==
    ASSUME NotificationsOK, NEW i \in DOMAIN notes, DispatchFails(i)
    PROVE  NotificationsOK'
<1>1. Shapes
  BY DEF NotificationsOK
<1> DEFINE row == [notes[i] EXCEPT !.due = FALSE, !.lost = TRUE]
<1>2. notes[i] \in Notification
  BY <1>1, NoteFields
<1>3. /\ row \in Notification /\ row.channel = notes[i].channel /\ row.status = notes[i].status
      /\ row.again = notes[i].again /\ row.shared = notes[i].shared
      /\ row.accepted = notes[i].accepted /\ ~row.due
  BY <1>2 DEF Notification
<1>4. notes' = [notes EXCEPT ![i] = row]
  BY DEF DispatchFails
<1> HIDE DEF row
<1>5. Rewritten(i, row)
  BY <1>1, <1>3, <1>4, RowRewritten
<1>6. SameRows
  BY <1>3, <1>5 DEF Rewritten, SameRows
<1>7. devices' \subseteq Devices
  BY <1>1 DEF DispatchFails, Shapes
<1> QED BY <1>6, <1>7, Rests DEF DispatchFails

LEMMA StepDispatch ==
    ASSUME NotificationsOK, NEW i \in DOMAIN notes, Dispatch(i)
    PROVE  NotificationsOK'
<1> DEFINE row == [notes[i] EXCEPT !.due = FALSE]
           task == [note |-> i, retries |-> 0]
<1>1. Shapes /\ Known /\ Honest /\ \A j \in DOMAIN notes : Kept(j)
  BY DEF NotificationsOK
<1>2. notes[i] \in Notification /\ i \in 1..MaxNotes
  BY <1>1, NoteFields
<1>3. /\ row \in Notification /\ row.channel = notes[i].channel /\ row.status = notes[i].status
      /\ row.again = notes[i].again /\ row.shared = notes[i].shared
      /\ row.accepted = notes[i].accepted /\ ~row.due
  BY <1>2 DEF Notification
<1>4. task \in Task /\ task.note = i
  BY <1>2, NotificationsAssumption DEF Task
<1>5. /\ notes' = [notes EXCEPT ![i] = row] /\ queue' = queue (+) SetToBag({task})
      /\ notes[i].due /\ workers' = workers /\ devices' = devices /\ faults' = faults
  BY DEF Dispatch
<1> HIDE DEF row, task
<1>6. Rewritten(i, row)
  BY <1>1, <1>3, <1>5, RowRewritten
<1>7. SameRows
  BY <1>3, <1>6 DEF Rewritten, SameRows
<1>8. Shapes'
  BY <1>1, <1>4, <1>5, <1>6, AddedShapes DEF Rewritten, Shapes
<1>9. \A k \in DOMAIN queue' : k.note \in DOMAIN notes'
  BY <1>4, <1>5, <1>7, SameRowsNotes, AddedKnown
<1>10. ASSUME NEW j \in DOMAIN notes PROVE Kept(j)'
  <2>1. CASE j # i
    <3>1. \A k \in DOMAIN queue' : k.note = j => k \in DOMAIN queue /\ queue'[k] = queue[k]
      BY <1>1, <1>4, <1>5, <2>1, OtherTasks
    <3>2. Kept(j) /\ notes'[j] = notes[j]
      BY <1>1, <1>6, <2>1 DEF Rewritten
    <3> QED BY <1>5, <3>1, <3>2, OtherKept
  <2>2. CASE j = i
    <3>1. /\ notes'[i].channel = notes[i].channel /\ notes'[i].status = notes[i].status
          /\ notes'[i].again = notes[i].again
          /\ notes'[i].shared = notes[i].shared /\ ~notes'[i].due
      BY <1>3, <1>6 DEF Rewritten
    <3>2. ASSUME Single(i)
          PROVE  /\ ~Waits(i) /\ \A w \in Workers : ~Bears(w, i)
                 /\ notes[i].channel # "PUSH" => notes[i].status # "SENT"
      BY <1>1, <1>5, <3>2 DEF Kept, Alone, Quiet, Status
    <3>3. ASSUME Single(i)
          PROVE  /\ \A w \in Workers : ~Bears(w, i)'
                 /\ \A k, l \in DOMAIN queue' : k.note = i /\ l.note = i => k = l /\ queue'[k] = 1
      <4>1. \A w \in Workers : ~Bears(w, i)'
        BY <1>5, <3>1, <3>2, <3>3 DEF Bears, Busy
      <4>2. ~Waits(task.note)
        BY <1>4, <3>2, <3>3
      <4>3. \A k, l \in DOMAIN queue' :
               k.note = task.note /\ l.note = task.note => k = l /\ queue'[k] = 1
        BY ONLY <1>1, <1>4, <1>5, <4>2, OneTask
      <4> QED BY <1>4, <4>1, <4>3
    <3>4. ASSUME notes[i].channel = "PUSH", Single(i)
          PROVE  \A w \in Workers : ~(workers'[w].phase \in Open /\ workers'[w].task.note = i)
      BY <1>5, <3>2, <3>4 DEF Bears, Busy, Open
    <3>5. Kept(i)'
      <4>1. Single(i)' => Single(i)
        BY <3>1 DEF Single
      <4> QED BY <3>1, <3>2, <3>3, <3>4, <4>1, TakenOver
    <3> QED BY <2>2, <3>5
  <2> QED BY <2>1, <2>2
<1>11. \A j \in DOMAIN notes' : Kept(j)'
  BY <1>7, <1>10 DEF SameRows
<1> QED BY <1>1, <1>5, <1>7, <1>8, <1>9, <1>11, SameRowsNotes, SentStays, WorkersStay, InvariantKept

\* A worker that is free bears nothing, and one that turns leaves the others as they were.
LEMMA OthersBear ==
    ASSUME NEW w \in Workers, NEW r, Turned(w, r), NEW v \in Workers, v # w, NEW i,
           notes'[i].channel = notes[i].channel
    PROVE  Bears(v, i)' <=> Bears(v, i)
BY DEF Turned, Bears, Busy

LEMMA TurnedKept ==
    ASSUME Shapes, NEW w \in Workers, NEW r, Turned(w, r), NEW i, Kept(i),
           notes'[i] = notes[i], r # Idle => r.task.note # i,
           \A k \in DOMAIN queue' : k.note = i => k \in DOMAIN queue /\ queue'[k] = queue[k]
    PROVE  Kept(i)'
<1>1. ASSUME NEW v \in Workers, workers'[v].phase # "idle", workers'[v].task.note = i
      PROVE  workers'[v] = workers[v]
  <2>1. CASE v = w
    BY <1>1, <2>1 DEF Turned, Idle
  <2>2. CASE v # w
    BY <2>2 DEF Turned
  <2> QED BY <2>1, <2>2
<1> QED BY <1>1, OtherKept

LEMMA StepTake ==
    ASSUME NotificationsOK, NEW w \in Workers, NEW task \in BagToSet(queue), Take(w, task)
    PROVE  NotificationsOK'
<1> DEFINE targets == IF IsPush(task) THEN devices ELSE {Phone}
           r == [phase |-> IF ~Sendable(task) THEN "ack"
                           ELSE IF targets = {} THEN "save" ELSE "send",
                 task |-> task, left |-> targets, refused |-> {},
                 status |-> IF targets = {} THEN "SKIPPED" ELSE "FAILED"]
           i == task.note
<1>1. Shapes /\ Known /\ Honest /\ \A j \in DOMAIN notes : Kept(j)
  BY DEF NotificationsOK
<1>2. task \in DOMAIN queue /\ task \in Task /\ i \in DOMAIN notes
  BY <1>1 DEF BagToSet, Shapes, Known
<1>3. /\ workers[w] = Idle /\ queue' = queue (-) SetToBag({task}) /\ Goes(w, r)
      /\ notes' = notes /\ devices' = devices /\ faults' = faults
  BY DEF Take
<1>4. /\ r \in Running /\ r.task = task /\ r.status # "SENT"
      /\ r.phase \in {"ack", "save", "send"}
      /\ r.phase \in Open => Sendable(task)
  <2>1. targets \subseteq Devices \cup {Phone}
    BY <1>1 DEF Shapes
  <2> HIDE DEF targets
  <2> QED BY <1>2, <2>1 DEF Running, NotificationStatus, Open
<1> HIDE DEF r
<1>5. Turned(w, r)
  BY <1>1, <1>3, <1>4, WorkerTurned
<1>6. /\ \A k \in DOMAIN queue' : k \in DOMAIN queue
      /\ \A k \in DOMAIN queue' : k # task => queue'[k] = queue[k]
      /\ queue[task] = 1 => task \notin DOMAIN queue'
      /\ DOMAIN queue' \subseteq Task
      /\ \A k \in DOMAIN queue' : queue'[k] \in Nat \ {0}
  BY <1>1, <1>2, <1>3, TaskTaken
<1>7. Shapes'
  BY <1>1, <1>3, <1>5, <1>6 DEF Shapes, Turned
<1>8. SameRows
  BY <1>1, <1>3 DEF SameRows, Shapes
<1>9. \A k \in DOMAIN queue' : k.note \in DOMAIN notes'
  BY <1>1, <1>3, <1>6 DEF Known
<1>10. Sound(r)
  BY <1>2, <1>3, <1>4 DEF Sound
<1>11. ASSUME NEW j \in DOMAIN notes PROVE Kept(j)'
  <2>1. CASE j # i
    <3>1. \A k \in DOMAIN queue' : k.note = j => k \in DOMAIN queue /\ queue'[k] = queue[k]
      BY <1>6, <2>1
    <3>2. Kept(j) /\ notes'[j] = notes[j] /\ r.task.note # j
      BY <1>1, <1>3, <1>4, <2>1
    <3> QED BY <1>1, <1>5, <3>1, <3>2, TurnedKept
  <2>2. CASE j = i
    <3>1. ASSUME Single(i)
          PROVE  /\ ~notes[i].due /\ queue[task] = 1 /\ \A k \in DOMAIN queue : k.note = i => k = task
                 /\ \A v \in Workers : ~Bears(v, i)
                 /\ notes[i].channel # "PUSH" => notes[i].status # "SENT"
      <4>1. Waits(i) /\ Alone(i) /\ Quiet(i)
        BY <1>1, <1>2, <3>1 DEF Waits, Kept
      <4> QED BY <1>2, <4>1 DEF Alone, Quiet, Status
    <3>2. ASSUME Single(i)
          PROVE  ~Waits(i)' /\ \A u, v \in Workers : Bears(u, i)' /\ Bears(v, i)' => u = v
      <4>1. ~Waits(i)'
        BY <1>6, <3>1, <3>2 DEF Waits
      <4>2. \A v \in Workers : v # w => ~Bears(v, i)'
        BY <1>3, <1>5, <3>1, <3>2, OthersBear
      <4> QED BY <4>1, <4>2
    <3>3. ASSUME notes[i].channel = "PUSH", Single(i), NEW v \in Workers,
                 workers'[v].phase \in Open, workers'[v].task.note = i
          PROVE  notes'[i].status = "QUEUED"
      <4>1. CASE v = w
        <5>1. workers'[v] = r
          BY <1>5, <4>1 DEF Turned
        <5> QED BY <1>3, <1>4, <3>3, <5>1 DEF Sendable, IsPush, Status
      <4>2. CASE v # w
        <5>1. Bears(v, i)
          BY <1>5, <3>3, <4>2 DEF Turned, Bears, Busy, Open
        <5> QED BY <3>1, <3>3, <5>1
      <4> QED BY <4>1, <4>2
    <3>4. Kept(i)'
      <4>1. Single(i)' => Single(i)
        BY <1>3 DEF Single
      <4> QED BY <1>3, <3>1, <3>2, <3>3, <4>1, TakenOver
    <3> QED BY <2>2, <3>4
  <2> QED BY <2>1, <2>2
<1>12. \A j \in DOMAIN notes' : Kept(j)'
  BY <1>3, <1>11
<1> QED BY <1>1, <1>5, <1>7, <1>8, <1>9, <1>10, <1>12, SameRowsNotes, SentStays, WorkersSound,
           InvariantKept

LEMMA StepSave ==
    ASSUME NotificationsOK, NEW w \in Workers, Save(w)
    PROVE  NotificationsOK'
<1> DEFINE running == workers[w]
           more == ~IsPush(running.task) /\ running.status = "FAILED" /\ Retriable(running)
           phase == IF more THEN "retry" ELSE "ack"
           r == [running EXCEPT !.phase = phase]
<1>1. Shapes /\ Known /\ Honest /\ \A j \in DOMAIN notes : Kept(j)
  BY DEF NotificationsOK
<1>2. running.phase = "save" /\ Busy(w) /\ running \in Running
  <2>1. running.phase = "save"
    BY DEF Save
  <2> QED BY <1>1, <2>1, BusyWorker DEF Busy
<1>3. PICK i \in DOMAIN notes : i = running.task.note /\ notes[i] \in Notification
  BY <1>1, <1>2, NoteFields DEF Known
<1> DEFINE row == [notes[i] EXCEPT !.status = running.status]
<1>4. /\ notes' = [notes EXCEPT ![i] = row]
      /\ Goes(w, r) /\ queue' = queue /\ devices' = devices /\ faults' = faults
  BY <1>3 DEF Save
<1>5. running.status \in NotificationStatus /\ running.task \in Task
  BY <1>2, RunningFields
<1>6. /\ row \in Notification /\ row.channel = notes[i].channel /\ row.status = running.status
      /\ row.again = notes[i].again /\ row.shared = notes[i].shared /\ row.due = notes[i].due
      /\ row.accepted = notes[i].accepted
  <2> HIDE DEF running
  <2> QED BY <1>3, <1>5 DEF Notification
<1>7. /\ phase \in {"retry", "ack"}
      /\ phase = "retry" => notes[i].channel # "PUSH" /\ running.status = "FAILED"
                            /\ running.task.retries < MaxRetries
  BY <1>3 DEF IsPush, Retriable
<1>8. /\ r \in Running /\ r # Idle /\ r.task = running.task /\ r.phase = phase
      /\ r.status = running.status
  <2> HIDE DEF running, phase
  <2> QED BY <1>2, <1>7 DEF Running, Idle
<1>9. r.phase = "retry" => Retriable(r)
  BY <1>7, <1>8 DEF Retriable
<1>10. running.status = "SENT" => notes[i].accepted > 0
  BY <1>1, <1>2, <1>3 DEF Honest
<1>11. ASSUME Single(i)
       PROVE  Bears(w, i) /\ Alone(i)
  BY <1>1, <1>2, <1>3, <1>11 DEF Bears, Kept
<1> HIDE DEF row, r, phase
<1>12. Rewritten(i, row)
  BY <1>1, <1>4, <1>3, <1>6, RowRewritten
<1>13. Turned(w, r)
  BY <1>1, <1>4, <1>8, WorkerTurned
<1>14. Shapes'
  BY <1>1, <1>4, <1>12, <1>13 DEF Shapes, Rewritten, Turned
<1>15. SameNotes
  BY <1>6, <1>12 DEF SameNotes, Rewritten
<1>16. \A k \in DOMAIN queue' : k.note \in DOMAIN notes'
  BY <1>1, <1>4, <1>15 DEF Known, SameNotes
<1>17. Sound(r)
  BY <1>3, <1>6, <1>7, <1>8, <1>9, <1>10, <1>12 DEF Sound, Rewritten
<1>18. ASSUME NEW j \in DOMAIN notes
       PROVE  Kept(j)' /\ (notes'[j].status = "SENT" => notes'[j].accepted > 0)
  <2>1. CASE j # i
    <3>1. Kept(j) /\ notes'[j] = notes[j]
      BY <1>1, <1>12, <2>1 DEF Rewritten
    <3>2. r.task.note = i
      BY <1>3, <1>8
    <3>3. \A k \in DOMAIN queue' : k.note = j => k \in DOMAIN queue /\ queue'[k] = queue[k]
      BY <1>4
    <3>4. Kept(j)'
      BY <1>1, <1>13, <2>1, <3>1, <3>2, <3>3, TurnedKept
    <3> QED BY <1>1, <3>1, <3>4 DEF Honest, Status
  <2>2. CASE j = i
    <3>1. /\ notes'[i].channel = notes[i].channel /\ notes'[i].status = running.status
          /\ notes'[i].again = notes[i].again
          /\ notes'[i].shared = notes[i].shared /\ notes'[i].due = notes[i].due
          /\ notes'[i].accepted = notes[i].accepted
      BY <1>6, <1>12 DEF Rewritten
    <3>2. ASSUME Single(i)
          PROVE  ~notes[i].due /\ ~Waits(i) /\ \A v \in Workers : v # w => ~Bears(v, i)
      BY <1>11, <3>2 DEF Alone
    <3>3. ASSUME Single(i)
          PROVE  ~Waits(i)' /\ \A v \in Workers : v # w => ~Bears(v, i)'
      BY <1>4, <1>13, <3>1, <3>2, <3>3, OthersBear DEF Waits
    <3>4. workers'[w] = r
      BY <1>13 DEF Turned
    <3>5. ASSUME notes[i].channel = "PUSH", Single(i), NEW v \in Workers,
                 workers'[v].phase \in Open, workers'[v].task.note = i
          PROVE  FALSE
      <4>1. v # w
        BY <1>7, <1>8, <3>4, <3>5 DEF Open
      <4>2. Bears(v, i)'
        BY <3>1, <3>5 DEF Bears, Busy, Open
      <4> QED BY <3>3, <3>5, <4>1, <4>2
    <3>6. ASSUME notes[i].channel # "PUSH", ~notes[i].again, notes'[i].status = "SENT"
          PROVE  ~Bears(w, i)'
      <4>1. r.phase = "ack"
        BY <1>7, <1>8, <3>1, <3>6
      <4> QED BY <3>1, <3>4, <3>6, <4>1 DEF Bears
    <3>7. Kept(i)'
      <4>1. /\ Single(i)' => Single(i)
            /\ notes[i].channel # "PUSH" /\ Single(i)' => ~notes[i].again
        BY <3>1 DEF Single
      <4> QED BY <3>1, <3>2, <3>3, <3>5, <3>6, <4>1, TakenOver
    <3> QED BY <1>10, <2>2, <3>1, <3>7
  <2> QED BY <2>1, <2>2
<1>19. \A j \in DOMAIN notes' : Kept(j)' /\ (notes'[j].status = "SENT" => notes'[j].accepted > 0)
  BY <1>15, <1>18 DEF SameNotes
<1> QED BY <1>1, <1>13, <1>14, <1>15, <1>16, <1>17, <1>19, WorkersSound, InvariantKept

LEMMA StepRetry ==
    ASSUME NotificationsOK, NEW w \in Workers, Retry(w)
    PROVE  NotificationsOK'
<1> DEFINE running == workers[w]
           r == [running EXCEPT !.phase = "ack"]
           task == [running.task EXCEPT !.retries = @ + 1]
<1>1. Shapes /\ Known /\ Honest /\ \A j \in DOMAIN notes : Kept(j)
  BY DEF NotificationsOK
<1>2. running.phase = "retry" /\ Busy(w) /\ running \in Running
  <2>1. running.phase = "retry"
    BY DEF Retry
  <2> QED BY <1>1, <2>1, BusyWorker DEF Busy
<1>3. PICK i \in DOMAIN notes : i = running.task.note
  BY <1>1, <1>2 DEF Known
<1>4. running.task \in Task /\ running.task.retries < MaxRetries /\ notes[i].channel # "PUSH"
  BY <1>1, <1>2, <1>3, RunningFields DEF Known, Retriable, IsPush
<1>5. task \in Task /\ task.note = i
  <2>1. running.task.retries \in 0..MaxRetries /\ MaxRetries \in Nat
    BY <1>4, TaskFields, NotificationsAssumption
  <2>2. running.task.retries + 1 \in 0..MaxRetries
    BY <1>4, <2>1
  <2> HIDE DEF running
  <2> QED BY <1>3, <1>4, <2>2 DEF Task
<1>6. r \in Running /\ r # Idle /\ r.task = running.task /\ r.phase = "ack" /\ r.status = running.status
  <2> HIDE DEF running
  <2> QED BY <1>2 DEF Running, Idle
<1>7. /\ queue' = queue (+) SetToBag({task}) /\ Goes(w, r)
      /\ notes' = notes /\ devices' = devices /\ faults' = faults
  BY DEF Retry, Retried
<1>8. running.status = "SENT" => notes[i].accepted > 0
  BY <1>1, <1>2, <1>3 DEF Honest
<1>9. ASSUME ~notes[i].again
      PROVE  /\ notes[i].status # "SENT" /\ ~notes[i].due /\ ~Waits(i)
             /\ \A v \in Workers : v # w => ~Bears(v, i)
  <2>1. Bears(w, i) /\ Alone(i) /\ Quiet(i)
    BY <1>1, <1>2, <1>3, <1>4, <1>9, SingleMeans DEF Bears, Kept
  <2> QED BY <1>4, <2>1 DEF Alone, Quiet, Status
<1> HIDE DEF r, task
<1>10. Turned(w, r)
  BY <1>1, <1>6, <1>7, WorkerTurned
<1>11. SameRows
  BY <1>1, <1>7 DEF SameRows, Shapes
<1>12. Shapes'
  BY <1>1, <1>5, <1>7, <1>10, AddedShapes DEF Turned, Shapes
<1>13. \A k \in DOMAIN queue' : k.note \in DOMAIN notes'
  BY <1>3, <1>5, <1>7, <1>11, SameRowsNotes, AddedKnown
<1>14. Sound(r)
  BY <1>3, <1>6, <1>7, <1>8 DEF Sound
<1>15. ASSUME NEW j \in DOMAIN notes PROVE Kept(j)'
  <2>1. CASE j # i
    <3>1. \A k \in DOMAIN queue' : k.note = j => k \in DOMAIN queue /\ queue'[k] = queue[k]
      BY <1>1, <1>5, <1>7, <2>1, OtherTasks
    <3>2. Kept(j) /\ notes'[j] = notes[j] /\ r.task.note # j
      BY <1>1, <1>3, <1>6, <1>7, <2>1
    <3> QED BY <1>1, <1>10, <3>1, <3>2, TurnedKept
  <2>2. CASE j = i
    <3>1. ASSUME ~notes[i].again
          PROVE  /\ \A v \in Workers : ~Bears(v, i)'
                 /\ \A k, l \in DOMAIN queue' : k.note = i /\ l.note = i => k = l /\ queue'[k] = 1
      <4>1. \A v \in Workers : v # w => ~Bears(v, i)'
        BY <1>7, <1>9, <1>10, <3>1, OthersBear
      <4>2. ~Bears(w, i)'
        BY <1>4, <1>6, <1>7, <1>10 DEF Bears, Turned
      <4> QED BY <1>1, <1>5, <1>7, <1>9, <3>1, <4>1, <4>2, OneTask
    <3>2. notes'[i] = notes[i]
      BY <1>7
    <3>3. Kept(i)'
      <4>1. Single(i)' => ~notes[i].again
        BY <1>4, <3>2 DEF Single
      <4> QED BY <1>4, <1>9, <3>1, <3>2, <4>1, TakenOver
    <3> QED BY <2>2, <3>3
  <2> QED BY <2>1, <2>2
<1>16. \A j \in DOMAIN notes' : Kept(j)'
  BY <1>7, <1>15
<1> QED BY <1>1, <1>10, <1>11, <1>12, <1>13, <1>14, <1>16, SameRowsNotes, SentStays, WorkersSound,
           InvariantKept

LEMMA StepCutOff ==
    ASSUME NotificationsOK, NEW w \in Workers, NEW redelivered \in BOOLEAN, CutOff(w, redelivered)
    PROVE  NotificationsOK'
<1> DEFINE task == workers[w].task
<1>1. Shapes /\ Known /\ Honest /\ \A j \in DOMAIN notes : Kept(j)
  BY DEF NotificationsOK
<1>2. Busy(w) /\ workers[w] \in Running /\ task \in Task
  <2>1. workers[w] # Idle
    BY DEF CutOff
  <2> QED BY <1>1, <2>1, BusyWorker, RunningFields
<1>3. PICK i \in DOMAIN notes : i = task.note /\ notes[i] \in Notification
  BY <1>1, <1>2, NoteFields DEF Known
<1>4. Goes(w, Idle) /\ devices' = devices /\ faults' \in 0..MaxFaults
  <2>1. faults \in 0..MaxFaults /\ faults < MaxFaults /\ faults' = faults + 1
    BY <1>1 DEF CutOff, Shapes
  <2> QED BY <2>1, NotificationsAssumption DEF CutOff
<1>5. Turned(w, Idle)
  BY <1>1, <1>4, WorkerTurned
<1>6. CASE ~redelivered
  <2> DEFINE row == [notes[i] EXCEPT !.lost = TRUE]
  <2>1. notes' = [notes EXCEPT ![i] = row] /\ queue' = queue
    BY <1>3, <1>6 DEF CutOff
  <2>2. /\ row \in Notification /\ row.channel = notes[i].channel /\ row.status = notes[i].status
        /\ row.again = notes[i].again /\ row.shared = notes[i].shared /\ row.due = notes[i].due
        /\ row.accepted = notes[i].accepted
    BY <1>3 DEF Notification
  <2> HIDE DEF row
  <2>3. Rewritten(i, row)
    BY <1>1, <2>1, <2>2, RowRewritten
  <2>4. SameRows
    BY <2>2, <2>3 DEF SameRows, Rewritten
  <2>5. devices' \subseteq Devices
    BY <1>1, <1>4 DEF Shapes
  <2> QED BY <1>2, <1>4, <2>1, <2>4, <2>5, GoesOn
<1>7. CASE redelivered
  <2> DEFINE row == [notes[i] EXCEPT !.again = TRUE]
  <2>1. notes' = [notes EXCEPT ![i] = row] /\ queue' = queue (+) SetToBag({task})
    BY <1>3, <1>7 DEF CutOff
  <2>2. /\ row \in Notification /\ row.channel = notes[i].channel /\ row.status = notes[i].status
        /\ row.again /\ row.shared = notes[i].shared /\ row.due = notes[i].due
        /\ row.accepted = notes[i].accepted
    BY <1>3 DEF Notification
  <2> HIDE DEF row
  <2>3. Rewritten(i, row)
    BY <1>1, <2>1, <2>2, RowRewritten
  <2>4. SameNotes
    BY <2>2, <2>3 DEF SameNotes, Rewritten
  <2>5. Shapes'
    BY <1>1, <1>2, <1>4, <1>5, <2>1, <2>3, AddedShapes DEF Turned, Rewritten
  <2>6. \A k \in DOMAIN queue' : k.note \in DOMAIN notes'
    BY <1>2, <1>3, <2>1, <2>4, AddedKnown
  <2>7. Sound(Idle)
    BY DEF Sound
  <2>8. PICK old \in Task : old = task
    BY <1>2
  <2>9. old.note = i /\ queue' = queue (+) SetToBag({old})
    BY <1>3, <2>1, <2>8
  <2>10. ASSUME NEW j \in DOMAIN notes
         PROVE  Kept(j)' /\ (notes'[j].status = "SENT" => notes'[j].accepted > 0)
    <3>1. CASE j # i
      <4>1. \A k \in DOMAIN queue' : k.note = j => k \in DOMAIN queue /\ queue'[k] = queue[k]
        BY <1>1, <2>9, <3>1, OtherTasks
      <4>2. Kept(j) /\ notes'[j] = notes[j]
        BY <1>1, <2>3, <3>1 DEF Rewritten
      <4> QED BY <1>1, <1>5, <4>1, <4>2, TurnedKept DEF Honest, Status
    <3>2. CASE j = i
      <4>1. /\ notes'[i].channel = notes[i].channel /\ notes'[i].status = notes[i].status
            /\ notes'[i].again /\ notes'[i].due = notes[i].due
            /\ notes'[i].shared = notes[i].shared
            /\ notes'[i].accepted = notes[i].accepted
        BY <2>2, <2>3 DEF Rewritten
      <4>2. ASSUME notes[i].channel = "PUSH", Single(i)
            PROVE  /\ ~notes[i].due /\ ~Waits(i)
                   /\ \A v \in Workers : v # w => ~Bears(v, i)
        <5>1. Bears(w, i) /\ Alone(i)
          BY <1>1, <1>2, <1>3, <4>2 DEF Bears, Kept
        <5> QED BY <5>1 DEF Alone
      <4>3. ASSUME notes[i].channel = "PUSH", Single(i)
            PROVE  /\ \A v \in Workers : ~Bears(v, i)'
                   /\ \A k, l \in DOMAIN queue' : k.note = i /\ l.note = i => k = l /\ queue'[k] = 1
        <5>1. \A v \in Workers : v # w => ~Bears(v, i)'
          BY <1>5, <4>1, <4>2, <4>3, OthersBear
        <5>2. ~Bears(w, i)'
          BY <1>5 DEF Bears, Busy, Turned, Idle
        <5>3. ~Waits(old.note)
          BY <2>9, <4>2, <4>3
        <5>4. \A k, l \in DOMAIN queue' :
                 k.note = old.note /\ l.note = old.note => k = l /\ queue'[k] = 1
          <6>1. queue' = queue (+) SetToBag({old})
            BY <2>9
          <6> QED BY ONLY <1>1, <6>1, <5>3, OneTask
        <5> QED BY <2>9, <5>1, <5>2, <5>4
      <4>4. ASSUME notes[i].channel = "PUSH", Single(i), NEW v \in Workers
            PROVE  ~(workers'[v].phase \in Open /\ workers'[v].task.note = i)
        BY <4>1, <4>3, <4>4 DEF Bears, Busy, Open
      <4>5. Kept(i)'
        <5>1. Single(i)' => notes[i].channel = "PUSH" /\ Single(i)
          BY <4>1 DEF Single
        <5> QED BY <4>1, <4>2, <4>3, <4>4, <5>1, TakenOver
      <4> QED BY <1>1, <3>2, <4>1, <4>5 DEF Honest, Status
    <3> QED BY <3>1, <3>2
  <2>11. \A j \in DOMAIN notes' : Kept(j)' /\ (notes'[j].status = "SENT" => notes'[j].accepted > 0)
    BY <2>4, <2>10 DEF SameNotes
  <2> QED BY <1>1, <1>5, <2>4, <2>5, <2>6, <2>7, <2>11, WorkersSound, InvariantKept
<1> QED BY <1>6, <1>7

\* The task of a worker that goes on comes again: from here on nothing is claimed of it.
LEMMA StepRedeliver ==
    ASSUME NotificationsOK, NEW w \in Workers, Redeliver(w)
    PROVE  NotificationsOK'
<1>1. Shapes /\ Known /\ Honest /\ \A j \in DOMAIN notes : Kept(j)
  BY DEF NotificationsOK
<1>2. PICK task \in Task : task = workers[w].task /\ Busy(w)
  <2>1. workers[w] # Idle
    BY DEF Redeliver
  <2> QED BY <1>1, <2>1, BusyWorker, RunningFields
<1>3. PICK i \in DOMAIN notes : i = task.note /\ notes[i] \in Notification
  BY <1>1, <1>2, NoteFields DEF Known
<1> DEFINE row == [notes[i] EXCEPT !.again = TRUE, !.shared = IsPush(task)]
<1>4. /\ notes' = [notes EXCEPT ![i] = row] /\ queue' = queue (+) SetToBag({task})
      /\ workers' = workers /\ devices' = devices
  BY <1>2, <1>3 DEF Redeliver
<1>5. faults' \in 0..MaxFaults
  <2>1. faults \in 0..MaxFaults /\ faults < MaxFaults /\ faults' = faults + 1
    BY <1>1 DEF Redeliver, Shapes
  <2> QED BY <2>1, NotificationsAssumption
<1>6. /\ row \in Notification /\ row.channel = notes[i].channel /\ row.status = notes[i].status
      /\ row.again /\ (row.channel = "PUSH" => row.shared)
      /\ row.due = notes[i].due /\ row.accepted = notes[i].accepted
  BY <1>3 DEF Notification, IsPush
<1> HIDE DEF row
<1>7. Rewritten(i, row)
  BY <1>1, <1>4, <1>6, RowRewritten
<1>8. SameNotes
  BY <1>6, <1>7 DEF SameNotes, Rewritten
<1>9. Shapes'
  BY <1>1, <1>4, <1>5, <1>7, AddedShapes DEF Rewritten, Shapes
<1>10. \A k \in DOMAIN queue' : k.note \in DOMAIN notes'
  BY <1>3, <1>4, <1>8, AddedKnown
<1>11. ASSUME NEW j \in DOMAIN notes
       PROVE  Kept(j)' /\ (notes'[j].status = "SENT" => notes'[j].accepted > 0)
  <2>1. CASE j # i
    <3>1. \A k \in DOMAIN queue' : k.note = j => k \in DOMAIN queue /\ queue'[k] = queue[k]
      BY <1>1, <1>3, <1>4, <2>1, OtherTasks
    <3>2. Kept(j) /\ notes'[j] = notes[j]
      BY <1>1, <1>7, <2>1 DEF Rewritten
    <3>3. Kept(j)'
      BY <1>4, <3>1, <3>2, OtherKept
    <3> QED BY <1>1, <3>2, <3>3 DEF Honest, Status
  <2>2. CASE j = i
    <3>1. notes'[i].again /\ (notes'[i].channel = "PUSH" => notes'[i].shared)
      <4>1. notes'[i] = row
        BY <1>7 DEF Rewritten
      <4> QED BY <1>6, <4>1
    <3>2. ~Single(i)'
      BY <3>1 DEF Single
    <3> QED BY <1>1, <1>6, <1>7, <2>2, <3>2 DEF Honest, Status, Rewritten, Kept
  <2> QED BY <2>1, <2>2
<1>12. \A j \in DOMAIN notes' : Kept(j)' /\ (notes'[j].status = "SENT" => notes'[j].accepted > 0)
  BY <1>8, <1>11 DEF SameNotes
<1> QED BY <1>1, <1>4, <1>8, <1>9, <1>10, <1>12, WorkersStay, InvariantKept

\* A worker that has dealt with one target, and did it honestly.
LEMMA AfterTarget ==
    ASSUME NEW running \in Running, running.phase \in Open, NEW target,
           NEW status \in NotificationStatus
    PROVE  LET r == After(running, target, status) IN
           /\ r \in Running /\ r # Idle /\ r.task = running.task /\ r.phase \in Open
           /\ r.status = status
<1> DEFINE left == running.left \ {target}
           phase == IF left = {} THEN "save" ELSE "send"
           r == [running EXCEPT !.left = left, !.refused = {}, !.status = status, !.phase = phase]
<1>1. After(running, target, status) = r
  BY DEF After
<1>2. left \subseteq Devices \cup {Phone} /\ phase \in {"save", "send"}
  BY RunningFields
<1> HIDE DEF left, phase
<1>3. r.task = running.task /\ r.phase = phase /\ r.status = status /\ r \in Running
  BY <1>2 DEF Running
<1>4. r # Idle
  BY <1>2, <1>3 DEF Idle
<1> QED BY <1>1, <1>2, <1>3, <1>4 DEF Open

\* A provider may have accepted a message; nothing else of the row changes.
LEMMA AcceptedRows ==
    ASSUME Shapes, NEW i \in DOMAIN notes, notes' = Accepted(i)
    PROVE  SameRows /\ notes'[i].accepted > 0
<1> DEFINE row == [notes[i] EXCEPT !.accepted = notes[i].accepted + 1]
<1>1. notes[i] \in Notification /\ notes[i].accepted \in Nat
  BY NoteFields
<1>2. /\ row.channel = notes[i].channel /\ row.status = notes[i].status
      /\ row.again = notes[i].again /\ row.shared = notes[i].shared /\ row.due = notes[i].due
      /\ row.accepted = notes[i].accepted + 1
  BY <1>1 DEF Notification
<1>3. row \in Notification
  BY <1>1 DEF Notification
<1>4. notes' = [notes EXCEPT ![i] = row]
  BY DEF Accepted
<1> HIDE DEF row
<1>5. Rewritten(i, row)
  BY <1>3, <1>4, RowRewritten
<1>6. row.accepted > 0
  BY <1>1, <1>2
<1> QED BY <1>2, <1>5, <1>6 DEF Rewritten, SameRows

LEMMA SameRowsStay ==
    ASSUME Shapes, notes' = notes
    PROVE  SameRows
BY DEF Shapes, SameRows

LEMMA StepSendAccepted ==
    ASSUME NotificationsOK, NEW w \in Workers, NEW target, SendAccepted(w, target)
    PROVE  NotificationsOK'
<1>1. Shapes /\ Known /\ workers[w].phase = "send"
  BY DEF NotificationsOK, SendAccepted, Sending
<1>2. Busy(w) /\ workers[w] \in Running /\ workers[w].phase \in Open
  BY <1>1, BusyWorker DEF Busy, Open
<1>3. PICK i \in DOMAIN notes : i = workers[w].task.note
  BY <1>1, <1>2 DEF Known
<1>4. SameRows /\ notes'[i].accepted > 0
  BY <1>1, <1>3, AcceptedRows DEF SendAccepted
<1> DEFINE r == After(workers[w], target, "SENT")
<1>5. r \in Running /\ r # Idle /\ r.task = workers[w].task /\ r.phase \in Open
  BY <1>2, AfterTarget DEF NotificationStatus
<1>6. /\ Goes(w, r) /\ queue' = queue /\ devices' \subseteq Devices /\ faults' \in 0..MaxFaults
  BY <1>1 DEF SendAccepted, Shapes
<1> HIDE DEF r
<1> QED BY <1>2, <1>3, <1>4, <1>5, <1>6, GoesOn

\* It goes on without having sent anything.
LEMMA GoesOnUnsent ==
    ASSUME NotificationsOK, SameRows, NEW w \in Workers, Busy(w), workers[w].phase \in Open,
           NEW r \in Running, Goes(w, r), queue' = queue, devices' \subseteq Devices,
           faults' = faults, r.task = workers[w].task, r.phase \in Open,
           r.status = workers[w].status
    PROVE  NotificationsOK'
<1>1. Shapes /\ Known /\ Honest
  BY DEF NotificationsOK
<1>2. PICK i \in DOMAIN notes : i = workers[w].task.note
  BY <1>1 DEF Known
<1>3. r.status = "SENT" => notes'[i].accepted > 0
  BY <1>1, <1>2 DEF Honest, SameRows
<1>4. faults' \in 0..MaxFaults
  BY <1>1 DEF Shapes
<1> QED BY <1>2, <1>3, <1>4, GoesOn

LEMMA StepSendFails ==
    ASSUME NotificationsOK, NEW w \in Workers, NEW target, NEW accepted \in BOOLEAN,
           SendFails(w, target, accepted)
    PROVE  NotificationsOK'
<1>1. Shapes /\ Known /\ workers[w].phase = "send"
  BY DEF NotificationsOK, SendFails, Sending
<1>2. Busy(w) /\ workers[w] \in Running /\ workers[w].phase \in Open
  BY <1>1, BusyWorker DEF Busy, Open
<1>3. workers[w].task.note \in DOMAIN notes /\ workers[w].status \in NotificationStatus
  BY <1>1, <1>2, RunningFields DEF Known
<1>4. SameRows
  <2>1. CASE accepted
    BY <1>1, <1>3, <2>1, AcceptedRows DEF SendFails
  <2>2. CASE ~accepted
    BY <1>1, <2>2, SameRowsStay DEF SendFails
  <2> QED BY <2>1, <2>2
<1> DEFINE r == After(workers[w], target, workers[w].status)
<1>5. r \in Running /\ r.task = workers[w].task /\ r.phase \in Open /\ r.status = workers[w].status
  BY <1>2, <1>3, AfterTarget
<1>6. Goes(w, r) /\ queue' = queue /\ devices' \subseteq Devices /\ faults' = faults
  BY <1>1 DEF SendFails, Shapes
<1> HIDE DEF r
<1> QED BY <1>2, <1>4, <1>5, <1>6, GoesOnUnsent

LEMMA StepPushRefused ==
    ASSUME NotificationsOK, NEW w \in Workers, NEW device \in Devices \cup {Phone},
           PushRefused(w, device)
    PROVE  NotificationsOK'
<1>1. Shapes /\ Known /\ workers[w].phase = "send"
  BY DEF NotificationsOK, PushRefused, Sending
<1>2. Busy(w) /\ workers[w] \in Running /\ workers[w].phase \in Open
  BY <1>1, BusyWorker DEF Busy, Open
<1>3. SameRows /\ device \in Devices
  BY <1>1, SameRowsStay DEF PushRefused
<1> DEFINE r == [workers[w] EXCEPT !.phase = "off", !.refused = {device}]
<1>4. /\ r \in Running /\ r.task = workers[w].task /\ r.phase = "off"
      /\ r.status = workers[w].status
  BY <1>2, <1>3 DEF Running
<1>5. Goes(w, r) /\ queue' = queue /\ devices' \subseteq Devices /\ faults' = faults
  BY <1>1 DEF PushRefused, Shapes
<1> HIDE DEF r
<1> QED BY <1>2, <1>3, <1>4, <1>5, GoesOnUnsent DEF Open

LEMMA StepSwitchOff ==
    ASSUME NotificationsOK, NEW w \in Workers, SwitchOff(w)
    PROVE  NotificationsOK'
<1>1. Shapes /\ Known /\ workers[w].phase = "off"
  BY DEF NotificationsOK, SwitchOff
<1>2. Busy(w) /\ workers[w] \in Running /\ workers[w].phase \in Open
  BY <1>1, BusyWorker DEF Busy, Open
<1>3. SameRows /\ workers[w].status \in NotificationStatus
  BY <1>1, <1>2, SameRowsStay, RunningFields DEF SwitchOff
<1> DEFINE target == CHOOSE device \in workers[w].refused : TRUE
           r == After(workers[w], target, workers[w].status)
<1>4. r \in Running /\ r.task = workers[w].task /\ r.phase \in Open /\ r.status = workers[w].status
  BY <1>2, <1>3, AfterTarget
<1>5. Goes(w, r) /\ queue' = queue /\ devices' \subseteq Devices /\ faults' = faults
  BY <1>1 DEF SwitchOff, Shapes
<1> HIDE DEF r
<1> QED BY <1>2, <1>3, <1>4, <1>5, GoesOnUnsent

LEMMA StepAck ==
    ASSUME NotificationsOK, NEW w \in Workers, Ack(w)
    PROVE  NotificationsOK'
<1>1. Shapes /\ Busy(w)
  BY DEF NotificationsOK, Ack, Busy
<1>2. SameRows
  BY <1>1, SameRowsStay DEF Ack
<1>3. Goes(w, Idle) /\ queue' = queue /\ devices' \subseteq Devices /\ faults' \in 0..MaxFaults
  BY <1>1 DEF Ack, Shapes
<1> QED BY <1>1, <1>2, <1>3, GoesOn

LEMMA StepDevices ==
    ASSUME NotificationsOK, NEW device \in Devices, Register(device) \/ Logout(device)
    PROVE  NotificationsOK'
<1>1. Shapes
  BY DEF NotificationsOK
<1>2. SameRows
  BY <1>1, SameRowsStay DEF Register, Logout
<1>3. workers' = workers /\ queue' = queue /\ devices' \subseteq Devices /\ faults' = faults
  BY <1>1 DEF Register, Logout, Shapes
<1> QED BY <1>2, <1>3, Rests

LEMMA StepNone ==
    ASSUME NotificationsOK, UNCHANGED vars
    PROVE  NotificationsOK'
<1>1. Shapes
  BY DEF NotificationsOK
<1>2. SameRows
  BY <1>1, SameRowsStay DEF vars
<1>3. workers' = workers /\ queue' = queue /\ devices' \subseteq Devices /\ faults' = faults
  BY <1>1 DEF vars, Shapes
<1> QED BY <1>2, <1>3, Rests

LEMMA InitOK == Init => NotificationsOK
<1> SUFFICES ASSUME Init PROVE NotificationsOK
  OBVIOUS
<1>1. notes = <<>> /\ Len(notes) = 0 /\ DOMAIN notes = {} /\ DOMAIN queue = {}
  BY DEF Init, EmptyBag, SetToBag
<1>2. \A w \in Workers : workers[w] = Idle /\ workers[w].phase = "idle"
  BY DEF Init, Idle
<1>3. Shapes
  <2>1. workers \in [Workers -> Running \cup {Idle}]
    BY DEF Init
  <2> QED BY <1>1, <2>1, NotificationsAssumption DEF Init, Shapes
<1>4. Known /\ Honest
  BY <1>1, <1>2 DEF Known, Honest, Busy
<1> QED BY <1>1, <1>3, <1>4 DEF NotificationsOK

LEMMA NextOK == NotificationsOK /\ [Next]_vars => NotificationsOK'
<1> SUFFICES ASSUME NotificationsOK, [Next]_vars PROVE NotificationsOK'
  OBVIOUS
<1>1. CASE \E channel \in Channel : Notify(channel)
  BY <1>1, StepNotify
<1>2. CASE \E i \in DOMAIN notes : Callback(i)
  BY <1>2, StepDispatch, StepDispatchFails DEF Callback
<1>3. CASE \E w \in Workers :
              Work(w) \/ Redeliver(w) \/ \E redelivered \in BOOLEAN : CutOff(w, redelivered)
  <2> PICK w \in Workers :
              Work(w) \/ Redeliver(w) \/ \E redelivered \in BOOLEAN : CutOff(w, redelivered)
    BY <1>3
  <2>1. CASE Redeliver(w) \/ \E redelivered \in BOOLEAN : CutOff(w, redelivered)
    BY <2>1, StepCutOff, StepRedeliver
  <2>2. CASE \E task \in BagToSet(queue) : Take(w, task)
    BY <2>2, StepTake
  <2>3. CASE \E target \in Devices \cup {Phone} : SendAccepted(w, target)
    BY <2>3, StepSendAccepted
  <2>4. CASE \E target \in Devices \cup {Phone} : \E accepted \in BOOLEAN :
                SendFails(w, target, accepted)
    BY <2>4, StepSendFails
  <2>5. CASE \E target \in Devices \cup {Phone} : PushRefused(w, target)
    BY <2>5, StepPushRefused
  <2>6. CASE SwitchOff(w) \/ Save(w) \/ Retry(w) \/ Ack(w)
    BY <2>6, StepSwitchOff, StepSave, StepRetry, StepAck
  <2> QED BY <2>1, <2>2, <2>3, <2>4, <2>5, <2>6 DEF Work
<1>4. CASE \E device \in Devices : Register(device) \/ Logout(device)
  BY <1>4, StepDevices
<1>5. CASE UNCHANGED vars
  BY <1>5, StepNone
<1> QED BY <1>1, <1>2, <1>3, <1>4, <1>5 DEF Next

LEMMA Invariant == Spec => []NotificationsOK
BY InitOK, NextOK, PTL DEF Spec

\* Every row, task and worker has its shape, no task is retried beyond the limit, and a row that
\* says SENT was accepted by a provider, whatever was cut off, retried or delivered again
\* (notifications/tasks.py).
THEOREM TypeCorrect == Spec => []TypeOK
BY Invariant, InvariantMeans, PTL

-----------------------------------------------------------------------------
(* No message goes out more often than it may *)

Push(i) == notes[i].channel = "PUSH"

\* How often a message may have been accepted when a worker has come this far with it: a push
\* by the devices it has gone through, an SMS once for each attempt.
Allowance(r, push) ==
    IF push THEN Cardinality(Devices) - Cardinality(r.left)
    ELSE IF r.phase = "send" THEN r.task.retries ELSE r.task.retries + 1

\* The list a worker goes through.
ListFits(r, push) ==
    /\ r.phase = "send" => r.left # {}
    /\ IF push THEN r.left \subseteq Devices ELSE r.left \subseteq {Phone} /\ r.phase # "off"

Lists == \A w \in Workers : Busy(w) => ListFits(workers[w], Push(workers[w].task.note))

\* Whatever carries a notification is in agreement with what was accepted for it.
Within(i) ==
    /\ notes[i].accepted <= Times(i)
    /\ notes[i].due => notes[i].accepted = 0
    /\ \A k \in DOMAIN queue : k.note = i => notes[i].accepted <= IF Push(i) THEN 0 ELSE k.retries
    /\ \A w \in Workers : Bears(w, i) => notes[i].accepted <= Allowance(workers[w], Push(i))

Budget == Lists /\ \A i \in DOMAIN notes : ~notes[i].again => Within(i)

LEMMA DevicesCounted ==
    /\ Cardinality(Devices) \in Nat
    /\ \A S : S \subseteq Devices \cup {Phone} => IsFiniteSet(S) /\ Cardinality(S) \in Nat
<1>1. IsFiniteSet(Devices) /\ Cardinality(Devices) \in Nat
  BY NotificationsAssumption, FS_CardinalityType
<1>2. IsFiniteSet(Devices \cup {Phone})
  BY <1>1, FS_AddElement
<1>3. ASSUME NEW S, S \subseteq Devices \cup {Phone}
      PROVE  IsFiniteSet(S) /\ Cardinality(S) \in Nat
  <2>1. IsFiniteSet(S)
    BY <1>2, <1>3, FS_Subset
  <2> QED BY <2>1, FS_CardinalityType
<1> QED BY <1>1, <1>3

\* Nothing is accepted, and what carries it then carried it before and allows no less.
Spares(r, s, push) == \A n \in Nat : n <= Allowance(s, push) => n <= Allowance(r, push)

LEMMA WithinKept ==
    ASSUME NEW i, Within(i), notes[i].accepted \in Nat,
           notes'[i].channel = notes[i].channel, notes'[i].accepted = notes[i].accepted,
           notes'[i].due => notes[i].due,
           \A k \in DOMAIN queue' : k.note = i => k \in DOMAIN queue,
           \A v \in Workers : Bears(v, i)' => Bears(v, i) /\ Spares(workers'[v], workers[v], Push(i))
    PROVE  Within(i)'
<1>1. notes'[i].accepted <= Times(i)'
  BY DEF Within, Times
<1>2. notes'[i].due => notes'[i].accepted = 0
  BY DEF Within
<1>3. \A k \in DOMAIN queue' : k.note = i =>
         notes'[i].accepted <= IF Push(i)' THEN 0 ELSE k.retries
  BY DEF Within, Push
<1>4. ASSUME NEW v \in Workers, Bears(v, i)'
      PROVE  notes'[i].accepted <= Allowance(workers'[v], Push(i)')
  <2>1. Bears(v, i) /\ Spares(workers'[v], workers[v], Push(i))
    BY <1>4
  <2>2. notes[i].accepted <= Allowance(workers[v], Push(i))
    BY <2>1 DEF Within
  <2>3. notes[i].accepted <= Allowance(workers'[v], Push(i))
    BY <2>1, <2>2 DEF Spares
  <2>4. Push(i)' = Push(i)
    BY DEF Push
  <2> QED BY <2>3, <2>4
<1>5. \A v \in Workers : Bears(v, i)' => notes'[i].accepted <= Allowance(workers[v], Push(i))'
  BY <1>4
<1> QED BY <1>1, <1>2, <1>3, <1>5 DEF Within

LEMMA SparesItself == \A r, push : Spares(r, r, push)
BY DEF Spares

\* A notification that the step of worker w is not about.
LEMMA OtherWithin ==
    ASSUME NEW w \in Workers, NEW r, Turned(w, r), NEW i, Within(i), notes[i].accepted \in Nat,
           notes'[i] = notes[i], r # Idle => r.task.note # i,
           \A k \in DOMAIN queue' : k.note = i => k \in DOMAIN queue
    PROVE  Within(i)'
<1>1. ASSUME NEW v \in Workers, Bears(v, i)'
      PROVE  Bears(v, i) /\ Spares(workers'[v], workers[v], Push(i))
  <2>1. v # w
    BY <1>1 DEF Turned, Bears, Busy, Idle
  <2>2. workers'[v] = workers[v]
    BY <2>1 DEF Turned
  <2>3. Bears(v, i)
    BY <1>1, <2>1, OthersBear
  <2> QED BY <2>2, <2>3, SparesItself
<1> QED BY <1>1, WithinKept

\* The lists after a step that turns one worker or none.
LEMMA ListsTurned ==
    ASSUME Known, Lists, SameNotes, NEW w \in Workers, NEW r, Turned(w, r),
           r # Idle => r.task.note \in DOMAIN notes /\ ListFits(r, Push(r.task.note))
    PROVE  Lists'
<1>1. \A i \in DOMAIN notes : Push(i)' <=> Push(i)
  BY DEF SameNotes, Push
<1>2. ASSUME NEW v \in Workers, Busy(v)'
      PROVE  ListFits(workers'[v], notes'[workers'[v].task.note].channel = "PUSH")
  <2>1. CASE v = w
    <3>1. workers'[v] = r /\ r # Idle
      BY <1>2, <2>1 DEF Turned, Busy, Idle
    <3>2. notes'[r.task.note].channel = notes[r.task.note].channel
      BY <3>1 DEF SameNotes
    <3> QED BY <3>1, <3>2 DEF Push
  <2>2. CASE v # w
    <3>1. workers'[v] = workers[v]
      BY <2>2 DEF Turned
    <3>2. Busy(v)
      BY <1>2, <3>1 DEF Busy
    <3>3. workers[v].task.note \in DOMAIN notes
      BY <3>2 DEF Known
    <3>4. notes'[workers[v].task.note].channel = notes[workers[v].task.note].channel
      BY <3>3 DEF SameNotes
    <3> QED BY <3>1, <3>2, <3>4 DEF Lists, Push
  <2> QED BY <2>1, <2>2
<1> QED BY <1>2 DEF Lists, Push

LEMMA ListsStay ==
    ASSUME Known, Lists, workers' = workers,
           \A i \in DOMAIN notes : notes'[i].channel = notes[i].channel
    PROVE  Lists'
<1>1. ASSUME NEW v \in Workers, Busy(v)
      PROVE  ListFits(workers[v], notes'[workers[v].task.note].channel = "PUSH")
  <2>1. workers[v].task.note \in DOMAIN notes
    BY <1>1 DEF Known
  <2> QED BY <1>1, <2>1 DEF Lists, Push
<1> QED BY <1>1 DEF Lists, Push, Busy

\* A step that accepts nothing, of a worker that goes on with its task or ends it.
NothingAccepted ==
    /\ SameNotes
    /\ \A i \in DOMAIN notes :
          /\ notes'[i].accepted = notes[i].accepted
          /\ notes'[i].due => notes[i].due
          /\ notes[i].again => notes'[i].again

LEMMA BudgetGoesOn ==
    ASSUME NotificationsOK, Budget, NothingAccepted, queue' = queue,
           NEW w \in Workers, Busy(w), NEW r \in Running \cup {Idle}, Goes(w, r),
           r # Idle =>
              /\ r.task = workers[w].task
              /\ ListFits(r, Push(r.task.note))
              /\ workers[w].phase = "ack" => r.phase = "ack"
              /\ Spares(r, workers[w], Push(r.task.note))
    PROVE  Budget'
<1>1. Shapes /\ Known /\ Lists /\ SameNotes /\ Turned(w, r)
  BY WorkerTurned DEF NotificationsOK, Budget, NothingAccepted
<1>2. Lists'
  BY <1>1, ListsTurned DEF Known
<1>3. ASSUME NEW i \in DOMAIN notes, ~notes'[i].again PROVE Within(i)'
  <2>1. /\ Within(i) /\ notes[i].accepted \in Nat
        /\ notes'[i].channel = notes[i].channel /\ notes'[i].accepted = notes[i].accepted
        /\ notes'[i].due => notes[i].due
    BY <1>1, <1>3, NoteFields DEF NothingAccepted, SameNotes, Budget
  <2>2. ASSUME NEW v \in Workers, Bears(v, i)'
        PROVE  Bears(v, i) /\ Spares(workers'[v], workers[v], Push(i))
    <3>1. CASE v = w
      <4>1. workers'[v] = r /\ r # Idle /\ r.task.note = i
        BY <1>1, <2>2, <3>1 DEF Turned, Bears, Busy, Idle
      <4>2. Bears(v, i)
        BY <2>1, <2>2, <3>1, <4>1 DEF Bears
      <4> QED BY <3>1, <4>1, <4>2
    <3>2. CASE v # w
      <4>1. workers'[v] = workers[v]
        BY <1>1, <3>2 DEF Turned
      <4>2. Bears(v, i)
        BY <1>1, <2>1, <2>2, <3>2, OthersBear
      <4> QED BY <4>1, <4>2, SparesItself
    <3> QED BY <3>1, <3>2
  <2> QED BY <2>1, <2>2, WithinKept
<1>4. DOMAIN notes' = DOMAIN notes
  BY <1>1 DEF SameNotes
<1> QED BY <1>2, <1>3, <1>4 DEF Budget

\* A step that turns no worker and puts in no task.
LEMMA BudgetRests ==
    ASSUME NotificationsOK, Budget, NothingAccepted, workers' = workers, queue' = queue
    PROVE  Budget'
<1>1. Shapes /\ Known /\ Lists
  BY DEF NotificationsOK, Budget
<1>2. Lists'
  BY <1>1, ListsStay DEF NothingAccepted, SameNotes
<1>3. ASSUME NEW i \in DOMAIN notes, ~notes'[i].again PROVE Within(i)'
  <2>1. /\ Within(i) /\ notes[i].accepted \in Nat
        /\ notes'[i].channel = notes[i].channel /\ notes'[i].accepted = notes[i].accepted
        /\ notes'[i].due => notes[i].due
    BY <1>1, <1>3, NoteFields DEF NothingAccepted, SameNotes, Budget
  <2>2. \A v \in Workers : Bears(v, i)' => Bears(v, i) /\ Spares(workers'[v], workers[v], Push(i))
    BY <2>1, SparesItself DEF Bears, Busy
  <2> QED BY <2>1, <2>2, WithinKept
<1> QED BY <1>2, <1>3 DEF Budget, NothingAccepted, SameNotes

LEMMA BudgetNotify ==
    ASSUME NotificationsOK, Budget, NEW channel \in Channel, Notify(channel)
    PROVE  Budget'
<1> DEFINE row == [channel |-> channel, status |-> "QUEUED", due |-> TRUE,
                   accepted |-> 0, lost |-> FALSE, again |-> FALSE, shared |-> FALSE]
<1>1. Shapes /\ Known /\ Lists
  BY DEF NotificationsOK, Budget
<1>2. notes' = Append(notes, row) /\ queue' = queue /\ workers' = workers
  BY DEF Notify
<1>3. row \in Notification /\ row.accepted = 0
  BY DEF Notification, NotificationStatus
<1> HIDE DEF row
<1>4. PICK n \in Nat : n = Len(notes) + 1
  BY <1>1 DEF Shapes
<1>5. /\ DOMAIN notes' = DOMAIN notes \cup {n} /\ n \notin DOMAIN notes /\ notes'[n] = row
      /\ \A i \in DOMAIN notes : notes'[i] = notes[i]
  BY <1>1, <1>2, <1>3, <1>4 DEF Shapes
<1>6. Lists'
  BY <1>1, <1>2, <1>5, ListsStay
<1>7. ASSUME NEW i \in DOMAIN notes, ~notes'[i].again PROVE Within(i)'
  <2>1. Within(i) /\ notes[i].accepted \in Nat /\ notes'[i] = notes[i]
    BY <1>1, <1>5, <1>7, NoteFields DEF Budget
  <2>2. \A v \in Workers : Bears(v, i)' => Bears(v, i) /\ Spares(workers'[v], workers[v], Push(i))
    BY <1>2, <2>1, SparesItself DEF Bears, Busy
  <2> QED BY <1>2, <2>1, <2>2, WithinKept
<1>8. Within(n)'
  <2>1. \A k \in DOMAIN queue' : k.note # n
    BY <1>1, <1>2, <1>5 DEF Known
  <2>2. \A v \in Workers : ~Bears(v, n)'
    BY <1>1, <1>2, <1>5 DEF Known, Bears, Busy
  <2>3. 0 <= Times(n)'
    BY DevicesCounted, NotificationsAssumption DEF Times
  <2> QED BY <1>3, <1>5, <2>1, <2>2, <2>3 DEF Within
<1> QED BY <1>5, <1>6, <1>7, <1>8 DEF Budget

LEMMA BudgetDispatch ==
    ASSUME NotificationsOK, Budget, NEW i \in DOMAIN notes, Dispatch(i)
    PROVE  Budget'
<1> DEFINE row == [notes[i] EXCEPT !.due = FALSE]
           task == [note |-> i, retries |-> 0]
<1>1. Shapes /\ Known /\ Lists
  BY DEF NotificationsOK, Budget
<1>2. notes[i] \in Notification /\ i \in 1..MaxNotes /\ notes[i].accepted \in Nat
  BY <1>1, NoteFields
<1>3. /\ row \in Notification /\ row.channel = notes[i].channel
      /\ row.again = notes[i].again /\ row.shared = notes[i].shared
      /\ row.accepted = notes[i].accepted /\ ~row.due
  BY <1>2 DEF Notification
<1>4. task \in Task /\ task.note = i /\ task.retries = 0
  BY <1>2, NotificationsAssumption DEF Task
<1>5. /\ notes' = [notes EXCEPT ![i] = row] /\ queue' = queue (+) SetToBag({task})
      /\ notes[i].due /\ workers' = workers
  BY DEF Dispatch
<1> HIDE DEF row, task
<1>6. Rewritten(i, row)
  BY <1>1, <1>3, <1>5, RowRewritten
<1>7. DOMAIN queue' = DOMAIN queue \cup {task}
  BY <1>1, <1>4, <1>5, TaskAdded
<1>8. \A j \in DOMAIN notes : notes'[j].channel = notes[j].channel
  BY <1>3, <1>6 DEF Rewritten
<1>9. Lists'
  BY <1>1, <1>5, <1>8, ListsStay
<1>10. ASSUME NEW j \in DOMAIN notes, ~notes'[j].again PROVE Within(j)'
  <2>1. /\ Within(j) /\ notes[j].accepted \in Nat /\ notes'[j].accepted = notes[j].accepted
        /\ notes'[j].channel = notes[j].channel /\ (notes'[j].due => notes[j].due)
    BY <1>1, <1>3, <1>6, <1>10, NoteFields DEF Budget, Rewritten
  <2>2. \A v \in Workers : Bears(v, j)' => Bears(v, j) /\ Spares(workers'[v], workers[v], Push(j))
    BY <1>5, <2>1, SparesItself DEF Bears, Busy
  <2>3. CASE j # i
    <3>1. \A k \in DOMAIN queue' : k.note = j => k \in DOMAIN queue
      BY <1>4, <1>7, <2>3
    <3> QED BY <2>1, <2>2, <3>1, WithinKept
  <2>4. CASE j = i
    <3>1. notes'[i].accepted = 0 /\ ~notes'[i].due
      BY <1>3, <1>5, <1>6, <2>1, <2>4 DEF Within, Rewritten
    <3>2. \A k \in DOMAIN queue' : k.note = i => 0 <= IF Push(i)' THEN 0 ELSE k.retries
      <4>1. \A k \in DOMAIN queue' : k.retries \in Nat
        BY <1>1, <1>4, <1>7, TaskFields, NotificationsAssumption DEF Shapes
      <4> QED BY <4>1
    <3>3. 0 <= Times(i)'
      BY DevicesCounted, NotificationsAssumption DEF Times
    <3>4. ASSUME NEW v \in Workers, Bears(v, i)'
          PROVE  notes'[i].accepted <= Allowance(workers[v], Push(i))'
      <4>1. Bears(v, i) /\ workers'[v] = workers[v]
        BY <1>5, <2>2, <2>4, <3>4
      <4>2. Push(i)' = Push(i)
        BY <1>8 DEF Push
      <4>3. notes[i].accepted <= Allowance(workers[v], Push(i))
        BY <2>1, <2>4, <4>1 DEF Within
      <4> QED BY <2>1, <2>4, <4>1, <4>2, <4>3
    <3>5. Within(i)'
      BY <3>1, <3>2, <3>3, <3>4 DEF Within
    <3> QED BY <2>4, <3>5
  <2> QED BY <2>3, <2>4
<1> QED BY <1>6, <1>9, <1>10 DEF Budget, Rewritten

LEMMA BudgetTake ==
    ASSUME NotificationsOK, Budget, NEW w \in Workers, NEW task \in BagToSet(queue), Take(w, task)
    PROVE  Budget'
<1> DEFINE targets == IF IsPush(task) THEN devices ELSE {Phone}
           r == [phase |-> IF ~Sendable(task) THEN "ack"
                           ELSE IF targets = {} THEN "save" ELSE "send",
                 task |-> task, left |-> targets, refused |-> {},
                 status |-> IF targets = {} THEN "SKIPPED" ELSE "FAILED"]
           i == task.note
<1>1. Shapes /\ Known /\ Lists
  BY DEF NotificationsOK, Budget
<1>2. task \in DOMAIN queue /\ task \in Task /\ i \in DOMAIN notes
  BY <1>1 DEF BagToSet, Shapes, Known
<1>3. queue' = queue (-) SetToBag({task}) /\ Goes(w, r) /\ notes' = notes
  BY DEF Take
<1>4. Push(i) <=> IsPush(task)
  BY DEF Push, IsPush
<1>5. targets \subseteq Devices \cup {Phone} /\ (Push(i) => targets \subseteq Devices)
  BY <1>1, <1>4 DEF Shapes
<1>6. /\ r \in Running /\ r.task = task /\ r.left = targets
      /\ r.phase \in {"ack", "save", "send"} /\ r.phase = "send" => targets # {}
      /\ ~Push(i) => r.phase = "send"
  <2>1. ~Push(i) => Sendable(task) /\ targets # {}
    BY <1>4 DEF Sendable
  <2> HIDE DEF targets
  <2> QED BY <1>2, <1>5, <2>1 DEF Running, NotificationStatus
<1>7. ListFits(r, Push(r.task.note))
  <2>1. ~Push(i) => targets \subseteq {Phone}
    BY <1>4
  <2> QED BY <1>5, <1>6, <2>1 DEF ListFits
<1> HIDE DEF r, targets
<1>8. Turned(w, r)
  BY <1>1, <1>3, <1>6, WorkerTurned
<1>9. \A k \in DOMAIN queue' : k \in DOMAIN queue
  BY <1>1, <1>2, <1>3, TaskTaken
<1>10. SameNotes
  BY <1>1, <1>3 DEF SameNotes, Shapes
<1>11. Lists'
  BY <1>1, <1>2, <1>6, <1>7, <1>8, <1>10, ListsTurned
<1>12. ASSUME NEW j \in DOMAIN notes, ~notes[j].again PROVE Within(j)'
  <2>1. Within(j) /\ notes[j].accepted \in Nat /\ notes'[j] = notes[j]
    BY <1>1, <1>3, <1>12, NoteFields DEF Budget
  <2>2. CASE j # i
    BY <1>6, <1>8, <1>9, <2>1, <2>2, OtherWithin
  <2>3. CASE j = i
    <3>1. notes[i].accepted <= Allowance(r, Push(i))
      <4>1. task.retries \in Nat /\ notes[i].accepted <= IF Push(i) THEN 0 ELSE task.retries
        BY <1>2, <2>1, <2>3, TaskFields, NotificationsAssumption DEF Within
      <4>2. CASE Push(i)
        <5>1. IsFiniteSet(Devices) /\ r.left \subseteq Devices
          BY <1>5, <1>6, <4>2, NotificationsAssumption
        <5>2. Cardinality(r.left) \in Nat /\ Cardinality(Devices) \in Nat
              /\ Cardinality(r.left) <= Cardinality(Devices)
          BY <5>1, FS_Subset, FS_CardinalityType
        <5> QED BY <2>1, <2>3, <4>1, <4>2, <5>2 DEF Allowance
      <4>3. CASE ~Push(i)
        BY <1>6, <4>1, <4>3 DEF Allowance
      <4> QED BY <4>2, <4>3
    <3>2. ASSUME NEW v \in Workers, Bears(v, i)'
          PROVE  notes[i].accepted <= Allowance(workers'[v], Push(i))
      <4>1. CASE v = w
        BY <1>8, <3>1, <4>1 DEF Turned
      <4>2. CASE v # w
        <5>1. workers'[v] = workers[v] /\ Bears(v, i)
          BY <1>8, <2>1, <2>3, <3>2, <4>2, OthersBear DEF Turned
        <5> QED BY <2>1, <2>3, <5>1 DEF Within
      <4> QED BY <4>1, <4>2
    <3>3. Push(j)' = Push(j)
      BY <1>3 DEF Push
    <3>4. \A v \in Workers : Bears(v, j)' => notes'[j].accepted <= Allowance(workers[v], Push(j))'
      BY <2>1, <2>3, <3>2, <3>3
    <3> QED BY <1>9, <2>1, <3>3, <3>4 DEF Within, Times
  <2> QED BY <2>2, <2>3
<1> QED BY <1>3, <1>11, <1>12 DEF Budget

\* A worker that has dealt with one target of its list.
LEMMA AfterFits ==
    ASSUME NEW r \in Running, NEW push \in BOOLEAN, ListFits(r, push), r.phase \in {"send", "off"},
           NEW target, NEW status \in NotificationStatus
    PROVE  LET s == After(r, target, status) IN
           /\ s.task = r.task /\ s.left = r.left \ {target}
           /\ ListFits(s, push) /\ Spares(s, r, push)
           /\ target \in r.left => \A n \in Nat : n <= Allowance(r, push) => n + 1 <= Allowance(s, push)
<1> DEFINE left == r.left \ {target}
           phase == IF left = {} THEN "save" ELSE "send"
           s == [r EXCEPT !.left = left, !.refused = {}, !.status = status, !.phase = phase]
<1>1. After(r, target, status) = s
  BY DEF After
<1>2. /\ r.left \subseteq Devices \cup {Phone} /\ r.task.retries \in Nat
      /\ left \subseteq Devices \cup {Phone} /\ phase \in {"save", "send"}
  BY RunningFields, TaskFields, NotificationsAssumption
<1>3. phase = "send" => left # {}
  OBVIOUS
<1>4. left = r.left \ {target}
  OBVIOUS
<1>5. ~push => r.phase = "send" /\ (target \in r.left => left = {} /\ phase = "save")
  BY DEF ListFits
<1> HIDE DEF left, phase
<1>6. s.task = r.task /\ s.phase = phase /\ s.left = left
  BY <1>2 DEF Running
<1> HIDE DEF s
<1>7. ListFits(s, push)
  BY <1>2, <1>3, <1>4, <1>6 DEF ListFits
<1>8. /\ IsFiniteSet(r.left) /\ Cardinality(r.left) \in Nat /\ Cardinality(left) \in Nat
      /\ Cardinality(Devices) \in Nat
      /\ Cardinality(left) = IF target \in r.left THEN Cardinality(r.left) - 1 ELSE Cardinality(r.left)
  <2>1. /\ IsFiniteSet(r.left) /\ Cardinality(r.left) \in Nat /\ Cardinality(left) \in Nat
        /\ Cardinality(Devices) \in Nat
    BY <1>2, DevicesCounted
  <2> QED BY <1>4, <2>1, FS_RemoveElement
<1>9. Spares(s, r, push)
  <2> SUFFICES ASSUME NEW n \in Nat, n <= Allowance(r, push) PROVE n <= Allowance(s, push)
    BY DEF Spares
  <2>1. CASE push
    BY <1>6, <1>8, <2>1 DEF Allowance
  <2>2. CASE ~push
    BY <1>2, <1>5, <1>6, <2>2 DEF Allowance
  <2> QED BY <2>1, <2>2
<1>10. ASSUME target \in r.left, NEW n \in Nat, n <= Allowance(r, push)
       PROVE  n + 1 <= Allowance(s, push)
  <2>1. CASE push
    BY <1>6, <1>8, <1>10, <2>1 DEF Allowance
  <2>2. CASE ~push
    BY <1>2, <1>5, <1>6, <1>10, <2>2 DEF Allowance
  <2> QED BY <2>1, <2>2
<1> QED BY <1>1, <1>4, <1>6, <1>7, <1>9, <1>10

\* Nobody allows more than is allowed at all.
LEMMA AllowanceBound ==
    ASSUME NEW r \in Running, NEW i, r.task.note = i
    PROVE  Allowance(r, Push(i)) \in Int /\ Allowance(r, Push(i)) <= Times(i)
<1>1. r.left \subseteq Devices \cup {Phone} /\ r.task.retries \in 0..MaxRetries
  BY RunningFields, TaskFields
<1>2. Cardinality(r.left) \in Nat /\ Cardinality(Devices) \in Nat /\ MaxRetries \in Nat
  BY <1>1, DevicesCounted, NotificationsAssumption
<1> QED BY <1>1, <1>2 DEF Allowance, Times, Push

\* What the worker that has the notification makes of it is up to it alone.
LEMMA OneSender ==
    ASSUME NotificationsOK, NEW i \in DOMAIN notes, ~notes[i].again, NEW w \in Workers,
           workers[w].phase \in Open, workers[w].task.note = i
    PROVE  /\ Bears(w, i) /\ ~notes[i].due /\ \A k \in DOMAIN queue : k.note # i
           /\ \A v \in Workers : v # w => ~Bears(v, i)
<1>1. Bears(w, i)
  BY DEF Bears, Busy, Open
<1>2. Alone(i)
  BY SingleMeans DEF NotificationsOK, Kept
<1> QED BY <1>1, <1>2 DEF Alone, Waits

LEMMA BudgetAccepted ==
    ASSUME NotificationsOK, Budget, NEW w \in Workers, NEW target, NEW status \in NotificationStatus,
           Sending(w, target), notes' = Accepted(workers[w].task.note),
           Goes(w, After(workers[w], target, status)), queue' = queue
    PROVE  Budget'
<1> DEFINE r == After(workers[w], target, status)
<1>1. /\ Shapes /\ Known /\ Lists /\ workers[w].phase = "send" /\ target \in workers[w].left
      /\ Busy(w) /\ workers[w] \in Running
  <2>1. Shapes /\ workers[w].phase = "send"
    BY DEF NotificationsOK, Sending
  <2> QED BY <2>1, BusyWorker DEF NotificationsOK, Budget, Sending, Busy
<1>2. PICK i \in DOMAIN notes : i = workers[w].task.note
  BY <1>1 DEF Known
<1> DEFINE row == [notes[i] EXCEPT !.accepted = notes[i].accepted + 1]
<1>3. notes[i] \in Notification /\ notes[i].accepted \in Nat
  BY <1>1, NoteFields
<1>4. /\ row \in Notification /\ row.channel = notes[i].channel
      /\ row.again = notes[i].again /\ row.shared = notes[i].shared
      /\ row.due = notes[i].due /\ row.accepted = notes[i].accepted + 1
  BY <1>3 DEF Notification
<1>5. notes' = [notes EXCEPT ![i] = row]
  BY <1>2 DEF Accepted
<1> HIDE DEF row
<1>6. Rewritten(i, row)
  BY <1>1, <1>4, <1>5, RowRewritten
<1>7. SameNotes
  <2>1. row.accepted > 0
    BY <1>3, <1>4
  <2> QED BY <1>4, <1>6, <2>1 DEF Rewritten, SameNotes
<1>8. ListFits(workers[w], Push(i)) /\ workers[w].phase \in {"send", "off"} /\ Push(i) \in BOOLEAN
  BY <1>1, <1>2 DEF Lists, Push
<1>9. /\ r.task = workers[w].task /\ r.left = workers[w].left \ {target}
      /\ ListFits(r, Push(i))
      /\ \A n \in Nat : n <= Allowance(workers[w], Push(i)) => n + 1 <= Allowance(r, Push(i))
  BY <1>1, <1>8, AfterFits
<1>10. r \in Running /\ r # Idle
  <2>1. workers[w].phase \in Open
    BY <1>1 DEF Open
  <2> QED BY <1>1, <2>1, AfterTarget
<1>11. Turned(w, r)
  BY <1>1, <1>10, WorkerTurned
<1> HIDE DEF r
<1>12. Lists'
  BY <1>1, <1>2, <1>7, <1>9, <1>11, ListsTurned
<1>13. ASSUME NEW j \in DOMAIN notes, ~notes'[j].again PROVE Within(j)'
  <2>1. notes'[j].again = notes[j].again /\ notes'[j].channel = notes[j].channel
    BY <1>4, <1>6 DEF Rewritten
  <2>2. Within(j) /\ notes[j].accepted \in Nat
    BY <1>1, <1>13, <2>1, NoteFields DEF Budget
  <2>3. CASE j # i
    <3>1. notes'[j] = notes[j] /\ r.task.note # j
      BY <1>2, <1>6, <1>9, <2>3 DEF Rewritten
    <3>2. \A k \in DOMAIN queue' : k.note = j => k \in DOMAIN queue
      OBVIOUS
    <3> QED BY <1>11, <2>2, <3>1, <3>2, OtherWithin
  <2>4. CASE j = i
    <3>1. /\ Bears(w, i) /\ ~notes[i].due /\ \A k \in DOMAIN queue : k.note # i
          /\ \A v \in Workers : v # w => ~Bears(v, i)
      BY <1>1, <1>2, <1>13, <2>1, <2>4, OneSender DEF Open
    <3>2. notes'[i].accepted = notes[i].accepted + 1 /\ notes'[i].due = notes[i].due
      BY <1>4, <1>6 DEF Rewritten
    <3>3. notes'[i].accepted <= Allowance(r, Push(i))
      <4>1. notes[i].accepted <= Allowance(workers[w], Push(i))
        BY <2>2, <2>4, <3>1 DEF Within
      <4> QED BY <1>9, <2>2, <2>4, <3>2, <4>1
    <3>4. notes'[i].accepted <= Times(i)
      <4>1. Allowance(r, Push(i)) \in Int /\ Allowance(r, Push(i)) <= Times(i)
        BY <1>2, <1>9, <1>10, AllowanceBound
      <4>2. Times(i) \in Nat
        BY DevicesCounted, NotificationsAssumption DEF Times
      <4> QED BY <1>3, <3>2, <3>3, <4>1, <4>2
    <3>5. ASSUME NEW v \in Workers, Bears(v, i)'
          PROVE  notes'[i].accepted <= Allowance(workers'[v], Push(i))
      <4>1. v = w
        BY <1>11, <2>1, <2>4, <3>1, <3>5, OthersBear
      <4> QED BY <1>11, <3>3, <4>1 DEF Turned
    <3>6. Push(i)' = Push(i) /\ Times(i)' = Times(i)
      BY <2>1, <2>4 DEF Push, Times
    <3>7. \A v \in Workers : Bears(v, i)' => notes'[i].accepted <= Allowance(workers[v], Push(i))'
      BY <3>5, <3>6
    <3>8. Within(i)'
      BY <3>1, <3>2, <3>4, <3>6, <3>7 DEF Within
    <3> QED BY <2>4, <3>8
  <2> QED BY <2>3, <2>4
<1> QED BY <1>6, <1>12, <1>13 DEF Budget, Rewritten

LEMMA SameNotesNothing ==
    ASSUME Shapes, notes' = notes
    PROVE  NothingAccepted
BY DEF Shapes, SameNotes, NothingAccepted

\* The worker of a step that sends or has sent.
LEMMA SenderLists ==
    ASSUME NotificationsOK, Budget, NEW w \in Workers, workers[w].phase \in Open
    PROVE  /\ Shapes /\ Known /\ Busy(w) /\ workers[w] \in Running
           /\ workers[w].task.note \in DOMAIN notes
           /\ Push(workers[w].task.note) \in BOOLEAN
           /\ ListFits(workers[w], Push(workers[w].task.note))
<1>1. Shapes /\ Known /\ Lists /\ Busy(w)
  BY DEF NotificationsOK, Budget, Busy, Open
<1>2. workers[w] \in Running /\ workers[w].task.note \in DOMAIN notes
  BY <1>1, BusyWorker DEF Known
<1> QED BY <1>1, <1>2 DEF Lists, Push

\* It has dealt with a target that accepted nothing.
LEMMA BudgetUnsent ==
    ASSUME NotificationsOK, Budget, NEW w \in Workers, workers[w].phase \in {"send", "off"},
           NEW target, Goes(w, After(workers[w], target, workers[w].status)),
           notes' = notes, queue' = queue
    PROVE  Budget'
<1> DEFINE r == After(workers[w], target, workers[w].status)
<1>1. /\ Shapes /\ Busy(w) /\ workers[w] \in Running
      /\ Push(workers[w].task.note) \in BOOLEAN
      /\ ListFits(workers[w], Push(workers[w].task.note))
  BY SenderLists DEF Open
<1>2. workers[w].status \in NotificationStatus
  BY <1>1, RunningFields
<1>3. /\ r.task = workers[w].task /\ ListFits(r, Push(workers[w].task.note))
      /\ Spares(r, workers[w], Push(workers[w].task.note))
  BY <1>1, <1>2, AfterFits
<1>4. r \in Running
  BY <1>1, <1>2, AfterTarget DEF Open
<1>5. NothingAccepted
  BY <1>1, SameNotesNothing
<1> HIDE DEF r
<1>6. Goes(w, r)
  BY DEF r
<1> QED BY <1>1, <1>3, <1>4, <1>5, <1>6, BudgetGoesOn

LEMMA BudgetSendFails ==
    ASSUME NotificationsOK, Budget, NEW w \in Workers, NEW target, NEW accepted \in BOOLEAN,
           SendFails(w, target, accepted)
    PROVE  Budget'
<1>1. /\ Sending(w, target) /\ Goes(w, After(workers[w], target, workers[w].status))
      /\ queue' = queue /\ notes' = IF accepted THEN Accepted(workers[w].task.note) ELSE notes
  BY DEF SendFails
<1>2. workers[w].phase = "send"
  BY <1>1 DEF Sending
<1>3. workers[w].status \in NotificationStatus
  BY <1>2, SenderLists, RunningFields DEF Open
<1>4. CASE accepted
  BY <1>1, <1>3, <1>4, BudgetAccepted
<1>5. CASE ~accepted
  BY <1>1, <1>2, <1>5, BudgetUnsent
<1> QED BY <1>4, <1>5

LEMMA BudgetPushRefused ==
    ASSUME NotificationsOK, Budget, NEW w \in Workers, NEW device \in Devices \cup {Phone},
           PushRefused(w, device)
    PROVE  Budget'
<1> DEFINE r == [workers[w] EXCEPT !.phase = "off", !.refused = {device}]
<1>1. workers[w].phase = "send" /\ device \in workers[w].left /\ device # Phone
  BY DEF PushRefused, Sending
<1>2. /\ Shapes /\ Busy(w) /\ workers[w] \in Running
      /\ Push(workers[w].task.note) \in BOOLEAN
      /\ ListFits(workers[w], Push(workers[w].task.note))
  BY <1>1, SenderLists DEF Open
<1>3. Push(workers[w].task.note) /\ device \in Devices
  BY <1>1, <1>2 DEF ListFits
<1>4. /\ r \in Running /\ r.task = workers[w].task /\ r.left = workers[w].left
      /\ r.phase = "off"
  BY <1>2, <1>3 DEF Running
<1>5. Goes(w, r) /\ queue' = queue /\ notes' = notes
  BY DEF PushRefused
<1> HIDE DEF r
<1>6. ListFits(r, Push(r.task.note))
  BY <1>2, <1>3, <1>4 DEF ListFits
<1>7. Spares(r, workers[w], Push(r.task.note))
  BY <1>3, <1>4 DEF Spares, Allowance
<1> QED BY <1>1, <1>2, <1>4, <1>5, <1>6, <1>7, SameNotesNothing, BudgetGoesOn

LEMMA BudgetSave ==
    ASSUME NotificationsOK, Budget, NEW w \in Workers, Save(w)
    PROVE  Budget'
<1> DEFINE running == workers[w]
           more == ~IsPush(running.task) /\ running.status = "FAILED" /\ Retriable(running)
           phase == IF more THEN "retry" ELSE "ack"
           r == [running EXCEPT !.phase = phase]
<1>1. running.phase = "save"
  BY DEF Save
<1>2. /\ Shapes /\ Known /\ Busy(w) /\ running \in Running
      /\ ListFits(running, Push(running.task.note))
  BY <1>1, SenderLists DEF Open
<1>3. PICK i \in DOMAIN notes : i = running.task.note /\ notes[i] \in Notification
  BY <1>2, NoteFields DEF Known
<1> DEFINE row == [notes[i] EXCEPT !.status = running.status]
<1>4. notes' = [notes EXCEPT ![i] = row] /\ Goes(w, r) /\ queue' = queue
  BY <1>3 DEF Save
<1>5. running.status \in NotificationStatus
  BY <1>2, RunningFields
<1>6. /\ row \in Notification /\ row.channel = notes[i].channel
      /\ row.again = notes[i].again /\ row.shared = notes[i].shared /\ row.due = notes[i].due
      /\ row.accepted = notes[i].accepted
  <2> HIDE DEF running
  <2> QED BY <1>3, <1>5 DEF Notification
<1>7. phase \in {"retry", "ack"}
  OBVIOUS
<1>8. r \in Running /\ r.task = running.task /\ r.phase = phase /\ r.left = running.left
  <2> HIDE DEF running, phase
  <2> QED BY <1>2, <1>7 DEF Running
<1> HIDE DEF row, r, phase
<1>9. Rewritten(i, row)
  BY <1>2, <1>4, <1>6, RowRewritten
<1>10. NothingAccepted
  <2>1. SameNotes
    BY <1>6, <1>9 DEF SameNotes, Rewritten
  <2> QED BY <1>6, <1>9, <2>1 DEF NothingAccepted, Rewritten
<1>11. ListFits(r, Push(r.task.note))
  BY <1>1, <1>2, <1>7, <1>8 DEF ListFits
<1>12. Spares(r, running, Push(r.task.note))
  BY <1>1, <1>7, <1>8 DEF Spares, Allowance
<1> QED BY <1>1, <1>2, <1>4, <1>8, <1>10, <1>11, <1>12, BudgetGoesOn

LEMMA BudgetAck ==
    ASSUME NotificationsOK, Budget, NEW w \in Workers, Ack(w)
    PROVE  Budget'
<1>1. Shapes /\ Busy(w) /\ Goes(w, Idle) /\ notes' = notes /\ queue' = queue
  BY DEF NotificationsOK, Ack, Busy
<1> QED BY <1>1, SameNotesNothing, BudgetGoesOn

LEMMA BudgetRetry ==
    ASSUME NotificationsOK, Budget, NEW w \in Workers, Retry(w)
    PROVE  Budget'
<1> DEFINE running == workers[w]
           r == [running EXCEPT !.phase = "ack"]
           task == [running.task EXCEPT !.retries = @ + 1]
<1>1. Shapes /\ Known /\ Lists /\ \A j \in DOMAIN notes : Kept(j)
  BY DEF NotificationsOK, Budget
<1>2. running.phase = "retry" /\ Busy(w) /\ running \in Running
  <2>1. running.phase = "retry"
    BY DEF Retry
  <2> QED BY <1>1, <2>1, BusyWorker DEF Busy
<1>3. PICK i \in DOMAIN notes : i = running.task.note
  BY <1>1, <1>2 DEF Known
<1>4. /\ running.task \in Task /\ running.task.retries < MaxRetries /\ ~Push(i)
      /\ ListFits(running, Push(i))
  BY <1>1, <1>2, <1>3, RunningFields DEF Known, Lists, Retriable, IsPush, Push
<1>5. task \in Task /\ task.note = i /\ task.retries = running.task.retries + 1
  <2>1. running.task.retries \in 0..MaxRetries /\ MaxRetries \in Nat
    BY <1>4, TaskFields, NotificationsAssumption
  <2>2. running.task.retries + 1 \in 0..MaxRetries
    BY <1>4, <2>1
  <2> HIDE DEF running
  <2> QED BY <1>3, <1>4, <2>2 DEF Task
<1>6. r \in Running /\ r.task = running.task /\ r.phase = "ack" /\ r.left = running.left
  <2> HIDE DEF running
  <2> QED BY <1>2 DEF Running
<1>7. Goes(w, r) /\ queue' = queue (+) SetToBag({task}) /\ notes' = notes
  BY DEF Retry, Retried
<1> HIDE DEF r, task
<1>8. Turned(w, r)
  BY <1>1, <1>6, <1>7, WorkerTurned
<1>9. DOMAIN queue' = DOMAIN queue \cup {task}
  BY <1>1, <1>5, <1>7, TaskAdded
<1>10. Lists'
  <2>1. ListFits(r, Push(r.task.note))
    BY <1>3, <1>4, <1>6 DEF ListFits
  <2>2. SameNotes
    BY <1>1, <1>7 DEF SameNotes, Shapes
  <2>3. r.task.note \in DOMAIN notes
    BY <1>3, <1>6
  <2> QED BY <1>1, <1>8, <2>1, <2>2, <2>3, ListsTurned
<1>11. ASSUME NEW j \in DOMAIN notes, ~notes[j].again PROVE Within(j)'
  <2>1. Within(j) /\ notes[j].accepted \in Nat /\ notes'[j] = notes[j]
    BY <1>1, <1>7, <1>11, NoteFields DEF Budget
  <2>2. CASE j # i
    <3>1. r.task.note # j
      BY <1>3, <1>6, <2>2
    <3>2. \A k \in DOMAIN queue' : k.note = j => k \in DOMAIN queue
      BY <1>5, <1>9, <2>2
    <3> QED BY <1>8, <2>1, <3>1, <3>2, OtherWithin
  <2>3. CASE j = i
    <3>1. Bears(w, i) /\ Alone(i)
      BY <1>1, <1>2, <1>3, <1>11, <2>3, SingleMeans DEF Bears, Kept
    <3>2. /\ ~notes[i].due /\ \A k \in DOMAIN queue : k.note # i
          /\ \A v \in Workers : v # w => ~Bears(v, i)
      BY <3>1 DEF Alone, Waits
    <3>3. notes[i].accepted <= task.retries
      BY <1>2, <1>4, <1>5, <2>1, <2>3, <3>1 DEF Within, Allowance
    <3>4. \A v \in Workers : ~Bears(v, i)'
      <4>1. \A v \in Workers : v # w => ~Bears(v, i)'
        BY <1>8, <2>1, <2>3, <3>2, OthersBear
      <4>2. ~Bears(w, i)'
        BY <1>4, <1>6, <1>7, <1>8 DEF Bears, Turned, Push
      <4> QED BY <4>1, <4>2
    <3>5. \A k \in DOMAIN queue' : k.note = i => notes[i].accepted <= k.retries
      BY <1>9, <3>2, <3>3
    <3>6. Push(i)' = Push(i) /\ Times(i)' = Times(i)
      BY <1>7 DEF Push, Times
    <3>7. notes[i].accepted <= Times(i)
      BY <2>1, <2>3 DEF Within
    <3>8. Within(i)'
      BY <1>4, <1>7, <3>2, <3>4, <3>5, <3>6, <3>7 DEF Within
    <3> QED BY <2>3, <3>8
  <2> QED BY <2>2, <2>3
<1> QED BY <1>7, <1>10, <1>11 DEF Budget

LEMMA BudgetCutOff ==
    ASSUME NotificationsOK, Budget, NEW w \in Workers, NEW redelivered \in BOOLEAN,
           CutOff(w, redelivered)
    PROVE  Budget'
<1> DEFINE task == workers[w].task
<1>1. Shapes /\ Known /\ Lists
  BY DEF NotificationsOK, Budget
<1>2. Busy(w) /\ workers[w] \in Running /\ task \in Task
  <2>1. workers[w] # Idle
    BY DEF CutOff
  <2> QED BY <1>1, <2>1, BusyWorker, RunningFields
<1>3. PICK i \in DOMAIN notes : i = task.note /\ notes[i] \in Notification
  BY <1>1, <1>2, NoteFields DEF Known
<1>4. Goes(w, Idle)
  BY DEF CutOff
<1>5. CASE ~redelivered
  <2> DEFINE row == [notes[i] EXCEPT !.lost = TRUE]
  <2>1. notes' = [notes EXCEPT ![i] = row] /\ queue' = queue
    BY <1>3, <1>5 DEF CutOff
  <2>2. /\ row \in Notification /\ row.channel = notes[i].channel
        /\ row.again = notes[i].again /\ row.shared = notes[i].shared /\ row.due = notes[i].due
        /\ row.accepted = notes[i].accepted
    BY <1>3 DEF Notification
  <2> HIDE DEF row
  <2>3. Rewritten(i, row)
    BY <1>1, <2>1, <2>2, RowRewritten
  <2>4. SameNotes
    BY <2>2, <2>3 DEF SameNotes, Rewritten
  <2>5. NothingAccepted
    BY <2>2, <2>3, <2>4 DEF NothingAccepted, Rewritten
  <2> QED BY <1>2, <1>4, <2>1, <2>5, BudgetGoesOn
<1>6. CASE redelivered
  <2> DEFINE row == [notes[i] EXCEPT !.again = TRUE]
  <2>1. notes' = [notes EXCEPT ![i] = row] /\ queue' = queue (+) SetToBag({task})
    BY <1>3, <1>6 DEF CutOff
  <2>2. row \in Notification /\ row.channel = notes[i].channel /\ row.again
        /\ row.accepted = notes[i].accepted
    BY <1>3 DEF Notification
  <2> HIDE DEF row
  <2>3. Rewritten(i, row)
    BY <1>1, <2>1, <2>2, RowRewritten
  <2>4. SameNotes
    BY <2>2, <2>3 DEF SameNotes, Rewritten
  <2>5. Turned(w, Idle)
    BY <1>1, <1>4, WorkerTurned
  <2>6. Lists'
    BY <1>1, <2>4, <2>5, ListsTurned
  <2>7. PICK old \in Task : old = task
    BY <1>2
  <2>8. old.note = i /\ queue' = queue (+) SetToBag({old})
    BY <1>3, <2>1, <2>7
  <2>9. ASSUME NEW j \in DOMAIN notes, ~notes'[j].again PROVE Within(j)'
    <3>1. j # i
      BY <2>2, <2>3, <2>9 DEF Rewritten
    <3>2. notes'[j] = notes[j]
      BY <2>3, <3>1 DEF Rewritten
    <3>3. Within(j) /\ notes[j].accepted \in Nat
      BY <1>1, <2>9, <3>2, NoteFields DEF Budget
    <3>4. \A k \in DOMAIN queue' : k.note = j => k \in DOMAIN queue
      BY <1>1, <2>8, <3>1, OtherTasks
    <3> QED BY <2>5, <3>2, <3>3, <3>4, OtherWithin
  <2> QED BY <2>3, <2>6, <2>9 DEF Budget, Rewritten
<1> QED BY <1>5, <1>6

LEMMA BudgetRedeliver ==
    ASSUME NotificationsOK, Budget, NEW w \in Workers, Redeliver(w)
    PROVE  Budget'
<1>1. Shapes /\ Known /\ Lists
  BY DEF NotificationsOK, Budget
<1>2. PICK task \in Task : task = workers[w].task /\ Busy(w)
  <2>1. workers[w] # Idle
    BY DEF Redeliver
  <2> QED BY <1>1, <2>1, BusyWorker, RunningFields
<1>3. PICK i \in DOMAIN notes : i = task.note /\ notes[i] \in Notification
  BY <1>1, <1>2, NoteFields DEF Known
<1> DEFINE row == [notes[i] EXCEPT !.again = TRUE, !.shared = IsPush(task)]
<1>4. /\ notes' = [notes EXCEPT ![i] = row] /\ queue' = queue (+) SetToBag({task})
      /\ workers' = workers
  BY <1>2, <1>3 DEF Redeliver
<1>5. row \in Notification /\ row.channel = notes[i].channel /\ row.again
  BY <1>3 DEF Notification, IsPush
<1> HIDE DEF row
<1>6. Rewritten(i, row)
  BY <1>1, <1>4, <1>5, RowRewritten
<1>7. Lists'
  BY <1>1, <1>4, <1>5, <1>6, ListsStay DEF Rewritten
<1>8. ASSUME NEW j \in DOMAIN notes, ~notes'[j].again PROVE Within(j)'
  <2>1. j # i /\ notes'[j] = notes[j]
    BY <1>5, <1>6, <1>8 DEF Rewritten
  <2>2. Within(j) /\ notes[j].accepted \in Nat
    BY <1>1, <1>8, <2>1, NoteFields DEF Budget
  <2>3. \A k \in DOMAIN queue' : k.note = j => k \in DOMAIN queue
    BY <1>1, <1>3, <1>4, <2>1, OtherTasks
  <2>4. \A v \in Workers : Bears(v, j)' => Bears(v, j) /\ Spares(workers'[v], workers[v], Push(j))
    BY <1>4, <2>1, SparesItself DEF Bears, Busy
  <2> QED BY <2>1, <2>2, <2>3, <2>4, WithinKept
<1> QED BY <1>6, <1>7, <1>8 DEF Budget, Rewritten

LEMMA BudgetDispatchFails ==
    ASSUME NotificationsOK, Budget, NEW i \in DOMAIN notes, DispatchFails(i)
    PROVE  Budget'
<1> DEFINE row == [notes[i] EXCEPT !.due = FALSE, !.lost = TRUE]
<1>1. Shapes
  BY DEF NotificationsOK
<1>2. notes[i] \in Notification
  BY <1>1, NoteFields
<1>3. /\ row \in Notification /\ row.channel = notes[i].channel
      /\ row.again = notes[i].again /\ row.shared = notes[i].shared
      /\ row.accepted = notes[i].accepted /\ ~row.due
  BY <1>2 DEF Notification
<1>4. notes' = [notes EXCEPT ![i] = row] /\ workers' = workers /\ queue' = queue
  BY DEF DispatchFails
<1> HIDE DEF row
<1>5. Rewritten(i, row)
  BY <1>1, <1>3, <1>4, RowRewritten
<1>6. SameNotes
  BY <1>3, <1>5 DEF SameNotes, Rewritten
<1>7. NothingAccepted
  BY <1>3, <1>5, <1>6 DEF NothingAccepted, Rewritten
<1> QED BY <1>4, <1>7, BudgetRests

LEMMA InitBudget == Init => Budget
BY DEF Init, Budget, Lists, Busy, Idle

LEMMA NextBudget == NotificationsOK /\ Budget /\ [Next]_vars => Budget'
<1> SUFFICES ASSUME NotificationsOK, Budget, [Next]_vars PROVE Budget'
  OBVIOUS
<1>1. CASE \E channel \in Channel : Notify(channel)
  BY <1>1, BudgetNotify
<1>2. CASE \E i \in DOMAIN notes : Callback(i)
  BY <1>2, BudgetDispatch, BudgetDispatchFails DEF Callback
<1>3. ASSUME NEW w \in Workers,
             Work(w) \/ Redeliver(w) \/ \E redelivered \in BOOLEAN : CutOff(w, redelivered)
      PROVE  Budget'
  <2>1. CASE Redeliver(w) \/ \E redelivered \in BOOLEAN : CutOff(w, redelivered)
    BY <2>1, BudgetCutOff, BudgetRedeliver
  <2>2. CASE \E task \in BagToSet(queue) : Take(w, task)
    BY <2>2, BudgetTake
  <2>3. CASE \E target \in Devices \cup {Phone} : SendAccepted(w, target)
    <3> PICK target : SendAccepted(w, target)
      BY <2>3
    <3>1. "SENT" \in NotificationStatus
      BY DEF NotificationStatus
    <3> QED BY <3>1, BudgetAccepted DEF SendAccepted
  <2>4. CASE \E target \in Devices \cup {Phone} : \E accepted \in BOOLEAN :
                SendFails(w, target, accepted)
    BY <2>4, BudgetSendFails
  <2>5. CASE \E target \in Devices \cup {Phone} : PushRefused(w, target)
    BY <2>5, BudgetPushRefused
  <2>6. CASE SwitchOff(w)
    BY <2>6, BudgetUnsent DEF SwitchOff
  <2>7. CASE Save(w) \/ Retry(w) \/ Ack(w)
    BY <2>7, BudgetSave, BudgetRetry, BudgetAck
  <2> QED BY <1>3, <2>1, <2>2, <2>3, <2>4, <2>5, <2>6, <2>7 DEF Work
<1>4. CASE (\E device \in Devices : Register(device) \/ Logout(device)) \/ UNCHANGED vars
  <2>1. notes' = notes /\ workers' = workers /\ queue' = queue
    BY <1>4 DEF Register, Logout, vars
  <2>2. NothingAccepted
    BY <2>1, SameNotesNothing DEF NotificationsOK
  <2> QED BY <2>1, <2>2, BudgetRests
<1> QED BY <1>1, <1>2, <1>3, <1>4 DEF Next

LEMMA BudgetInvariant == Spec => [](NotificationsOK /\ Budget)
BY InitOK, NextOK, InitBudget, NextBudget, PTL DEF Spec

\* A worker that sends has something left of what may be sent.
LEMMA SenderHasLeft ==
    ASSUME NotificationsOK, Budget, NEW w \in Workers, NEW i \in DOMAIN notes,
           workers[w].phase = "send", workers[w].task.note = i
    PROVE  notes[i].again \/ notes[i].accepted < Times(i)
<1> SUFFICES ASSUME ~notes[i].again PROVE notes[i].accepted < Times(i)
  OBVIOUS
<1>1. /\ Shapes /\ workers[w] \in Running /\ ListFits(workers[w], Push(i))
  BY SenderLists DEF Open
<1>2. Bears(w, i) /\ Within(i)
  BY OneSender DEF Open, Budget
<1>3. notes[i].accepted <= Allowance(workers[w], Push(i)) /\ notes[i].accepted \in Nat
  BY <1>1, <1>2, NoteFields DEF Within
<1>4. CASE Push(i)
  <2>1. /\ IsFiniteSet(workers[w].left) /\ Cardinality(workers[w].left) \in Nat
        /\ Cardinality(Devices) \in Nat
    BY <1>1, DevicesCounted, RunningFields
  <2>2. Cardinality(workers[w].left) # 0
    BY <1>1, <2>1, FS_EmptySet DEF ListFits
  <2> QED BY <1>3, <1>4, <2>1, <2>2 DEF Allowance, Times, Push
<1>5. CASE ~Push(i)
  <2>1. workers[w].task.retries \in 0..MaxRetries /\ MaxRetries \in Nat
    BY <1>1, RunningFields, TaskFields, NotificationsAssumption
  <2> QED BY <1>3, <1>5, <2>1 DEF Allowance, Times, Push
<1> QED BY <1>4, <1>5

-----------------------------------------------------------------------------
(* What is settled stays quiet *)

\* The worker that sends bears the notification of its task.
LEMMA SenderMay ==
    ASSUME NotificationsOK, NEW w \in Workers, NEW i \in DOMAIN notes,
           workers[w].phase = "send", workers[w].task.note = i
    PROVE  IF notes[i].channel = "PUSH" THEN Status(i) = "QUEUED" \/ notes[i].shared
           ELSE Status(i) = "SENT" => notes[i].again
<1>1. Kept(i)
  BY DEF NotificationsOK
<1>2. CASE notes[i].channel = "PUSH"
  BY <1>1, <1>2, SingleMeans DEF Kept, Quiet, Open
<1>3. CASE notes[i].channel # "PUSH" /\ ~notes[i].again
  <2>1. Bears(w, i)
    BY <1>3 DEF Bears, Busy
  <2> QED BY <1>1, <1>3, <2>1, SingleMeans DEF Kept, Quiet
<1> QED BY <1>2, <1>3

\* Only a worker that sends adds to what was accepted.
LEMMA AcceptedMeans ==
    ASSUME NotificationsOK, [Next]_vars, NEW i \in DOMAIN notes,
           notes'[i].accepted # notes[i].accepted
    PROVE  \E w \in Workers : workers[w].phase = "send" /\ workers[w].task.note = i
<1>1. Shapes /\ Known /\ notes[i] \in Notification
  BY NoteFields DEF NotificationsOK
<1>2. notes # notes' /\ notes \in Seq(Notification)
  BY <1>1 DEF Shapes
<1>3. ASSUME NEW channel \in Channel, Notify(channel) PROVE FALSE
  BY <1>2, <1>3 DEF Notify
<1>4. ASSUME NEW j \in DOMAIN notes, Callback(j) PROVE FALSE
  <2>1. ASSUME Dispatch(j) PROVE FALSE
    <3>1. notes'[i] = IF i = j THEN [notes[i] EXCEPT !.due = FALSE] ELSE notes[i]
      BY <2>1 DEF Dispatch
    <3> QED BY <1>1, <3>1 DEF Notification
  <2>2. ASSUME DispatchFails(j) PROVE FALSE
    <3>1. notes'[i] = IF i = j THEN [notes[i] EXCEPT !.due = FALSE, !.lost = TRUE] ELSE notes[i]
      BY <2>2 DEF DispatchFails
    <3> QED BY <1>1, <3>1 DEF Notification
  <2> QED BY <1>4, <2>1, <2>2 DEF Callback
<1>5. ASSUME NEW w \in Workers, NEW redelivered \in BOOLEAN, CutOff(w, redelivered) PROVE FALSE
  <2>1. \/ notes'[i] = notes[i] \/ notes'[i] = [notes[i] EXCEPT !.again = TRUE]
        \/ notes'[i] = [notes[i] EXCEPT !.lost = TRUE]
    BY <1>5 DEF CutOff
  <2> QED BY <1>1, <2>1 DEF Notification
<1>10. ASSUME NEW w \in Workers, Redeliver(w) PROVE FALSE
  <2>1. \/ notes'[i] = notes[i]
        \/ \E b : notes'[i] = [notes[i] EXCEPT !.again = TRUE, !.shared = b]
    BY <1>10 DEF Redeliver
  <2> QED BY <1>1, <2>1 DEF Notification
<1>6. ASSUME NEW w \in Workers, Save(w) PROVE FALSE
  <2>1. notes'[i] = notes[i] \/ notes'[i] = [notes[i] EXCEPT !.status = workers[w].status]
    BY <1>6 DEF Save
  <2> QED BY <1>1, <2>1 DEF Notification
<1>7. ASSUME NEW w \in Workers, NEW target,
             SendAccepted(w, target) \/ \E accepted \in BOOLEAN : SendFails(w, target, accepted)
      PROVE  workers[w].phase = "send" /\ workers[w].task.note = i
  <2>1. workers[w].phase = "send" /\ notes' = Accepted(workers[w].task.note)
    BY <1>2, <1>7 DEF SendAccepted, SendFails, Sending
  <2>2. ASSUME workers[w].task.note # i PROVE FALSE
    BY <2>1, <2>2 DEF Accepted
  <2> QED BY <2>1, <2>2
<1>8. ASSUME NEW w \in Workers,
             \/ \E task \in BagToSet(queue) : Take(w, task)
             \/ \E target \in Devices \cup {Phone} : PushRefused(w, target)
             \/ SwitchOff(w) \/ Retry(w) \/ Ack(w)
      PROVE  FALSE
  BY <1>2, <1>8 DEF Take, PushRefused, SwitchOff, Retry, Ack
<1>9. ASSUME \/ \E device \in Devices : Register(device) \/ Logout(device)
             \/ UNCHANGED vars
      PROVE  FALSE
  BY <1>2, <1>9 DEF Register, Logout, vars
<1> QED BY <1>3, <1>4, <1>5, <1>6, <1>7, <1>8, <1>9, <1>10 DEF Next, Work

\* A push goes out only for a row that is QUEUED, also when its task comes again because its
\* worker is gone, unless it came while a worker still had it; an SMS that is SENT goes out
\* only if its task came again; and unless it did no message goes out more often than it may:
\* a push once to a device, an SMS once for each attempt (notifications/tasks.py).
THEOREM SettledQuietCorrect == Spec => SettledQuiet
<1> DEFINE QuietStep == \A i \in DOMAIN notes :
                           notes'[i].accepted # notes[i].accepted =>
                              /\ IF notes[i].channel = "PUSH"
                                 THEN Status(i) = "QUEUED" \/ notes[i].shared
                                 ELSE Status(i) = "SENT" => notes[i].again
                              /\ notes[i].again \/ notes[i].accepted < Times(i)
<1>1. NotificationsOK /\ Budget /\ [Next]_vars => [QuietStep]_vars
  BY AcceptedMeans, SenderMay, SenderHasLeft
<1> QED BY <1>1, BudgetInvariant, PTL DEF Spec, SettledQuiet

=============================================================================
