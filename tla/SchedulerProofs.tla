------------------------ MODULE SchedulerProofs -------------------------
(***************************************************************************)
(* Proofs about SummaryScheduler, for any set of rooms, any number of      *)
(* slots and of retries, and any capacity of the queue.                    *)
(***************************************************************************)
EXTENDS SummaryScheduler, TLAPS

SchedulerTypes ==
  /\ inFlight \subseteq Rooms
  /\ pending \in Seq(Jobs) /\ Len(pending) <= PendingCapacity
  /\ tasks \in [Slots -> Tasks]
  /\ mail \in [Rooms -> Nat]

LiveHasRoom == \A s \in Slots : Live(s) => tasks[s].room \in Rooms

\* A future that waits, or has been spawned and not polled, belongs to a
\* record that is still queued; every future runs in its record's room.
WaitingLinked ==
  \A i \in DOMAIN pending : pending[i].rec # NoRecord =>
    /\ pending[i].room = RetryRoom[pending[i].rec]
    /\ retry[pending[i].rec] = "queued"

TasksLinked ==
  \A s \in Slots : Live(s) /\ tasks[s].rec # NoRecord =>
    /\ tasks[s].room = RetryRoom[tasks[s].rec]
    /\ tasks[s].phase = "spawned" => retry[tasks[s].rec] = "queued"

\* What holds of the scheduler itself and of the futures it has.
Core == /\ SchedulerTypes /\ LiveHasRoom
        /\ OneTaskPerRoom /\ InFlightExact
        /\ WaitingLinked /\ TasksLinked

Served == pending # <<>> => ~SlotFree

\* What the pass has listed is stale only for rooms that are in flight.
ListedFresh ==
  /\ pc # "offer" => listed = {}
  /\ \A k \in listed : RetryRoom[k] \notin inFlight => retry[k] = "queued"

Marked(k) == IF retry[k] \in {"running", "ended"} THEN 1 ELSE 0

RunsCounted == \A k \in Records : runs[k] <= unmarked[k] + Marked(k)

RetryStates == {"none", "queued", "running", "ended"}

LoopTypes ==
  /\ pc \in Stages
  /\ backlog \in Seq(Rooms)
  /\ queueFull \in BOOLEAN
  /\ wait \in 0..MaxDelay /\ delay \in 0..MaxDelay
  /\ enabled \in BOOLEAN
  /\ requests \in Nat

RetryTypes ==
  /\ retry \in [Records -> RetryStates]
  /\ listed \subseteq Records
  /\ runs \in [Records -> Nat]
  /\ unmarked \in [Records -> Nat]
  /\ storeErrors \in Nat

IInv == Core /\ LoopTypes /\ RetryTypes /\ QueueServed /\ ListedFresh /\ RunsCounted

-----------------------------------------------------------------------------
(* Types.                                                                   *)

LEMMA ConstantTypes ==
  /\ NoRoom \notin Rooms /\ PendingCapacity \in Nat
  /\ MaxDelay \in Nat \ {0}
  /\ \A k \in Records : RetryRoom[k] \in Rooms /\ k \in Nat /\ k # NoRecord
  BY SchedulerAssumption DEF SchedulerAssumption, Records, NoRecord

LEMMA TaskTypes ==
  /\ \A r \in Rooms, k \in Records \cup {NoRecord} :
       /\ Job(r, k) \in Jobs
       /\ Task("spawned", r, k) \in Tasks /\ Task("running", r, k) \in Tasks
  /\ Free \in Tasks /\ Closing \in Tasks /\ Ended \in Tasks
  BY DEF Job, Jobs, Task, Tasks, Free, Closing, Ended

LEMMA JobFields ==
  ASSUME NEW job \in Jobs
  PROVE  job.room \in Rooms /\ job.rec \in Records \cup {NoRecord}
  BY DEF Jobs

\* Only a task that has not ended holds a room.
LEMMA TaskFields ==
  ASSUME NEW task \in Tasks
  PROVE  /\ task.room \in Rooms \cup {NoRoom}
         /\ task.rec \in Records \cup {NoRecord}
         /\ task.phase \in {"free", "spawned", "running", "closing", "ended"}
  BY DEF Tasks

LEMMA InitTypes == Init => SchedulerTypes /\ LoopTypes /\ RetryTypes
  <1> SUFFICES ASSUME Init PROVE SchedulerTypes /\ LoopTypes /\ RetryTypes
    OBVIOUS
  <1>1. pending \in Seq(Jobs) /\ Len(pending) <= PendingCapacity
    BY ConstantTypes DEF Init
  <1>2. tasks \in [Slots -> Tasks]
    BY TaskTypes DEF Init
  <1>3. backlog \in Seq(Rooms)
    BY DEF Init
  <1>4. wait \in 0..MaxDelay /\ delay \in 0..MaxDelay
    BY ConstantTypes DEF Init
  <1>5. mail \in [Rooms -> Nat] /\ runs \in [Records -> Nat] /\ unmarked \in [Records -> Nat]
    BY DEF Init
  <1>6. retry \in [Records -> RetryStates]
    BY DEF Init, RetryStates
  <1>7. enabled \in BOOLEAN /\ queueFull \in BOOLEAN
    BY Zenon DEF Init
  <1> QED
    BY <1>1, <1>2, <1>3, <1>4, <1>5, <1>6, <1>7 DEF Init, SchedulerTypes, LoopTypes, RetryTypes, Stages

-----------------------------------------------------------------------------
(* The scheduler: what enqueue, the tasks and reap do to Core.              *)

\* A sequence with one more job, or without its head.
LEMMA Appended ==
  ASSUME NEW q \in Seq(Jobs), NEW job \in Jobs
  PROVE  /\ Append(q, job) \in Seq(Jobs)
         /\ Len(Append(q, job)) = Len(q) + 1
         /\ DOMAIN Append(q, job) = 1..Len(q) + 1
         /\ DOMAIN q = 1..Len(q)
         /\ \A i \in DOMAIN q : Append(q, job)[i] = q[i]
         /\ Append(q, job)[Len(q) + 1] = job
  OBVIOUS

LEMMA Tailed ==
  ASSUME NEW q \in Seq(Jobs), q # <<>>
  PROVE  /\ Head(q) \in Jobs /\ Head(q) = q[1]
         /\ Tail(q) \in Seq(Jobs)
         /\ Len(Tail(q)) = Len(q) - 1
         /\ DOMAIN q = 1..Len(q) /\ Len(q) >= 1
         /\ DOMAIN Tail(q) = 1..Len(q) - 1
         /\ \A i \in DOMAIN Tail(q) : i + 1 \in DOMAIN q /\ Tail(q)[i] = q[i + 1]
  OBVIOUS

\* A new task is given a free slot.
LEMMA SpawnCore ==
  ASSUME Core, NEW r \in Rooms, NEW k \in Records \cup {NoRecord}, NEW s \in Slots,
         r \notin inFlight, tasks[s].phase = "free",
         k # NoRecord => r = RetryRoom[k] /\ retry[k] = "queued",
         tasks' = Spawned(Job(r, k), s), inFlight' = inFlight \cup {r},
         pending' = pending, mail' = mail, retry' = retry
  PROVE  Core'
<1> DEFINE T == Task("spawned", r, k)
<1>1. T \in Tasks /\ T.phase = "spawned" /\ T.room = r /\ T.rec = k
  BY TaskTypes DEF Task
<1>2. tasks' = [tasks EXCEPT ![s] = T]
  BY DEF Spawned, Job
<1> HIDE DEF T
<1>3. /\ tasks' \in [Slots -> Tasks] /\ tasks'[s] = T
      /\ \A t \in Slots : t # s => tasks'[t] = tasks[t]
  BY <1>1, <1>2 DEF Core, SchedulerTypes
<1>4. Live(s)' /\ ~Live(s) /\ \A t \in Slots : t # s => (Live(t)' <=> Live(t))
  BY <1>1, <1>3 DEF Live
<1>5. SchedulerTypes' /\ LiveHasRoom'
  BY <1>1, <1>3, <1>4 DEF Core, SchedulerTypes, LiveHasRoom
<1>6. ~HasTask(r) /\ mail[r] = 0
  BY DEF Core, SchedulerTypes, InFlightExact
<1>7. OneTaskPerRoom'
  <2>1. \A i \in DOMAIN pending : pending[i].room # r
    BY <1>6 DEF HasTask
  <2>2. \A t \in Slots : Live(t) => tasks[t].room # r
    BY <1>6 DEF HasTask
  <2> QED
    BY <2>1, <2>2, <1>1, <1>3, <1>4 DEF Core, OneTaskPerRoom
<1>8. InFlightExact'
  <2>1. HasTask(r)'
    BY <1>1, <1>3, <1>4 DEF HasTask
  <2>2. \A q \in Rooms : q # r => (HasTask(q)' <=> HasTask(q))
    BY <1>1, <1>3, <1>4 DEF HasTask
  <2> QED
    BY <2>1, <2>2, <1>6 DEF Core, InFlightExact
<1>9. WaitingLinked' /\ TasksLinked'
  BY <1>1, <1>3, <1>4 DEF Core, WaitingLinked, TasksLinked
<1> QED
  BY <1>5, <1>7, <1>8, <1>9 DEF Core

\* A new task is put at the end of the queue.
LEMMA QueueCore ==
  ASSUME Core, NEW r \in Rooms, NEW k \in Records \cup {NoRecord},
         r \notin inFlight, Len(pending) < PendingCapacity,
         k # NoRecord => r = RetryRoom[k] /\ retry[k] = "queued",
         pending' = Append(pending, Job(r, k)), inFlight' = inFlight \cup {r},
         tasks' = tasks, mail' = mail, retry' = retry
  PROVE  Core'
<1> DEFINE n == Len(pending) + 1
           J == Job(r, k)
<1>1. J \in Jobs /\ J.room = r /\ J.rec = k
  BY TaskTypes DEF Job
<1>2. pending \in Seq(Jobs)
  BY DEF Core, SchedulerTypes
<1> HIDE DEF J
<1>3. /\ pending' \in Seq(Jobs) /\ Len(pending') = n
      /\ DOMAIN pending' = DOMAIN pending \cup {n} /\ n \notin DOMAIN pending
      /\ pending'[n] = J
      /\ \A i \in DOMAIN pending : pending'[i] = pending[i]
  BY <1>1, <1>2, Appended DEF J
<1>4. \A s \in Slots : Live(s)' <=> Live(s)
  BY DEF Live
<1>5. n <= PendingCapacity
  BY <1>2, ConstantTypes
<1> HIDE DEF n
<1>6. SchedulerTypes' /\ LiveHasRoom'
  BY <1>3, <1>4, <1>5 DEF Core, SchedulerTypes, LiveHasRoom
<1>7. ~HasTask(r) /\ mail[r] = 0
  BY DEF Core, SchedulerTypes, InFlightExact
<1>8. OneTaskPerRoom'
  <2>1. \A i \in DOMAIN pending : pending[i].room # r
    BY <1>7 DEF HasTask
  <2>2. \A t \in Slots : Live(t) => tasks[t].room # r
    BY <1>7 DEF HasTask
  <2> QED
    BY <2>1, <2>2, <1>1, <1>3, <1>4 DEF Core, OneTaskPerRoom
<1>9. InFlightExact'
  <2>1. HasTask(r)'
    BY <1>1, <1>3 DEF HasTask
  <2>2. \A q \in Rooms : q # r => (HasTask(q)' <=> HasTask(q))
    BY <1>1, <1>3, <1>4 DEF HasTask
  <2> QED
    BY <2>1, <2>2, <1>7 DEF Core, InFlightExact
<1>10. WaitingLinked' /\ TasksLinked'
  BY <1>1, <1>3, <1>4 DEF Core, WaitingLinked, TasksLinked
<1> QED
  BY <1>6, <1>8, <1>9, <1>10 DEF Core

\* The task at the head of the queue is given a free slot.
LEMMA FillCore ==
  ASSUME Core, NEW s \in Slots, pending # <<>>, tasks[s].phase = "free",
         tasks' = Spawned(Head(pending), s), pending' = Tail(pending),
         inFlight' = inFlight, mail' = mail, retry' = retry
  PROVE  Core'
<1> DEFINE J == Head(pending)
           T == Task("spawned", J.room, J.rec)
<1>1. pending \in Seq(Jobs)
  BY DEF Core, SchedulerTypes
<1>2. /\ J \in Jobs /\ J = pending[1] /\ 1 \in DOMAIN pending
      /\ pending' \in Seq(Jobs) /\ Len(pending') <= PendingCapacity
      /\ \A i \in DOMAIN pending' :
           /\ i + 1 \in DOMAIN pending /\ i + 1 # 1 /\ i \in Nat
           /\ pending'[i] = pending[i + 1]
      /\ \A i \in DOMAIN pending : i # 1 =>
           \E j \in DOMAIN pending' : i = j + 1 /\ pending'[j] = pending[i]
  <2>1. pending' \in Seq(Jobs) /\ Len(pending') <= PendingCapacity
    BY <1>1, Tailed, ConstantTypes DEF Core, SchedulerTypes
  <2>2. \A i \in DOMAIN pending : i # 1 => i - 1 \in DOMAIN pending' /\ i = (i - 1) + 1
    BY <1>1, Tailed
  <2> QED
    BY <1>1, <2>1, <2>2, Tailed
<1> HIDE DEF J
<1>3. J.room \in Rooms /\ J.rec \in Records \cup {NoRecord}
  BY <1>2, JobFields
<1>4. T \in Tasks /\ T.phase = "spawned" /\ T.room = J.room /\ T.rec = J.rec
  BY <1>3, TaskTypes DEF Task
<1>5. tasks' = [tasks EXCEPT ![s] = T]
  BY DEF Spawned, J
<1> HIDE DEF T
<1>6. /\ tasks' \in [Slots -> Tasks] /\ tasks'[s] = T
      /\ \A t \in Slots : t # s => tasks'[t] = tasks[t]
  BY <1>4, <1>5 DEF Core, SchedulerTypes
<1>7. Live(s)' /\ ~Live(s) /\ \A t \in Slots : t # s => (Live(t)' <=> Live(t))
  BY <1>4, <1>6 DEF Live
<1>8. SchedulerTypes' /\ LiveHasRoom'
  BY <1>2, <1>3, <1>4, <1>6, <1>7 DEF Core, SchedulerTypes, LiveHasRoom
<1>9. \A q \in Rooms : HasTask(q)' <=> HasTask(q)
  <2> SUFFICES ASSUME NEW q \in Rooms PROVE HasTask(q)' <=> HasTask(q)
    OBVIOUS
  <2>1. CASE q = J.room
    <3>1. HasTask(q)
      BY <2>1, <1>2 DEF HasTask
    <3>2. HasTask(q)'
      BY <2>1, <1>4, <1>6, <1>7 DEF HasTask
    <3> QED
      BY <3>1, <3>2
  <2>2. CASE q # J.room
    <3>1. (\E i \in DOMAIN pending : pending[i].room = q)
            <=> (\E i \in DOMAIN pending' : pending'[i].room = q)
      BY <2>2, <1>2
    <3>2. (\E t \in Slots : Live(t) /\ tasks[t].room = q)
            <=> (\E t \in Slots : Live(t)' /\ tasks'[t].room = q)
      BY <2>2, <1>4, <1>6, <1>7
    <3> QED
      BY <3>1, <3>2 DEF HasTask
  <2> QED
    BY <2>1, <2>2
<1>10. InFlightExact'
  BY <1>9 DEF Core, InFlightExact
<1>11. OneTaskPerRoom'
  <2>1. \A i, j \in DOMAIN pending' : pending'[i].room = pending'[j].room => i = j
    BY <1>2 DEF Core, OneTaskPerRoom
  <2>2. \A t \in Slots : Live(t) => tasks[t].room # J.room
    BY <1>2 DEF Core, OneTaskPerRoom
  <2>3. \A t, u \in Slots :
          Live(t)' /\ Live(u)' /\ tasks'[t].room = tasks'[u].room => t = u
    BY <2>2, <1>4, <1>6, <1>7 DEF Core, OneTaskPerRoom
  <2>4. \A i \in DOMAIN pending' : pending'[i].room # J.room
    BY <1>2 DEF Core, OneTaskPerRoom
  <2>5. \A i \in DOMAIN pending', t \in Slots :
          Live(t)' => pending'[i].room # tasks'[t].room
    BY <2>4, <1>2, <1>4, <1>6, <1>7 DEF Core, OneTaskPerRoom
  <2> QED
    BY <2>1, <2>3, <2>5 DEF OneTaskPerRoom
<1>12. WaitingLinked' /\ TasksLinked'
  <2>1. WaitingLinked'
    BY <1>2 DEF Core, WaitingLinked
  <2>2. J.rec # NoRecord => J.room = RetryRoom[J.rec] /\ retry[J.rec] = "queued"
    BY <1>2 DEF Core, WaitingLinked
  <2>3. TasksLinked'
    BY <2>2, <1>4, <1>6, <1>7 DEF Core, TasksLinked
  <2> QED
    BY <2>1, <2>3
<1> QED
  BY <1>8, <1>10, <1>11, <1>12 DEF Core

\* A slot's task is polled for the first time.
LEMMA BeginCore ==
  ASSUME Core, retry \in [Records -> {"none", "queued", "running", "ended"}],
         NEW s \in Slots, Begin(s)
  PROVE  Core'
<1> DEFINE k == tasks[s].rec
           T == Task("running", tasks[s].room, k)
<1>1. Live(s) /\ tasks[s].room \in Rooms /\ k \in Records \cup {NoRecord}
  BY TaskFields DEF Begin, Live, Core, LiveHasRoom, SchedulerTypes
<1>2. T \in Tasks /\ T.phase = "running" /\ T.room = tasks[s].room /\ T.rec = k
  BY <1>1, TaskTypes DEF Task
<1>3. /\ tasks' = [tasks EXCEPT ![s] = T]
      /\ inFlight' = inFlight /\ pending' = pending /\ mail' = mail
      /\ \/ retry' = retry
         \/ k \in Records /\ retry' = [retry EXCEPT ![k] = "running"]
  BY <1>1 DEF Begin
<1> HIDE DEF T
<1>4. /\ tasks' \in [Slots -> Tasks] /\ tasks'[s] = T
      /\ \A t \in Slots : t # s => tasks'[t] = tasks[t]
  BY <1>2, <1>3 DEF Core, SchedulerTypes
<1>5. \A t \in Slots : /\ Live(t)' <=> Live(t)
                       /\ tasks'[t].room = tasks[t].room
                       /\ tasks'[t].rec = tasks[t].rec
                       /\ tasks'[t].phase = "spawned" => t # s /\ tasks[t].phase = "spawned"
  BY <1>1, <1>2, <1>4 DEF Live
<1>6. SchedulerTypes' /\ LiveHasRoom'
  BY <1>3, <1>4, <1>5 DEF Core, SchedulerTypes, LiveHasRoom
<1>7. OneTaskPerRoom' /\ InFlightExact'
  <2>1. OneTaskPerRoom'
    BY <1>3, <1>5 DEF Core, OneTaskPerRoom
  <2>2. \A q \in Rooms : HasTask(q)' <=> HasTask(q)
    BY <1>3, <1>5 DEF HasTask
  <2> QED
    BY <2>1, <2>2, <1>3 DEF Core, InFlightExact
<1>8. k # NoRecord => tasks[s].room = RetryRoom[k]
  BY <1>1 DEF Core, TasksLinked
<1>9. \A j \in Records : j # k => retry'[j] = retry[j]
  BY <1>3
<1>10. WaitingLinked'
  <2>1. \A i \in DOMAIN pending : pending[i].rec # NoRecord => pending[i].rec # k
    BY <1>1, <1>8 DEF Core, OneTaskPerRoom, WaitingLinked
  <2>2. \A i \in DOMAIN pending : pending[i].rec \in Records \cup {NoRecord}
    BY JobFields DEF Core, SchedulerTypes
  <2> QED
    BY <2>1, <2>2, <1>3, <1>9 DEF Core, WaitingLinked
<1>11. TasksLinked'
  <2>1. \A t \in Slots : t # s /\ Live(t) /\ tasks[t].rec # NoRecord => tasks[t].rec # k
    BY <1>1, <1>8 DEF Core, OneTaskPerRoom, TasksLinked
  <2>2. \A t \in Slots : tasks[t].rec \in Records \cup {NoRecord}
    BY TaskFields DEF Core, SchedulerTypes
  <2> QED
    BY <2>1, <2>2, <1>5, <1>9 DEF Core, TasksLinked
<1> QED
  BY <1>6, <1>7, <1>10, <1>11 DEF Core

\* A slot that holds no live task, before or after, does not matter to Core.
LEMMA IdleSlotCore ==
  ASSUME Core, NEW s \in Slots, NEW task \in Tasks, ~Live(s),
         task.phase \notin {"spawned", "running"},
         tasks' = [tasks EXCEPT ![s] = task],
         inFlight' = inFlight, pending' = pending, mail' = mail, retry' = retry
  PROVE  Core'
<1>1. /\ tasks' \in [Slots -> Tasks] /\ tasks'[s] = task
      /\ \A t \in Slots : t # s => tasks'[t] = tasks[t]
  BY DEF Core, SchedulerTypes
<1>2. \A t \in Slots : (Live(t)' <=> Live(t)) /\ (Live(t) => tasks'[t] = tasks[t])
  BY <1>1 DEF Live
<1>3. SchedulerTypes' /\ LiveHasRoom'
  BY <1>1, <1>2 DEF Core, SchedulerTypes, LiveHasRoom
<1>4. \A q \in Rooms : HasTask(q)' <=> HasTask(q)
  BY <1>2 DEF HasTask
<1>5. InFlightExact' /\ OneTaskPerRoom'
  BY <1>2, <1>4 DEF Core, InFlightExact, OneTaskPerRoom
<1>6. WaitingLinked' /\ TasksLinked'
  BY <1>2 DEF Core, WaitingLinked, TasksLinked
<1> QED
  BY <1>3, <1>5, <1>6 DEF Core

\* A task ends: its room passes from the slot to the completion.
LEMMA FinishCore ==
  ASSUME Core, retry \in [Records -> {"none", "queued", "running", "ended"}],
         NEW s \in Slots, Finish(s)
  PROVE  Core'
<1> DEFINE k == tasks[s].rec
<1>0. Live(s) /\ tasks[s].room \in Rooms /\ k \in Records \cup {NoRecord}
  BY TaskFields DEF Finish, Live, Core, LiveHasRoom, SchedulerTypes
<1> PICK r \in Rooms : r = tasks[s].room
  BY <1>0
<1>1. Live(s) /\ r \in Rooms /\ k \in Records \cup {NoRecord}
  BY <1>0
<1>2. /\ tasks' = [tasks EXCEPT ![s] = Closing]
      /\ inFlight' = inFlight /\ pending' = pending /\ mail' = [mail EXCEPT ![r] = @ + 1]
      /\ \/ retry' = retry
         \/ k \in Records /\ retry' = [retry EXCEPT ![k] = "ended"]
  BY <1>1 DEF Finish, Completed
<1>3. Closing \in Tasks /\ Closing.phase = "closing"
  BY TaskTypes DEF Closing, Task
<1>4. /\ tasks' \in [Slots -> Tasks] /\ tasks'[s] = Closing
      /\ \A t \in Slots : t # s => tasks'[t] = tasks[t]
  BY <1>2, <1>3 DEF Core, SchedulerTypes
<1>5. ~Live(s)' /\ \A t \in Slots : t # s => (Live(t)' <=> Live(t))
  BY <1>3, <1>4 DEF Live
<1>6. mail[r] = 0 /\ r \in inFlight
  BY <1>1 DEF Core, SchedulerTypes, InFlightExact, HasTask
<1>7. mail' \in [Rooms -> Nat] /\ mail'[r] = 1 /\ \A q \in Rooms : q # r => mail'[q] = mail[q]
  BY <1>1, <1>2, <1>6 DEF Core, SchedulerTypes
<1>8. SchedulerTypes' /\ LiveHasRoom'
  BY <1>2, <1>4, <1>5, <1>7 DEF Core, SchedulerTypes, LiveHasRoom
<1>9. OneTaskPerRoom'
  BY <1>2, <1>4, <1>5 DEF Core, OneTaskPerRoom
<1>10. InFlightExact'
  <2>1. ~HasTask(r)'
    BY <1>1, <1>2, <1>4, <1>5 DEF Core, OneTaskPerRoom, HasTask
  <2>2. \A q \in Rooms : q # r => (HasTask(q)' <=> HasTask(q))
    BY <1>1, <1>2, <1>4, <1>5 DEF HasTask
  <2> QED
    BY <2>1, <2>2, <1>2, <1>6, <1>7 DEF Core, InFlightExact
<1>11. k # NoRecord => r = RetryRoom[k]
  BY <1>1 DEF Core, TasksLinked
<1>12. \A j \in Records : j # k => retry'[j] = retry[j]
  BY <1>2
<1>13. WaitingLinked'
  <2>1. \A i \in DOMAIN pending : pending[i].rec # NoRecord => pending[i].rec # k
    BY <1>1, <1>11 DEF Core, OneTaskPerRoom, WaitingLinked
  <2>2. \A i \in DOMAIN pending : pending[i].rec \in Records \cup {NoRecord}
    BY JobFields DEF Core, SchedulerTypes
  <2> QED
    BY <2>1, <2>2, <1>2, <1>12 DEF Core, WaitingLinked
<1>14. TasksLinked'
  <2>1. \A t \in Slots : t # s /\ Live(t) /\ tasks[t].rec # NoRecord => tasks[t].rec # k
    BY <1>1, <1>11 DEF Core, OneTaskPerRoom, TasksLinked
  <2>2. \A t \in Slots : tasks[t].rec \in Records \cup {NoRecord}
    BY TaskFields DEF Core, SchedulerTypes
  <2> QED
    BY <2>1, <2>2, <1>4, <1>5, <1>12 DEF Core, TasksLinked
<1> QED
  BY <1>8, <1>9, <1>10, <1>13, <1>14 DEF Core

\* reap reads a completion: the room was held by nothing else.
LEMMA ReceiveCore ==
  ASSUME Core, NEW r \in Rooms, mail[r] > 0,
         mail' = [mail EXCEPT ![r] = @ - 1], inFlight' = inFlight \ {r},
         pending' = pending, tasks' = tasks, retry' = retry
  PROVE  Core'
<1>1. mail[r] = 1 /\ ~HasTask(r)
  BY DEF Core, SchedulerTypes, InFlightExact
<1>2. mail' \in [Rooms -> Nat] /\ mail'[r] = 0 /\ \A q \in Rooms : q # r => mail'[q] = mail[q]
  BY <1>1 DEF Core, SchedulerTypes
<1>3. SchedulerTypes' /\ LiveHasRoom' /\ OneTaskPerRoom' /\ WaitingLinked' /\ TasksLinked'
  BY <1>2 DEF Core, SchedulerTypes, LiveHasRoom, OneTaskPerRoom, WaitingLinked, TasksLinked, Live
<1>4. \A q \in Rooms : HasTask(q)' <=> HasTask(q)
  BY DEF HasTask, Live
<1>5. InFlightExact'
  BY <1>1, <1>2, <1>4 DEF Core, InFlightExact
<1> QED
  BY <1>3, <1>5 DEF Core

\* A record's state may change as long as a queued one stays queued.
LEMMA SameCore ==
  ASSUME Core, UNCHANGED schedulerVars,
         \A k \in Records : retry[k] = "queued" => retry'[k] = "queued"
  PROVE  Core'
<1>1. SchedulerTypes' /\ LiveHasRoom' /\ OneTaskPerRoom'
  BY DEF Core, SchedulerTypes, LiveHasRoom, OneTaskPerRoom, Live, schedulerVars
<1>2. \A q \in Rooms : HasTask(q)' <=> HasTask(q)
  BY DEF HasTask, Live, schedulerVars
<1>3. InFlightExact'
  BY <1>2 DEF Core, InFlightExact, schedulerVars
<1>4. \A i \in DOMAIN pending : pending[i].rec \in Records \cup {NoRecord}
  BY JobFields DEF Core, SchedulerTypes
<1>5. \A t \in Slots : tasks[t].rec \in Records \cup {NoRecord}
  BY TaskFields DEF Core, SchedulerTypes
<1>6. WaitingLinked' /\ TasksLinked'
  BY <1>4, <1>5 DEF Core, WaitingLinked, TasksLinked, Live, schedulerVars
<1> QED
  BY <1>1, <1>3, <1>6 DEF Core

\* What enqueue admits, in either of its two ways.
LEMMA AdmitCore ==
  ASSUME Core, NEW r \in Rooms, NEW k \in Records \cup {NoRecord},
         Admissible(r), Admit(Job(r, k)), retry' = retry,
         k # NoRecord => r = RetryRoom[k] /\ retry[k] = "queued"
  PROVE  Core' /\ (Served => Served') /\ inFlight \subseteq inFlight' /\ r \in inFlight'
<1>1. Job(r, k).room = r /\ Job(r, k).rec = k /\ r \notin inFlight /\ ~QueueFull
  BY DEF Job, Admissible, DuplicateRoom
<1>2. inFlight' = inFlight \cup {r} /\ mail' = mail
  BY <1>1 DEF Admit
<1>3. CASE \E s \in Slots : tasks[s].phase = "free" /\ tasks' = Spawned(Job(r, k), s)
                           /\ pending' = pending
  <2>1. PICK s \in Slots : tasks[s].phase = "free" /\ tasks' = Spawned(Job(r, k), s)
                          /\ pending' = pending
    BY <1>3
  <2>2. Core'
    BY <2>1, <1>1, <1>2, SpawnCore
  <2>3. SlotFree
    BY <2>1 DEF SlotFree
  <2>4. Served => Served'
    BY <2>1, <2>3 DEF Served
  <2> QED
    BY <2>2, <2>4, <1>2
<1>4. CASE ~SlotFree /\ pending' = Append(pending, Job(r, k)) /\ tasks' = tasks
  <2>1. Len(pending) < PendingCapacity
    BY <1>1, <1>4, ConstantTypes DEF QueueFull, Core, SchedulerTypes
  <2>2. Core'
    BY <2>1, <1>1, <1>2, <1>4, QueueCore
  <2>3. Served'
    BY <1>4 DEF Served, SlotFree
  <2> QED
    BY <2>2, <2>3, <1>2
<1> QED
  BY <1>3, <1>4 DEF Admit

-----------------------------------------------------------------------------
(* The other variables.                                                     *)

LEMMA TypesImplied == IInv => TypeOK
  BY DEF IInv, Core, TypeOK, SchedulerTypes, LoopTypes, RetryTypes, RetryStates

\* The delay doubles within its limit.
LEMMA RecordRetryTypes ==
  ASSUME LoopTypes, RecordRetry
  PROVE  wait' \in 0..MaxDelay /\ delay' \in 0..MaxDelay
<1>1. MaxDelay \in Nat \ {0} /\ delay \in 0..MaxDelay
  BY ConstantTypes DEF LoopTypes
<1> DEFINE next == IF delay = 0 THEN 1 ELSE Lesser(delay, MaxDelay)
<1>2. next \in 0..MaxDelay
  BY <1>1 DEF Lesser
<1>3. wait' = next /\ delay' = Lesser(2 * next, MaxDelay)
  BY DEF RecordRetry
<1> HIDE DEF next
<1> QED
  BY <1>1, <1>2, <1>3 DEF Lesser

LEMMA ClearRetryTypes ==
  ASSUME wait' = 0, delay' = 0
  PROVE  wait' \in 0..MaxDelay /\ delay' \in 0..MaxDelay
  BY ConstantTypes

\* The retries of the records, when no record and no run of one changes.
LEMMA RetriesKept ==
  ASSUME RetryTypes, ListedFresh, RunsCounted,
         UNCHANGED <<retry, runs, unmarked>>, storeErrors' \in Nat,
         listed' \subseteq listed,
         pc' # "offer" => listed' = {},
         listed' # {} => inFlight \subseteq inFlight'
  PROVE  RetryTypes' /\ ListedFresh' /\ RunsCounted'
<1>1. RetryTypes'
  BY DEF RetryTypes
<1>2. ListedFresh'
  BY DEF ListedFresh
<1>3. RunsCounted'
  BY DEF RunsCounted, Marked
<1> QED
  BY <1>1, <1>2, <1>3

\* A step that leaves the loop's own data alone and stays in its stage.
LEMMA LoopKept ==
  ASSUME LoopTypes, UNCHANGED backlogVars, pc' \in Stages
  PROVE  LoopTypes'
  BY DEF LoopTypes, backlogVars

\* QueueServed in terms of Served.
LEMMA ServedKept ==
  ASSUME QueueServed, pc \notin {"recv", "join", "fill"}, Served => Served'
  PROVE  QueueServed'
  BY DEF QueueServed, Served

LEMMA ServedSame ==
  ASSUME UNCHANGED schedulerVars
  PROVE  Served <=> Served'
  BY DEF Served, SlotFree, schedulerVars

-----------------------------------------------------------------------------
(* The tasks and the environment.                                           *)

USE DEF retryVars

\* Begin, Finish and End never free a slot: reap does.
LEMMA NeverFreed ==
  ASSUME Core, NEW s \in Slots, tasks[s].phase # "free",
         NEW task, task.phase # "free", tasks' = [tasks EXCEPT ![s] = task],
         pending' = pending, pc' = pc, QueueServed
  PROVE  QueueServed'
<1>1. SlotFree' => SlotFree
  BY DEF SlotFree, Core, SchedulerTypes
<1> QED
  BY <1>1 DEF QueueServed

LEMMA BeginStep ==
  ASSUME IInv, NEW s \in Slots, Begin(s)
  PROVE  IInv'
<1> DEFINE k == tasks[s].rec
           T == Task("running", tasks[s].room, k)
<1>1. RetryTypes /\ LoopTypes /\ Core /\ ListedFresh /\ RunsCounted /\ QueueServed
  BY DEF IInv
<1>2. Core'
  BY <1>1, BeginCore DEF RetryTypes, RetryStates
<1>3. Live(s) /\ k \in Records \cup {NoRecord}
  BY <1>1, TaskFields DEF Begin, Live, Core, SchedulerTypes
<1>4. LoopTypes'
  BY <1>1, LoopKept DEF Begin, LoopTypes
<1>5. QueueServed'
  <2>1. T.phase # "free"
    BY DEF Task
  <2>2. tasks' = [tasks EXCEPT ![s] = T] /\ tasks[s].phase # "free"
    BY DEF Begin
  <2> HIDE DEF T
  <2> QED
    BY <1>1, <2>1, <2>2, NeverFreed DEF Begin
<1>6. CASE k = NoRecord
  <2>1. UNCHANGED <<pc, inFlight, retry, runs, unmarked, storeErrors, listed>>
    BY <1>6 DEF Begin
  <2>2. RetryTypes' /\ ListedFresh' /\ RunsCounted'
    BY <1>1, <2>1, RetriesKept DEF RetryTypes, ListedFresh
  <2> QED
    BY <1>2, <1>4, <1>5, <2>2 DEF IInv
<1>7. CASE k # NoRecord
  <2>1. /\ k \in Records
        /\ UNCHANGED <<pc, inFlight, listed>>
        /\ runs' = [runs EXCEPT ![k] = @ + 1]
        /\ \/ retry' = [retry EXCEPT ![k] = "running"] /\ UNCHANGED <<unmarked, storeErrors>>
           \/ /\ storeErrors' = storeErrors + 1
              /\ unmarked' = [unmarked EXCEPT ![k] = @ + 1]
              /\ retry' = retry
    BY <1>3, <1>7 DEF Begin
  <2>2. retry[k] = "queued" /\ RetryRoom[k] \in inFlight
    <3>1. tasks[s].room = RetryRoom[k] /\ retry[k] = "queued"
      BY <1>1, <1>3, <1>7 DEF Core, TasksLinked, Begin
    <3>2. tasks[s].room \in inFlight
      BY <1>1, <1>3 DEF Core, LiveHasRoom, InFlightExact, HasTask
    <3> QED
      BY <3>1, <3>2
  <2> HIDE DEF k
  <2>3. RetryTypes'
    BY <1>1, <2>1 DEF RetryTypes, RetryStates
  <2>4. ListedFresh'
    BY <1>1, <2>1, <2>2 DEF ListedFresh, RetryTypes
  <2>5. RunsCounted'
    BY <1>1, <2>1, <2>2 DEF RunsCounted, Marked, RetryTypes
  <2> QED
    BY <1>2, <1>4, <1>5, <2>3, <2>4, <2>5 DEF IInv
<1> QED
  BY <1>6, <1>7

LEMMA FinishStep ==
  ASSUME IInv, NEW s \in Slots, Finish(s)
  PROVE  IInv'
<1> DEFINE k == tasks[s].rec
<1>1. RetryTypes /\ LoopTypes /\ Core /\ ListedFresh /\ RunsCounted /\ QueueServed
  BY DEF IInv
<1>2. Core'
  BY <1>1, FinishCore DEF RetryTypes, RetryStates
<1>3. Live(s) /\ k \in Records \cup {NoRecord}
  BY <1>1, TaskFields DEF Finish, Live, Core, SchedulerTypes
<1>4. LoopTypes'
  BY <1>1, LoopKept DEF Finish, LoopTypes
<1>5. QueueServed'
  <2>1. Closing.phase # "free"
    BY DEF Closing, Task
  <2> QED
    BY <1>1, <2>1, NeverFreed DEF Finish
<1>6. CASE retry' = retry
  <2>1. RetryTypes' /\ ListedFresh' /\ RunsCounted'
    BY <1>1, <1>6, RetriesKept DEF RetryTypes, ListedFresh, Finish
  <2> QED
    BY <1>2, <1>4, <1>5, <2>1 DEF IInv
<1>7. CASE k # NoRecord /\ retry' = [retry EXCEPT ![k] = "ended"]
  <2>1. k \in Records /\ UNCHANGED <<pc, inFlight, listed, runs, unmarked, storeErrors>>
    BY <1>3, <1>7 DEF Finish
  <2>2. RetryRoom[k] \in inFlight
    <3>1. tasks[s].room = RetryRoom[k]
      BY <1>1, <1>3, <1>7 DEF Core, TasksLinked
    <3>2. tasks[s].room \in inFlight
      BY <1>1, <1>3 DEF Core, LiveHasRoom, InFlightExact, HasTask
    <3> QED
      BY <3>1, <3>2
  <2> HIDE DEF k
  <2>3. RetryTypes'
    BY <1>1, <1>7, <2>1 DEF RetryTypes, RetryStates
  <2>4. ListedFresh'
    BY <1>1, <1>7, <2>1, <2>2 DEF ListedFresh, RetryTypes
  <2>5. RunsCounted'
    BY <1>1, <1>7, <2>1 DEF RunsCounted, Marked, RetryTypes
  <2> QED
    BY <1>2, <1>4, <1>5, <2>3, <2>4, <2>5 DEF IInv
<1> QED
  BY <1>6, <1>7 DEF Finish

LEMMA EndStep ==
  ASSUME IInv, NEW s \in Slots, End(s)
  PROVE  IInv'
<1>1. Ended \in Tasks /\ Ended.phase = "ended"
  BY TaskTypes DEF Ended, Task
<1>2. ~Live(s)
  BY DEF End, Live
<1>3. Core'
  BY <1>1, <1>2, IdleSlotCore DEF IInv, End
<1>4. LoopTypes'
  BY LoopKept DEF IInv, End, LoopTypes
<1>5. QueueServed'
  BY <1>1, NeverFreed DEF IInv, End
<1>6. RetryTypes' /\ ListedFresh' /\ RunsCounted'
  BY RetriesKept DEF IInv, End, RetryTypes, ListedFresh
<1> QED
  BY <1>3, <1>4, <1>5, <1>6 DEF IInv

\* What a step of the loop leaves alone when it touches no record.
LEMMA LoopStep ==
  ASSUME IInv, UNCHANGED <<schedulerVars, retryVars>>, storeErrors' \in Nat,
         pc # "offer", pc' # "offer", LoopTypes',
         pc' \in {"recv", "join", "fill"} \/ pc \notin {"recv", "join", "fill"}
  PROVE  IInv'
<1>1. Core'
  BY SameCore DEF IInv
<1>2. RetryTypes' /\ ListedFresh' /\ RunsCounted'
  BY RetriesKept DEF IInv, ListedFresh
<1>3. QueueServed'
  BY ServedSame DEF IInv, QueueServed, Served
<1> QED
  BY <1>1, <1>2, <1>3 DEF IInv

LEMMA TickStep == ASSUME IInv, Tick PROVE IInv'
<1>1. wait' \in 0..MaxDelay
  BY ConstantTypes DEF IInv, LoopTypes, Tick
<1>2. LoopTypes'
  BY <1>1 DEF IInv, LoopTypes, Tick
<1>3. Core'
  BY SameCore DEF IInv, Tick
<1>4. RetryTypes' /\ ListedFresh' /\ RunsCounted'
  BY RetriesKept DEF IInv, Tick, RetryTypes, ListedFresh, schedulerVars
<1>5. QueueServed'
  BY ServedSame DEF IInv, Tick, QueueServed, Served
<1> QED
  BY <1>2, <1>3, <1>4, <1>5 DEF IInv

LEMMA RequestStep == ASSUME IInv, NEW k \in Records, Request(k) PROVE IInv'
<1>1. /\ retry' = [retry EXCEPT ![k] = "queued"] /\ retry[k] = "none"
      /\ UNCHANGED <<pc, schedulerVars, backlogVars, listed, runs, unmarked, storeErrors>>
  BY DEF Request
<1>2. RetryTypes'
  BY <1>1 DEF IInv, RetryTypes, RetryStates
<1>3. \A j \in Records : retry[j] = "queued" => retry'[j] = "queued"
  BY <1>1 DEF IInv, RetryTypes
<1>4. Core'
  BY <1>1, <1>3, SameCore DEF IInv
<1>5. ListedFresh'
  BY <1>1, <1>3 DEF IInv, ListedFresh, RetryTypes, schedulerVars
<1>6. RunsCounted'
  BY <1>1 DEF IInv, RunsCounted, Marked, RetryTypes
<1>7. LoopTypes'
  BY <1>1, LoopKept DEF IInv, LoopTypes
<1>8. QueueServed'
  BY <1>1, ServedSame DEF IInv, QueueServed, Served
<1> QED
  BY <1>2, <1>4, <1>5, <1>6, <1>7, <1>8 DEF IInv

-----------------------------------------------------------------------------
(* The stages of the main loop.                                             *)

LEMMA ReloadStep == ASSUME IInv, Reload PROVE IInv'
<1>1. pc = "reload" /\ pc' = "recv"
      /\ UNCHANGED <<schedulerVars, retryVars, storeErrors>>
  BY DEF Reload, Goto
<1>2. backlog' \in Seq(Rooms) /\ queueFull' = queueFull /\ requests' = requests
  <2>1. backlog' \in {backlog, <<>>} /\ queueFull' = queueFull /\ requests' = requests
    BY DEF Reload, backlogVars
  <2>2. <<>> \in Seq(Rooms)
    OBVIOUS
  <2> QED
    BY <2>1, <2>2 DEF IInv, LoopTypes
<1>3. wait' \in 0..MaxDelay /\ delay' \in 0..MaxDelay
  BY ClearRetryTypes DEF Reload, IInv, LoopTypes, backlogVars
<1>4. enabled' \in BOOLEAN
  BY Zenon DEF Reload, IInv, LoopTypes, backlogVars
<1>5. LoopTypes'
  BY <1>1, <1>2, <1>3, <1>4 DEF IInv, LoopTypes, Stages
<1> QED
  BY <1>1, <1>5, LoopStep DEF IInv, RetryTypes

LEMMA ReceiveStep == ASSUME IInv, Receive PROVE IInv'
<1>1. /\ pc = "recv" /\ pc' \in {"recv", "join"}
      /\ UNCHANGED <<pending, tasks, backlogVars, retryVars, storeErrors>>
  BY DEF Receive
<1>2. LoopTypes'
  BY <1>1, LoopKept DEF IInv, Stages
<1>3. Core'
  <2>1. CASE UNCHANGED <<mail, inFlight>>
    BY <2>1, <1>1, SameCore DEF IInv, schedulerVars
  <2>2. CASE \E r \in Rooms : /\ mail[r] > 0 /\ mail' = [mail EXCEPT ![r] = @ - 1]
                              /\ inFlight' = inFlight \ {r}
    BY <2>2, <1>1, ReceiveCore DEF IInv
  <2> QED
    BY <2>1, <2>2 DEF Receive
<1>4. RetryTypes' /\ ListedFresh' /\ RunsCounted'
  BY <1>1, RetriesKept DEF IInv, RetryTypes, ListedFresh
<1>5. QueueServed'
  BY <1>1 DEF QueueServed
<1> QED
  BY <1>2, <1>3, <1>4, <1>5 DEF IInv

LEMMA JoinStep == ASSUME IInv, Join PROVE IInv'
<1>1. /\ pc = "join" /\ pc' \in {"join", "fill"}
      /\ UNCHANGED <<inFlight, pending, mail, backlogVars, retryVars, storeErrors>>
  BY DEF Join
<1>2. LoopTypes'
  BY <1>1, LoopKept DEF IInv, Stages
<1>3. Core'
  <2>1. CASE tasks' = tasks
    BY <2>1, <1>1, SameCore DEF IInv, schedulerVars
  <2>2. CASE \E s \in Slots : /\ tasks[s].phase = "ended"
                              /\ tasks' = [tasks EXCEPT ![s] = Free]
    <3>1. PICK s \in Slots : tasks[s].phase = "ended" /\ tasks' = [tasks EXCEPT ![s] = Free]
      BY <2>2
    <3>2. Free \in Tasks /\ Free.phase = "free" /\ ~Live(s)
      BY <3>1, TaskTypes DEF Free, Task, Live
    <3> QED
      BY <1>1, <3>1, <3>2, IdleSlotCore DEF IInv
  <2> QED
    BY <2>1, <2>2 DEF Join
<1>4. RetryTypes' /\ ListedFresh' /\ RunsCounted'
  BY <1>1, RetriesKept DEF IInv, RetryTypes, ListedFresh
<1>5. QueueServed'
  BY <1>1 DEF QueueServed
<1> QED
  BY <1>2, <1>3, <1>4, <1>5 DEF IInv

LEMMA FillStep == ASSUME IInv, Fill PROVE IInv'
<1>1. /\ pc = "fill" /\ pc' \in {"fill", "plan"}
      /\ UNCHANGED <<inFlight, mail, backlogVars, retryVars, storeErrors>>
  BY DEF Fill
<1>2. LoopTypes'
  BY <1>1, LoopKept DEF IInv, Stages
<1>3. RetryTypes' /\ ListedFresh' /\ RunsCounted'
  BY <1>1, RetriesKept DEF IInv, RetryTypes, ListedFresh
<1>4. CASE /\ pending # <<>> /\ pending' = Tail(pending) /\ pc' = pc
           /\ \E s \in Slots : /\ tasks[s].phase = "free"
                               /\ tasks' = Spawned(Head(pending), s)
  <2>1. Core'
    BY <1>1, <1>4, FillCore DEF IInv
  <2>2. QueueServed'
    BY <1>1, <1>4 DEF QueueServed
  <2> QED
    BY <1>2, <1>3, <2>1, <2>2 DEF IInv
<1>5. CASE ~GoesOn /\ UNCHANGED <<tasks, pending>>
  <2>1. Core'
    BY <1>1, <1>5, SameCore DEF IInv, schedulerVars
  <2>2. QueueServed'
    BY <1>5 DEF QueueServed, GoesOn, SlotFree
  <2> QED
    BY <1>2, <1>3, <2>1, <2>2 DEF IInv
<1> QED
  BY <1>4, <1>5 DEF Fill

LEMMA PlanStep == ASSUME IInv, Plan PROVE IInv'
<1>1. /\ pc = "plan" /\ pc' \in {"plan", "drain"}
      /\ UNCHANGED <<queueFull, wait, delay, enabled, schedulerVars, retryVars, storeErrors>>
  BY DEF Plan
<1>2. backlog' \in Seq(Rooms) /\ requests' \in Nat
  <2>1. backlog \in Seq(Rooms) /\ requests \in Nat
    BY DEF IInv, LoopTypes
  <2>2. \A r \in Rooms : Append(backlog, r) \in Seq(Rooms)
    BY <2>1
  <2> QED
    BY <2>1, <2>2 DEF Plan
<1>3. LoopTypes'
  BY <1>1, <1>2 DEF IInv, LoopTypes, Stages
<1> QED
  BY <1>1, <1>3, LoopStep DEF IInv, RetryTypes

LEMMA DrainStep == ASSUME IInv, Drain PROVE IInv'
<1>1. /\ pc = "drain" /\ pc' \in {"pop", "list"} /\ queueFull' = FALSE
      /\ UNCHANGED <<backlog, wait, delay, enabled, requests, schedulerVars, retryVars,
                     storeErrors>>
  BY DEF Drain
<1>2. LoopTypes'
  BY <1>1 DEF IInv, LoopTypes, Stages
<1> QED
  BY <1>1, <1>2, LoopStep DEF IInv, RetryTypes

LEMMA DrainEndsStep == ASSUME IInv, DrainEnds PROVE IInv'
<1>1. /\ pc = "pop" /\ pc' = "list"
      /\ UNCHANGED <<backlog, queueFull, enabled, requests, schedulerVars, retryVars,
                     storeErrors>>
  BY DEF DrainEnds
<1>2. wait' \in 0..MaxDelay /\ delay' \in 0..MaxDelay
  BY RecordRetryTypes, ClearRetryTypes DEF DrainEnds, ClearRetry, IInv
<1>3. LoopTypes'
  BY <1>1, <1>2 DEF IInv, LoopTypes, Stages
<1> QED
  BY <1>1, <1>3, LoopStep DEF IInv, RetryTypes

\* The request at the head of the backlog.
LEMMA Popped ==
  ASSUME LoopTypes, backlog # <<>>
  PROVE  /\ Head(backlog) \in Rooms /\ Tail(backlog) \in Seq(Rooms)
         /\ PutBack(Head(backlog)) \in Seq(Rooms)
<1>1. backlog \in Seq(Rooms)
  BY DEF LoopTypes
<1>2. Head(backlog) \in Rooms /\ Tail(backlog) \in Seq(Rooms)
  BY <1>1
<1>3. \A q \in Seq(Rooms), r \in Rooms : Append(q, r) \in Seq(Rooms)
  OBVIOUS
<1> QED
  BY <1>2, <1>3 DEF PutBack

LEMMA PopStep == ASSUME IInv, Pop PROVE IInv'
<1>1. /\ pc = "pop" /\ backlog # <<>>
      /\ UNCHANGED <<enabled, requests, retryVars>>
      /\ ReadFails \/ RateLimited \/ Scheduled \/ Refused
  BY DEF Pop
<1>2. /\ Head(backlog) \in Rooms /\ Tail(backlog) \in Seq(Rooms)
      /\ PutBack(Head(backlog)) \in Seq(Rooms)
  BY <1>1, Popped DEF IInv
<1>3. ASSUME ReadFails PROVE IInv'
  <2>1. UNCHANGED schedulerVars /\ storeErrors' \in Nat /\ pc' = "list"
    BY <1>3 DEF ReadFails, IInv, RetryTypes
  <2>2. wait' \in 0..MaxDelay /\ delay' \in 0..MaxDelay
    BY <1>3, RecordRetryTypes DEF ReadFails, IInv
  <2>3. LoopTypes'
    BY <1>1, <1>3, <2>1, <2>2 DEF ReadFails, IInv, LoopTypes, Stages
  <2> QED
    BY <1>1, <2>1, <2>3, LoopStep
<1>4. ASSUME RateLimited PROVE IInv'
  <2>1. LoopTypes'
    BY <1>1, <1>2, <1>4 DEF RateLimited, IInv, LoopTypes
  <2> QED
    BY <1>1, <1>4, <2>1, LoopStep DEF RateLimited, IInv, RetryTypes
<1>5. ASSUME Scheduled PROVE IInv'
  <2> DEFINE r == Head(backlog)
  <2>1. Admissible(r) /\ Admit(Job(r, NoRecord)) /\ retry' = retry
    BY <1>1, <1>5 DEF Scheduled
  <2>2. LoopTypes'
    BY <1>1, <1>2, <1>5 DEF Scheduled, IInv, LoopTypes
  <2> HIDE DEF r
  <2>3. Core' /\ (Served => Served') /\ inFlight \subseteq inFlight'
    BY <1>2, <2>1, AdmitCore DEF IInv, r
  <2>4. RetryTypes' /\ ListedFresh' /\ RunsCounted'
    BY <1>1, <1>5, <2>3, RetriesKept DEF Scheduled, IInv, RetryTypes, ListedFresh
  <2>5. QueueServed'
    BY <1>1, <2>3, ServedKept DEF IInv
  <2> QED
    BY <2>2, <2>3, <2>4, <2>5 DEF IInv
<1>6. ASSUME Refused PROVE IInv'
  <2>1. queueFull' \in BOOLEAN
    BY <1>6, Zenon DEF Refused, IInv, LoopTypes
  <2>2. LoopTypes'
    BY <1>1, <1>2, <1>6, <2>1 DEF Refused, IInv, LoopTypes
  <2> QED
    BY <1>1, <1>6, <2>2, LoopStep DEF Refused, IInv, RetryTypes
<1> QED
  BY <1>1, <1>3, <1>4, <1>5, <1>6

LEMMA ListStep == ASSUME IInv, List PROVE IInv'
<1>1. /\ pc = "list" /\ pc' = "offer"
      /\ UNCHANGED <<schedulerVars, backlogVars, retry, runs, unmarked>>
      /\ listed' \subseteq Waiting
      /\ storeErrors' \in Nat
  <2>1. listed' \subseteq Waiting
    BY DEF List
  <2>2. storeErrors' \in Nat
    BY DEF List, IInv, RetryTypes
  <2> QED
    BY <2>1, <2>2 DEF List, Goto
<1>2. Core' /\ LoopTypes'
  BY <1>1, SameCore, LoopKept DEF IInv, Stages
<1>3. RetryTypes' /\ ListedFresh'
  BY <1>1 DEF IInv, RetryTypes, ListedFresh, Waiting
<1>4. RunsCounted'
  BY <1>1 DEF IInv, RunsCounted, Marked
<1>5. QueueServed'
  BY <1>1, ServedSame DEF IInv, QueueServed, Served
<1> QED
  BY <1>2, <1>3, <1>4, <1>5 DEF IInv

\* A listed record whose room is free is still queued: the offer may stand.
LEMMA OfferStep == ASSUME IInv, Offer PROVE IInv'
<1>1. /\ pc = "offer" /\ pc' \in {"offer", "watch"}
      /\ UNCHANGED <<backlogVars, retry, runs, unmarked, storeErrors>>
  BY DEF Offer
<1>2. LoopTypes'
  BY <1>1, LoopKept DEF IInv, Stages
<1>3. CASE listed' = {} /\ UNCHANGED schedulerVars
  <2>1. Core'
    BY <1>1, <1>3, SameCore DEF IInv
  <2>2. RetryTypes' /\ ListedFresh' /\ RunsCounted'
    BY <1>1, <1>3, RetriesKept DEF IInv, RetryTypes
  <2>3. QueueServed'
    BY <1>1, <1>3, ServedSame, ServedKept DEF IInv
  <2> QED
    BY <1>2, <2>1, <2>2, <2>3 DEF IInv
<1>4. ASSUME NEW k \in listed, Admissible(RetryRoom[k]), Admit(Job(RetryRoom[k], k)),
             listed' = listed \ {k}, pc' = pc
      PROVE  IInv'
  <2>1. k \in Records /\ RetryRoom[k] \in Rooms
    BY ConstantTypes DEF IInv, RetryTypes
  <2>2. retry[k] = "queued"
    BY <1>4 DEF IInv, ListedFresh, Admissible, DuplicateRoom
  <2>3. Core' /\ (Served => Served') /\ inFlight \subseteq inFlight'
    BY <1>1, <1>4, <2>1, <2>2, AdmitCore DEF IInv
  <2>4. RetryTypes' /\ ListedFresh' /\ RunsCounted'
    BY <1>1, <1>4, <2>3, RetriesKept DEF IInv, RetryTypes
  <2>5. QueueServed'
    BY <1>1, <2>3, ServedKept DEF IInv
  <2> QED
    BY <1>2, <2>3, <2>4, <2>5 DEF IInv
<1> QED
  BY <1>3, <1>4 DEF Offer

\* An event is admitted or dropped.
LEMMA TriggerStep ==
  ASSUME IInv, NEW r \in Rooms, Trigger(r),
         pc \in {"watch", "listen"}, pc' \in {"watch", "reload"},
         UNCHANGED <<backlogVars, retryVars, storeErrors>>
  PROVE  IInv'
<1>1. LoopTypes'
  BY LoopKept DEF IInv, Stages
<1>2. CASE UNCHANGED schedulerVars
  BY <1>1, <1>2, LoopStep DEF IInv, RetryTypes
<1>3. CASE Admissible(r) /\ Admit(Job(r, NoRecord))
  <2>1. Core' /\ (Served => Served') /\ inFlight \subseteq inFlight'
    BY <1>3, AdmitCore DEF IInv
  <2>2. RetryTypes' /\ ListedFresh' /\ RunsCounted'
    BY <2>1, RetriesKept DEF IInv, RetryTypes, ListedFresh
  <2>3. QueueServed'
    BY <2>1, ServedKept DEF IInv
  <2> QED
    BY <1>1, <2>1, <2>2, <2>3 DEF IInv
<1> QED
  BY <1>2, <1>3 DEF Trigger

LEMMA WatchStep == ASSUME IInv, Watch PROVE IInv'
<1>1. /\ pc = "watch" /\ pc' \in {"watch", "listen"}
      /\ UNCHANGED <<backlogVars, retryVars, storeErrors>>
  BY DEF Watch
<1>2. CASE UNCHANGED schedulerVars
  BY <1>1, <1>2, LoopStep, LoopKept DEF IInv, RetryTypes, Stages
<1>3. CASE (\E r \in Rooms : Trigger(r)) /\ pc' = pc
  BY <1>1, <1>3, TriggerStep
<1> QED
  BY <1>2, <1>3 DEF Watch

LEMMA ListenStep == ASSUME IInv, Listen PROVE IInv'
<1>1. /\ pc = "listen" /\ pc' = "reload"
      /\ UNCHANGED <<backlogVars, retryVars, storeErrors>>
  BY DEF Listen, Goto
<1>2. CASE UNCHANGED schedulerVars
  BY <1>1, <1>2, LoopStep, LoopKept DEF IInv, RetryTypes, Stages
<1>3. CASE \E r \in Rooms : Trigger(r)
  BY <1>1, <1>3, TriggerStep
<1> QED
  BY <1>2, <1>3 DEF Listen

-----------------------------------------------------------------------------
(* The theorems.                                                            *)

LEMMA InitIInv == Init => IInv
<1> SUFFICES ASSUME Init PROVE IInv
  OBVIOUS
<1>1. SchedulerTypes /\ LoopTypes /\ RetryTypes
  BY InitTypes
<1>2. DOMAIN pending = {} /\ \A s \in Slots : ~Live(s)
  BY DEF Init, Live, Free, Task
<1>3. LiveHasRoom /\ OneTaskPerRoom /\ WaitingLinked /\ TasksLinked
  BY <1>2 DEF LiveHasRoom, OneTaskPerRoom, WaitingLinked, TasksLinked
<1>4. InFlightExact
  BY <1>2 DEF Init, InFlightExact, HasTask
<1>5. QueueServed /\ ListedFresh /\ RunsCounted
  BY DEF Init, QueueServed, ListedFresh, RunsCounted, Marked
<1> QED
  BY <1>1, <1>3, <1>4, <1>5 DEF IInv, Core

LEMMA StutterStep == ASSUME IInv, UNCHANGED vars PROVE IInv'
<1>1. UNCHANGED <<pc, schedulerVars, backlogVars, retryVars, storeErrors>>
  BY DEF vars, schedulerVars, backlogVars
<1>2. Core'
  BY <1>1, SameCore DEF IInv
<1>3. LoopTypes'
  BY <1>1, LoopKept DEF IInv, LoopTypes
<1>4. RetryTypes' /\ ListedFresh' /\ RunsCounted'
  BY <1>1, RetriesKept DEF IInv, RetryTypes, ListedFresh, schedulerVars
<1>5. QueueServed'
  BY <1>1, ServedSame DEF IInv, QueueServed, Served
<1> QED
  BY <1>2, <1>3, <1>4, <1>5 DEF IInv

LEMMA NextIInv == IInv /\ [Next]_vars => IInv'
<1> SUFFICES ASSUME IInv, [Next]_vars PROVE IInv'
  OBVIOUS
<1>1. CASE MainLoop
  BY <1>1, ReloadStep, ReceiveStep, JoinStep, FillStep, PlanStep, DrainStep, PopStep,
     DrainEndsStep, ListStep, OfferStep, WatchStep, ListenStep DEF MainLoop
<1>2. ASSUME NEW s \in Slots, Begin(s) \/ Finish(s) \/ End(s) PROVE IInv'
  BY <1>2, BeginStep, FinishStep, EndStep
<1>3. CASE Tick
  BY <1>3, TickStep
<1>4. ASSUME NEW k \in Records, Request(k) PROVE IInv'
  BY <1>4, RequestStep
<1>5. CASE UNCHANGED vars
  BY <1>5, StutterStep
<1> QED
  BY <1>1, <1>2, <1>3, <1>4, <1>5 DEF Next

LEMMA Invariance == Spec => []IInv
  BY InitIInv, NextIInv, PTL DEF Spec

\* The scheduler's variables keep their types and the queue its capacity.
THEOREM TypeCorrect == Spec => []TypeOK
  BY Invariance, TypesImplied, PTL

\* No two tasks of one room, however commands, schedule and retries interleave.
THEOREM RoomsExclude == Spec => []OneTaskPerRoom
<1>1. IInv => OneTaskPerRoom
  BY DEF IInv, Core
<1> QED
  BY <1>1, Invariance, PTL

\* in_flight neither leaks a room nor frees one under a task.
THEOREM InFlightIsExact == Spec => []InFlightExact
<1>1. IInv => InFlightExact
  BY DEF IInv, Core
<1> QED
  BY <1>1, Invariance, PTL

\* Outside reap no task waits beside a free slot.
THEOREM QueueIsServed == Spec => []QueueServed
<1>1. IInv => QueueServed
  BY DEF IInv
<1> QED
  BY <1>1, Invariance, PTL

\* A retry runs once, and once more for each start the database did not take.
THEOREM RetriesRunOnce == Spec => []RetryRunsOnce
<1>1. IInv => RetryRunsOnce
  BY DEF IInv, RetryTypes, RunsCounted, Marked, RetryRunsOnce
<1> QED
  BY <1>1, Invariance, PTL
=============================================================================
