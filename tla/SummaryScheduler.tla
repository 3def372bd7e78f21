------------------------ MODULE SummaryScheduler ------------------------
(***************************************************************************)
(* The main loop of the agent (run_agent) as a scheduler of summary tasks: *)
(* SummaryTaskScheduler (summary_scheduler.rs) admits at most one task of  *)
(* a room at a time, runs MAX_CONCURRENCY of them and keeps a short queue; *)
(* it is fed by chat events, by the backlog of scheduled summaries         *)
(* (scheduled_backlog.rs) and by the retries the operator asked for        *)
(* (scheduled_runner.rs).                                                  *)
(*                                                                         *)
(* The tasks run beside the loop: one sends its completion, and only later *)
(* becomes joinable; the loop reads completions, joins tasks and refills   *)
(* the slots in three separate sweeps of reap.                             *)
(***************************************************************************)
EXTENDS Naturals, Sequences, FiniteSets

CONSTANTS
  Rooms,
  Slots,            \* places in the JoinSet; max_concurrency = Cardinality(Slots)
  PendingCapacity,
  RetryRoom,        \* the room of each task record the operator may retry,
                    \* in the order of created_at
  RetryBatch,       \* records one pass of the loop lists (8)
  IgnoreRateLimit,  \* scheduled_summary.ignore_rate_limit
  MaxDelay,         \* longest retry delay of the backlog (30 s)
  \* Bounds of the model.
  MaxRequests, MaxStoreErrors

Records == DOMAIN RetryRoom

NoRecord == 0       \* a task that is no retry

NoRoom == "none"

ASSUME SchedulerAssumption ==
  /\ IsFiniteSet(Slots)
  /\ NoRoom \notin Rooms
  /\ PendingCapacity \in Nat
  /\ RetryRoom \in Seq(Rooms)
  /\ RetryBatch \in Nat
  /\ IgnoreRateLimit \in BOOLEAN
  /\ MaxDelay \in Nat \ {0}

VARIABLES
  pc,               \* stage of the main loop
  inFlight,         \* rooms that have a task
  pending,          \* tasks that wait for a slot
  tasks,            \* the JoinSet
  mail,             \* unread completions of each room
  backlog,          \* rooms whose scheduled summary is due
  queueFull,        \* this drain met a full queue
  wait,             \* seconds until next_retry_at
  delay,            \* retry_delay
  enabled,          \* scheduled_summary.enabled
  requests,         \* scheduled requests made
  retry,            \* state of each task record
  listed,           \* records this pass has read and not yet offered
  runs,             \* how often the retry of each record ran (history)
  unmarked,         \* runs whose start could not be stored (history)
  storeErrors

vars == <<pc, inFlight, pending, tasks, mail, backlog, queueFull, wait, delay,
          enabled, requests, retry, listed, runs, unmarked, storeErrors>>

schedulerVars == <<inFlight, pending, tasks, mail>>
backlogVars   == <<backlog, queueFull, wait, delay, enabled, requests>>
retryVars     == <<retry, listed, runs, unmarked>>

Stages == {"reload", "recv", "join", "fill", "plan", "drain", "pop", "list",
           "offer", "watch", "listen"}

\* A future the scheduler was given.
Jobs == [room : Rooms, rec : Records \cup {NoRecord}]

Job(r, k) == [room |-> r, rec |-> k]

\* A slot is free, holds a task that has not ended, or one that has sent its
\* completion and then ended.
Tasks == [phase : {"free", "spawned", "running", "closing", "ended"},
          room : Rooms \cup {NoRoom}, rec : Records \cup {NoRecord}]

Task(phase, r, k) == [phase |-> phase, room |-> r, rec |-> k]

Free    == Task("free", NoRoom, NoRecord)
Closing == Task("closing", NoRoom, NoRecord)
Ended   == Task("ended", NoRoom, NoRecord)

Live(s) == tasks[s].phase \in {"spawned", "running"}

Init ==
  /\ pc = "reload"
  /\ inFlight = {}
  /\ pending = <<>>
  /\ tasks = [s \in Slots |-> Free]
  /\ mail = [r \in Rooms |-> 0]
  /\ backlog = <<>>
  /\ queueFull = FALSE
  /\ wait = 0 /\ delay = 0
  /\ enabled \in BOOLEAN
  /\ requests = 0
  /\ retry = [k \in Records |-> "none"]
  /\ listed = {}
  /\ runs = [k \in Records |-> 0]
  /\ unmarked = [k \in Records |-> 0]
  /\ storeErrors = 0

-----------------------------------------------------------------------------
(* SummaryTaskScheduler::enqueue.                                           *)

SlotFree == \E s \in Slots : tasks[s].phase = "free"

DuplicateRoom(r) == r \in inFlight

QueueFull == ~SlotFree /\ Len(pending) >= PendingCapacity

\* Fault: a room counts as busy only while its task waits.
AdmissibleUnlessWaiting(r) ==
  (\A i \in DOMAIN pending : pending[i].room # r) /\ ~QueueFull

\* Fault: the queue is not limited.
AdmissibleWithoutLimit(r) == ~DuplicateRoom(r)

Admissible(r) == ~DuplicateRoom(r) /\ ~QueueFull

Spawned(job, s) == [tasks EXCEPT ![s] = Task("spawned", job.room, job.rec)]

\* The result is Started or Queued.
Admit(job) ==
  /\ inFlight' = inFlight \cup {job.room}
  /\ \/ /\ \E s \in Slots : /\ tasks[s].phase = "free"
                            /\ tasks' = Spawned(job, s)
        /\ UNCHANGED pending
     \/ /\ ~SlotFree
        /\ pending' = Append(pending, job)
        /\ UNCHANGED tasks
  /\ UNCHANGED mail

-----------------------------------------------------------------------------
(* A task, polled by the runtime beside the loop.                           *)

\* The future of a retry first marks its record as running; a database error
\* there is logged and swallowed.
Begin(s) ==
  LET k == tasks[s].rec IN
  /\ tasks[s].phase = "spawned"
  /\ tasks' = [tasks EXCEPT ![s] = Task("running", tasks[s].room, k)]
  /\ IF k = NoRecord
       THEN UNCHANGED <<retry, runs, unmarked, storeErrors>>
       ELSE /\ runs' = [runs EXCEPT ![k] = @ + 1]
            /\ \/ /\ retry' = [retry EXCEPT ![k] = "running"]
                  /\ UNCHANGED <<unmarked, storeErrors>>
               \/ /\ storeErrors < MaxStoreErrors
                  /\ storeErrors' = storeErrors + 1
                  /\ unmarked' = [unmarked EXCEPT ![k] = @ + 1]
                  /\ UNCHANGED retry
  /\ UNCHANGED <<pc, inFlight, pending, mail, backlogVars, listed>>

\* Fault: the completion is lost.
CompletionLost(r) == mail

Completed(r) == [mail EXCEPT ![r] = @ + 1]

\* The future returns, or panics: the completion is sent either way, by
\* finish or by drop.  The last write to the record may be missing.
Finish(s) ==
  LET k == tasks[s].rec IN
  /\ tasks[s].phase = "running"
  /\ tasks' = [tasks EXCEPT ![s] = Closing]
  /\ mail' = Completed(tasks[s].room)
  /\ \/ k # NoRecord /\ retry' = [retry EXCEPT ![k] = "ended"]
     \/ UNCHANGED retry
  /\ UNCHANGED <<pc, inFlight, pending, backlogVars, listed, runs, unmarked,
                 storeErrors>>

End(s) ==
  /\ tasks[s].phase = "closing"
  /\ tasks' = [tasks EXCEPT ![s] = Ended]
  /\ UNCHANGED <<pc, inFlight, pending, mail, backlogVars, retryVars, storeErrors>>

-----------------------------------------------------------------------------
(* The main loop: reload, then SummaryTaskScheduler::reap in three sweeps.  *)

Goto(from, to) == pc = from /\ pc' = to

\* A reload that disables the scheduled summaries clears the backlog.
Reload ==
  /\ Goto("reload", "recv")
  /\ \/ UNCHANGED backlogVars
     \/ /\ enabled' = TRUE
        /\ UNCHANGED <<backlog, queueFull, wait, delay, requests>>
     \/ /\ enabled' = FALSE
        /\ backlog' = <<>>
        /\ wait' = 0 /\ delay' = 0
        /\ UNCHANGED <<queueFull, requests>>
  /\ UNCHANGED <<schedulerVars, retryVars, storeErrors>>

\* The order in which the channel is read makes no difference: the sweep
\* takes all there is.
Receive ==
  /\ pc = "recv"
  /\ \/ /\ \E r \in Rooms : /\ mail[r] > 0
                            /\ mail' = [mail EXCEPT ![r] = @ - 1]
                            /\ inFlight' = inFlight \ {r}
        /\ UNCHANGED pc
     \/ /\ \A r \in Rooms : mail[r] = 0
        /\ pc' = "join"
        /\ UNCHANGED <<mail, inFlight>>
  /\ UNCHANGED <<pending, tasks, backlogVars, retryVars, storeErrors>>

Join ==
  /\ pc = "join"
  /\ \/ /\ \E s \in Slots : /\ tasks[s].phase = "ended"
                            /\ tasks' = [tasks EXCEPT ![s] = Free]
        /\ UNCHANGED pc
     \/ /\ \A s \in Slots : tasks[s].phase # "ended"
        /\ pc' = "fill"
        /\ UNCHANGED tasks
  /\ UNCHANGED <<inFlight, pending, mail, backlogVars, retryVars, storeErrors>>

\* Fault: the queue is served only when nothing runs.
GoesOnWhenIdle == pending # <<>> /\ \A s \in Slots : tasks[s].phase = "free"

GoesOn == pending # <<>> /\ SlotFree

Fill ==
  /\ pc = "fill"
  /\ \/ /\ pending # <<>>
        /\ \E s \in Slots : /\ tasks[s].phase = "free"
                            /\ tasks' = Spawned(Head(pending), s)
        /\ pending' = Tail(pending)
        /\ UNCHANGED pc
     \/ /\ ~GoesOn
        /\ pc' = "plan"
        /\ UNCHANGED <<tasks, pending>>
  /\ UNCHANGED <<inFlight, mail, backlogVars, retryVars, storeErrors>>

-----------------------------------------------------------------------------
(* Scheduled summaries: ScheduledSummaryBacklog and its drain.              *)

InBacklog(r) == \E i \in DOMAIN backlog : backlog[i] = r

IsNew(r) == ~InBacklog(r)

\* add_rooms for the rooms of a run that is due: one request for a room.
\* Which of the rooms this is, and whether the run is due, is left open.
Plan ==
  /\ pc = "plan"
  /\ \/ /\ enabled /\ requests < MaxRequests
        /\ requests' = requests + 1
        /\ \E r \in Rooms : IsNew(r) /\ backlog' = Append(backlog, r)
        /\ UNCHANGED pc
     \/ /\ pc' = "drain"
        /\ UNCHANGED <<backlog, requests>>
  /\ UNCHANGED <<queueFull, wait, delay, enabled, schedulerVars, retryVars, storeErrors>>

Lesser(a, b) == IF a <= b THEN a ELSE b

\* record_retry: 1 s, then twice the delay before, up to the longest.
RecordRetry ==
  LET next == IF delay = 0 THEN 1 ELSE Lesser(delay, MaxDelay)
  IN  /\ wait' = next
      /\ delay' = Lesser(2 * next, MaxDelay)

ClearRetry == wait' = 0 /\ delay' = 0

RetryReady == backlog # <<>> /\ wait = 0

Drain ==
  /\ pc = "drain"
  /\ pc' = IF RetryReady THEN "pop" ELSE "list"
  /\ queueFull' = FALSE
  /\ UNCHANGED <<backlog, wait, delay, enabled, requests, schedulerVars, retryVars,
                 storeErrors>>

\* requeue_back
PutBack(r) == Append(Tail(backlog), r)

\* get_last_trigger fails: the request returns to the front, the drain ends.
ReadFails ==
  /\ ~IgnoreRateLimit
  /\ storeErrors < MaxStoreErrors
  /\ storeErrors' = storeErrors + 1
  /\ RecordRetry
  /\ pc' = "list"
  /\ UNCHANGED <<backlog, queueFull, schedulerVars>>

\* The room's cool-down has not passed: the request is dropped.
RateLimited ==
  /\ ~IgnoreRateLimit
  /\ backlog' = Tail(backlog)
  /\ UNCHANGED <<pc, queueFull, wait, delay, schedulerVars, storeErrors>>

Scheduled ==
  /\ Admissible(Head(backlog))
  /\ Admit(Job(Head(backlog), NoRecord))
  /\ backlog' = Tail(backlog)
  /\ UNCHANGED <<pc, queueFull, wait, delay, storeErrors>>

Refused ==
  /\ ~Admissible(Head(backlog))
  /\ backlog' = PutBack(Head(backlog))
  /\ queueFull' = (queueFull \/ ~DuplicateRoom(Head(backlog)))
  /\ UNCHANGED <<pc, wait, delay, schedulerVars, storeErrors>>

\* while let Some(request) = backlog.pop_next()
Pop ==
  /\ pc = "pop"
  /\ backlog # <<>>
  /\ ReadFails \/ RateLimited \/ Scheduled \/ Refused
  /\ UNCHANGED <<enabled, requests, retryVars>>

\* queue_full || backlog.has_pending(), of a backlog that is empty by now.
DrainEnds ==
  /\ pc = "pop" /\ pc' = "list"
  /\ backlog = <<>>
  /\ IF queueFull THEN RecordRetry ELSE ClearRetry
  /\ UNCHANGED <<backlog, queueFull, enabled, requests, schedulerVars, retryVars,
                 storeErrors>>

Tick ==
  /\ wait > 0
  /\ wait' = wait - 1
  /\ UNCHANGED <<pc, backlog, queueFull, delay, enabled, requests, schedulerVars,
                 retryVars, storeErrors>>

-----------------------------------------------------------------------------
(* drain_manual_retry_tasks.                                                *)

\* task_retry of the control process adds a record: the next one.
Request(k) ==
  /\ retry[k] = "none"
  /\ \A j \in Records : j < k => retry[j] # "none"
  /\ retry' = [retry EXCEPT ![k] = "queued"]
  /\ UNCHANGED <<pc, schedulerVars, backlogVars, listed, runs, unmarked, storeErrors>>

\* Fault: the list also holds retries that run.
WaitingOrRunning == {k \in Records : retry[k] \in {"queued", "running"}}

\* Fault: a retry waits until the ones before it have ended.
WaitingInTurn ==
  {k \in Records : /\ retry[k] = "queued"
                   /\ \A j \in Records : j < k => retry[j] = "ended"}

Waiting == {k \in Records : retry[k] = "queued"}

\* The oldest RetryBatch records that are queued.  A query that fails lists
\* nothing.
List ==
  /\ Goto("list", "offer")
  /\ \/ listed' = {k \in Waiting :
                      Cardinality({j \in Waiting : j < k}) < RetryBatch}
        /\ UNCHANGED storeErrors
     \/ /\ storeErrors < MaxStoreErrors
        /\ storeErrors' = storeErrors + 1
        /\ listed' = {}
  /\ UNCHANGED <<schedulerVars, backlogVars, retry, runs, unmarked>>

Oldest(k) == k \in listed /\ \A j \in listed : k <= j

\* A refused record ends the pass.
Offer ==
  /\ pc = "offer"
  /\ \/ \E k \in listed :
          /\ Oldest(k)
          /\ IF Admissible(RetryRoom[k])
               THEN /\ Admit(Job(RetryRoom[k], k))
                    /\ listed' = listed \ {k}
                    /\ UNCHANGED pc
               ELSE /\ listed' = {}
                    /\ pc' = "watch"
                    /\ UNCHANGED schedulerVars
     \/ /\ listed = {}
        /\ pc' = "watch"
        /\ UNCHANGED <<listed, schedulerVars>>
  /\ UNCHANGED <<backlogVars, retry, runs, unmarked, storeErrors>>

-----------------------------------------------------------------------------
(* Chat events: enqueue_platform_event drops what the scheduler refuses.    *)

Trigger(r) ==
  \/ Admissible(r) /\ Admit(Job(r, NoRecord))
  \/ ~Admissible(r) /\ UNCHANGED schedulerVars

\* All events of the database watcher.
Watch ==
  /\ pc = "watch"
  /\ \/ (\E r \in Rooms : Trigger(r)) /\ UNCHANGED pc
     \/ pc' = "listen" /\ UNCHANGED schedulerVars
  /\ UNCHANGED <<backlogVars, retryVars, storeErrors>>

\* At most one event of the platforms in a round.
Listen ==
  /\ Goto("listen", "reload")
  /\ (\E r \in Rooms : Trigger(r)) \/ UNCHANGED schedulerVars
  /\ UNCHANGED <<backlogVars, retryVars, storeErrors>>

-----------------------------------------------------------------------------
MainLoop ==
  \/ Reload \/ Receive \/ Join \/ Fill \/ Plan \/ Drain \/ Pop \/ DrainEnds
  \/ List \/ Offer \/ Watch \/ Listen

Next ==
  \/ MainLoop
  \/ \E s \in Slots : Begin(s) \/ Finish(s) \/ End(s)
  \/ Tick
  \/ \E k \in Records : Request(k)

Spec == Init /\ [][Next]_vars

\* The loop's thread and the tasks are run by the runtime; every await of a
\* task has a time limit; time passes.  Nobody has to send events, plan
\* summaries or ask for retries.
Fairness ==
  /\ WF_vars(MainLoop)
  /\ \A s \in Slots : WF_vars(Begin(s)) /\ WF_vars(Finish(s)) /\ WF_vars(End(s))
  /\ WF_vars(Tick)

FairSpec == Spec /\ Fairness

-----------------------------------------------------------------------------
(* Properties.                                                              *)

\* The values of the variables; the queue keeps within its capacity, though
\* enqueue tests it only when all slots are taken.
TypeOK ==
  /\ pc \in Stages
  /\ inFlight \subseteq Rooms
  /\ pending \in Seq(Jobs) /\ Len(pending) <= PendingCapacity
  /\ tasks \in [Slots -> Tasks]
  /\ mail \in [Rooms -> Nat]
  /\ backlog \in Seq(Rooms)
  /\ queueFull \in BOOLEAN
  /\ wait \in 0..MaxDelay /\ delay \in 0..MaxDelay
  /\ enabled \in BOOLEAN
  /\ requests \in Nat
  /\ retry \in [Records -> {"none", "queued", "running", "ended"}]
  /\ listed \subseteq Records
  /\ runs \in [Records -> Nat]
  /\ unmarked \in [Records -> Nat]
  /\ storeErrors \in Nat

\* Two tasks of one room never exist together, waiting or running, whoever
\* asked for them: a chat command, the schedule, the operator.
OneTaskPerRoom ==
  /\ \A i, j \in DOMAIN pending : pending[i].room = pending[j].room => i = j
  /\ \A s, t \in Slots :
       Live(s) /\ Live(t) /\ tasks[s].room = tasks[t].room => s = t
  /\ \A i \in DOMAIN pending, s \in Slots :
       Live(s) => pending[i].room # tasks[s].room

HasTask(r) ==
  \/ \E i \in DOMAIN pending : pending[i].room = r
  \/ \E s \in Slots : Live(s) /\ tasks[s].room = r

\* in_flight is exact: a room is in it as long as its task exists or the
\* completion of that task is unread, and no unread completion can release
\* the room under a later task.
InFlightExact ==
  \A r \in Rooms :
    /\ r \in inFlight <=> HasTask(r) \/ mail[r] > 0
    /\ mail[r] <= 1
    /\ mail[r] > 0 => ~HasTask(r)

\* Outside reap nothing waits while a slot is free.
QueueServed ==
  pc \notin {"recv", "join", "fill"} /\ pending # <<>> => ~SlotFree

\* The retry of a record runs once, and once more for every run whose start
\* the database did not take: the list a pass works on is stale by the time
\* a record is offered, and only in_flight stands between the two.
RetryRunsOnce == \A k \in Records : runs[k] <= 1 + unmarked[k]

\* The loop comes round again and again.
LoopTurns == []<>(pc = "reload")

\* Every room is released: its task is started, ends, and is reaped.
RoomsReleased ==
  LoopTurns => \A r \in Rooms : r \in inFlight ~> r \notin inFlight

\* Every retry the operator asks for is started, whatever competes with it.
RetriesStart ==
  LoopTurns => \A k \in Records : retry[k] = "queued" ~> retry[k] # "queued"

\* "Scheduled-summary backlog with bounded exponential retry timing": a
\* request that finds its room in flight waits for a retry time.
RetriesBackOff ==
  \A r \in Rooms :
    pc = "pop" /\ InBacklog(r) /\ DuplicateRoom(r) ~> wait > 0 \/ ~InBacklog(r)
=============================================================================
