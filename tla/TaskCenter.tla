--------------------------- MODULE TaskCenter ---------------------------
(***************************************************************************)
(* The task center: the summary_task table (storage/src/lib.rs), the runs  *)
(* of the summary pipeline that keep it up to date with set_stage          *)
(* (operational_task.rs), the control process that cancels and retries     *)
(* tasks on behalf of the operator, and the recovery of interrupted tasks  *)
(* after a crash.                                                          *)
(*                                                                         *)
(* The table is the only thing that survives a crash: the stage it holds   *)
(* decides whether a task is run again.  set_stage logs a database error   *)
(* and goes on, so that stage may lag behind what the run has done.        *)
(*                                                                         *)
(* A room has at most one run at a time (SummaryScheduler, proved there).  *)
(* What becomes of a text or an image that was handed over for delivery    *)
(* is the business of Outbox.                                              *)
(***************************************************************************)
EXTENDS Naturals

CONSTANTS
  Rooms,
  \* Bounds of the model.
  MaxTasks, MaxCrashes, MaxCancels, MaxRetries, MaxFaults

ASSUME TaskCenterAssumption ==
  /\ Rooms # {}
  /\ MaxTasks \in Nat /\ MaxCrashes \in Nat /\ MaxCancels \in Nat
  /\ MaxRetries \in Nat /\ MaxFaults \in Nat

VARIABLES
  rows,             \* summary_task, in the order of created_at
  jobs,             \* the run of each room
  handed,           \* summary texts and images of each task that were handed
                    \* over for delivery
  up,               \* the agent process runs
  lost,             \* updates of each row that did not happen (history)
  preview,          \* tasks that were asked for as a preview (history)
  crashes, cancels, retries, faults

vars == <<rows, jobs, handed, up, lost, preview, crashes, cancels, retries,
          faults>>

bounds == <<crashes, cancels, retries>>

Tasks == 1..MaxTasks

NoTask == 0

Outputs == {"text", "image"}

Finished == {"succeeded", "failed"}

States == Finished \cup {"absent", "queued", "running", "cancelled", "purged"}

\* The stages at which a task that a crash interrupted is run again.
Resumable == {"accepted", "history", "input_preparation", "text_summary"}

Stages == Resumable \cup
  {"none", "queued", "retry_accepted", "media_processing", "text_summary_completed",
   "preview_ready", "completed", "completed_without_output", "failed",
   "cancelled", "recovered_after_restart", "interrupted_requires_retry"}

Rows == [state : States, stage : Stages, retry : BOOLEAN, room : Rooms]

Row(state, stage, retry, room) ==
  [state |-> state, stage |-> stage, retry |-> retry, room |-> room]

Absent == Row("absent", "none", FALSE, CHOOSE r \in Rooms : TRUE)

\* Fault: the two texts of update_task in the wrong order.
UpdatedSwapped(t, state, stage) == Row(stage, state, rows[t].retry, rows[t].room)

\* update_task: unconditional; the source of the row stays.
Updated(t, state, stage) == Row(state, stage, rows[t].retry, rows[t].room)

Stored(t) == rows[t].state \notin {"absent", "purged"}

\* PipelineOptions of a chat command, of the schedule and of a retry.  The
\* configuration they depend on may change between two runs.
Options == [text : BOOLEAN, image : BOOLEAN, defer : BOOLEAN, preview : BOOLEAN]

ManualOptions    == {o \in Options : ~o.defer /\ (o.preview => ~o.image)}
ScheduledOptions == {o \in Options : o.defer /\ ~o.preview}
RetryOptions     == {o \in Options : ~o.defer /\ ~o.preview}

\* Between two awaits a run waits for its slot, has created its row, is about
\* to look for a cancellation, and then goes through the pipeline.
Jobs == [pc : {"idle", "waiting", "created", "check", "load", "prepare", "compose",
               "summarize", "reply", "picture", "attach", "late", "end"},
         task    : Tasks \cup {NoTask},
         opts    : Options,
         outcome : {"none", "produced", "empty", "failed"}]

NoOptions == [text |-> FALSE, image |-> FALSE, defer |-> FALSE, preview |-> FALSE]

Job(pc, t, o) == [pc |-> pc, task |-> t, opts |-> o, outcome |-> "none"]

Idle == Job("idle", NoTask, NoOptions)

Init ==
  /\ rows = [t \in Tasks |-> Absent]
  /\ jobs = [r \in Rooms |-> Idle]
  /\ handed = [t \in Tasks |-> [x \in Outputs |-> 0]]
  /\ up = TRUE
  /\ lost = [t \in Tasks |-> 0]
  /\ preview = [t \in Tasks |-> FALSE]
  /\ crashes = 0 /\ cancels = 0 /\ retries = 0 /\ faults = 0

-----------------------------------------------------------------------------
(* Steps of a run.                                                          *)

At(r, pc) == jobs[r].pc = pc

Goto(r, pc) == jobs' = [jobs EXCEPT ![r].pc = pc]

Ends(r, outcome) ==
  jobs' = [jobs EXCEPT ![r].pc = "end", ![r].outcome = outcome]

\* A database statement of a run fails, or the run panics.
Fault == faults < MaxFaults /\ faults' = faults + 1

\* One that would have updated the row of task t.
Lose(t) == Fault /\ lost' = [lost EXCEPT ![t] = @ + 1]

\* set_stage
SetStage(t, state, stage) ==
  \/ /\ rows' = IF Stored(t) THEN [rows EXCEPT ![t] = Updated(t, state, stage)]
                             ELSE rows
     /\ UNCHANGED <<lost, faults>>
  \/ /\ Lose(t)
     /\ UNCHANGED rows

\* A step of the pipeline that ends with set_stage.
Reaches(r, from, to, stage) ==
  /\ At(r, from)
  /\ Goto(r, to)
  /\ SetStage(jobs[r].task, "running", stage)
  /\ UNCHANGED <<handed, up, preview, bounds>>

\* deliver_text, deliver_image: the payload is in the outbox, whatever the
\* send returns.
Hand(t, x) == handed' = [handed EXCEPT ![t] = [handed[t] EXCEPT ![x] = @ + 1]]

\* The first row that is not used yet.
Unused(t) == rows[t].state = "absent" /\ \A u \in 1..(t - 1) : rows[u].state # "absent"

\* handle_platform_event or run_scheduled_summary_task up to create_task.
Create(r, t, o) ==
  /\ up /\ At(r, "idle")
  /\ Unused(t)
  /\ o \in ManualOptions \cup ScheduledOptions
  /\ rows' = [rows EXCEPT ![t] = Row("queued", "queued", FALSE, r)]
  /\ jobs' = [jobs EXCEPT ![r] = Job("created", t, o)]
  /\ preview' = [preview EXCEPT ![t] = o.preview]
  /\ UNCHANGED <<handed, up, lost, bounds, faults>>

Accept(r) == Reaches(r, "created", "check", "accepted")

\* Fault: a task is listed although it has run.
UnlessRunning(t) == rows[t].retry /\ rows[t].state \in {"queued"} \cup Finished

Waiting(t) == rows[t].retry /\ rows[t].state = "queued"

\* drain_manual_retry_tasks gives a listed row to the scheduler.
Admit(t, o) ==
  /\ up /\ Waiting(t)
  /\ At(rows[t].room, "idle")
  /\ o \in RetryOptions
  /\ jobs' = [jobs EXCEPT ![rows[t].room] = Job("waiting", t, o)]
  /\ UNCHANGED <<rows, handed, up, lost, preview, bounds, faults>>

BeginRetry(r) == Reaches(r, "waiting", "check", "retry_accepted")

\* run_summary_pipeline looks for a cancellation once.  A row that cannot be
\* read counts as not cancelled.
Check(r) ==
  /\ At(r, "check")
  /\ \/ /\ rows[jobs[r].task].state = "cancelled"
        /\ Ends(r, "empty")
        /\ UNCHANGED faults
     \/ /\ rows[jobs[r].task].state # "cancelled"
        /\ Goto(r, "load")
        /\ UNCHANGED faults
     \/ /\ Fault
        /\ Goto(r, "load")
  /\ UNCHANGED <<rows, handed, up, lost, preview, bounds>>

Load(r) ==
  /\ jobs[r].opts.text \/ jobs[r].opts.image
  /\ Reaches(r, "load", "prepare", "history")

Prepare(r) == Reaches(r, "prepare", "compose", "media_processing")

Compose(r) ==
  \/ jobs[r].opts.text /\ Reaches(r, "compose", "summarize", "text_summary")
  \/ /\ ~jobs[r].opts.text
     /\ At(r, "compose")
     /\ Goto(r, "picture")
     /\ UNCHANGED <<rows, handed, up, lost, preview, bounds, faults>>

Summarize(r) == Reaches(r, "summarize", "reply", "text_summary_completed")

\* Nothing enabled, a blocked room, no history, nothing to summarise: the
\* room gets a message and the pipeline ends without a summary.
NothingToDo(r) ==
  /\ jobs[r].pc \in {"load", "compose"}
  /\ Ends(r, "empty")
  /\ UNCHANGED <<rows, handed, up, lost, preview, bounds, faults>>

\* A query, a download or a model fails.
StepFails(r) ==
  /\ jobs[r].pc \in {"load", "prepare", "compose", "summarize"}
  /\ Ends(r, "failed")
  /\ UNCHANGED <<rows, handed, up, lost, preview, bounds, faults>>

\* A payload is put into the outbox and sent; an error of the send, or of
\* the outbox itself, is not ok.
Delivers(t, x, ok) ==
  \/ /\ Hand(t, x)
     /\ UNCHANGED faults
  \/ /\ ~ok
     /\ Fault
     /\ UNCHANGED handed

PreviewReady(r) ==
  /\ At(r, "reply") /\ jobs[r].opts.preview
  /\ Ends(r, "produced")
  /\ SetStage(jobs[r].task, "succeeded", "preview_ready")
  /\ UNCHANGED <<handed, up, preview, bounds>>

Reply(r) ==
  LET o == jobs[r].opts IN
  /\ At(r, "reply") /\ ~o.preview
  /\ \/ /\ o.defer
        /\ Goto(r, IF o.image THEN "picture" ELSE "late")
        /\ UNCHANGED <<handed, faults>>
     \/ /\ ~o.defer
        /\ \E ok \in BOOLEAN :
             /\ Delivers(jobs[r].task, "text", ok)
             /\ IF ok /\ o.image THEN Goto(r, "picture")
                                 ELSE Ends(r, IF ok THEN "produced" ELSE "failed")
  /\ UNCHANGED <<rows, up, lost, preview, bounds>>

\* run_background_image_pipeline: the image goes to the room directly, and
\* no error leaves the pipeline.
Background(r) ==
  LET o == jobs[r].opts IN
  /\ At(r, "picture") /\ ~o.defer
  /\ \E recorded \in BOOLEAN :
       /\ \/ Hand(jobs[r].task, "image")
          \/ ~recorded /\ UNCHANGED handed
       /\ Ends(r, IF o.text \/ recorded THEN "produced" ELSE "empty")
  /\ UNCHANGED <<rows, up, lost, preview, bounds, faults>>

\* Fault: without an image the text is forgotten.
NoPictureNoText(r) ==
  /\ Ends(r, IF jobs[r].opts.text THEN "produced" ELSE "empty")
  /\ UNCHANGED <<handed, faults>>

\* The image summary, its prompt or the image fails: the text goes out alone.
NoPicture(r) ==
  \/ /\ jobs[r].opts.text
     /\ \E ok \in BOOLEAN : /\ Delivers(jobs[r].task, "text", ok)
                            /\ Ends(r, IF ok THEN "produced" ELSE "failed")
  \/ /\ ~jobs[r].opts.text
     /\ Ends(r, "empty") \/ Ends(r, "failed")
     /\ UNCHANGED <<handed, faults>>

\* The image is there: first the text, then the image.
TextBeforePicture(r) ==
  \/ /\ jobs[r].opts.text
     /\ \E ok \in BOOLEAN : /\ Delivers(jobs[r].task, "text", ok)
                            /\ IF ok THEN Goto(r, "attach") ELSE Ends(r, "failed")
  \/ /\ ~jobs[r].opts.text
     /\ Goto(r, "attach")
     /\ UNCHANGED <<handed, faults>>

Picture(r) ==
  /\ At(r, "picture") /\ jobs[r].opts.defer
  /\ NoPicture(r) \/ TextBeforePicture(r)
  /\ UNCHANGED <<rows, up, lost, preview, bounds>>

\* The last delivery of a deferred pipeline: the image, or the text of a run
\* without image.
Last(r, from, x) ==
  /\ At(r, from)
  /\ \E ok \in BOOLEAN : /\ Delivers(jobs[r].task, x, ok)
                         /\ Ends(r, IF ok THEN "produced" ELSE "failed")
  /\ UNCHANGED <<rows, up, lost, preview, bounds>>

Attach(r) == Last(r, "attach", "image")

Late(r) == Last(r, "late", "text")

\* What handle_platform_event, run_scheduled_summary_task and the future of a
\* retry record.  The last prefixes its stages with retry_, which no code reads.
Closing(outcome) ==
  CASE outcome = "failed"   -> [state |-> "failed", stage |-> "failed"]
    [] outcome = "produced" -> [state |-> "succeeded", stage |-> "completed"]
    [] OTHER -> [state |-> "succeeded", stage |-> "completed_without_output"]

\* When set_last_trigger fails the final set_stage is skipped, which is one more
\* way to lose it.
Finish(r) ==
  LET final == Closing(jobs[r].outcome) IN
  /\ At(r, "end")
  /\ SetStage(jobs[r].task, final.state, final.stage)
  /\ jobs' = [jobs EXCEPT ![r] = Idle]
  /\ UNCHANGED <<handed, up, preview, bounds>>

\* The scheduler releases the room; nobody writes to the row.
Panic(r) ==
  /\ jobs[r].pc \notin {"idle", "waiting"}
  /\ Lose(jobs[r].task)
  /\ jobs' = [jobs EXCEPT ![r] = Idle]
  /\ UNCHANGED <<rows, handed, up, preview, bounds>>

-----------------------------------------------------------------------------
(* The control process, on the same database.                               *)

Cancel(t) ==
  /\ cancels < MaxCancels
  /\ Stored(t)
  /\ rows' = [rows EXCEPT ![t] = Updated(t, "cancelled", "cancelled")]
  /\ cancels' = cancels + 1
  /\ UNCHANGED <<jobs, handed, up, lost, preview, crashes, retries, faults>>

Retry(t, u) ==
  /\ retries < MaxRetries
  /\ Stored(t) /\ Unused(u)
  /\ rows' = [rows EXCEPT ![u] = Row("queued", "queued", TRUE, rows[t].room)]
  /\ retries' = retries + 1
  /\ UNCHANGED <<jobs, handed, up, lost, preview, crashes, cancels, faults>>

-----------------------------------------------------------------------------
(* Clean-up, crash and restart.                                             *)

\* cleanup_operational_data deletes the tasks up to k, the oldest ones.
Kept(t, k) == IF t <= k /\ Stored(t) THEN Updated(t, "purged", "none") ELSE rows[t]

\* No run is as old as the retention time, a day at least.
Cleanup(k) ==
  /\ up
  /\ \A r \in Rooms : jobs[r].task > k \/ jobs[r].task = NoTask
  /\ Stored(k)
  /\ rows' = [t \in Tasks |-> Kept(t, k)]
  /\ UNCHANGED <<jobs, handed, up, lost, preview, bounds, faults>>

Crash ==
  /\ up /\ crashes < MaxCrashes
  /\ up' = FALSE
  /\ jobs' = [r \in Rooms |-> Idle]
  /\ crashes' = crashes + 1
  /\ UNCHANGED <<rows, handed, lost, preview, cancels, retries, faults>>

\* Faults: recovery runs every interrupted task again, or only resumes.
RecoveredWhole(row) ==
  IF row.state = "running" THEN Row("queued", "recovered_after_restart", TRUE, row.room)
                           ELSE row

RecoveredIfResumable(row) ==
  IF row.state = "running" /\ row.stage \in Resumable
    THEN Row("queued", "recovered_after_restart", TRUE, row.room) ELSE row

\* recover_interrupted_tasks
Recovered(row) ==
  CASE row.state = "running" /\ row.stage \in Resumable ->
         Row("queued", "recovered_after_restart", TRUE, row.room)
    [] row.state = "running" /\ row.stage \notin Resumable ->
         Row("failed", "interrupted_requires_retry", row.retry, row.room)
    [] OTHER -> row

\* run_agent before its loop: clean-up, then recovery.
Restart(k) ==
  /\ ~up
  /\ up' = TRUE
  /\ rows' = [t \in Tasks |-> Recovered(Kept(t, k))]
  /\ UNCHANGED <<jobs, handed, lost, preview, bounds, faults>>

-----------------------------------------------------------------------------
Steps(r) ==
  \/ Accept(r) \/ BeginRetry(r) \/ Check(r) \/ Load(r) \/ Prepare(r) \/ Compose(r)
  \/ Summarize(r) \/ NothingToDo(r) \/ StepFails(r) \/ PreviewReady(r) \/ Reply(r)
  \/ Background(r) \/ Picture(r) \/ Attach(r) \/ Late(r) \/ Finish(r)

Next ==
  \/ \E r \in Rooms, t \in Tasks, o \in Options : Create(r, t, o)
  \/ \E t \in Tasks, o \in Options : Admit(t, o)
  \/ \E r \in Rooms : Steps(r)
  \/ \E r \in Rooms : Panic(r)
  \/ \E t \in Tasks : Cancel(t)
  \/ \E t, u \in Tasks : Retry(t, u)
  \/ \E k \in Tasks : Cleanup(k)
  \/ Crash
  \/ \E k \in Tasks \cup {NoTask} : Restart(k)

Spec == Init /\ [][Next]_vars

\* The runtime polls every run, each of its awaits has a time limit, and the
\* main loop offers queued retries in every round.
Fairness ==
  /\ \A r \in Rooms : WF_vars(Steps(r))
  /\ WF_vars(\E t \in Tasks, o \in Options : Admit(t, o))

FairSpec == Spec /\ Fairness

-----------------------------------------------------------------------------
(* Properties.                                                              *)

TypeOK ==
  /\ rows \in [Tasks -> Rows]
  /\ jobs \in [Rooms -> Jobs]
  /\ handed \in [Tasks -> [Outputs -> Nat]]
  /\ up \in BOOLEAN
  /\ lost \in [Tasks -> Nat]
  /\ preview \in [Tasks -> BOOLEAN]
  /\ crashes \in Nat /\ cancels \in Nat /\ retries \in Nat /\ faults \in Nat

\* "a restart never turns an ambiguous delivery into group spam": whatever
\* crashes, cancellations and retries do, a task hands over its text and its
\* image once, and once more only for an update of its row that was lost.
HandedOnce ==
  \A t \in Tasks : \A x \in Outputs : handed[t][x] <= 1 + lost[t]

\* In a running agent a task that is 'running' is being run, unless an update
\* of its row was lost: recovery leaves no task behind.
RunningIsRun ==
  \A t \in Tasks :
    up /\ lost[t] = 0 /\ rows[t].state = "running" =>
      /\ jobs[rows[t].room].task = t
      /\ jobs[rows[t].room].pc \notin {"idle", "waiting", "created"}

\* A run that reports a summary has handed over its text, whichever of the
\* branches around the image it took.
TextNotForgotten ==
  \A r \in Rooms :
    jobs[r].outcome = "produced" /\ jobs[r].opts.text /\ ~jobs[r].opts.preview =>
      handed[jobs[r].task]["text"] > 0

\* A task that has ended is not run again: neither a restart, nor a retry
\* that was listed before, changes it.
EndedStaysEnded ==
  [][\A t \in Tasks :
       rows[t].state \in Finished =>
         rows'[t].state \in {rows[t].state, "cancelled", "purged"}]_vars

Active(t) == rows[t].state = "running" \/ Waiting(t)

\* A retry that is queued and a task that runs come to an end.
TasksEnd ==
  \A t \in Tasks :
    Active(t) ~> rows[t].state \in Finished \cup {"cancelled", "purged"} \/ ~up
                 \/ faults > 0

\* README: a preview "is only stored in the task center, not sent to the
\* group".
PreviewStaysPrivate ==
  \A t \in Tasks : preview[t] => \A x \in Outputs : handed[t][x] = 0

\* README: "the task center supports cancelling": a task that was cancelled
\* stays cancelled and hands nothing over.
CancelStops ==
  [][\A t \in Tasks :
       rows[t].state = "cancelled" =>
         rows'[t].state \in {"cancelled", "purged"} /\ handed'[t] = handed[t]]_vars
=============================================================================
