# A TLA+ model of SummaryAgent4GroupChat

SummaryAgent4GroupChat watches WeChat and Discord groups, summarises a range of
their messages with a language model when somebody asks for it, when a schedule
says so or when the operator retries a task, and sends the text and an image
back to the group. This directory models the Rust agent (`rust-agent/crates`)
from the message that asks for a summary to the one that answers it, with the
processes that configure, start and stop the agent; checks the models with TLC on
small instances and proves the main properties with TLAPS for every value of the
constants.

Paths below are relative to the root of the repository; `app/`, `storage/`,
`control/`, `gui/`, `ai/`, `core/` and `wx4py-client/` stand for the crates.

## 1. Inventory

| Component | State | Operations | Interacts with |
|---|---|---|---|
| Persistent outbox (`app/outbox.rs`, `storage` table `outbox_delivery`) | one row per idempotency key: state, attempts, next attempt, creation time | `deliver_text/image/file`, `drain`, `schedule_failure`, operator retry and cancel, clean-up, start-up recovery | pipeline and main loop call it; the platform worker sends; the control process writes the same table |
| Summary scheduler (`app/summary_scheduler.rs`) | `in_flight`, pending queue, JoinSet, completion channel | `enqueue`, `spawn`, `reap` | fed by chat events, backlog and retries; runs pipelines |
| Scheduled backlog (`app/scheduled_backlog.rs`, `scheduled_runner.rs`) | queue of rooms, queued set, retry time and delay | `add_rooms`, `drain_scheduled_backlog` | main loop, scheduler |
| Task center (`storage` table `summary_task`, `app/operational_task.rs`) | a row per task: state, stage, source | `create_task`, `set_stage`, `queued_retry_tasks`, `recover_interrupted_tasks`, cancel, retry, clean-up | pipeline writes stages, control process cancels and retries, the start recovers |
| Summary pipeline (`app/summary_pipeline.rs`, `pipeline_input.rs`, `pipeline_delivery.rs`, `event_handler.rs`) | locals between awaits: options, pending text | load history, prepare input, text summary, image, deliveries | LLM, media, outbox, task center, image slots |
| Main loop (`app/main.rs`) | next run times, fingerprint of the configuration | reload, reap, drain the outbox, clean up, plan, drain the backlog, retries, events | everything in the agent process |
| Event and trigger deduplication (`app/trigger_state.rs`, `event_dispatcher.rs`) | recent triggers, recently observed messages | notice a message, decide on a trigger, expiry | platform events, database watcher, main loop |
| Database watcher (`app/wxdb_watcher.rs`) | baseline, watermark, cursor, the state file, a channel | poll with paging, send, save, restart after a panic | event dispatcher, the local chat database |
| wx4py client and sidecar (`wx4py-client`, `scripts/wx4py_sidecar.py`) | pending table, closed flag, stdin and stdout of the process, command queue | command, acknowledgement, time-out, close, reconnect | platform worker, the WeChat window |
| Platform runtime and worker (`app/platform_runtime.rs`, `platform.rs`) | clients, reconnect times, fingerprint of the connection settings | connect, lose, reconnect, send | wx4py client, Discord, reloads |
| LLM client, key pool and retry (`ai`) | permits and waiters of each key, registry of pools, queue of rate-limited retries | request with retries, failover, polls, download | pipelines |
| Media processing (`app/media_*`) | joins of concurrent requests | captions, videos, voices | LLM client, summary pipeline |
| Image slots (`app/summary_image.rs`) | capacity, leases, two queues of waiters | acquire, release, time limit of a stage, resize | pipelines |
| Routing, circuit breaker, budgets (`app/main.rs`, `storage`) | `provider_health`, usage of the day | record, route, check | pipelines |
| Weekly reports (`app/report_schedule.rs`, `main.rs`) | `weekly_report` rows | plan, generate, deliver | outbox, LLM client |
| Configuration and reload (`core/config.rs`, `app/config_reloader.rs`) | `config/agent.toml`, the content and stamp an agent runs with | load, reload, reconnect | every editor of the file |
| Control process (`control`) | its own handle on the database, agent process, the operation under way and its status file | task and outbox operations, start/stop, `config.read/write/patch`, elevated operations and their monitor | the desktop interfaces |
| egui interface (`gui`) | a form of the configuration, a handle on an agent | load, save, start, stop, install | the configuration file, the agent |
| WinUI and macOS interfaces, legacy Python bot, packaging | - | - | control process |

What is hard in this system:

* **Two processes and many tasks on one database.** Every statement is atomic
  (one mutex, one SQLite statement), but nothing spans two of them: rows are
  read, an await goes by, and the row is updated without a look at its state.
* **Sends whose outcome is unknown.** A send can post part of a payload, or all
  of it, and still fail; whether it may be repeated is decided by words of the
  error text.
* **Crashes.** Only the two tables survive. The recorded state and stage decide
  what is sent or run again.
* **Events that race with the loop.** Tasks end beside the loop, in two steps;
  the loop takes notice in three.
* **Rows that lag.** `set_stage` logs a database error and goes on.
* **One command, several copies.** The window listener and the database report
  the same message at different times, in either order, with or without its id.
* **Answers that come late.** A waiter gives up while its command is still queued
  in another process; a client is replaced while its senders are in use.
* **A tree of retries.** A call retries, waits behind other rate-limited calls,
  goes on to another provider, loses optional parts of its request, is split; and
  it must still end and give back what it holds.
* **One file, many writers.** Nobody locks `agent.toml`, which holds secrets that
  most of its editors may not see.

What makes each modelled component correct: nothing is posted more often than
somebody asked for and nothing waits for ever (outbox); one task of a room at a
time, exact bookkeeping, no lost wake-up, no starved request (scheduler); a task
that may have sent something is not run again, a task that is recorded as
running is run, a summary reported as produced was handed over (task center);
what a caller is told of a command is true and stays so (transport); a command is
summarised once and not forgotten (reception); a call ends, permits and slots are
given back, the text covers the history and is handed over, a fallback does not
close the circuit of the primary (generation); a save stores what is meant, an
agent runs what the file says, no platform is forgotten, no manager has two agents,
and an operation is reported as it ended (desktop).
`PROJECT.json` lists the hazards at their lines with the properties that catch
them.

## 2. Modules

```
 agent.toml   ConfigEditors <-- Desktop        start, reload, reconnect, operations
                                  |
 commands     WxdbWatcher <-- Reception        window, database, deduplication
                                  |  a task of a room
 turns        SummaryScheduler                 in_flight, queue, backlog, retries
                                  |  a run
 tasks        TaskCenter                       rows, stages, recovery
                                  |  its calls
 text, image  ProviderCall <-- Generation      keys, retries, slots, health
                                  |  deliver_*
 deliveries   Outbox --implements--> PostingLicence
                                  |  send_text, send_image, send_file
 window       CommandTransport                 client, reader thread, sidecar
```

An arrow `<--` is EXTENDS: `WxdbWatcher`, `ProviderCall` and `ConfigEditors` are
the components that `Reception`, `Generation` and `Desktop` compose with the code
around them. Each of these has an `MC` module that instantiates it and a `Proofs`
module (`WxdbWatcher`, `ProviderCall` and `ConfigEditors` are checked and proved
about in the module that extends them). The proofs about `Generation` fill two
modules: `GenerationProofs` has what a task does in its own order, `PipelineProofs`,
which extends it, what the tasks share and what their texts cover.

The layers meet at interfaces that are stated, not shared variables: what the loop
of `Reception` takes is a chat event of `SummaryScheduler`, and its decision on a
repetition falls in the task that the event becomes; a *task* of `SummaryScheduler`
(begin, finish, end) is a *run* of `TaskCenter`, whose stages between `Load` and
its deliveries are a task of `Generation`; a hand-over is a *call* of `deliver_*`
in `Outbox`, whose `SendPart` and `SendFails` are what a call of
`CommandTransport` returns. `TaskCenter` relies on `RoomsExclude` of the scheduler
(one run for a room); `Outbox` takes calls of one task to be sequential, as the
pipeline is, and a posting to be possible whatever error is returned, which
`CommandTransport` shows to be needed.

### PostingLicence

The abstract promise of the outbox: every part of a delivery is posted at most
as often as it is licensed; one licence comes with the request, and each
deliberate decision to send again grants one more.

### Outbox

State: `rows` (the table), `jobs` (a worker between two awaits: idle, about to
claim, sending part *p*, about to record the outcome), `due` (the list a drain
works off), `sent` (what reached the chat), `clock`, `up`, and history
variables. Workers are the callers of `deliver_*`, one for each key, and the
main loop's drain.

| Action | Code |
|---|---|
| `Enqueue`, `Claim` | `deliver_text/image/file`: `enqueue_delivery`, `claim_delivery` |
| `DrainScan`, `DrainClaim` | `drain`: the list, then row by row the claim with the attempts of the *old* copy |
| `SendPart`, `SendFails` | chunked sends of the platform worker; a failure may follow a posting and may or may not say so |
| `Settle`, `StoreFails` | the update that records the outcome (`schedule_failure`), or its failure |
| `OperatorRetry`, `OperatorCancel` | control process |
| `Cleanup`, `Crash`, `Restart` | `cleanup_operational_data`, `recover_interrupted_deliveries` |
| `Tick` | time |

A payload is a number of parts; an error is the choice between "may have
arrived" and "may be tried again"; the key of a row is a model value, so two
equal payloads of one task are one row, as in the code.

### SummaryScheduler

State: the stage `pc` of the main loop, `inFlight`, `pending`, `tasks` (the
places of the JoinSet), `mail` (unread completions of each room), the backlog
with `wait`, `delay` and `queueFull`, and the retries with the list a pass works
on. One action for each stage of the loop (`Reload`, `Receive`, `Join`, `Fill`,
`Plan`, `Drain`, `Pop`, `DrainEnds`, `List`, `Offer`, `Watch`, `Listen`) and for
what a task does (`Begin`, `Finish`, `End`).

Abstractions: `Slots` are the places of the JoinSet, so "at most
`max_concurrency` tasks" holds by construction and is not claimed as a result;
completions are counted for each room because a sweep reads all of them and
their order does not matter; whether a request is rate limited, and whether a
database read fails, is free.

### TaskCenter

State: `rows` (the table in the order of `created_at`), `jobs` (the run of each
room: its place in the pipeline, task, options, outcome), `handed` (texts and
images handed over for delivery), `up`, and the histories `lost` (updates of a
row that did not happen) and `preview`.

| Action | Code |
|---|---|
| `Create`, `Accept` | `handle_platform_event`, `run_scheduled_summary_task` |
| `Admit`, `BeginRetry` | `drain_manual_retry_tasks` and its future |
| `Check` | the only look for a cancellation |
| `Load`, `Prepare`, `Compose`, `Summarize` | `run_summary_pipeline` up to `text_summary_completed` |
| `NothingToDo`, `StepFails` | its early returns and its `?` |
| `PreviewReady`, `Reply`, `Background`, `Picture`, `Attach`, `Late` | the deliveries: at once, with the image, before it, instead of it, without it |
| `Finish`, `Panic` | what the caller records; a panicking task records nothing |
| `Cancel`, `Retry` | `task_cancel`, `task_retry` of the control process |
| `Cleanup`, `Crash`, `Restart` | clean-up, `recover_interrupted_tasks` |

`SetStage` is part of every action that calls it, and may be lost. `handed`
counts hand-overs and not postings: two of equal payloads meet in one outbox
row, so the real number of messages is at most that. Progress notices, failure
messages and wording are left out. A task cannot be older than the retention
time while its run lasts (a day at least).

### CommandTransport

State: for each command its place in `send_command_blocking`, its client, what
lies in its channel, what it returned; for each client the pending table, the
closed flag, the reader thread, what the runtime does with it, and the process
behind it with stdin, the command in work and stdout; `posted`.

| Action | Code |
|---|---|
| `Start`, `Adopt`, `StartFails`, `ReadyTooLate` | `Wx4pyClient::start` and `wait_ready` on a (re)connect; the old client is dropped only when the new one is ready |
| `OwnerSweeps`, `Reap` | `shutdown` / `Drop`: `fail_pending`, then the process is ended |
| `Dispatch`, `ReaderUnheard`, `Hangup`, `EndOfStdout`, `ReadError`, `ReaderSweeps` | the reader thread: `dispatch_sidecar_message`, and its end: close, then `fail_pending` |
| `Begin`, `Register`, `LookAgain`, `Write` | `send_command_blocking`: the flag, the table under its lock, the flag again, the line |
| `Answered`, `Expire`, `Forget` | `receive_command_ack`: the answer, the queue-aware time-out, the last look before the waiter goes |
| `Ready`, `Take`, `Report`, `Crash`, `EndOfStdin` | the sidecar: reader thread, worker, guarded sends of two attempts |
| `AgentDies` | the agent is gone, its sidecars read to the end of their stdin |

A command is a model value; an answer is "sent" or the class of error the client
tells apart; a time-out may come at any time after the line is written.

### WxdbWatcher and Reception

`WxdbWatcher` has the rows of the room (external), the thread with its memory,
the pages it has read and the events it has yet to send, the state file and the
channel; `Reception` adds the listener's inbox, the main loop, the two memories of
the deduplication and the task of the room. One room and one command text, so all
commands have the same trigger key.

| Action | Code |
|---|---|
| `StartWatcher`, `BeginPoll`, `TakeBaseline`, `PageOn`, `EndPoll`, `PollFails` | `run`, `poll_room`, `paginate_wxdb_history` |
| `SendEvent`, `SaveState`, `WatcherPanics` | the rest of a poll; every step may be its last |
| `Replace`, `RestartComesDue` | `restart_watcher`: a new thread and a new channel |
| `Arrive`, `Notice` | a message comes into the database; the listener reports it, repeatedly, with or without its id and own time |
| `Drain`, `Drained`, `Wait` | the loop takes watcher events before platform events |
| `Ignore`, `Decide`, `Finish` | `enqueue_platform_event`, `handle_platform_event`: the decision falls in the task of the room |
| `Crash`, `Restart` | memory goes, the file stays, or is torn by `fs::write` |

A page is cut by the provider before the agent drops the rows it cannot use, as in
the code. Rows bear their own times, which need not grow with their ids. The order
in which a poll sends is stated as a set of sequences (`Ordered`) rather than
computed by a sort, which the prover could not look into. A poll that stops at a
page counts as `overrun` all that it did not come to, also when it kept no row of
that page: the row that is newer than the poll and fills its only page was found
while `NotForgotten` was proved, with bounds the run does not reach.

### ProviderCall and Generation

`ProviderCall` is one request: `Acquire`, `Granted` (the key), the steps of a chat
(`ChatStep`: send, status, stream, body), of a caption, video or voice
(`MediaStep`) and of an image (`ImageStep`: submit, poll, download, write), and
the queue in which one rate-limited request sleeps (`PaceOver`, `PaceGivesUp`). A
response is the branch it selects; whether 180 s or a deadline have passed is free
at every point where the code asks.

| Action of `Generation` | Code |
|---|---|
| `Captions`, `Videos`, `Voices` | `enrich_history`: spawn up to the limit, join, go on after failures |
| `Open`, `Register` | routing by the health row; `shared_key_pool`, looked up and inserted under separate locks |
| `LlmSpawn`, `PartSummarised`, `ContextSplit`, `PartFailed`, `RefusedOnce` | chunks, halves, the one retry after a refusal |
| `TextSummarised`, `TextFails` | `run_summary_pipeline` |
| `RequestSlot`, `GrantSlot`, `StageOver`, `StageTimeout`, `PreparationFails` | `ImagePipelineSlotPool` and `run_llm_stage` |
| `Draw`, `ImageOver` | the image and what is delivered with it or instead of it |
| `ReadHealth`, `WriteHealth`, `CircuitExpires` | `record_primary_llm_health`: read, then write |

Content is the sequence of the messages it covers, so that covering the history is
an equation. The code stops splitting at a depth of twelve, which the model leaves
out: it allows more splits than the program makes. The lock of the registry is taken
once for every provider in the code and once for all of them here; the race between
the look-up and the insertion is the same. A delivery succeeds or fails; what it does is `Outbox`'s business. A
task that is asked for neither text nor image returns at once and is not modelled;
a preview wants a text only. What a dropped future leaves of a queue (`DroppedFrom`)
is stated in closed form, as the sequence of the members that stay.

### ConfigEditors and Desktop

`ConfigEditors` has the file and the form of every editor: the connections of the
control process (one in the run), the egui form, the script that installs the runtime, a text
editor. A document is a list of keys, the enabled platforms and one more
connection setting. `Desktop` adds agents, their managers, and an operation. An agent has its
place in the loop (`Loop`), the content it runs with and the stamps it knows, its
clients, and `reconnect_at` as two sets: `due`, its keys, and `elapsed`, those of them
whose two seconds are over; `by` says who started it.

| Action | Code |
|---|---|
| `Open`, `AddsKey`, `RemovesKey`, `Sets`, `Enables` | `config.read` (redacted) or the form's load, and what a user does to it |
| `ConfigWrite`, `GuiSave`, `ConfigPatch` | redacted values are put back by their place, then `Replace` (rename) or `Truncate` and `Fill` (`fs::write`) |
| `Install`, `Scribble` | the script; a text editor, which may leave what is not TOML |
| `LoadRead`, `LoadStamp` | `ConfigReloader::load`: content first, then the time |
| `ReloadSees`, `ReloadReads`, `ReloadEnds` | `reload_if_changed`: time first, then content |
| `Connect`, `ConnectFails` | `PlatformRuntime::start`: all platforms or none |
| `NothingElapsed`, `Reconnect` | `reconnect_if_due`: nothing whose time is up, or a round over all of it (`Round`) |
| `Dies`, `Listens` | the thread behind a client ends; the wait for events, which an error of a live client or of a dead one cuts short, and `request_reconnect_kind` (`Postponed`) |
| `ControlStarts`, `ControlStops`, `GuiPolls`, `GuiClears`, `GuiStarts`, `GuiStartFails`, `GuiStops`, `GuiCloses`, `Crashes` | the two managers and the agent's end |
| `SetupStarts`, `SetupEnds` | the installer of the interface |
| `RequestOperation`, `SpawnFails`, `BeginsStatus`, `EndsStatus`, `OperationAborts`, `OperationDies`, `OperationInstalls` | an elevated operation and its status file |
| `MonitorReads`, `MonitorWaits` | the thread that follows it |

Two writes of the file never have the same stamp (a coarser clock would add a way
to miss one, see section 5). The two seconds to a reconnect run out while the agent
listens, which is where the loop spends its time, and not between the top of the loop
and the check for what is due; an error begins them anew, as in the code. The five
minutes to the user's confirmation may run out at any time. One operation stands for
all kinds. A rename over a file that somebody has open for writing is left out. The
form sets `platform.kind`, which counts only for a file without a list of kinds; the
files of the model have one. An agent is *loose* when the code loses sight of it: its
process could not be assigned to the job of the control service, or the interface could
not list the processes and started another beside it.

## 3. Runs

| Run | Instance | Shows |
|---|---|---|
| `outbox` | one delivery of two parts, window 1, four instants, two calls, a crash, an operator act, a database error | posting within the licence, one sender, no abandoned `sending` row, one attempt after the window, settled rows stay settled, refinement of `PostingLicence` |
| `outbox_drain` | two deliveries, batch of one, window 2, no disturbance, fairness | `PendingSettles`: the drain reaches every pending row although each failure postpones it and the list is short |
| `scheduler` | two rooms, two slots, one queue place, a scheduled request, two retries of one room, a database error, fairness | one task of a room, exact `inFlight`, queue served, a retry runs once; rooms are released and retries start *provided the loop comes round* |
| `scheduler_spin` | default configuration | violation: see findings |
| `tasks` | one room, two rows, one each of crash, cancellation, retry and fault, fairness | the six properties of `TaskCenter` |
| `tasks_preview`, `tasks_cancel` | one task | violations: see findings |
| `transport` | two interchangeable commands, two clients, two faults | no waiter survives a close, what a caller is told is so and stays so; no deadlock |
| `reception` | one room, three rows, pages of two, two ticks, one panic, restart or crash, five inputs | no repeat and no omission but for the reasons the properties name |
| `generation` | two tasks in four scenarios, one key with one permit, a fallback, two attempts, one slot, the circuit one failure from opening | permits and slots returned, the history covered, the text handed over, calls that converge, the circuit kept; no deadlock |
| `control` | seven scenarios of edits, starts, losses and operations over two agents, two platforms, two keys | saves, reloads, reconnects, managers and reports |
| `control_reconnect` | one agent, one platform that dies once, fairness | violation: see findings |

**Why the bounds are enough to see the cases.** A second part is what makes a
partial send; a window of one step lets a retry be due beyond it; two calls give
a repeated call while a row is settled, pending or being sent. In `scheduler` a task
has released its room and still takes its slot until it is joined, so two rooms are
enough for both slots to be taken while a third request waits and a fourth is refused;
two retries of one room compete for it with each other and with chat events. The
proofs of section 4 cover any number of rooms. The second row of `tasks` is a retry of the first or a later
task of its room, both of which meet what the first left behind; a fault is a
lost update at any stage, or a panic.
A second client of `transport` is what lets a sender of the old one race with its
close, and two commands are needed for one to wait behind the other. In
`reception` a tick, a notice and (twice) a row are inputs, `MaxInputs` in all: that
is enough for a command with three copies across every window, or for two commands
and a row between them that is cut from a page; a tick is longer than the event
window, and `Retention` lies beyond all others. Its type invariant is stated but
not run: a run over two million states has properties enough to pay for. In
`generation` a task per side competes for the one permit, the slot and the health
row; a chunked history has two chunks and one of them two messages, so that it can
be split; two attempts and one fallback reach each of the branches after the last.
`control` cuts one large product into scenarios that each let one pair of actors
overlap, because every process of the desktop meets the others only in a file:
editors with editors, an agent with an editor, an operation with either, managers
with each other. The scenario of the managers has three starts and a crash over two
processes: enough for each manager to start one, lose it and start again beside the
other. Its platforms and agents are interchangeable; symmetry is sound
because it checks invariants and an action property only. Counters are cut off by guards only
(`MaxCrashes`, `MaxCancels`, `MaxCalls`, ...); the proofs do not depend on the
bounds.

**Deadlock** is checked for the scheduler, whose loop never stops. It is
switched off for `Outbox`, `TaskCenter`, `Reception` and `Desktop`: there nothing
has to happen once the bounded calls, tasks, inputs and edits are used up and all
work has ended. It is checked for `transport` and `generation`, where an explicit
last step (`Terminating`, `Done`) is the only one a finished system takes: a
command, call or task that is stuck is reported. Since every step of a call brings
it nearer to its end (`CallsConverge`), the two together say that every call ends,
without any assumption of fairness.

**Fairness.** Weak fairness throughout, and only of what the code drives by
itself: the main loop keeps looping and claims what it listed; a task is polled
by the runtime and each of its awaits has a time limit (send, acknowledgement
and HTTP time-outs); time passes. Nobody is obliged to send a command, plan a
summary, act as operator, crash or restart. `RoomsReleased` and
`RetriesStart` assume that the loop comes round (`LoopTurns`), because
`scheduler_spin` shows that it may not; `PendingSettles` assumes the same through
the fairness of the drain. `control_reconnect` is the one run with strong fairness: an
agent that runs goes on, and again and again there is time enough in a pass for all
two seconds to run out. It is more than the code can count on, and the violation is
found all the same: no fairness of the clock helps a delay that begins anew after it
has run out. When `Postponed` leaves a platform alone that is due already, the property
holds on that instance. A property of eventual progress excuses a process
that is down and updates that the database lost.

Every property has a mutant in `PROJECT.json`: a change of one modelled
definition that a plausible bug would make (recovery that queues what it must
not, a claim that ignores the state, a completion that releases nothing, swapped
arguments) and under which TLC finds the property violated. Their definitions
stand in the modules before what they replace, each marked *Fault*.

## 4. Proofs

All for arbitrary constants under the named assumptions of the modules: natural
bounds, finite sets of deliveries, slots, calls or lanes, at least one room, key,
platform; windows of the deduplication that grow as the code's do
(`WindowsAssumption`); places of calls that are tasks and lanes, finitely many
tasks, and options the program can ask for, among them a history of at least one
chunk of messages (`GenerationAssumption`); model values that are told apart from
each other (`NoCallAssumption`, `NamesAssumption`, `SettingsAssumption`,
`EditorAssumption`). Every invariant and every action property of a passing run is a
theorem.

* **OutboxProofs** - types, `AtMostOncePerLicence`, `OneSender`,
  `BoundedRetryWindow`, `SettledStaysSettled`, and that `Outbox` implements
  `PostingLicence`. The invariant adds to these a *credit*: what a worker still
  has to post, what a pending row may post again, and what a row may post
  after recovery are each covered by the licence. Without it the induction fails
  at the moment a failed row returns to the queue. `SendingIsHeld` holds of a step
  between two states of that invariant: a job that leaves a row settles it, hands it
  to the next part, or notes that the database failed.
* **SchedulerProofs** - types with the queue's capacity, `OneTaskPerRoom`,
  `InFlightExact`, `QueueServed`, `RetryRunsOnce`. The invariant links tasks and
  queued futures to their rooms and records, states that what the pass has listed
  is stale only for rooms in flight, and charges every run to a mark or to a lost
  mark in the table.
* **TaskCenterProofs** - types, `HandedOnce`, `RunningIsRun`,
  `TextNotForgotten`, `EndedStaysEnded`. The invariant says which outputs a run
  still has *ahead* of it; those are covered by lost updates, and strictly so
  when the run is past its last protecting stage and its row would still be run
  again. From it follows that a row a restart would run again has not handed over
  anything that was not paid for by a lost update. Steps of a run are reduced to
  their own room and task by one lemma (`Framed`), and each kind of step (records
  a stage, moves, hands over, ends) is treated once.
* **CommandTransportProofs** - types, `NoWaiterLeft`, `Truthful`, `AnswerIsFinal`.
  The invariant follows a command through all the places it can be in: a line in
  stdin, in work, an answer on stdout or in the channel; each command is in at most
  one of them, and what was posted agrees with it. The heart is the window between
  registration and sweep: whoever is registered on a closed client has yet to look
  at the flag again, or is in the table of a sweep to come.
* **ReceptionProofs** - `RepeatsExplained`, the types of the watcher, `SentAboveFile`,
  `NotForgotten`. For the first, `MemoryInv` says that what was accepted in this life
  of the agent is among the remembered attempts, with its id and times, or out of
  their retention. What the watcher sends needs no invariant there: the theorem holds
  for any stream of copies. For the others, `WatcherInv` says where a watcher of each
  phase stands: how far its pages reach, that what it is about to send lies above
  the watermark of the file. `NotForgotten`
  speaks of the file only and is not inductive; `KeptInv` adds the same of the
  memory of a poll that is being sent, less what it has yet to send (`NoneBelow`),
  and what makes the *next* poll start early enough: no command that is above a
  watermark is stamped more than the lookback before its cursor, but for the named
  exceptions (`NoneBehind`).
* **GenerationProofs** - `TextDelivered`, `CallsConverge`, `CircuitHolds`. For the
  first, what has been handed over is a function of a task's stage and options, and
  the queues of the slots hold exactly the tasks that wait, each once, so that a
  grant moves a task that asked. For the second each kind of step of a call lowers a
  lexicographic order (provider, loop, optional parts of the request, polls, attempts,
  place in the loop); media calls have
  one provider, which is an invariant. For the third, a task between its read and its
  write that read an open circuit has a failure to record.
* **PipelineProofs** - the types of `Generation`, `PermitsReturned`, `KeyCap`,
  `CoversHistory`. `PermitInv` carries the first three: the values of the calls, the
  queues hold exactly the calls that wait, each once, and no key of a *single* pool
  serves more than its cap (`CallsInv`); the values of a progress, with a pool for
  every provider it may ask once it has registered (`PipesTyped`); a call is under way
  only in a stage that waits for it, and a chat uses the pools of its own task
  (`Owned`); the slots are held in the slotted stages (`SlotsHeld`). `KeyCap` counts
  over all pools of a provider and is not inductive: it follows by summing the caps of
  the single pools, since by `Owned` each use is in a pool some task holds.
  `CoversHistory` speaks of a finished text only; `HistoryInv` says of a text under
  way (`Summarising`) that no two lanes share a chunk, that a chunk taken is
  summarised, under way or lost, and that what a lane has and the parts it has left
  are consecutive cuts of its chunk (`Covers`): a part is split at a further cut,
  with its left half first, and an answer joins the first part to what there is. When
  all lanes are free and nothing was lost, each chunk is there in full; that the text
  is then the history flattened needs nothing of the flattening itself.
* **DesktopProofs** - `SavedAsMeant`, `CaughtUp`, `ConnectedOrDue`, `OneOfEach`,
  `ReportsTrue`.
  A form shows the document of its stamp with the change that was made to it; what
  an agent knows is stamped no later than the file, and is the file's content when
  the stamps agree; the platforms of the running configuration *and* of the last
  fingerprint have a client, live or dead, are due or dropped; the status of
  an operation agrees with the one who executes it. For `OneOfEach`, `ManagersInv` says
  what each manager relies on: the control service that the agent it started is the one
  it holds, the interface that after it has cleared none of its own runs. That the other
  steps start nothing and change no starter is one lemma (`OutlivedInv`).

Only model-checked: the liveness properties `PendingSettles`, `RoomsReleased`,
`RetriesStart` and `TasksEnd`, which need fairness and ENABLED; the
prover handles neither. The four properties of the runs that expect a violation
are false, so there is nothing to prove about them.

## 5. Findings

* `scheduler_spin`: a scheduled request that `enqueue` refuses goes back to the
  queue the same loop empties (`app/scheduled_runner.rs:18`, `:88`). While its
  room is in flight and the rate limit is ignored, which is the default, the loop
  never ends; only `reap` on the same thread could free the room. The header of
  `scheduled_backlog.rs` promises bounded retry timing.
* `tasks_preview`: a preview that a crash interrupts is recovered as
  `manual_retry`, runs with ordinary options, and its summary goes to the group
  (`app/scheduled_runner.rs:184`); the README of the repository says at `:120`
  that a preview is not sent.
* `tasks_cancel`: a cancellation is overwritten by the next `set_stage`
  (`app/operational_task.rs:22`); it is looked for once, and by a retry only
  after the retry has overwritten it.
* `control_reconnect`: a platform whose listener has ended fails in every pass of the
  loop (`app/platform.rs:363`, `wx4py-client/src/lib.rs:222`), and every failure sets its
  reconnect time to two seconds from now (`app/platform_runtime.rs:254`). The check
  for what is due comes right after (`app/main.rs:243`), so the client is never
  replaced, and the loop spins over the error without waiting, although the log says
  that a reconnect is scheduled.

Observations that no run depends on:

* `input_preparation` is in the list of resumable stages, but no code sets it;
  `media_processing` and `retry_accepted` are set and not resumable, so a task
  interrupted there fails with "summary output may have been prepared" although
  nothing was. A preview ends as `completed`; its stage `preview_ready` is
  overwritten.
* A task at `accepted` may have sent its progress notice, so a task that is
  resumed repeats the notice.
* A crash between `create_task` and the first stage leaves a row `queued` that no
  recovery looks at.
* A failed send leaves the task `failed` while the outbox may still deliver; an
  operator retry of the task then sends a second summary.
* Images of manual commands, progress notices and failure messages do not pass
  the outbox (`app/pipeline_delivery.rs:27`, `:56`), though the README says at
  `:123` that all messages do.
* Cancelling a task does not cancel its pending delivery. Retrying a weekly
  report in the task center runs an ordinary summary.

Transport:

* The new sidecar is started before the old one is dropped, so for a moment two
  processes may work the one window; a sidecar whose agent died drains its queue
  first. A sweep tells a caller "failed" while the old sidecar may still post: this
  is the exception in `Truthful`.
* The queue-aware time-out multiplies by the number of waiters at registration; a
  command abandoned by its waiter still occupies the sidecar, so a later one can
  time out in the queue.

Reception:

* The reasons `NotForgotten` names are in the code: `TakeBaseline` takes all rows as
  seen, also after the state file was torn by `fs::write`; events in a dropped channel
  are gone though the watermark is past them; a page cut at the provider's limit and
  then short of rows it cannot use counts as the last one; a row stamped earlier than
  the poll before it, or a batch whose times do not follow its ids, is not looked for
  again. A room with exactly a full page and an empty one behind it fails the poll.
* A platform event that is dropped because the room is busy or the queue full stays in
  the observed messages, and the copy recovered from the database is then ignored.

Generation:

* The media budget of a day is never enforced: the last `set_stage(.., 0, 0)`
  (`app/event_handler.rs:318`) resets the counts that the budget sums up, though
  README:121 offers a limit. Background images of manual commands pass the outbox by
  and are not counted either.
* `provider_health` is read and written in two statements, so of two failures one can
  be lost. The success of a task that ran on a fallback inside its call, or after the
  circuit has expired, resets the counter of the primary; any failure of the pipeline
  counts as the primary's; README:124 says "three failures in a row".
* `shared_key_pool` looks up and inserts under separate locks: two tasks that open at
  the same time get pools of their own, and a key serves twice its cap, against
  `ai/key_pool.rs:22` and `:131` ("process-wide"). `KeyCap` states the bound that does
  hold. Key sets that only share a key have separate pools by design.
* With a 429 a call keeps its permit while it waits in the process-wide queue.
* The error that quotes a reply is searched for " 400" and the like, so a text can
  decide whether a fallback is tried; a failed poll, download or write of an image
  orders a second image at the fallback.
* A weekly report whose image was delivered and whose caption failed sends its fallback
  text too.

Desktop:

* `ConfigReloader::load` reads the content and then the time
  (`app/config_reloader.rs:14`, `:21`): a write in between is never noticed, against
  README:16 (hot reload). This is `raced` in `CaughtUp`.
* A reconnect round in which nothing connects returns without a new fingerprint, but
  has dropped the clients of disabled platforms, and the times at which others were due
  (`app/platform_runtime.rs:279`, `:285`). Enabled again before the next fingerprint, such a
  platform is not connected. This is `dropped` in `ConnectedOrDue`; the second way was
  found while the proof was prepared.
* Writes that fall into one tick of the clock of the file system have one modification
  time. A reload that reads the file while `fs::write` has emptied it notes that time as
  failed (`app/config_reloader.rs:43`, `:50`), and when the filling has the same one it is not
  tried again. The model gives every write a stamp of its own and does not see this.
* `config.write` puts redacted values back by their place in the list: removing one
  before another stores the removed key and loses its neighbour (`moved` in the model); a
  marker that finds no place is stored as a key. No editor locks the file from its read to
  its write, so of two saves one can be lost.
* An elevated process that dies leaves its status at "running", and the monitor thread
  follows it for ever; a confirmation after the time limit runs though the interface was
  told that it did not start.
* The control process looks for its own agents only, the interface clears all: two
  agents of different managers may run, and two of one when a process is *loose*
  (`control/src/main.rs:1135`, `gui/src/main.rs:2797`). At its start each recovers the running
  tasks of the other (`app/main.rs:156`). `Outbox` and `TaskCenter` have one agent. `status_payload` calls an agent running without asking the process.

## 6. Not modelled, and the plan

Modelled: the outbox, the scheduler with its sources, the task center with the
control flow of the pipeline, the command transport, the reception of commands,
the generation with its provider calls, and the desktop with the configuration
file. Next, in this order:

1. Composition of `TaskCenter` with `Outbox` (a failed delivery against the retry of
   its task), and a refinement of `PostingLicence` by `TaskCenter` with
   `posted <- handed` and `licence <- 1 + lost`, with its proof.
2. A bound on the steps of a call as a theorem: the order of `CallsConverge` is well
   founded, which would turn it into a statement on every behaviour.
3. Rows and schedule of weekly reports, task rows of image commands, and the daily
   budgets, as further clients of outbox and task center.
4. A capacity of the image slots that changes while leases are out.
5. The resolution of time ranges (`core`), as a function over bounded inputs.
6. The task processor of the legacy Python worker.

Out of scope: texts, prompts, parsing, HTTP and image formats (data and library
code); the Discord gateway (a library); logs and artifacts, which the program does
not read again; what the interfaces show (WinUI and macOS are clients of the
control process); packaging.
