--------------------------- MODULE Reception ---------------------------
(***************************************************************************)
(* From a message in a WeChat group to an accepted summary request.  The   *)
(* main loop of the agent gets a command up to three times: from the       *)
(* window listener, which may miss it, repeat it, forget its id or stamp   *)
(* it anew, and from the database watcher (WxdbWatcher), which knows its   *)
(* id.  A task per room decides whether the command is a repetition.       *)
(*                                                                         *)
(* One room, one command text: all commands have the same trigger key.     *)
(***************************************************************************)
EXTENDS WxdbWatcher

CONSTANTS
  EventWindow,      \* TRIGGER_DEDUPE_EVENT_WINDOW_SECONDS, in ticks
  ProcessWindow,    \* TRIGGER_DEDUPE_WINDOW_SECONDS
  RealtimeWindow,   \* WXDB_RECOVERED_TRIGGER_REALTIME_DEDUPE_SECONDS
  Retention,        \* TRIGGER_DEDUPE_RETENTION_SECONDS
  MaxInputs         \* bound: ticks, events of the listener, and rows, twice

ASSUME InputsAssumption == MaxInputs \in Nat
ASSUME WindowsAssumption ==
  /\ {EventWindow, ProcessWindow, RealtimeWindow, Retention} \subseteq Nat
  /\ EventWindow <= ProcessWindow /\ ProcessWindow <= RealtimeWindow
  /\ RealtimeWindow <= Retention

VARIABLES
  agentUp,
  turn,             \* where the main loop is
  restartIn,        \* PlatformRuntime.watcher_restart_at
  inbox,            \* events of the window listener not yet taken
  notices,
  observed,         \* RecentObservedMessages: the commands among them
  attempts,         \* RecentTriggerAttempts, under the one key
  job,              \* the task of the room
  \* History: commands the loop has taken, requests accepted, restarts of
  \* the agent.
  taken, accepted, life

agent == <<agentUp, turn, restartIn, inbox, notices, observed, attempts, job,
           taken, accepted, life>>

vars == <<clock, log, watcher, stops, history, agent>>

\* An event: the row it is about, whether it carries the row's id, the
\* timestamp it carries, and the path it came by.
Events == [about : Ids, id : BOOLEAN, at : 0..MaxTime,
           recovered : BOOLEAN]

Recovered(i) ==
  [about |-> i, id |-> TRUE, at |-> log[i].at, recovered |-> TRUE]

Jobs == [event : Events, stage : {"queued", "working"}]

NoJob == [stage |-> "none"]

Attempts == [about : Ids, id : BOOLEAN, at : 0..MaxTime, when : 0..MaxTime]

TypeOK ==
  /\ WatcherTypeOK
  /\ agentUp \in BOOLEAN
  /\ turn \in {"drain", "wait"}
  /\ restartIn \in {"never", "later", "now"}
  /\ inbox \in Seq(Events)
  /\ notices \in 0..MaxInputs
  /\ observed \subseteq Events
  /\ attempts \subseteq Attempts
  /\ job \in Jobs \cup {NoJob}
  /\ taken \subseteq Ids
  /\ accepted \in Seq([about : Ids, id : BOOLEAN, at : 0..MaxTime,
                       when : 0..MaxTime, life : 0..MaxStops])
  /\ life \in 0..MaxStops

Init ==
  /\ clock = 0
  /\ log = <<>>
  /\ step = "idle"
  /\ mem = NoRoom
  /\ query = NoQuery
  /\ outgoing = <<>>
  /\ file = <<NoRoom>>
  /\ channel = <<>>
  /\ stops = 0
  /\ baseline = {} /\ lost = {} /\ overrun = {}
  /\ agentUp = TRUE
  /\ turn = "drain"
  /\ restartIn = "never"
  /\ inbox = <<>>
  /\ notices = 0
  /\ observed = {}
  /\ attempts = {}
  /\ job = NoJob
  /\ taken = {}
  /\ accepted = <<>>
  /\ life = 0

---------------------------------------------------------------------------
(* The world.                                                              *)

Bounded == clock + notices + 2 * Len(log) < MaxInputs

Tick ==
  /\ Bounded
  /\ clock < MaxTime
  /\ clock' = clock + 1
  /\ UNCHANGED <<log, watcher, stops, history, agent>>

Arrive ==
  /\ Bounded
  /\ \E kind \in Kinds, at \in Max({0, clock - MaxDelay})..clock :
       Insert(kind, at)
  /\ UNCHANGED <<clock, watcher, stops, history, agent>>

\* The window listener reports a row, once more perhaps, with or without an
\* id, with its own timestamp or that of the moment.
Notice ==
  /\ agentUp
  /\ Bounded
  /\ notices' = notices + 1
  /\ \E i \in DOMAIN log, id \in BOOLEAN :
       /\ log[i].kind = "command"
       /\ \E at \in {log[i].at, clock} :
            inbox' = Append(inbox, [about |-> i, id |-> id, at |-> at,
                                    recovered |-> FALSE])
  /\ UNCHANGED <<clock, log, watcher, stops, history, agentUp, turn, restartIn,
                 observed, attempts, job, taken, accepted, life>>

---------------------------------------------------------------------------
(* The main loop.                                                          *)

task == <<observed, attempts, job, accepted>>

RestartComesDue ==
  /\ restartIn = "later"
  /\ restartIn' = "now"
  /\ UNCHANGED <<clock, log, watcher, stops, history, agentUp, turn, inbox,
                 notices, task, taken, life>>

\* enqueue_platform_event: an event of the listener is remembered; then the
\* task of the room is scheduled unless the room has one (DuplicateRoom).
Enqueue(event) ==
  /\ taken' = taken \cup {event.about}
  /\ observed' = IF event.recovered THEN observed ELSE observed \cup {event}
  /\ job' = IF job # NoJob THEN job
            ELSE [event |-> event, stage |-> "queued"]
  /\ UNCHANGED <<attempts, accepted>>

\* Every event in the channel is taken before the loop goes on.
Drain ==
  /\ agentUp
  /\ turn = "drain"
  /\ channel # <<>>
  /\ Enqueue(Recovered(Head(channel)))
  /\ channel' = Tail(channel)
  /\ UNCHANGED <<clock, log, step, mem, query, outgoing, file, stops, history,
                 agentUp, turn, restartIn, inbox, notices, life>>

\* Empty, or disconnected: then a restart is scheduled unless one is.
Drained ==
  /\ agentUp
  /\ turn = "drain"
  /\ channel = <<>>
  /\ turn' = "wait"
  /\ restartIn' = IF step = "off" /\ restartIn = "never" THEN "later"
                  ELSE restartIn
  /\ UNCHANGED <<clock, log, watcher, stops, history, agentUp, inbox, notices,
                 task, taken, life>>

\* One event of the listener, or none within a second; then the next turn,
\* in which a watcher is replaced when its restart is due or its
\* configuration has changed, before anything is drained.
Wait ==
  /\ agentUp
  /\ turn = "wait"
  /\ turn' = "drain"
  /\ IF inbox = <<>> THEN UNCHANGED <<task, inbox, taken>>
     ELSE Enqueue(Head(inbox)) /\ inbox' = Tail(inbox)
  /\ \/ /\ restartIn = "now"
        /\ Replace
        /\ restartIn' = "never"
        /\ UNCHANGED stops
     \/ /\ Stop
        /\ Replace
        /\ restartIn' = "never"
     \/ /\ restartIn # "now"
        /\ UNCHANGED <<watcher, stops, history, restartIn>>
  /\ UNCHANGED <<clock, log, agentUp, notices, life>>

---------------------------------------------------------------------------
(* The task: handle_platform_event.                                        *)

rest == <<clock, log, watcher, stops, history, agentUp, turn, restartIn, inbox,
          notices, taken, life>>

\* has_matching_trigger.  A recovered event always has an id, so the branch
\* for two events without one never applies.
ObservedRealtime(event) ==
  \E o \in observed : /\ o.at >= clock - RealtimeWindow
                      /\ o.id /\ event.id /\ o.about = event.about

EventTimesClose(a, b) == a - b \in -EventWindow..EventWindow

SameTrigger(a, event) ==
  IF a.id /\ event.id THEN a.about = event.about
  ELSE a.when >= clock - ProcessWindow \/ EventTimesClose(a.at, event.at)

\* Fault: an attempt is kept by the time of its event.
RetainedByEvent == {a \in attempts : a.at >= clock - Retention}

Retained == {a \in attempts : a.when >= clock - Retention}

Ignore ==
  /\ agentUp
  /\ job.stage = "queued"
  /\ \/ /\ job.event.recovered /\ ObservedRealtime(job.event)
        /\ UNCHANGED attempts
     \/ /\ ~(job.event.recovered /\ ObservedRealtime(job.event))
        /\ attempts' = Retained
        /\ \E a \in Retained : SameTrigger(a, job.event)
  /\ job' = NoJob
  /\ UNCHANGED <<observed, accepted, rest>>

\* The attempt is recorded, and the request accepted, or turned away by the
\* rate limit, the budget or the platform.
Decide ==
  LET e == job.event IN
  /\ agentUp
  /\ job.stage = "queued"
  /\ ~(e.recovered /\ ObservedRealtime(e))
  /\ ~\E a \in Retained : SameTrigger(a, e)
  /\ attempts' = Retained \cup
       {[about |-> e.about, id |-> e.id, at |-> e.at, when |-> clock]}
  /\ \/ /\ job' = [job EXCEPT !.stage = "working"]
        /\ accepted' = Append(accepted,
             [about |-> e.about, id |-> e.id, at |-> e.at, when |-> clock,
              life |-> life])
     \/ job' = NoJob /\ UNCHANGED accepted
  /\ UNCHANGED <<observed, rest>>

Finish ==
  /\ agentUp
  /\ job.stage = "working"
  /\ job' = NoJob
  /\ UNCHANGED <<observed, attempts, accepted, rest>>

---------------------------------------------------------------------------
(* Crash and restart of the agent.                                         *)

Crash ==
  /\ agentUp
  /\ Stop
  /\ WatcherKilled
  /\ agentUp' = FALSE
  /\ turn' = "drain"
  /\ restartIn' = "never"
  /\ inbox' = <<>>
  /\ observed' = {}
  /\ attempts' = {}
  /\ job' = NoJob
  /\ UNCHANGED <<clock, log, notices, taken, accepted, life>>

Restart ==
  /\ ~agentUp
  /\ agentUp' = TRUE
  /\ life' = life + 1
  /\ StartWatcher
  /\ UNCHANGED <<clock, log, stops, history, turn, restartIn, inbox, notices,
                 task, taken>>

---------------------------------------------------------------------------

WatcherSteps ==
  /\ \/ BeginPoll \/ TakeBaseline \/ PageOn \/ EndPoll \/ PollFails
     \/ SendEvent \/ SaveState \/ WatcherPanics
  /\ UNCHANGED agent

Next ==
  \/ Tick \/ Arrive \/ Notice
  \/ WatcherSteps
  \/ RestartComesDue \/ Drain \/ Drained \/ Wait
  \/ Ignore \/ Decide \/ Finish
  \/ Crash \/ Restart

Spec == Init /\ [][Next]_vars

---------------------------------------------------------------------------
(* Properties.                                                             *)

\* No message is summarized twice unexplained: a second acceptance of one
\* command is in another life of the agent, or after the retention of the
\* attempts, or one of the two came without an id, stamped anew, when the
\* first was no longer recent.
RepeatsExplained ==
  \A m, n \in DOMAIN accepted :
    LET a == accepted[m]
        b == accepted[n]
    IN
    m < n /\ a.about = b.about =>
      \/ a.life # b.life
      \/ b.when > a.when + Retention
      \/ /\ ~(a.id /\ b.id)
         /\ ~EventTimesClose(a.at, b.at)
         /\ b.when > a.when + ProcessWindow

\* The watermark in the file never passes a command the main loop will not
\* see, save those that were there at a baseline or stamped before it, that
\* lay in the channel of a watcher or agent that was stopped, that a poll did
\* not come to because it stopped at a page with rows the agent cannot use or
\* that are newer than the poll, that reached the database later than the
\* lookback allows, or that bear a later time than a row behind them: such a
\* row may lie in the window of a poll when they do not yet.
NotForgotten ==
  \A i \in DOMAIN log :
    /\ log[i].kind = "command"
    /\ file # NoFile
    /\ i <= Head(file).last
    => \/ i \in baseline \cup taken \cup Range(channel) \cup lost \cup overrun
       \/ log[i].late \/ log[i].at < Head(file).start
       \/ \E j \in DOMAIN log : i < j /\ log[j].at < log[i].at
=========================================================================
