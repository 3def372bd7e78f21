------------------------------ MODULE Desktop ------------------------------
(***************************************************************************)
(* The processes on the desktop: agents that load config/agent.toml, watch *)
(* it and reconnect their platforms; the control service and the egui      *)
(* interface that start and stop them; the elevated process that installs  *)
(* the runtime, and the thread of the control service that follows it      *)
(* through a status file.  The processes share files and no locks.         *)
(*                                                                         *)
(* Abstractions.  The two seconds to a reconnect run out while a pass of   *)
(* the agent's loop works and waits for events, never between the top of   *)
(* the loop and the check for what is due, which wait for nothing; the     *)
(* five minutes to the confirmation of the user may run out at any time.   *)
(* One operation stands for all kinds: it may or may not run the           *)
(* installer.  There is one control service and one egui interface.        *)
(***************************************************************************)
EXTENDS ConfigEditors, Functions

CONSTANTS
  Slots,      \* bound: processes of the agent
  Scenarios   \* the keys in the file; bounds: the numbers of edits, starts,
              \* losses and operations

ASSUME ScenarioAssumption ==
  Scenarios \subseteq [keys : Seq(Secrets), edits : Nat, starts : Nat,
                       losses : Nat, operations : Nat]

Control == "control"
Managers == {Control, GUI}
None == "none"

ASSUME SettingsAssumption == Settings \cap {None, "dead"} = {}

VARIABLES
  left,       \* bound: what is left of the scenario
  agent,      \* Slots -> the process
  handle,     \* Managers -> the process it started and has not let go
  clearing,   \* the interface has looked for other agents and killed them
              \* (cleared), or saw none because the list failed (unseen)
  operation,  \* the operation, its status file and its monitor
  setup       \* the interface runs the installer

vars == <<editorVars, left, agent, handle, clearing, operation, setup>>

\* by: who started it; loose when it ran past its manager: the control
\* service could not put it into the job, or the interface saw no others.
\* seen: the stamp that goes with content.  raced: the file was written
\* between the two reads of the load.  clients: the setting a platform is
\* connected with, or None, or "dead".  due: reconnect_at; elapsed: those of
\* them whose time is up.
NoAgent ==
  [at |-> None, by |-> None, seen |-> 0, content |-> Empty, config |-> Empty,
   modified |-> 0, failed |-> 0, raced |-> FALSE,
   clients |-> [k \in Kinds |-> None], due |-> {}, elapsed |-> {},
   fingerprint |-> <<{}, None>>, dropped |-> {}]

\* The places of the loop: its top, the check for what is due, the rest.
Loop == {"idle", "checks", "listens"}

\* status: what the file holds, torn while it is written.  known: what the
\* monitor read last that was whole; shown: what it found last.
NoOperation ==
  [elevated |-> None, status |-> None, monitor |-> "off", known |-> "pending",
   shown |-> "pending", report |-> None]

Init ==
  /\ \E s \in Scenarios : left = s /\ edits = s.edits /\ EditorInit(s.keys)
  /\ agent = [s \in Slots |-> NoAgent]
  /\ handle = [m \in Managers |-> None]
  /\ clearing = "no"
  /\ operation = NoOperation
  /\ setup = FALSE

Spends(budget) == left[budget] > 0 /\ left' = [left EXCEPT ![budget] = @ - 1]

EditorStep ==
  /\ EditorNext
  /\ UNCHANGED <<left, agent, handle, clearing, operation, setup>>

---------------------------------------------------------------------------
(* The agent: the configuration.                                           *)

AgentBecomes(s, r) ==
  /\ agent' = [agent EXCEPT ![s] = r]
  /\ UNCHANGED <<editorVars, left, handle, clearing, operation, setup>>

Exits(s) == AgentBecomes(s, NoAgent)

\* ConfigReloader::load reads the content first ...
LoadRead(s) ==
  /\ agent[s].at = "spawned"
  /\ IF file.doc.state = "valid"
     THEN AgentBecomes(s, [agent[s] EXCEPT !.at = "loading", !.content = file.doc,
                                           !.seen = file.stamp])
     ELSE Exits(s)

\* ... and the modification time when it has parsed it.
LoadStamp(s) ==
  /\ agent[s].at = "loading"
  /\ AgentBecomes(s, [agent[s] EXCEPT
       !.at = "connecting", !.config = agent[s].content, !.content = Empty,
       !.modified = file.stamp, !.raced = agent[s].seen # file.stamp,
       !.seen = 0])

Fingerprint(config) == <<config.kinds, config.setting>>

\* connect_all: all of them or none.
Connect(s) ==
  /\ agent[s].at = "connecting"
  /\ LET config == agent[s].config
     IN  AgentBecomes(s, [agent[s] EXCEPT
           !.at = "idle", !.fingerprint = Fingerprint(config),
           !.clients = [k \in Kinds |-> IF k \in config.kinds THEN config.setting
                                        ELSE None]])

ConnectFails(s) == agent[s].at = "connecting" /\ Exits(s)

\* reload_if_changed reads the time first.
ReloadSees(s) ==
  /\ agent[s].at = "idle"
  /\ file.stamp \notin {agent[s].modified, agent[s].failed}
  /\ AgentBecomes(s, [agent[s] EXCEPT !.at = "reloading", !.seen = file.stamp])

ReloadReads(s) ==
  /\ agent[s].at = "reloading"
  /\ AgentBecomes(s, [agent[s] EXCEPT !.at = "validating", !.content = file.doc])

\* Fault: the time is read when the content has been.
StampAfterwards(a) == file.stamp

Stamp(a) == a.seen

\* request_reconnect, whose two seconds begin anew, or
\* refresh_runtime_options.
Requested(a) ==
  IF Fingerprint(a.content) # a.fingerprint THEN a.content.kinds ELSE {}

ReloadEnds(s) ==
  /\ agent[s].at = "validating"
  /\ LET a == [agent[s] EXCEPT !.at = "checks", !.seen = 0, !.content = Empty]
         requested == Requested(agent[s])
     IN AgentBecomes(s,
          IF agent[s].content.state = "valid"
          THEN [a EXCEPT !.config = agent[s].content, !.modified = Stamp(agent[s]),
                         !.failed = 0, !.raced = FALSE,
                         !.due = @ \cup requested,
                         !.elapsed = @ \ requested]
          ELSE [a EXCEPT !.failed = Stamp(agent[s])])

---------------------------------------------------------------------------
(* The agent: the platforms.                                               *)

\* Fault: a platform is tried once.
StillDueOnce(a, tried, connected) == a.due \ tried

StillDue(a, tried, connected) ==
  a.due \ (connected \cup (tried \ a.config.kinds))

AtCheck(a) ==
  \/ a.at = "checks"
  \/ a.at = "idle" /\ file.stamp \in {a.modified, a.failed}

NothingElapsed(s) ==
  /\ AtCheck(agent[s]) /\ agent[s].elapsed = {}
  /\ AgentBecomes(s, [agent[s] EXCEPT !.at = "listens"])

\* A round over the platforms whose time is up: clients of platforms that are no
\* longer enabled go; of the others each is replaced, or not, or is replaced and
\* has no routes because another platform has its rooms.  What is still due
\* waits for two seconds again.
Round(a, replaced, connected) ==
  LET enabled == a.config.kinds
      tried == a.elapsed
      gone == {k \in Kinds \ enabled : a.clients[k] # None \/ k \in tried}
  IN  [a EXCEPT
        !.at = "listens",
        !.clients = [k \in Kinds |-> IF k \notin enabled THEN None
                                     ELSE IF k \in replaced THEN a.config.setting
                                     ELSE a.clients[k]],
        !.due = StillDue(a, tried, connected), !.elapsed = {},
        !.fingerprint = IF connected = {} THEN @ ELSE Fingerprint(a.config),
        !.dropped = (IF connected = {} THEN @ \cup gone
                                    ELSE @ \cap enabled) \ replaced]

\* reconnect_if_due, when something is due.
Reconnect(s) ==
  /\ AtCheck(agent[s]) /\ agent[s].elapsed # {}
  /\ \E replaced \in SUBSET (agent[s].elapsed \cap agent[s].config.kinds) :
     \E connected \in SUBSET replaced :
       AgentBecomes(s, Round(agent[s], replaced, connected))

\* The thread behind a client ends and its channel closes, at any time.
Dies(s, k) ==
  /\ agent[s].clients[k] \notin {None, "dead"}
  /\ Spends("losses")
  /\ agent' = [agent EXCEPT ![s].clients[k] = "dead"]
  /\ UNCHANGED <<editorVars, handle, clearing, operation, setup>>

\* request_reconnect_kind, for a platform that is enabled: whether it was in
\* reconnect_at or not, its two seconds begin now.
Postponed(a, k) ==
  [a EXCEPT !.due = @ \cup ({k} \cap a.config.kinds),
            !.elapsed = @ \ ({k} \cap a.config.kinds)]

\* The rest of a pass: the time of some runs out, and the clients are asked for
\* an event, one after another, until one has an event or an error.  A live one
\* has now and then an error, a dead one whenever it is asked.
Listens(s, late) ==
  /\ agent[s].at = "listens"
  /\ LET a == [agent[s] EXCEPT !.at = "idle", !.elapsed = @ \cup late]
         asked == {k \in Kinds : a.clients[k] # None}
         dead == {k \in Kinds : a.clients[k] = "dead"}
     IN \/ /\ dead = {} \/ asked # dead
           /\ AgentBecomes(s, a)
        \/ \E k \in asked :
             /\ IF k \in dead THEN UNCHANGED left ELSE Spends("losses")
             /\ agent' = [agent EXCEPT ![s] = Postponed(a, k)]
             /\ UNCHANGED <<editorVars, handle, clearing, operation, setup>>

---------------------------------------------------------------------------
(* The managers of the agent.                                              *)

Runs(s) == s # None /\ agent[s].at # None

\* A slot that no handle is about.
Spawn(s, by) ==
  /\ ~Runs(s) /\ s \notin Range(handle)
  /\ Spends("starts")
  /\ agent' = [agent EXCEPT ![s] = [NoAgent EXCEPT !.at = "spawned", !.by = by]]
  /\ UNCHANGED <<editorVars, operation, setup>>

\* agent_start, under the lock of the handle.  The process runs on without a
\* handle when it cannot be assigned to the job.
ControlStarts(s) ==
  /\ ~Runs(handle[Control])
  /\ \/ Spawn(s, Control) /\ handle' = [handle EXCEPT ![Control] = s]
     \/ Spawn(s, "loose") /\ handle' = [handle EXCEPT ![Control] = None]
  /\ UNCHANGED clearing

Killed(P) == [s \in Slots |-> IF s \in P THEN NoAgent ELSE agent[s]]

\* agent_stop, and the end of the service: its job takes the agent along.
ControlStops ==
  /\ handle[Control] # None
  /\ agent' = Killed({handle[Control]})
  /\ handle' = [handle EXCEPT ![Control] = None]
  /\ UNCHANGED <<editorVars, left, clearing, operation, setup>>

\* poll_agent_output, in every frame.
GuiPolls ==
  /\ handle[GUI] # None /\ ~Runs(handle[GUI])
  /\ handle' = [handle EXCEPT ![GUI] = None]
  /\ UNCHANGED <<editorVars, left, agent, clearing, operation, setup>>

\* Fault: of the agents only the one it has a handle of.
OwnAgent == {s \in Slots : s = handle[GUI]}

ByName == Slots

\* stop_existing_agent_processes: all by name, whoever started them, unless
\* the list of the processes cannot be had; when one cannot be killed the
\* start is given up.
GuiClears ==
  /\ handle[GUI] = None /\ clearing = "no"
  /\ left.starts > 0
  /\ \/ agent' = Killed(ByName) /\ clearing' = "cleared"
     \/ \E P \in SUBSET Slots : agent' = Killed(P) /\ UNCHANGED clearing
     \/ UNCHANGED agent /\ clearing' = "unseen"
  /\ UNCHANGED <<editorVars, left, handle, operation, setup>>

GuiStarts(s) ==
  /\ clearing # "no" /\ clearing' = "no"
  /\ Spawn(s, IF clearing = "cleared" THEN GUI ELSE "loose")
  /\ handle' = [handle EXCEPT ![GUI] = s]

\* The program is not there.
GuiStartFails ==
  /\ clearing # "no" /\ clearing' = "no"
  /\ UNCHANGED <<editorVars, left, agent, handle, operation, setup>>

\* stop_agent, if the kill succeeds.
GuiStops ==
  /\ handle[GUI] # None
  /\ agent' = Killed({handle[GUI]})
  /\ handle' = [handle EXCEPT ![GUI] = None]
  /\ UNCHANGED <<editorVars, left, clearing, operation, setup>>

\* The window is closed: the agent runs on, and a save is left as it is.
GuiCloses ==
  /\ handle[GUI] # None \/ forms[GUI].at # "closed"
  /\ handle' = [handle EXCEPT ![GUI] = None]
  /\ clearing' = "no"
  /\ Becomes(GUI, Closed)
  /\ UNCHANGED <<file, edits, left, agent, operation, setup>>

Crashes(s) == Runs(s) /\ Spends("losses") /\ agent' = Killed({s})
              /\ UNCHANGED <<editorVars, handle, clearing, operation, setup>>

---------------------------------------------------------------------------
(* The interface's own installer.                                          *)

SetupStarts ==
  /\ ~setup /\ Spends("operations")
  /\ setup' = TRUE
  /\ Install(Setup)
  /\ UNCHANGED <<agent, handle, clearing, operation>>

\* poll_runtime_install_output: the form is read again, whatever was typed
\* into it.  A script that dies leaves the file as it is.
SetupEnds ==
  /\ setup
  /\ setup' = FALSE
  /\ forms' = [forms EXCEPT ![Setup] = Closed,
       ![GUI] = IF file.doc.state = "broken" \/ @.at = "truncated" THEN @
                ELSE [Closed EXCEPT !.at = "open", !.doc = file.doc,
                                    !.meant = file.doc, !.base = file.stamp]]
  /\ UNCHANGED <<file, edits, left, agent, handle, clearing, operation>>

---------------------------------------------------------------------------
(* An elevated operation.                                                  *)

OperationBecomes(o) ==
  /\ operation' = o
  /\ UNCHANGED <<editorVars, left, agent, handle, clearing, setup>>

\* start_elevated_operation_with_package: the status is written and the
\* monitor runs before the user is asked.
RequestOperation ==
  /\ operation = NoOperation
  /\ Spends("operations")
  /\ operation' = [NoOperation EXCEPT !.elevated = "asked", !.status = "pending",
                                      !.monitor = "reads"]
  /\ UNCHANGED <<editorVars, agent, handle, clearing, setup>>

SpawnFails ==
  /\ operation.elevated = "asked" /\ operation.status = "pending"
  /\ OperationBecomes([operation EXCEPT !.elevated = None, !.status = "failed"])

\* write_operation_status: fs::write empties the file, then fills it.
Phases == [asked |-> "running", running |-> "succeeded",
           installed |-> "succeeded", aborted |-> "failed"]

BeginsStatus ==
  /\ operation.elevated \in DOMAIN Phases
  /\ operation.status # "torn"
  /\ operation.elevated = "aborted" \/ forms[Elevated].at = "closed"
  /\ OperationBecomes([operation EXCEPT !.status = "torn"])

EndsStatus ==
  /\ operation.elevated \in DOMAIN Phases /\ operation.status = "torn"
  /\ LET status == Phases[operation.elevated]
     IN  OperationBecomes([operation EXCEPT
           !.status = status,
           !.elevated = IF status = "running" THEN "running" ELSE None])

OperationAborts ==
  /\ operation.elevated \in {"running", "installed"}
  /\ operation.status # "torn"
  /\ operation' = [operation EXCEPT !.elevated = "aborted"]
  /\ Becomes(Elevated, Closed)
  /\ UNCHANGED <<file, edits, left, agent, handle, clearing, setup>>

\* The user refuses, the process dies, or it leaves with an error before it
\* has a result: nobody writes the status any more.
OperationDies ==
  /\ operation.elevated # None
  /\ operation' = [operation EXCEPT !.elevated = None]
  /\ Becomes(Elevated, Closed)
  /\ UNCHANGED <<file, edits, left, agent, handle, clearing, setup>>

OperationInstalls ==
  /\ operation.elevated = "running" /\ operation.status # "torn"
  /\ operation' = [operation EXCEPT !.elevated = "installed"]
  /\ Install(Elevated)
  /\ UNCHANGED <<left, agent, handle, clearing, setup>>

Final == {"succeeded", "failed"}

MonitorReads ==
  /\ operation.monitor = "reads"
  /\ LET found == operation.status
         known == IF found = "torn" THEN operation.known ELSE found
     IN  OperationBecomes([operation EXCEPT
           !.known = known, !.shown = found,
           !.report = IF found \in Final THEN found ELSE @,
           !.monitor = IF found \in Final THEN "off" ELSE "waits"])

\* Fault: it gives up whatever it knows.
WaitingAlways(known) == TRUE

WaitingForElevation(known) == known = "pending"

MonitorWaits ==
  /\ operation.monitor = "waits"
  /\ \/ OperationBecomes([operation EXCEPT !.monitor = "reads"])
     \/ /\ WaitingForElevation(operation.known)
        /\ OperationBecomes([operation EXCEPT !.monitor = "off",
                                              !.report = "not started"])

---------------------------------------------------------------------------

Next ==
  \/ EditorStep
  \/ \E s \in Slots :
       \/ LoadRead(s) \/ LoadStamp(s) \/ Connect(s) \/ ConnectFails(s)
       \/ ReloadSees(s) \/ ReloadReads(s) \/ ReloadEnds(s)
       \/ NothingElapsed(s) \/ Reconnect(s)
       \/ \E late \in SUBSET agent[s].due : Listens(s, late)
       \/ \E k \in Kinds : Dies(s, k)
       \/ ControlStarts(s) \/ GuiStarts(s) \/ Crashes(s)
  \/ ControlStops
  \/ GuiPolls \/ GuiClears \/ GuiStartFails \/ GuiStops \/ GuiCloses
  \/ SetupStarts \/ SetupEnds
  \/ RequestOperation \/ SpawnFails \/ BeginsStatus \/ EndsStatus
  \/ OperationAborts \/ OperationDies \/ OperationInstalls
  \/ MonitorReads \/ MonitorWaits

Spec == Init /\ [][Next]_vars

\* The steps of an agent that nobody but itself takes.
AgentStep(s) ==
  \/ LoadRead(s) \/ LoadStamp(s) \/ Connect(s)
  \/ ReloadSees(s) \/ ReloadReads(s) \/ ReloadEnds(s)
  \/ NothingElapsed(s) \/ Reconnect(s)
  \/ \E late \in SUBSET agent[s].due : Listens(s, late)

\* An agent that runs goes round, and in pass after pass there is time enough
\* for all that is due.
FairSpec ==
  /\ Spec
  /\ \A s \in Slots : WF_vars(AgentStep(s)) /\ SF_vars(Listens(s, agent[s].due))

---------------------------------------------------------------------------
(* Properties.                                                             *)

Looping == {s \in Slots : agent[s].at \in Loop}

\* An agent that finds nothing to reload runs with the configuration that is
\* in the file, however writes and reads of the file interleave.  The
\* exception is in the code: a write between the two reads of the load.
CaughtUp ==
  \A s \in Looping :
    LET a == agent[s]
    IN  file.stamp \in {a.modified, a.failed} /\ file.doc.state = "valid" =>
          a.config = file.doc \/ a.raced

\* Every enabled platform has a client of the present configuration, live or
\* dead, or is in reconnect_at, after any sequence of reloads, losses, failed
\* and partial reconnects: none is forgotten.  That its time comes is another
\* matter (DeadIsTried).  The exception is in the code: a round in which
\* nothing connects drops the client of a disabled platform, or gives up
\* trying it, and keeps the fingerprint in which it was enabled.
ConnectedOrDue ==
  \A s \in Looping :
    LET a == agent[s]
    IN  \A k \in a.config.kinds :
          \/ a.clients[k] \in {a.config.setting, "dead"}
          \/ k \in a.due \cup a.dropped

\* An enabled platform whose listener has ended is tried again, as the log
\* says ("reconnect scheduled", "delay_seconds=2"): a check finds its time up,
\* unless the client is gone by then, or the platform is no longer enabled.
\* The code does not do so: the dead listener fails again in the same pass, and
\* every failure begins the two seconds anew.
DeadIsTried ==
  \A s \in Slots : \A k \in Kinds :
    (agent[s].clients[k] = "dead" /\ k \in agent[s].config.kinds)
      ~> (\/ agent[s].clients[k] # "dead"
          \/ k \notin agent[s].config.kinds \ agent[s].elapsed)

\* Two agents run at a time, and take each other's messages and recover each
\* other's tasks, only when different managers have started them: whatever is
\* stopped, closed, started again or dies, a manager that starts an agent has
\* none of its own that still runs.  The exceptions are in the code: a process
\* that is not assigned to the job, and a list of processes that fails.
OneOfEach ==
  \A s, t \in Slots :
    Runs(s) /\ Runs(t) /\ agent[s].by = agent[t].by /\ agent[s].by # "loose" => s = t

\* What the monitor reports of an operation is so: success and failure were
\* written by the one who executed it, and "not started" is only said when
\* the status found last was that of a request, or was being written.
ReportsTrue ==
  /\ operation.report \in Final => operation.status = operation.report
  /\ operation.report = "not started" => operation.shown \in {"pending", "torn"}

=============================================================================
