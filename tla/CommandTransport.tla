------------------------ MODULE CommandTransport ------------------------
(***************************************************************************)
(* How a command reaches the chat window.  A sender of wx4py-client        *)
(* registers a waiter, writes one line to the stdin of a Python sidecar    *)
(* and waits; the sidecar works the WeChat window and answers on stdout,   *)
(* where a reader thread hands the answer to the waiter.                   *)
(*                                                                         *)
(* The agent replaces a client on reconnect: it starts the next sidecar,   *)
(* and drops the old client only when the new one is ready, while senders  *)
(* cloned from the old one are still in use.  A waiter may give up, a      *)
(* sidecar may die, the reader may fail, and the agent may die and leave   *)
(* its sidecars to the end of their stdin.                                 *)
(***************************************************************************)
EXTENDS Naturals, Sequences, FiniteSets

CONSTANTS
  Calls,            \* commands: one send_text, send_image or send_file each
  \* Bounds of the model.
  MaxClients,       \* clients started: the first one and reconnects
  MaxFaults         \* crashes of a sidecar, read errors, a death of the agent

ASSUME CallsAssumption == IsFiniteSet(Calls)
ASSUME BoundsAssumption == MaxClients \in Nat \ {0} /\ MaxFaults \in Nat

VARIABLES
  \* Each call of send_command_blocking: where it is, on which client, what
  \* lies in its waiter's channel, what it returned.
  pc, client, answer, result,
  pending,          \* Wx4pyTransport.pending of each client
  closed,           \* Wx4pyTransport.closed
  reader,           \* the stdout thread of each client
  owner,            \* what the platform runtime does with each client
  adopted,          \* clients that became ready and handed out senders
  sidecar,          \* the process behind each client
  stdin,            \* lines written and not yet taken up by run_commands
  work,             \* the command a sidecar is performing
  stdout,           \* lines emitted and not yet read
  agentUp,
  posted,           \* how often each command appeared in the chat (history)
  misread,          \* commands that appeared while the window automation
                    \* reported failure (history)
  faults

calls == <<pc, client, answer, result>>

vars == <<calls, pending, closed, reader, owner, adopted, sidecar, stdin,
          work, stdout, agentUp, posted, misread, faults>>

Clients == 1..MaxClients

NoCall == "none"

ASSUME NoCallAssumption == NoCall \notin Calls

Stages == {"idle", "checked", "registered", "writing", "waiting", "expired",
           "done"}

Results == {"none", "sent", "failed", "refused", "indeterminate", "lost"}

Attempts == 2       \* send_text_guarded and send_file_guarded try twice

Work == [call : Calls \cup {NoCall}, attempt : 1..Attempts, landed : BOOLEAN]

Free == [call |-> NoCall, attempt |-> 1, landed |-> FALSE]

\* A line of stdout: the ready line, or the outcome of a command.
Lines == [call : Calls \cup {NoCall}, ok : BOOLEAN]

ReadyLine == [call |-> NoCall, ok |-> TRUE]

Running == {"starting", "ready"}

TypeOK ==
  /\ pc \in [Calls -> Stages]
  /\ client \in [Calls -> Clients]
  /\ answer \in [Calls -> {"none", "ok", "error"}]
  /\ result \in [Calls -> Results]
  /\ pending \in [Clients -> SUBSET Calls]
  /\ closed \in [Clients -> BOOLEAN]
  /\ reader \in [Clients -> {"none", "reading", "sweeping", "gone"}]
  /\ owner \in [Clients ->
                  {"none", "starting", "held", "closing", "reaping", "gone"}]
  /\ adopted \in SUBSET Clients
  /\ sidecar \in [Clients -> Running \cup {"unborn", "dead"}]
  /\ stdin \in [Clients -> Seq(Calls)]
  /\ work \in [Clients -> Work]
  /\ stdout \in [Clients -> Seq(Lines)]
  /\ agentUp \in BOOLEAN
  /\ posted \in [Calls -> Nat]
  /\ misread \in SUBSET Calls
  /\ faults \in 0..MaxFaults

Init ==
  /\ pc = [k \in Calls |-> "idle"]
  /\ client = [k \in Calls |-> 1]
  /\ answer = [k \in Calls |-> "none"]
  /\ result = [k \in Calls |-> "none"]
  /\ pending = [c \in Clients |-> {}]
  /\ closed = [c \in Clients |-> FALSE]
  /\ reader = [c \in Clients |-> "none"]
  /\ owner = [c \in Clients |-> "none"]
  /\ adopted = {}
  /\ sidecar = [c \in Clients |-> "unborn"]
  /\ stdin = [c \in Clients |-> <<>>]
  /\ work = [c \in Clients |-> Free]
  /\ stdout = [c \in Clients |-> <<>>]
  /\ agentUp = TRUE
  /\ posted = [k \in Calls |-> 0]
  /\ misread = {}
  /\ faults = 0

---------------------------------------------------------------------------
(* The life of a client.                                                   *)

process == <<stdin, work, posted, misread, faults>>

Fault == faults < MaxFaults /\ faults' = faults + 1

\* Wx4pyClient::start spawns the sidecar and the reader.  The runtime is one
\* task, so it starts a client only when it is not dealing with another one.
Start(c) ==
  /\ agentUp
  /\ owner[c] = "none"
  /\ \A b \in 1..(c - 1) : owner[b] \in {"held", "gone"}
  /\ owner' = [owner EXCEPT ![c] = "starting"]
  /\ sidecar' = [sidecar EXCEPT ![c] = "starting"]
  /\ reader' = [reader EXCEPT ![c] = "reading"]
  /\ UNCHANGED <<calls, pending, closed, adopted, stdout, agentUp, process>>

\* wait_ready has the ready line: the client takes the place of the one
\* held before it, whose Drop now begins with Wx4pyTransport::close.
Adopt(c) ==
  LET dropped == {b \in Clients : owner[b] = "held"} IN
  /\ agentUp
  /\ owner[c] = "starting"
  /\ reader[c] = "reading"
  /\ stdout[c] # <<>> /\ Head(stdout[c]) = ReadyLine
  /\ stdout' = [stdout EXCEPT ![c] = Tail(@)]
  /\ owner' = [b \in Clients |-> CASE b = c          -> "held"
                                   [] b \in dropped  -> "closing"
                                   [] OTHER          -> owner[b]]
  /\ closed' = [b \in Clients |-> closed[b] \/ b \in dropped]
  /\ adopted' = adopted \cup {c}
  /\ UNCHANGED <<calls, pending, reader, sidecar, agentUp, process>>

\* The sidecar reports an error or ends, or its time to be ready is over:
\* start returns an error and drops the client.
StartFails(c) ==
  /\ agentUp
  /\ owner[c] = "starting"
  /\ owner' = [owner EXCEPT ![c] = "closing"]
  /\ closed' = [closed EXCEPT ![c] = TRUE]
  /\ UNCHANGED <<calls, pending, reader, adopted, sidecar, stdout, agentUp,
                 process>>

\* fail_pending drains the waiters and answers each with an error.
FailPending(c) ==
  /\ pending' = [pending EXCEPT ![c] = {}]
  /\ answer' = [k \in Calls |-> IF k \in pending[c] THEN "error" ELSE answer[k]]
  /\ UNCHANGED <<pc, client, result>>

OwnerSweeps(c) ==
  /\ agentUp
  /\ owner[c] = "closing"
  /\ FailPending(c)
  /\ owner' = [owner EXCEPT ![c] = "reaping"]
  /\ UNCHANGED <<closed, reader, adopted, sidecar, stdout, agentUp, process>>

\* terminate_and_reap_child.
Reap(c) ==
  /\ agentUp
  /\ owner[c] = "reaping"
  /\ owner' = [owner EXCEPT ![c] = "gone"]
  /\ sidecar' = [sidecar EXCEPT ![c] = "dead"]
  /\ stdin' = [stdin EXCEPT ![c] = <<>>]
  /\ work' = [work EXCEPT ![c] = Free]
  /\ UNCHANGED <<calls, pending, closed, reader, adopted, stdout, agentUp,
                 posted, misread, faults>>

---------------------------------------------------------------------------
(* The reader thread.                                                      *)

\* dispatch_sidecar_message: an answer goes to its waiter, if one is left.
\* A ready line is for wait_ready (Adopt) or is skipped by next_event.
Dispatch(c) ==
  LET line == Head(stdout[c]) IN
  /\ agentUp
  /\ reader[c] = "reading"
  /\ stdout[c] # <<>>
  /\ line.call # NoCall
  /\ stdout' = [stdout EXCEPT ![c] = Tail(@)]
  /\ pending' = [pending EXCEPT ![c] = @ \ {line.call}]
  /\ answer' = IF line.call \in pending[c]
               THEN [answer EXCEPT ![line.call] =
                                     IF line.ok THEN "ok" ELSE "error"]
               ELSE answer
  /\ UNCHANGED <<pc, client, result, closed, reader, owner, adopted, sidecar, agentUp, process>>

\* A ready line or an event meets a receiver that was dropped: the thread
\* ends and closes nothing.
ReaderUnheard(c) ==
  /\ agentUp
  /\ reader[c] = "reading"
  /\ owner[c] = "gone"
  /\ reader' = [reader EXCEPT ![c] = "gone"]
  /\ stdout' = [stdout EXCEPT ![c] = <<>>]
  /\ UNCHANGED <<calls, pending, closed, owner, adopted, sidecar, agentUp,
                 process>>

\* Nobody can wait for the ready line of a client that failed to start.
ReadyTooLate(c) ==
  /\ agentUp
  /\ reader[c] = "reading"
  /\ owner[c] \in {"closing", "reaping"}
  /\ stdout[c] # <<>> /\ Head(stdout[c]) = ReadyLine
  /\ stdout' = [stdout EXCEPT ![c] = Tail(@)]
  /\ UNCHANGED <<calls, pending, closed, reader, owner, adopted, sidecar,
                 agentUp, process>>

Hangup(c) ==
  /\ agentUp
  /\ reader[c] = "reading"
  /\ closed' = [closed EXCEPT ![c] = TRUE]
  /\ reader' = [reader EXCEPT ![c] = "sweeping"]
  /\ UNCHANGED <<calls, pending, owner, adopted, sidecar, stdout, agentUp,
                 stdin, work, posted, misread>>

\* The end of stdout: everything the sidecar has said is read before it.
EndOfStdout(c) ==
  sidecar[c] = "dead" /\ stdout[c] = <<>> /\ Hangup(c) /\ UNCHANGED faults

ReadError(c) == sidecar[c] # "dead" /\ Hangup(c) /\ Fault

ReaderSweeps(c) ==
  /\ agentUp
  /\ reader[c] = "sweeping"
  /\ FailPending(c)
  /\ reader' = [reader EXCEPT ![c] = "gone"]
  /\ stdout' = [stdout EXCEPT ![c] = <<>>]
  /\ UNCHANGED <<closed, owner, adopted, sidecar, agentUp, process>>

---------------------------------------------------------------------------
(* send_command_blocking, step by step.                                    *)

others == <<closed, reader, owner, adopted, sidecar, stdout, work, agentUp,
            posted, misread, faults>>

\* The call returns and its channel is dropped.
Return(k, what) ==
  /\ pc' = [pc EXCEPT ![k] = "done"]
  /\ answer' = [answer EXCEPT ![k] = "none"]
  /\ result' = [result EXCEPT ![k] = what]
  /\ UNCHANGED client

Advance(k, stage) ==
  /\ pc' = [pc EXCEPT ![k] = stage]
  /\ UNCHANGED <<client, answer, result>>

\* The sender was cloned from a client that is or was in use.
Begin(k) ==
  /\ agentUp
  /\ pc[k] = "idle"
  /\ \E c \in adopted :
       /\ client' = [client EXCEPT ![k] = c]
       /\ pc' = [pc EXCEPT ![k] = IF closed[c] THEN "done" ELSE "checked"]
       /\ result' = [result EXCEPT ![k] = IF closed[c] THEN "refused" ELSE @]
       /\ UNCHANGED answer
  /\ UNCHANGED <<pending, stdin, others>>

\* Fault: no second look at closed.
OpenUnderLockAssumed(c) == TRUE

OpenUnderLock(c) == ~closed[c]

\* Under the lock of pending: the second look at closed, then the insert.
Register(k) ==
  LET c == client[k] IN
  /\ agentUp
  /\ pc[k] = "checked"
  /\ IF OpenUnderLock(c)
     THEN /\ Advance(k, "registered")
          /\ pending' = [pending EXCEPT ![c] = @ \cup {k}]
     ELSE Return(k, "refused") /\ UNCHANGED pending
  /\ UNCHANGED <<stdin, others>>

\* The third look at closed, before the lock of stdin.
LookAgain(k) ==
  LET c == client[k] IN
  /\ agentUp
  /\ pc[k] = "registered"
  /\ IF closed[c]
     THEN /\ Return(k, "refused")
          /\ pending' = [pending EXCEPT ![c] = @ \ {k}]
     ELSE /\ Advance(k, "writing")
          /\ UNCHANGED pending
  /\ UNCHANGED <<stdin, others>>

\* The pipe takes the line, or it is broken and the waiter is removed.
Write(k) ==
  LET c == client[k] IN
  /\ agentUp
  /\ pc[k] = "writing"
  /\ IF sidecar[c] = "ready"
     THEN /\ stdin' = [stdin EXCEPT ![c] = Append(@, k)]
          /\ Advance(k, "waiting")
          /\ UNCHANGED pending
     ELSE /\ Return(k, "refused")
          /\ pending' = [pending EXCEPT ![c] = @ \ {k}]
          /\ UNCHANGED stdin
  /\ UNCHANGED others

\* receive_command_ack finds an answer in the channel.
Answered(k) ==
  /\ agentUp
  /\ pc[k] = "waiting"
  /\ answer[k] # "none"
  /\ Return(k, IF answer[k] = "ok" THEN "sent" ELSE "failed")
  /\ UNCHANGED <<pending, stdin, others>>

\* recv_timeout is over: whatever arrives from here on is not looked at.
Expire(k) ==
  /\ agentUp
  /\ pc[k] = "waiting"
  /\ answer[k] = "none"
  /\ Advance(k, "expired")
  /\ UNCHANGED <<pending, stdin, others>>

\* Fault: no answer in time is an ordinary failure.
GivenUpAsFailure == "failed"

\* "delivery indeterminate ...; do not automatically retry"
GivenUp == "indeterminate"

Forget(k) ==
  /\ agentUp
  /\ pc[k] = "expired"
  /\ pending' = [pending EXCEPT ![client[k]] = @ \ {k}]
  /\ Return(k, GivenUp)
  /\ UNCHANGED <<stdin, others>>

---------------------------------------------------------------------------
(* The sidecar.                                                            *)

rust == <<calls, pending, closed, reader, owner, adopted, agentUp, faults>>

\* run: connected to WeChat, both command threads started.
Ready(c) ==
  /\ sidecar[c] = "starting"
  /\ sidecar' = [sidecar EXCEPT ![c] = "ready"]
  /\ stdout' = IF reader[c] = "gone" THEN stdout
               ELSE [stdout EXCEPT ![c] = Append(@, ReadyLine)]
  /\ UNCHANGED <<rust, stdin, work, posted, misread>>

\* One attempt at the window: the chat does not open, or the message is
\* pasted and sent, or it is not.
Attempt(c, call, attempt) ==
  \E landed \in BOOLEAN :
    /\ work' = [work EXCEPT ![c] = [call |-> call, attempt |-> attempt,
                                    landed |-> landed]]
    /\ posted' = IF landed THEN [posted EXCEPT ![call] = @ + 1] ELSE posted

\* run_commands takes the next command from the queue.
Take(c) ==
  /\ sidecar[c] = "ready"
  /\ work[c] = Free
  /\ stdin[c] # <<>>
  /\ Attempt(c, Head(stdin[c]), 1)
  /\ stdin' = [stdin EXCEPT ![c] = Tail(@)]
  /\ UNCHANGED <<rust, sidecar, stdout, misread>>

\* Fault: the attempts are counted from zero.
TriesAgainFromZero(w, ok) == ~ok /\ w.attempt <= Attempts

TriesAgain(w, ok) == ~ok /\ w.attempt < Attempts

\* Fault: the value returned by the last attempt is ignored.
EmittedUnread(w, ok) ==
  IF TriesAgain(w, ok) THEN <<>> ELSE <<[call |-> w.call, ok |-> TRUE]>>

Emitted(w, ok) ==
  IF TriesAgain(w, ok) THEN <<>> ELSE <<[call |-> w.call, ok |-> ok]>>

\* wx4py may call a message that landed a failure, never the reverse.  The
\* first failure is tried again; the second one is the command's error.
\* emit ignores that nobody reads any more.
Report(c) ==
  LET w == work[c] IN
  /\ sidecar[c] = "ready"
  /\ w # Free
  /\ \E ok \in IF w.landed THEN BOOLEAN ELSE {FALSE} :
       /\ misread' = IF w.landed /\ ~ok THEN misread \cup {w.call} ELSE misread
       /\ IF TriesAgain(w, ok)
          THEN Attempt(c, w.call, w.attempt + 1)
          ELSE work' = [work EXCEPT ![c] = Free] /\ UNCHANGED posted
       /\ stdout' = IF reader[c] = "gone" THEN stdout
                    ELSE [stdout EXCEPT ![c] = @ \o Emitted(w, ok)]
  /\ UNCHANGED <<rust, sidecar, stdin>>

Die(c) ==
  /\ sidecar' = [sidecar EXCEPT ![c] = "dead"]
  /\ stdin' = [stdin EXCEPT ![c] = <<>>]
  /\ work' = [work EXCEPT ![c] = Free]
  /\ UNCHANGED <<calls, pending, closed, reader, owner, adopted, agentUp,
                 stdout, posted, misread>>

\* Startup fails, the process is killed from outside, Python gives up.
Crash(c) == sidecar[c] \in Running /\ Die(c) /\ Fault

\* read_commands has seen the end of stdin and put None behind the last
\* command; run_commands gets there and stops the sidecar.
EndOfStdin(c) ==
  /\ ~agentUp
  /\ sidecar[c] = "ready"
  /\ stdin[c] = <<>> /\ work[c] = Free
  /\ Die(c) /\ UNCHANGED faults

\* The agent is killed: its memory and threads are gone, its pipes are
\* closed, and no Drop has run.
AgentDies ==
  /\ agentUp
  /\ agentUp' = FALSE
  /\ Fault
  /\ LET cut == {k \in Calls : pc[k] \notin {"idle", "done"}} IN
       /\ pc' = [k \in Calls |-> IF k \in cut THEN "done" ELSE pc[k]]
       /\ answer' = [k \in Calls |-> "none"]
       /\ result' = [k \in Calls |-> IF k \in cut THEN "lost" ELSE result[k]]
       /\ UNCHANGED client
  /\ pending' = [c \in Clients |-> {}]
  /\ closed' = [c \in Clients |-> TRUE]
  /\ reader' = [c \in Clients |-> "gone"]
  /\ owner' = [c \in Clients |-> "gone"]
  /\ adopted' = {}
  /\ stdout' = [c \in Clients |-> <<>>]
  /\ UNCHANGED <<sidecar, stdin, work, posted, misread>>

---------------------------------------------------------------------------

\* All calls returned and every client is settled.
Terminating ==
  /\ \A k \in Calls : pc[k] \in {"idle", "done"}
  /\ ~agentUp \/ \A c \in Clients : owner[c] # "none"
  /\ UNCHANGED vars

Next ==
  \/ \E c \in Clients :
       \/ Start(c) \/ Adopt(c) \/ StartFails(c) \/ OwnerSweeps(c) \/ Reap(c)
       \/ Dispatch(c) \/ ReaderUnheard(c) \/ ReadyTooLate(c)
       \/ EndOfStdout(c) \/ ReadError(c) \/ ReaderSweeps(c)
       \/ Ready(c) \/ Take(c) \/ Report(c) \/ Crash(c) \/ EndOfStdin(c)
  \/ \E k \in Calls :
       \/ Begin(k) \/ Register(k) \/ LookAgain(k) \/ Write(k)
       \/ Answered(k) \/ Expire(k) \/ Forget(k)
  \/ AgentDies
  \/ Terminating

Spec == Init /\ [][Next]_vars

---------------------------------------------------------------------------
(* Properties.                                                             *)

\* Once both sides of a close are through, nobody is left in the waiter table
\* of the client: a call that was about to register either saw the flag or
\* was answered.
NoWaiterLeft ==
  \A c \in Clients :
    closed[c] /\ reader[c] # "sweeping" /\ owner[c] # "closing"
      => /\ pending[c] = {}
         /\ \A k \in Calls :
              client[k] = c /\ pc[k] = "waiting"
                => answer[k] # "none"

\* What the caller is told is what happened in the chat.  A command reported
\* sent was posted; a refused one never reached the window; an error from a
\* client that is still open means nothing was posted, unless the window
\* automation misjudged an attempt, which is also the only way to be posted
\* twice.
Truthful ==
  \A k \in Calls :
    /\ result[k] = "sent" => posted[k] > 0
    /\ result[k] = "refused" => posted[k] = 0
    /\ result[k] = "failed" /\ posted[k] > 0
         => k \in misread \/ closed[client[k]]
    /\ posted[k] > 1 => k \in misread

\* What the caller was told stays true: a command reported sent or refused is
\* not posted afterwards, and neither is one that failed while its client is
\* open, so that sending it again cannot meet a straggler of the first try.
AnswerIsFinal ==
  [][\A k \in Calls :
       \/ result[k] \in {"sent", "refused"}
       \/ result[k] = "failed" /\ ~closed[client[k]]
       => posted'[k] = posted[k]]_vars
=========================================================================
