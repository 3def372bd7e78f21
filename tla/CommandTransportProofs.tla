--------------------- MODULE CommandTransportProofs ---------------------
(***************************************************************************)
(* Proofs about CommandTransport, for any set of commands, any number of   *)
(* clients and any number of faults.                                       *)
(***************************************************************************)
EXTENDS CommandTransport, SequenceTheorems, TLAPS

---------------------------------------------------------------------------
(* Sequences.                                                              *)

Elems(s) == {s[i] : i \in 1..Len(s)}

Distinct(s) == \A i, j \in 1..Len(s) : s[i] = s[j] => i = j

\* What Append, as the pipe to the sidecar uses it, adds.
LEMMA AppendElems ==
  ASSUME NEW S, NEW s \in Seq(S), NEW x \in S
  PROVE  /\ Append(s, x) \in Seq(S)
         /\ Elems(Append(s, x)) = Elems(s) \cup {x}
         /\ Distinct(s) /\ x \notin Elems(s) => Distinct(Append(s, x))
<1>1. /\ Append(s, x) \in Seq(S)
      /\ Len(Append(s, x)) = Len(s) + 1
      /\ Append(s, x)[Len(s) + 1] = x
      /\ \A i \in 1..Len(s) : Append(s, x)[i] = s[i]
      /\ Len(s) \in Nat
  BY AppendProperties, LenProperties
<1> HIDE DEF Elems
<1>2. \A i \in 1..(Len(s) + 1) : i \in 1..Len(s) \/ i = Len(s) + 1
  BY <1>1
<1>3. Elems(Append(s, x)) = Elems(s) \cup {x}
  BY <1>1, <1>2 DEF Elems
<1>4. Distinct(s) /\ x \notin Elems(s) => Distinct(Append(s, x))
  BY <1>1, <1>2 DEF Elems, Distinct
<1> QED BY <1>1, <1>3, <1>4

\* What is left after the first element was taken.
LEMMA TailElems ==
  ASSUME NEW S, NEW s \in Seq(S), s # <<>>
  PROVE  /\ Head(s) \in S /\ Head(s) \in Elems(s)
         /\ Tail(s) \in Seq(S)
         /\ Elems(Tail(s)) \subseteq Elems(s)
         /\ Distinct(s) => Distinct(Tail(s)) /\ Head(s) \notin Elems(Tail(s))
<1>1. /\ Tail(s) \in Seq(S)
      /\ Len(Tail(s)) = Len(s) - 1
      /\ \A i \in 1..Len(Tail(s)) : Tail(s)[i] = s[i + 1]
      /\ Head(s) = s[1] /\ Head(s) \in S
      /\ Len(s) \in Nat \ {0}
  BY HeadTailProperties, EmptySeq, LenProperties
<1>2. \A i \in 1..Len(Tail(s)) : i + 1 \in 1..Len(s) /\ i + 1 # 1
  BY <1>1
<1>3. Head(s) \in Elems(s)
  BY <1>1 DEF Elems
<1>4. Elems(Tail(s)) \subseteq Elems(s)
  BY <1>1, <1>2 DEF Elems
<1>5. ASSUME Distinct(s)
      PROVE  Distinct(Tail(s)) /\ Head(s) \notin Elems(Tail(s))
  <2>1. \A i, j \in 1..Len(Tail(s)) : Tail(s)[i] = Tail(s)[j] => i + 1 = j + 1
    BY <1>1, <1>2, <1>5 DEF Distinct
  <2>2. Distinct(Tail(s))
    BY <1>1, <2>1 DEF Distinct
  <2>3. \A i \in 1..Len(Tail(s)) : Tail(s)[i] # s[1]
    BY <1>1, <1>2, <1>5 DEF Distinct
  <2> QED BY <1>1, <2>2, <2>3 DEF Elems
<1> QED BY <1>1, <1>3, <1>4, <1>5

LEMMA ElemsIn ==
  ASSUME NEW S, NEW s \in Seq(S)
  PROVE  Elems(s) \subseteq S
BY ElementOfSeq DEF Elems

LEMMA EmptyElems == Elems(<<>>) = {} /\ Distinct(<<>>)
BY DEF Elems, Distinct

\* What an attempt emits is put behind what was emitted before.
LEMMA EmittedElems ==
  ASSUME NEW s \in Seq(Lines), NEW w \in Work, NEW ok \in BOOLEAN
  PROVE  /\ s \o Emitted(w, ok) \in Seq(Lines)
         /\ Elems(s \o Emitted(w, ok)) =
              IF TriesAgain(w, ok) THEN Elems(s)
              ELSE Elems(s) \cup {[call |-> w.call, ok |-> ok]}
<1>1. CASE TriesAgain(w, ok)
  <2>1. Emitted(w, ok) = <<>> /\ s \o <<>> = s
    BY <1>1, ConcatEmptySeq DEF Emitted
  <2> QED BY <1>1, <2>1
<1>2. CASE ~TriesAgain(w, ok)
  <2> DEFINE line == [call |-> w.call, ok |-> ok]
  <2>1. line \in Lines
    BY DEF Lines, Work
  <2>2. Emitted(w, ok) = <<line>>
    BY <1>2 DEF Emitted
  <2>3. Append(s, line) = s \o <<line>>
    BY <2>1, AppendIsConcat
  <2>4. Elems(Append(s, line)) = Elems(s) \cup {line} /\ Append(s, line) \in Seq(Lines)
    BY <2>1, AppendElems
  <2> QED BY <1>2, <2>2, <2>3, <2>4
<1> QED BY <1>1, <1>2

---------------------------------------------------------------------------
(* The inductive invariant.                                                *)

\* The stages of a client: its reader starts with it, whoever is about to
\* sweep its waiters has closed it, and its sidecar is free or has a command.
StagesOK ==
  \A c \in Clients :
    /\ owner[c] = "none" => reader[c] = "none"
    /\ owner[c] = "closing" => closed[c]
    /\ reader[c] = "sweeping" => closed[c]
    /\ work[c].call = NoCall => work[c] = Free

\* The waiter table and the calls agree: a waiter belongs to a call on this
\* client that has not returned, and a call without an answer is in it.
WaitersOK ==
  \A k \in Calls :
    /\ \A c \in Clients :
         k \in pending[c] =>
           /\ client[k] = c
           /\ pc[k] \in {"registered", "writing", "waiting", "expired"}
           /\ answer[k] = "none"
    /\ pc[k] \in {"registered", "writing", "waiting"} /\ answer[k] = "none"
         => k \in pending[client[k]]
    /\ pc[k] \in {"idle", "checked", "done"} => answer[k] = "none"
    /\ pc[k] # "done" => result[k] = "none"

TableInv == TypeOK /\ StagesOK /\ WaitersOK /\ NoWaiterLeft

\* Nothing of the command has been written yet, or ever will be.
Unwritten(k) ==
  \/ pc[k] \in {"idle", "checked", "registered", "writing"}
  \/ result[k] = "refused"

\* The commands that lines of stdout are about.
Named(lines) == {line.call : line \in Elems(lines)}

\* A command is in one place at a time: in the queue of its sidecar, in the
\* window, in a line of the answers; and in none before it was written.
PlacesOK ==
  \A c \in Clients :
    /\ Distinct(stdin[c])
    /\ \A k \in Elems(stdin[c]) :
         /\ client[k] = c /\ ~Unwritten(k) /\ posted[k] = 0
         /\ work[c].call # k /\ k \notin Named(stdout[c])
    /\ work[c].call # NoCall =>
         /\ client[work[c].call] = c /\ ~Unwritten(work[c].call)
         /\ work[c].call \notin Named(stdout[c])
    /\ \A k \in Named(stdout[c]) \ {NoCall} :
         client[k] = c /\ ~Unwritten(k)

\* What is known of a command where it is.
PlacesTrue ==
  /\ \A c \in Clients :
       /\ work[c].call # NoCall =>
            /\ work[c].landed => posted[work[c].call] > 0
            /\ ~work[c].landed /\ posted[work[c].call] > 0
                 => work[c].call \in misread
       /\ \A line \in Elems(stdout[c]) :
            line.call # NoCall =>
              /\ line.ok => posted[line.call] > 0
              /\ ~line.ok /\ posted[line.call] > 0 => line.call \in misread
  /\ \A k \in Calls : posted[k] > 1 => k \in misread

\* The caller has, or is about to be given, the last word on the command.
Settled(k) ==
  \/ answer[k] = "ok"
  \/ result[k] \in {"sent", "refused"}
  \/ (answer[k] = "error" \/ result[k] = "failed") /\ ~closed[client[k]]

\* A settled command is in no place from where it could be posted, and what
\* the caller has, or is about to be given, is true.
AnswerOK(k) ==
  /\ Settled(k) => \A c \in Clients : k \notin Elems(stdin[c]) /\ work[c].call # k
  /\ Unwritten(k) => posted[k] = 0 /\ (answer[k] # "none" => closed[client[k]])
  /\ answer[k] = "ok" \/ result[k] = "sent" => posted[k] > 0
  /\ (answer[k] = "error" \/ result[k] = "failed") /\ posted[k] > 0
       => k \in misread \/ closed[client[k]]

AnswersOK == \A k \in Calls : AnswerOK(k)

IInv == TableInv /\ PlacesOK /\ PlacesTrue /\ AnswersOK

---------------------------------------------------------------------------
(* Types.  The agent's side and the sidecars' side are treated apart.      *)

CallTypes ==
  /\ pc \in [Calls -> Stages]
  /\ client \in [Calls -> Clients]
  /\ answer \in [Calls -> {"none", "ok", "error"}]
  /\ result \in [Calls -> Results]

ClientTypes ==
  /\ pending \in [Clients -> SUBSET Calls]
  /\ closed \in [Clients -> BOOLEAN]
  /\ reader \in [Clients -> {"none", "reading", "sweeping", "gone"}]
  /\ owner \in [Clients ->
                  {"none", "starting", "held", "closing", "reaping", "gone"}]
  /\ adopted \in SUBSET Clients
  /\ sidecar \in [Clients -> Running \cup {"unborn", "dead"}]
  /\ agentUp \in BOOLEAN
  /\ faults \in 0..MaxFaults

PipeTypes ==
  /\ stdin \in [Clients -> Seq(Calls)]
  /\ work \in [Clients -> Work]
  /\ stdout \in [Clients -> Seq(Lines)]
  /\ posted \in [Calls -> Nat]
  /\ misread \in SUBSET Calls

LEMMA TypesApart == TypeOK <=> CallTypes /\ ClientTypes /\ PipeTypes
BY DEF TypeOK, CallTypes, ClientTypes, PipeTypes

LEMMA TypeOKInit == Init => TypeOK
BY BoundsAssumption DEF Init, TypeOK, Clients, Stages, Results, Work, Lines,
     Running, Free, Attempts

\* What each step does to the calls.
LEMMA CallTypesStep ==
  ASSUME TypeOK, [Next]_vars PROVE CallTypes'
<1> CallTypes /\ ClientTypes
  BY TypesApart
<1> USE DEF CallTypes, Stages, Results
<1>1. ASSUME NEW c \in Clients, OwnerSweeps(c) \/ ReaderSweeps(c)
      PROVE  CallTypes'
  BY <1>1 DEF OwnerSweeps, ReaderSweeps, FailPending
<1>2. ASSUME NEW c \in Clients, Dispatch(c) PROVE CallTypes'
  BY <1>2 DEF Dispatch
<1>3. ASSUME NEW k \in Calls, Begin(k) PROVE CallTypes'
  BY <1>3 DEF Begin, ClientTypes
<1>4. ASSUME NEW k \in Calls, Register(k) \/ LookAgain(k) \/ Write(k)
      PROVE  CallTypes'
  BY <1>4 DEF Register, LookAgain, Write, Return, Advance
<1>5. ASSUME NEW k \in Calls, Answered(k) \/ Expire(k) \/ Forget(k)
      PROVE  CallTypes'
  BY <1>5 DEF Answered, Expire, Forget, Return, Advance, GivenUp
<1>6. CASE AgentDies
  BY <1>6 DEF AgentDies
<1>7. ASSUME UNCHANGED calls PROVE CallTypes'
  BY <1>7 DEF calls
<1>8. ASSUME NEW c \in Clients,
             \/ Start(c) \/ Adopt(c) \/ StartFails(c) \/ Reap(c)
             \/ ReaderUnheard(c) \/ ReadyTooLate(c) \/ EndOfStdout(c)
             \/ ReadError(c) \/ Ready(c) \/ Take(c) \/ Report(c)
             \/ Crash(c) \/ EndOfStdin(c)
      PROVE  UNCHANGED calls
  BY <1>8 DEF calls, Start, Adopt, StartFails, Reap, ReaderUnheard,
       ReadyTooLate, EndOfStdout, ReadError, Hangup, Ready, Take, Report,
       Crash, EndOfStdin, Die, rust
<1> QED
  BY <1>1, <1>2, <1>3, <1>4, <1>5, <1>6, <1>7, <1>8
     DEF Next, Terminating, vars

\* What each step does to the clients.
LEMMA ClientTypesStep ==
  ASSUME TypeOK, [Next]_vars PROVE ClientTypes'
<1> CallTypes /\ ClientTypes
  BY TypesApart
<1> USE DEF ClientTypes, Running
<1>1. Fault => faults' \in 0..MaxFaults
  BY BoundsAssumption DEF Fault
<1>2. ASSUME NEW c \in Clients,
             Start(c) \/ Adopt(c) \/ StartFails(c) \/ OwnerSweeps(c) \/ Reap(c)
      PROVE  ClientTypes'
  BY <1>2 DEF Start, Adopt, StartFails, OwnerSweeps, Reap, FailPending, process
<1>3. ASSUME NEW c \in Clients,
             Dispatch(c) \/ ReaderUnheard(c) \/ ReadyTooLate(c)
             \/ ReaderSweeps(c)
      PROVE  ClientTypes'
  BY <1>3 DEF Dispatch, ReaderUnheard, ReadyTooLate, ReaderSweeps, FailPending,
       process
<1>4. ASSUME NEW c \in Clients, EndOfStdout(c) \/ ReadError(c)
      PROVE  ClientTypes'
  BY <1>1, <1>4 DEF EndOfStdout, ReadError, Hangup
<1>5. ASSUME NEW c \in Clients, Ready(c) \/ Take(c) \/ Report(c)
      PROVE  ClientTypes'
  BY <1>5 DEF Ready, Take, Report, rust
<1>6. ASSUME NEW c \in Clients, Crash(c) \/ EndOfStdin(c)
      PROVE  ClientTypes'
  BY <1>1, <1>6 DEF Crash, EndOfStdin, Die
<1>7. ASSUME NEW k \in Calls,
             Begin(k) \/ Register(k) \/ LookAgain(k) \/ Write(k)
             \/ Answered(k) \/ Expire(k) \/ Forget(k)
      PROVE  ClientTypes'
  BY <1>7 DEF CallTypes, Begin, Register, LookAgain, Write, Answered, Expire,
       Forget, others
<1>8. CASE AgentDies
  BY <1>1, <1>8 DEF AgentDies
<1>9. CASE UNCHANGED vars
  BY <1>9 DEF vars
<1> QED
  BY <1>2, <1>3, <1>4, <1>5, <1>6, <1>7, <1>8, <1>9 DEF Next, Terminating

\* What each step does to the pipes and to the sidecars' work.
LEMMA PipeTypesStep ==
  ASSUME TypeOK, StagesOK, [Next]_vars PROVE PipeTypes'
<1> CallTypes /\ PipeTypes
  BY TypesApart
<1> USE DEF PipeTypes
<1>1. /\ \A c \in Clients : stdout[c] # <<>> => Tail(stdout[c]) \in Seq(Lines)
      /\ <<>> \in Seq(Lines) /\ <<>> \in Seq(Calls) /\ Free \in Work
  BY TailElems, EmptySeq DEF Free, Work, Attempts
<1>2. ASSUME NEW c \in Clients,
             \/ Adopt(c) \/ Dispatch(c) \/ ReaderUnheard(c)
             \/ ReadyTooLate(c) \/ ReaderSweeps(c)
      PROVE  PipeTypes'
  BY <1>1, <1>2 DEF Adopt, Dispatch, ReaderUnheard, ReadyTooLate, ReaderSweeps,
       process
<1>3. ASSUME NEW c \in Clients, Reap(c) \/ Crash(c) \/ EndOfStdin(c)
      PROVE  PipeTypes'
  BY <1>1, <1>3 DEF Reap, Crash, EndOfStdin, Die
<1>4. ASSUME NEW c \in Clients, Ready(c) PROVE PipeTypes'
  <2>1. ReadyLine \in Lines
    BY DEF ReadyLine, Lines
  <2>2. Append(stdout[c], ReadyLine) \in Seq(Lines)
    BY <2>1, AppendElems
  <2> QED
    BY <1>4, <2>2 DEF Ready
<1>5. ASSUME NEW c \in Clients, Take(c) PROVE PipeTypes'
  <2>1. Head(stdin[c]) \in Calls /\ Tail(stdin[c]) \in Seq(Calls)
    BY <1>5, TailElems DEF Take
  <2>2. work' \in [Clients -> Work] /\ posted' \in [Calls -> Nat]
    BY <1>5, <2>1 DEF Take, Attempt, Work, Attempts
  <2> QED
    BY <1>5, <2>1, <2>2 DEF Take
<1>6. ASSUME NEW c \in Clients, Report(c) PROVE PipeTypes'
  <2> DEFINE w == work[c]
  <2>1. w \in Work /\ w.call \in Calls
    BY <1>6 DEF Report, StagesOK, Work
  <2>2. PICK ok \in BOOLEAN :
          /\ misread' = IF w.landed /\ ~ok THEN misread \cup {w.call} ELSE misread
          /\ IF TriesAgain(w, ok)
             THEN Attempt(c, w.call, w.attempt + 1)
             ELSE work' = [work EXCEPT ![c] = Free] /\ UNCHANGED posted
          /\ stdout' = IF reader[c] = "gone" THEN stdout
                       ELSE [stdout EXCEPT ![c] = @ \o Emitted(w, ok)]
    BY <1>6 DEF Report
  <2>3. stdout[c] \o Emitted(w, ok) \in Seq(Lines)
    BY <2>1, EmittedElems
  <2>4. CASE TriesAgain(w, ok)
    <3>1. w.attempt + 1 \in 1..Attempts
      BY <2>1, <2>4 DEF TriesAgain, Work, Attempts
    <3>2. PICK landed \in BOOLEAN :
            /\ work' = [work EXCEPT ![c] = [call |-> w.call,
                                            attempt |-> w.attempt + 1,
                                            landed |-> landed]]
            /\ posted' = IF landed THEN [posted EXCEPT ![w.call] = @ + 1]
                         ELSE posted
      BY <2>2, <2>4 DEF Attempt
    <3>3. [call |-> w.call, attempt |-> w.attempt + 1, landed |-> landed]
            \in Work
      BY <2>1, <3>1 DEF Work
    <3> HIDE DEF w
    <3>4. work' \in [Clients -> Work]
      BY <3>2, <3>3
    <3>5. posted' \in [Calls -> Nat]
      BY <2>1, <3>2
    <3>6. misread' \in SUBSET Calls /\ stdout' \in [Clients -> Seq(Lines)]
      BY <2>1, <2>2, <2>3
    <3> QED
      BY <1>6, <3>4, <3>5, <3>6 DEF Report
  <2>5. CASE ~TriesAgain(w, ok)
    BY <1>1, <1>6, <2>1, <2>2, <2>3, <2>5, ZenonT(60) DEF Report
  <2> QED
    BY <2>4, <2>5
<1>7. ASSUME NEW k \in Calls, Write(k) PROVE PipeTypes'
  <2>1. \A c \in Clients : Append(stdin[c], k) \in Seq(Calls)
    BY AppendElems
  <2>2. stdin' = stdin
          \/ \E q \in Seq(Calls) : stdin' = [stdin EXCEPT ![client[k]] = q]
    BY <1>7, <2>1 DEF Write, CallTypes
  <2>3. stdin' \in [Clients -> Seq(Calls)]
    BY <2>2
  <2> QED
    BY <1>7, <2>3 DEF Write, others
<1>8. CASE AgentDies
  BY <1>8 DEF AgentDies
<1>9. ASSUME UNCHANGED <<stdin, work, stdout, posted, misread>>
      PROVE  PipeTypes'
  BY <1>9
<1>10. ASSUME NEW c \in Clients,
              \/ Start(c) \/ StartFails(c) \/ OwnerSweeps(c)
              \/ EndOfStdout(c) \/ ReadError(c)
       PROVE  UNCHANGED <<stdin, work, stdout, posted, misread>>
  BY <1>10 DEF Start, StartFails, OwnerSweeps, EndOfStdout, ReadError, Hangup,
       process
<1>11. ASSUME NEW k \in Calls,
              \/ Begin(k) \/ Register(k) \/ LookAgain(k)
              \/ Answered(k) \/ Expire(k) \/ Forget(k)
       PROVE  UNCHANGED <<stdin, work, stdout, posted, misread>>
  BY <1>11 DEF Begin, Register, LookAgain, Answered, Expire, Forget, others
<1> QED
  BY <1>2, <1>3, <1>4, <1>5, <1>6, <1>7, <1>8, <1>9, <1>10, <1>11
     DEF Next, Terminating, vars

LEMMA TypeOKStep == TypeOK /\ StagesOK /\ [Next]_vars => TypeOK'
BY CallTypesStep, ClientTypesStep, PipeTypesStep
   DEF TypeOK, CallTypes, ClientTypes, PipeTypes

---------------------------------------------------------------------------
(* The waiter table.                                                       *)

LEMMA StagesOKStep ==
  ASSUME TypeOK, StagesOK, [Next]_vars PROVE StagesOK'
<1> ClientTypes /\ PipeTypes
  BY TypesApart
<1> USE DEF StagesOK
<1>1. ASSUME NEW c \in Clients,
             Start(c) \/ Adopt(c) \/ StartFails(c) \/ OwnerSweeps(c)
      PROVE  StagesOK'
  BY <1>1 DEF ClientTypes, Start, Adopt, StartFails, OwnerSweeps, process
<1>2. ASSUME NEW c \in Clients,
             Dispatch(c) \/ ReaderUnheard(c) \/ ReadyTooLate(c)
             \/ EndOfStdout(c) \/ ReadError(c) \/ ReaderSweeps(c)
      PROVE  StagesOK'
  BY <1>2 DEF ClientTypes, Dispatch, ReaderUnheard, ReadyTooLate,
       EndOfStdout, ReadError, ReaderSweeps, Hangup, process
<1>3. ASSUME NEW c \in Clients, Reap(c) \/ Crash(c) \/ EndOfStdin(c)
      PROVE  StagesOK'
  <2>1. \A b \in Clients : work'[b].call = NoCall => work'[b] = Free
    BY <1>3 DEF PipeTypes, Reap, Crash, EndOfStdin, Die
  <2> QED
    BY <1>3, <2>1 DEF ClientTypes, Reap, Crash, EndOfStdin, Die
<1>4. ASSUME NEW c \in Clients, Ready(c) PROVE StagesOK'
  BY <1>4 DEF Ready, rust
<1>5. ASSUME NEW c \in Clients, Take(c) PROVE StagesOK'
  <2>1. Head(stdin[c]) \in Calls
    BY <1>5, TailElems DEF Take, PipeTypes
  <2>2. \A b \in Clients : work'[b].call = NoCall => work'[b] = Free
    BY <1>5, <2>1, NoCallAssumption DEF Take, Attempt, PipeTypes
  <2> QED
    BY <1>5, <2>2 DEF Take, rust
<1>6. ASSUME NEW c \in Clients, Report(c) PROVE StagesOK'
  <2>1. work[c].call \in Calls
    BY <1>6 DEF Report, PipeTypes, Work
  <2>2. Attempt(c, work[c].call, work[c].attempt + 1)
          \/ work' = [work EXCEPT ![c] = Free]
    BY <1>6 DEF Report
  <2>3. \A b \in Clients : work'[b].call = NoCall => work'[b] = Free
    <3>1. CASE Attempt(c, work[c].call, work[c].attempt + 1)
      BY <2>1, <3>1, NoCallAssumption DEF Attempt, PipeTypes
    <3>2. CASE work' = [work EXCEPT ![c] = Free]
      BY <3>2 DEF PipeTypes
    <3> QED
      BY <2>2, <3>1, <3>2
  <2> QED
    BY <1>6, <2>3 DEF Report, rust
<1>7. ASSUME NEW k \in Calls,
             Begin(k) \/ Register(k) \/ LookAgain(k) \/ Write(k)
             \/ Answered(k) \/ Expire(k) \/ Forget(k)
      PROVE  StagesOK'
  BY <1>7 DEF Begin, Register, LookAgain, Write, Answered, Expire, Forget,
       others
<1>8. CASE AgentDies
  BY <1>8 DEF AgentDies
<1>9. CASE UNCHANGED vars
  BY <1>9 DEF vars
<1> QED
  BY <1>1, <1>2, <1>3, <1>4, <1>5, <1>6, <1>7, <1>8, <1>9 DEF Next, Terminating

\* A step that touches neither a call nor the table leaves them in order.
LEMMA WaitersOKStep ==
  ASSUME TypeOK, StagesOK, WaitersOK, [Next]_vars PROVE WaitersOK'
<1> CallTypes /\ ClientTypes
  BY TypesApart
<1> USE DEF WaitersOK, CallTypes
<1>1. ASSUME NEW c \in Clients, OwnerSweeps(c) \/ ReaderSweeps(c)
      PROVE  WaitersOK'
  BY <1>1 DEF OwnerSweeps, ReaderSweeps, FailPending, ClientTypes
<1>2. ASSUME NEW c \in Clients, Dispatch(c) PROVE WaitersOK'
  BY <1>2 DEF Dispatch, ClientTypes
<1>3. ASSUME NEW k \in Calls, Begin(k) PROVE WaitersOK'
  BY <1>3 DEF Begin, ClientTypes
<1>4. ASSUME NEW k \in Calls, Register(k) PROVE WaitersOK'
  BY <1>4 DEF Register, Return, Advance, ClientTypes
<1>5. ASSUME NEW k \in Calls, LookAgain(k) PROVE WaitersOK'
  BY <1>5 DEF LookAgain, Return, Advance, ClientTypes
<1>6. ASSUME NEW k \in Calls, Write(k) PROVE WaitersOK'
  <2>1. CASE sidecar[client[k]] = "ready"
    BY <1>6, <2>1 DEF Write, Advance
  <2>2. CASE sidecar[client[k]] # "ready"
    BY <1>6, <2>2 DEF Write, Return, ClientTypes
  <2> QED
    BY <2>1, <2>2
<1>7. ASSUME NEW k \in Calls, Answered(k) PROVE WaitersOK'
  <2>1. \A c \in Clients : k \notin pending[c]
    BY <1>7 DEF Answered
  <2> QED
    BY <1>7, <2>1 DEF Answered, Return, ClientTypes
<1>8. ASSUME NEW k \in Calls, Expire(k) \/ Forget(k) PROVE WaitersOK'
  <2>1. CASE Expire(k)
    BY <2>1 DEF Expire, Advance
  <2>2. CASE Forget(k)
    BY <2>2 DEF Forget, Return, ClientTypes
  <2> QED
    BY <1>8, <2>1, <2>2
<1>9. CASE AgentDies
  BY <1>9 DEF AgentDies
<1>10. ASSUME UNCHANGED <<calls, pending>> PROVE WaitersOK'
  BY <1>10 DEF calls
<1>11. ASSUME NEW c \in Clients,
              \/ Start(c) \/ Adopt(c) \/ StartFails(c) \/ Reap(c)
              \/ ReaderUnheard(c) \/ ReadyTooLate(c) \/ EndOfStdout(c)
              \/ ReadError(c) \/ Ready(c) \/ Take(c) \/ Report(c)
              \/ Crash(c) \/ EndOfStdin(c)
       PROVE  UNCHANGED <<calls, pending>>
  BY <1>11 DEF Start, Adopt, StartFails, Reap, ReaderUnheard, ReadyTooLate,
       EndOfStdout, ReadError, Hangup, Ready, Take, Report, Crash,
       EndOfStdin, Die, rust
<1> QED
  BY <1>1, <1>2, <1>3, <1>4, <1>5, <1>6, <1>7, <1>8, <1>9, <1>10, <1>11
     DEF Next, Terminating, vars

LEMMA NoWaiterLeftStep ==
  ASSUME TableInv, [Next]_vars PROVE NoWaiterLeft'
<1> TypeOK /\ CallTypes /\ ClientTypes /\ StagesOK /\ WaitersOK /\ NoWaiterLeft
  BY TypesApart DEF TableInv
<1> USE DEF NoWaiterLeft, CallTypes, ClientTypes
<1>1. ASSUME NEW c \in Clients,
             Start(c) \/ Adopt(c) \/ StartFails(c) \/ Reap(c)
      PROVE  NoWaiterLeft'
  BY <1>1 DEF Start, Adopt, StartFails, Reap, calls, process, StagesOK
<1>2. ASSUME NEW c \in Clients, OwnerSweeps(c) \/ ReaderSweeps(c)
      PROVE  NoWaiterLeft'
  BY <1>2 DEF OwnerSweeps, ReaderSweeps, FailPending, WaitersOK
<1>3. ASSUME NEW c \in Clients, Dispatch(c) PROVE NoWaiterLeft'
  BY <1>3 DEF Dispatch
<1>4. ASSUME NEW c \in Clients,
             \/ ReaderUnheard(c) \/ ReadyTooLate(c) \/ EndOfStdout(c)
             \/ ReadError(c)
      PROVE  NoWaiterLeft'
  BY <1>4 DEF ReaderUnheard, ReadyTooLate, EndOfStdout, ReadError, Hangup, calls
<1>5. ASSUME NEW k \in Calls, Begin(k) PROVE NoWaiterLeft'
  BY <1>5 DEF Begin, others
<1>6. ASSUME NEW k \in Calls, Register(k) PROVE NoWaiterLeft'
  BY <1>6 DEF Register, OpenUnderLock, Return, Advance, others
<1>7. ASSUME NEW k \in Calls, LookAgain(k) PROVE NoWaiterLeft'
  BY <1>7 DEF LookAgain, Return, Advance, others
<1>8. ASSUME NEW k \in Calls, Write(k) PROVE NoWaiterLeft'
  BY <1>8 DEF Write, Return, Advance, others, WaitersOK
<1>9. ASSUME NEW k \in Calls, Answered(k) \/ Expire(k) \/ Forget(k)
      PROVE  NoWaiterLeft'
  BY <1>9 DEF Answered, Expire, Forget, Return, Advance, others
<1>10. CASE AgentDies
  BY <1>10 DEF AgentDies
<1>11. ASSUME UNCHANGED <<calls, pending, closed, reader, owner>>
       PROVE  NoWaiterLeft'
  BY <1>11 DEF calls
<1>12. ASSUME NEW c \in Clients,
              Ready(c) \/ Take(c) \/ Report(c) \/ Crash(c) \/ EndOfStdin(c)
       PROVE  UNCHANGED <<calls, pending, closed, reader, owner>>
  BY <1>12 DEF Ready, Take, Report, Crash, EndOfStdin, Die, rust
<1> QED
  BY <1>1, <1>2, <1>3, <1>4, <1>5, <1>6, <1>7, <1>8, <1>9, <1>10, <1>11, <1>12
     DEF Next, Terminating, vars

---------------------------------------------------------------------------
(* Where the commands are.                                                 *)

\* Steps that take commands out of places, or leave them where they are, and
\* write at most a ready line.
Shrunk ==
  /\ \A c \in Clients :
       /\ Elems(stdin'[c]) \subseteq Elems(stdin[c])
       /\ Distinct(stdin[c]) => Distinct(stdin'[c])
       /\ work'[c] \in {work[c], Free}
       /\ Elems(stdout'[c]) \subseteq Elems(stdout[c]) \cup {ReadyLine}
  /\ \A k \in Calls : ~Unwritten(k) => /\ ~Unwritten(k)'
                                      /\ client'[k] = client[k]
  /\ UNCHANGED <<posted, misread>>

LEMMA Shrinks ==
  ASSUME TypeOK, WaitersOK, [Next]_vars,
         \A c \in Clients : ~Take(c) /\ ~Report(c),
         \A k \in Calls : ~Write(k)
  PROVE  Shrunk
<1> CallTypes /\ ClientTypes /\ PipeTypes
  BY TypesApart
<1>1. /\ \A c \in Clients : stdout[c] # <<>> =>
           Elems(Tail(stdout[c])) \subseteq Elems(stdout[c])
      /\ Elems(<<>>) = {} /\ Distinct(<<>>)
  BY TailElems, EmptyElems DEF PipeTypes
<1>2. ASSUME UNCHANGED <<client, pc, result>>
      PROVE  \A k \in Calls : ~Unwritten(k) => /\ ~Unwritten(k)'
                                              /\ client'[k] = client[k]
  BY <1>2 DEF Unwritten
<1>3. ASSUME NEW c \in Clients,
             \/ Start(c) \/ Adopt(c) \/ StartFails(c) \/ OwnerSweeps(c)
             \/ Dispatch(c) \/ ReaderUnheard(c) \/ ReadyTooLate(c)
             \/ ReaderSweeps(c)
      PROVE  Shrunk
  <2>1. UNCHANGED <<client, pc, result, stdin, work, posted, misread>>
    BY <1>3 DEF Start, Adopt, StartFails, OwnerSweeps, Dispatch, ReaderUnheard,
         ReadyTooLate, ReaderSweeps, FailPending, calls, process
  <2>2. \/ UNCHANGED stdout
        \/ stdout' = [stdout EXCEPT ![c] = <<>>]
        \/ stdout[c] # <<>> /\ stdout' = [stdout EXCEPT ![c] = Tail(@)]
    BY <1>3 DEF Start, Adopt, StartFails, OwnerSweeps, Dispatch, ReaderUnheard,
         ReadyTooLate, ReaderSweeps
  <2>3. \A b \in Clients : Elems(stdout'[b]) \subseteq Elems(stdout[b])
    BY <1>1, <2>2 DEF PipeTypes
  <2> QED
    BY <1>2, <2>1, <2>3 DEF Shrunk
<1>4. ASSUME NEW c \in Clients, EndOfStdout(c) \/ ReadError(c)
      PROVE  Shrunk
  BY <1>2, <1>4 DEF EndOfStdout, ReadError, Hangup, calls, Shrunk
<1>5. ASSUME NEW c \in Clients, Reap(c) \/ Crash(c) \/ EndOfStdin(c)
      PROVE  Shrunk
  <2>1. UNCHANGED <<client, pc, result, stdout, posted, misread>>
    BY <1>5 DEF Reap, Crash, EndOfStdin, Die, calls
  <2>2. /\ stdin' = [stdin EXCEPT ![c] = <<>>]
        /\ work' = [work EXCEPT ![c] = Free]
    BY <1>5 DEF Reap, Crash, EndOfStdin, Die
  <2> QED
    BY <1>1, <1>2, <2>1, <2>2 DEF Shrunk, PipeTypes
<1>6. ASSUME NEW c \in Clients, Ready(c) PROVE Shrunk
  <2>1. UNCHANGED <<client, pc, result, stdin, work, posted, misread>>
    BY <1>6 DEF Ready, rust, calls
  <2>2. Elems(Append(stdout[c], ReadyLine)) = Elems(stdout[c]) \cup {ReadyLine}
    <3>1. ReadyLine \in Lines
      BY DEF ReadyLine, Lines
    <3> QED
      BY <3>1, AppendElems DEF PipeTypes
  <2>3. \A b \in Clients :
          Elems(stdout'[b]) \subseteq Elems(stdout[b]) \cup {ReadyLine}
    BY <1>6, <2>2 DEF Ready, PipeTypes
  <2> QED
    BY <1>2, <2>1, <2>3 DEF Shrunk
<1>7. ASSUME NEW k \in Calls,
             \/ Begin(k) \/ Register(k) \/ LookAgain(k)
             \/ Answered(k) \/ Expire(k) \/ Forget(k)
      PROVE  Shrunk
  <2>1. UNCHANGED <<stdin, work, stdout, posted, misread>>
    BY <1>7 DEF Begin, Register, LookAgain, Answered, Expire, Forget, others
  <2>2. \A j \in Calls : ~Unwritten(j) => /\ ~Unwritten(j)'
                                         /\ client'[j] = client[j]
    <3>1. CASE Begin(k) \/ Register(k) \/ LookAgain(k)
      <4>1. Unwritten(k)
        BY <3>1 DEF Begin, Register, LookAgain, Unwritten
      <4>2. \A j \in Calls \ {k} : UNCHANGED <<pc[j], client[j], result[j]>>
        BY <3>1 DEF Begin, Register, LookAgain, Return, Advance, CallTypes
      <4> QED
        BY <4>1, <4>2 DEF Unwritten
    <3>2. CASE Answered(k) \/ Expire(k) \/ Forget(k)
      BY <3>2 DEF Answered, Expire, Forget, Return, Advance, GivenUp,
           Unwritten, CallTypes
    <3> QED
      BY <1>7, <3>1, <3>2
  <2> QED
    BY <2>1, <2>2 DEF Shrunk
<1>8. CASE AgentDies
  <2>1. \A c \in Clients : stdout'[c] = <<>>
    BY <1>8 DEF AgentDies
  <2>2. \A k \in Calls : ~Unwritten(k) => /\ ~Unwritten(k)'
                                         /\ client'[k] = client[k]
    BY <1>8 DEF AgentDies, Unwritten, CallTypes
  <2> QED
    BY <1>1, <1>8, <2>1, <2>2 DEF AgentDies, Shrunk
<1>9. CASE UNCHANGED vars
  BY <1>2, <1>9 DEF vars, calls, Shrunk
<1> QED
  BY <1>3, <1>4, <1>5, <1>6, <1>7, <1>8, <1>9 DEF Next, Terminating

LEMMA ShrunkPlaces ==
  ASSUME TypeOK, PlacesOK, PlacesTrue, Shrunk
  PROVE  PlacesOK' /\ PlacesTrue'
<1> CallTypes /\ PipeTypes
  BY TypesApart
<1>1. /\ \A c \in Clients : Elems(stdin[c]) \subseteq Calls
      /\ \A c \in Clients : Elems(stdout[c]) \subseteq Lines
      /\ \A c \in Clients : work[c] \in Work
  BY ElemsIn DEF PipeTypes
<1>2. \A c \in Clients : Named(stdout'[c]) \subseteq Named(stdout[c]) \cup {NoCall}
  BY DEF Shrunk, Named, ReadyLine
<1>3. \A c \in Clients : Named(stdout[c]) \subseteq Calls \cup {NoCall}
  BY <1>1 DEF Named, Lines
<1>4. Free.call = NoCall /\ ReadyLine.call = NoCall
  BY DEF Free, ReadyLine
<1>5. PlacesOK'
  BY <1>1, <1>2, <1>3, <1>4, NoCallAssumption DEF PlacesOK, Shrunk, Work
<1>6. PlacesTrue'
  BY <1>1, <1>4 DEF PlacesTrue, Shrunk
<1> QED
  BY <1>5, <1>6

\* Taking up a command.
LEMMA TakePlaces ==
  ASSUME TypeOK, PlacesOK, PlacesTrue, NEW c \in Clients, Take(c)
  PROVE  PlacesOK' /\ PlacesTrue'
<1> CallTypes /\ PipeTypes
  BY TypesApart
<1> DEFINE k == Head(stdin[c])
<1>1. /\ k \in Calls /\ k \in Elems(stdin[c])
      /\ Elems(Tail(stdin[c])) \subseteq Elems(stdin[c])
      /\ Distinct(Tail(stdin[c])) /\ k \notin Elems(Tail(stdin[c]))
      /\ k # NoCall
  BY TailElems, NoCallAssumption DEF Take, PipeTypes, PlacesOK
<1>2. /\ \A b \in Clients : Elems(stdin[b]) \subseteq Calls
      /\ \A b \in Clients : Elems(stdout[b]) \subseteq Lines
      /\ \A b \in Clients : work[b] \in Work
  BY ElemsIn DEF PipeTypes
<1>3. /\ client[k] = c /\ ~Unwritten(k) /\ posted[k] = 0
      /\ k \notin Named(stdout[c])
  BY <1>1 DEF PlacesOK
<1>4. PICK landed \in BOOLEAN :
        /\ work' = [work EXCEPT ![c] = [call |-> k, attempt |-> 1,
                                        landed |-> landed]]
        /\ posted' = IF landed THEN [posted EXCEPT ![k] = @ + 1] ELSE posted
  BY DEF Take, Attempt
<1>5. /\ stdin' = [stdin EXCEPT ![c] = Tail(@)]
      /\ UNCHANGED <<pc, client, result, stdout, misread>>
  BY DEF Take, rust, calls
<1> HIDE DEF k
<1>6. /\ stdin'[c] = Tail(stdin[c])
      /\ work'[c].call = k /\ work'[c].landed = landed
      /\ \A b \in Clients \ {c} : stdin'[b] = stdin[b] /\ work'[b] = work[b]
      /\ \A j \in Calls \ {k} : posted'[j] = posted[j]
      /\ posted'[k] = IF landed THEN 1 ELSE 0
  BY <1>1, <1>3, <1>4, <1>5 DEF PipeTypes
<1>7. \A j : Unwritten(j)' <=> Unwritten(j)
  BY <1>5 DEF Unwritten
<1>8. \A b \in Clients \ {c} : /\ k \notin Elems(stdin[b]) /\ work[b].call # k
                              /\ k \notin Named(stdout[b])
  BY <1>1, <1>3 DEF PlacesOK
<1>9. PlacesOK'
  <2>1. ASSUME NEW b \in Clients
        PROVE  /\ Distinct(stdin'[b])
               /\ \A j \in Elems(stdin'[b]) :
                    /\ client[j] = b /\ ~Unwritten(j) /\ posted'[j] = 0
                    /\ work'[b].call # j /\ j \notin Named(stdout[b])
               /\ work'[b].call # NoCall =>
                    /\ client[work'[b].call] = b /\ ~Unwritten(work'[b].call)
                    /\ work'[b].call \notin Named(stdout[b])
    <3>1. CASE b = c
      BY <1>1, <1>2, <1>3, <1>6, <3>1 DEF PlacesOK
    <3>2. CASE b # c
      BY <1>1, <1>2, <1>6, <1>8, <3>2 DEF PlacesOK
    <3> QED
      BY <3>1, <3>2
  <2> QED
    BY <1>5, <1>7, <2>1 DEF PlacesOK
<1>10. PlacesTrue'
  <2>1. ASSUME NEW b \in Clients, work'[b].call # NoCall
        PROVE  /\ work'[b].landed => posted'[work'[b].call] > 0
               /\ ~work'[b].landed /\ posted'[work'[b].call] > 0
                    => work'[b].call \in misread
    <3>1. CASE b = c
      BY <1>6, <3>1
    <3>2. CASE b # c
      <4>1. work[b].call \in Calls \ {k}
        BY <1>2, <1>6, <1>8, <2>1, <3>2 DEF Work
      <4> QED
        BY <1>6, <2>1, <3>2, <4>1 DEF PlacesTrue
    <3> QED
      BY <3>1, <3>2
  <2>2. ASSUME NEW b \in Clients, NEW line \in Elems(stdout[b]),
               line.call # NoCall
        PROVE  /\ line.ok => posted'[line.call] > 0
               /\ ~line.ok /\ posted'[line.call] > 0 => line.call \in misread
    <3>1. line.call \in Calls \ {k}
      BY <1>2, <1>3, <1>8, <2>2 DEF Lines, Named
    <3> QED
      BY <1>6, <2>2, <3>1 DEF PlacesTrue
  <2>3. \A j \in Calls : posted'[j] > 1 => j \in misread
    BY <1>6 DEF PlacesTrue
  <2> QED
    BY <1>5, <2>1, <2>2, <2>3 DEF PlacesTrue
<1> QED
  BY <1>9, <1>10

\* Reporting the outcome of an attempt, and perhaps beginning the next one.
LEMMA ReportPlaces ==
  ASSUME TypeOK, StagesOK, PlacesOK, PlacesTrue, NEW c \in Clients, Report(c)
  PROVE  PlacesOK' /\ PlacesTrue'
<1> CallTypes /\ PipeTypes
  BY TypesApart
<1> DEFINE w == work[c]
           k == w.call
<1>1. w \in Work /\ k \in Calls /\ k # NoCall
  BY NoCallAssumption DEF Report, StagesOK, PipeTypes, Work
<1>2. /\ \A b \in Clients : Elems(stdin[b]) \subseteq Calls
      /\ \A b \in Clients : Elems(stdout[b]) \subseteq Lines
      /\ \A b \in Clients : work[b] \in Work
  BY ElemsIn DEF PipeTypes
<1>3. /\ client[k] = c /\ ~Unwritten(k)
      /\ \A b \in Clients : k \notin Elems(stdin[b]) /\ k \notin Named(stdout[b])
      /\ \A b \in Clients \ {c} : work[b].call # k
  BY <1>1 DEF PlacesOK
<1>4. PICK ok \in IF w.landed THEN BOOLEAN ELSE {FALSE} :
        /\ misread' = IF w.landed /\ ~ok THEN misread \cup {k} ELSE misread
        /\ IF TriesAgain(w, ok)
           THEN Attempt(c, k, w.attempt + 1)
           ELSE work' = [work EXCEPT ![c] = Free] /\ UNCHANGED posted
        /\ stdout' = IF reader[c] = "gone" THEN stdout
                     ELSE [stdout EXCEPT ![c] = @ \o Emitted(w, ok)]
  BY DEF Report
<1>5. UNCHANGED <<pc, client, result, stdin>>
  BY DEF Report, rust, calls
<1> DEFINE line == [call |-> k, ok |-> ok]
<1>6. ok \in BOOLEAN /\ (ok => w.landed)
  BY <1>4
<1>7. Elems(stdout[c] \o Emitted(w, ok)) =
        IF TriesAgain(w, ok) THEN Elems(stdout[c])
        ELSE Elems(stdout[c]) \cup {line}
  BY <1>1, <1>6, EmittedElems DEF PipeTypes
<1>8. /\ w.landed => posted[k] > 0
      /\ ~w.landed /\ posted[k] > 0 => k \in misread
      /\ posted[k] \in Nat
  BY <1>1 DEF PlacesTrue, PipeTypes
<1> line.call = k /\ line.ok = ok
  OBVIOUS
<1> HIDE DEF w, k, line
<1>9. \A j : Unwritten(j)' <=> Unwritten(j)
  BY <1>5 DEF Unwritten
<1>10. /\ \A b \in Clients \ {c} : /\ work'[b] = work[b]
                                  /\ Elems(stdout'[b]) = Elems(stdout[b])
       /\ \A j \in Calls \ {k} : posted'[j] = posted[j]
       /\ misread \subseteq misread'
  BY <1>1, <1>4 DEF Attempt, PipeTypes
<1>11. /\ \/ work'[c].call = NoCall
          \/ work'[c].call = k /\ TriesAgain(w, ok)
       /\ work'[c].call = k /\ work'[c].landed => posted'[k] > 0
       /\ work'[c].call = k /\ ~work'[c].landed /\ posted'[k] > 0 => k \in misread'
       /\ posted'[k] > 1 => k \in misread' \/ posted'[k] = posted[k]
       /\ posted'[k] >= posted[k]
       /\ ~TriesAgain(w, ok) => posted'[k] = posted[k]
       /\ posted'[k] \in Nat
  <2>1. CASE TriesAgain(w, ok)
    <3>1. PICK landed \in BOOLEAN :
            /\ work' = [work EXCEPT ![c] = [call |-> k, attempt |-> w.attempt + 1,
                                            landed |-> landed]]
            /\ posted' = IF landed THEN [posted EXCEPT ![k] = @ + 1] ELSE posted
      BY <1>4, <2>1 DEF Attempt
    <3>2. /\ work'[c].call = k /\ work'[c].landed = landed
          /\ posted'[k] = IF landed THEN posted[k] + 1 ELSE posted[k]
      BY <1>1, <3>1 DEF PipeTypes
    <3>3. posted[k] > 0 => k \in misread'
      BY <1>4, <1>8, <2>1 DEF TriesAgain
    <3> QED
      BY <1>8, <2>1, <3>2, <3>3
  <2>2. CASE ~TriesAgain(w, ok)
    <3>1. work'[c] = Free /\ UNCHANGED posted
      BY <1>4, <2>2 DEF PipeTypes
    <3>2. work'[c].call = NoCall
      BY <3>1 DEF Free
    <3> QED
      BY <1>1, <1>8, <2>2, <3>1, <3>2
  <2> QED
    BY <2>1, <2>2
<1>12. /\ Elems(stdout'[c]) \subseteq Elems(stdout[c]) \cup {line}
       /\ line \in Elems(stdout'[c]) => ~TriesAgain(w, ok)
                                        \/ line \in Elems(stdout[c])
  BY <1>4, <1>7 DEF PipeTypes
<1>13. /\ ok => posted'[k] > 0
       /\ ~ok /\ posted'[k] > 0 /\ ~TriesAgain(w, ok) => k \in misread'
  BY <1>4, <1>6, <1>8, <1>11
<1>14. line \notin Elems(stdout[c])
  BY <1>3 DEF Named
<1>15. PlacesOK'
  <2>1. /\ Named(stdout'[c]) \subseteq Named(stdout[c]) \cup {k}
        /\ k \in Named(stdout'[c]) => ~TriesAgain(w, ok)
    BY <1>3, <1>12, <1>14 DEF Named
  <2>2. \A b \in Clients \ {c} : Named(stdout'[b]) = Named(stdout[b])
    BY <1>10 DEF Named
  <2>3. ASSUME NEW b \in Clients
        PROVE  /\ Distinct(stdin[b])
               /\ \A j \in Elems(stdin[b]) :
                    /\ client[j] = b /\ ~Unwritten(j) /\ posted'[j] = 0
                    /\ work'[b].call # j /\ j \notin Named(stdout'[b])
               /\ work'[b].call # NoCall =>
                    /\ client[work'[b].call] = b /\ ~Unwritten(work'[b].call)
                    /\ work'[b].call \notin Named(stdout'[b])
               /\ \A j \in Named(stdout'[b]) \ {NoCall} :
                    client[j] = b /\ ~Unwritten(j)
    <3>1. CASE b = c
      BY <1>1, <1>2, <1>3, <1>10, <1>11, <2>1, <3>1, NoCallAssumption DEF PlacesOK
    <3>2. CASE b # c
      BY <1>2, <1>3, <1>10, <2>2, <3>2 DEF PlacesOK
    <3> QED
      BY <3>1, <3>2
  <2> QED
    BY <1>5, <1>9, <2>3 DEF PlacesOK
<1>16. PlacesTrue'
  <2>1. ASSUME NEW b \in Clients, work'[b].call # NoCall
        PROVE  /\ work'[b].landed => posted'[work'[b].call] > 0
               /\ ~work'[b].landed /\ posted'[work'[b].call] > 0
                    => work'[b].call \in misread'
    <3>1. CASE b = c
      BY <1>11, <2>1, <3>1
    <3>2. CASE b # c
      <4>1. work[b].call \in Calls \ {k}
        BY <1>2, <1>3, <1>10, <2>1, <3>2 DEF Work
      <4> QED
        BY <1>10, <2>1, <3>2, <4>1 DEF PlacesTrue
    <3> QED
      BY <3>1, <3>2
  <2>2. ASSUME NEW b \in Clients, NEW l \in Elems(stdout'[b]), l.call # NoCall
        PROVE  /\ l.ok => posted'[l.call] > 0
               /\ ~l.ok /\ posted'[l.call] > 0 => l.call \in misread'
    <3>1. CASE l \in Elems(stdout[b])
      <4>1. l.call \in Calls \ {k}
        BY <1>2, <1>3, <2>2, <3>1 DEF Lines, Named
      <4> QED
        BY <1>10, <2>2, <3>1, <4>1 DEF PlacesTrue
    <3>2. CASE l \notin Elems(stdout[b])
      <4>1. b = c /\ l = line /\ ~TriesAgain(w, ok)
        BY <1>10, <1>12, <1>14, <2>2, <3>2
      <4> QED
        BY <1>13, <4>1
    <3> QED
      BY <3>1, <3>2
  <2>3. \A j \in Calls : posted'[j] > 1 => j \in misread'
    BY <1>10, <1>11 DEF PlacesTrue
  <2> QED
    BY <2>1, <2>2, <2>3 DEF PlacesTrue
<1> QED
  BY <1>15, <1>16

\* Writing a command, or finding the pipe broken.
LEMMA WritePlaces ==
  ASSUME TypeOK, WaitersOK, PlacesOK, PlacesTrue, AnswersOK,
         NEW k \in Calls, Write(k)
  PROVE  PlacesOK' /\ PlacesTrue'
<1> CallTypes /\ PipeTypes
  BY TypesApart
<1>1. PICK c \in Clients : c = client[k]
  BY DEF CallTypes
<1>2. Unwritten(k) /\ posted[k] = 0 /\ result[k] = "none"
  BY DEF Write, Unwritten, AnswersOK, AnswerOK, WaitersOK
<1>3. \A b \in Clients : Elems(stdin[b]) \subseteq Calls
  BY ElemsIn DEF PipeTypes
<1>4. \A b \in Clients : /\ k \notin Elems(stdin[b]) /\ k \notin Named(stdout[b])
                        /\ work[b].call # k
  BY <1>2, NoCallAssumption DEF PlacesOK
<1>5. UNCHANGED <<client, work, stdout, posted, misread>>
  BY DEF Write, Return, Advance, others
<1>6. \A j \in Calls \ {k} : Unwritten(j)' <=> Unwritten(j)
  BY DEF Write, Return, Advance, Unwritten, CallTypes
<1>7. PlacesTrue'
  BY <1>5 DEF PlacesTrue
<1>8. /\ Elems(Append(stdin[c], k)) = Elems(stdin[c]) \cup {k}
      /\ Distinct(Append(stdin[c], k))
  BY <1>1, <1>4, AppendElems DEF PipeTypes, PlacesOK
<1>9. \A b \in Clients :
        /\ work[b].call # NoCall =>
             /\ client[work[b].call] = b /\ ~Unwritten(work[b].call)'
             /\ work[b].call \notin Named(stdout[b])
        /\ \A j \in Named(stdout[b]) \ {NoCall} :
             client[j] = b /\ ~Unwritten(j)'
  <2>1. \A b \in Clients : /\ work[b].call \in Calls \cup {NoCall}
                          /\ Named(stdout[b]) \subseteq Calls \cup {NoCall}
    <3>1. \A b \in Clients : Elems(stdout[b]) \subseteq Lines /\ work[b] \in Work
      BY ElemsIn DEF PipeTypes
    <3> QED
      BY <3>1 DEF Work, Named, Lines
  <2>2. \A j \in Calls : ~Unwritten(j) => j = k \/ ~Unwritten(j)'
    BY <1>6
  <2>3. ASSUME NEW b \in Clients, work[b].call # NoCall
        PROVE  /\ client[work[b].call] = b /\ ~Unwritten(work[b].call)'
               /\ work[b].call \notin Named(stdout[b])
    <3>1. PICK j \in Calls \ {k} : j = work[b].call
      BY <1>4, <2>1, <2>3
    <3>2. client[j] = b /\ ~Unwritten(j) /\ j \notin Named(stdout[b])
      BY <2>3, <3>1 DEF PlacesOK
    <3>3. ~Unwritten(j)'
      BY <2>2, <3>2
    <3>4. work'[b].call = j
      BY <1>5, <3>1
    <3> QED
      BY <3>1, <3>2, <3>3, <3>4 DEF Unwritten
  <2>4. ASSUME NEW b \in Clients, NEW j \in Named(stdout[b]) \ {NoCall}
        PROVE  client[j] = b /\ ~Unwritten(j)'
    <3>1. j \in Calls \ {k}
      BY <1>4, <2>1
    <3> QED
      BY <2>2, <3>1 DEF PlacesOK
  <2> QED
    BY <2>3, <2>4
<1>10. CASE sidecar[c] = "ready"
  <2>1. /\ pc' = [pc EXCEPT ![k] = "waiting"] /\ UNCHANGED result
        /\ stdin' = [stdin EXCEPT ![c] = Append(@, k)]
    BY <1>1, <1>10 DEF Write, Advance
  <2>2. ~Unwritten(k)'
    BY <1>2, <2>1 DEF Unwritten, CallTypes
  <2>3. /\ stdin'[c] = Append(stdin[c], k)
        /\ \A b \in Clients \ {c} : stdin'[b] = stdin[b]
    BY <2>1 DEF PipeTypes
  <2>4. ASSUME NEW b \in Clients
        PROVE  /\ Distinct(stdin'[b])
               /\ \A j \in Elems(stdin'[b]) :
                    /\ client[j] = b /\ ~Unwritten(j)' /\ posted[j] = 0
                    /\ work[b].call # j /\ j \notin Named(stdout[b])
    <3>1. CASE b = c
      <4>1. Elems(stdin'[b]) = Elems(stdin[c]) \cup {k} /\ Distinct(stdin'[b])
        BY <1>8, <2>3, <3>1
      <4>2. \A j \in Elems(stdin[c]) :
              /\ client[j] = c /\ ~Unwritten(j)' /\ posted[j] = 0
              /\ work[c].call # j /\ j \notin Named(stdout[c])
        BY <1>3, <1>4, <1>6 DEF PlacesOK
      <4> QED
        BY <1>1, <1>2, <1>4, <2>2, <3>1, <4>1, <4>2
    <3>2. CASE b # c
      BY <1>3, <1>4, <1>6, <2>3, <3>2 DEF PlacesOK
    <3> QED
      BY <3>1, <3>2
  <2> QED
    BY <1>5, <1>7, <1>9, <2>4 DEF PlacesOK
<1>11. CASE sidecar[c] # "ready"
  <2>1. stdin' = stdin
    BY <1>1, <1>11 DEF Write
  <2>2. \A b \in Clients : \A j \in Elems(stdin[b]) : ~Unwritten(j)'
    BY <1>3, <1>4, <1>6 DEF PlacesOK
  <2> QED
    BY <1>5, <1>7, <1>9, <2>1, <2>2 DEF PlacesOK
<1> QED
  BY <1>10, <1>11

LEMMA PlacesStep ==
  ASSUME TypeOK, StagesOK, WaitersOK, PlacesOK, PlacesTrue, AnswersOK,
         [Next]_vars
  PROVE  PlacesOK' /\ PlacesTrue'
<1>1. CASE \E c \in Clients : Take(c)
  BY <1>1, TakePlaces
<1>2. CASE \E c \in Clients : Report(c)
  BY <1>2, ReportPlaces
<1>3. CASE \E k \in Calls : Write(k)
  BY <1>3, WritePlaces
<1> QED
  BY <1>1, <1>2, <1>3, Shrinks, ShrunkPlaces

---------------------------------------------------------------------------
(* What the callers are told.                                              *)

\* A step that takes commands out of places at most leaves the answer to a
\* call right that it does not touch.
LEMMA AnswerKept ==
  ASSUME Shrunk, NEW k \in Calls, AnswerOK(k), client[k] \in Clients,
         UNCHANGED <<pc[k], client[k], answer[k], result[k]>>,
         closed[client[k]] => closed'[client[k]]
  PROVE  AnswerOK(k)'
<1>1. Settled(k)' => Settled(k)
  BY DEF Settled
<1>2. Unwritten(k)' <=> Unwritten(k)
  BY DEF Unwritten
<1>3. \A c \in Clients :
        k \notin Elems(stdin[c]) /\ work[c].call # k =>
          k \notin Elems(stdin'[c]) /\ work'[c].call # k
  BY NoCallAssumption DEF Shrunk, Free
<1> QED
  BY <1>1, <1>2, <1>3 DEF AnswerOK, Shrunk

\* Only a command that is not settled is performed.
LEMMA AnswersWhenPosting ==
  ASSUME CallTypes, PipeTypes, AnswersOK, NEW k \in Calls,
         ~Settled(k), ~Unwritten(k),
         UNCHANGED <<calls, closed>>, misread \subseteq misread',
         \A j \in Calls \ {k} : posted'[j] = posted[j],
         posted'[k] >= posted[k],
         \A c \in Clients : /\ Elems(stdin'[c]) \subseteq Elems(stdin[c])
                            /\ work'[c].call \in {work[c].call, k, NoCall}
  PROVE  AnswersOK'
<1>1. \A j : (Settled(j)' <=> Settled(j)) /\ (Unwritten(j)' <=> Unwritten(j))
  BY DEF Settled, Unwritten, calls
<1>2. ASSUME NEW j \in Calls \ {k} PROVE AnswerOK(j)'
  <2>1. \A c \in Clients :
          j \notin Elems(stdin[c]) /\ work[c].call # j =>
            j \notin Elems(stdin'[c]) /\ work'[c].call # j
    BY NoCallAssumption
  <2> QED
    BY <1>1, <2>1 DEF AnswersOK, AnswerOK, calls
<1>3. AnswerOK(k)'
  <2>1. /\ answer[k] # "ok" /\ result[k] # "sent"
        /\ answer[k] = "error" \/ result[k] = "failed" => closed[client[k]]
    BY DEF Settled
  <2> QED
    BY <1>1, <2>1 DEF AnswerOK, calls
<1> QED
  BY <1>2, <1>3 DEF AnswersOK

\* The steps that leave the calls alone.
LEMMA AnswersUntouched ==
  ASSUME TypeOK, WaitersOK, AnswersOK, NEW c \in Clients,
         \/ Start(c) \/ Adopt(c) \/ StartFails(c) \/ Reap(c)
         \/ ReaderUnheard(c) \/ ReadyTooLate(c) \/ EndOfStdout(c)
         \/ ReadError(c) \/ Ready(c) \/ Crash(c) \/ EndOfStdin(c)
         \/ UNCHANGED vars,
         Shrunk
  PROVE  AnswersOK'
<1> CallTypes /\ ClientTypes
  BY TypesApart
<1>1. UNCHANGED calls
  BY DEF Start, Adopt, StartFails, Reap, ReaderUnheard, ReadyTooLate,
       EndOfStdout, ReadError, Hangup, Ready, Crash, EndOfStdin, Die, rust, vars
<1>2. \A b \in Clients : closed[b] => closed'[b]
  BY DEF Start, Adopt, StartFails, Reap, ReaderUnheard, ReadyTooLate,
       EndOfStdout, ReadError, Hangup, Ready, Crash, EndOfStdin, Die, rust,
       vars, ClientTypes
<1> QED
  BY <1>1, <1>2, AnswerKept DEF AnswersOK, calls, CallTypes

\* The two sweeps answer only callers of a closed client.
LEMMA AnswersAfterSweep ==
  ASSUME TypeOK, StagesOK, WaitersOK, AnswersOK, Shrunk, NEW c \in Clients,
         OwnerSweeps(c) \/ ReaderSweeps(c)
  PROVE  AnswersOK'
<1> CallTypes /\ ClientTypes
  BY TypesApart
<1>1. /\ closed[c] /\ UNCHANGED <<pc, client, result, closed, posted>>
      /\ answer' = [k \in Calls |-> IF k \in pending[c] THEN "error"
                                    ELSE answer[k]]
  BY DEF OwnerSweeps, ReaderSweeps, FailPending, StagesOK, Shrunk
<1>2. ASSUME NEW k \in Calls, k \notin pending[c] PROVE AnswerOK(k)'
  <2>1. answer'[k] = answer[k]
    BY <1>1, <1>2
  <2> QED
    BY <1>1, <2>1, AnswerKept DEF AnswersOK, CallTypes
<1>3. ASSUME NEW k \in Calls, k \in pending[c] PROVE AnswerOK(k)'
  <2>1. client[k] = c /\ result[k] = "none" /\ answer'[k] = "error"
    BY <1>1, <1>3 DEF WaitersOK
  <2>2. ~Settled(k)' /\ (Unwritten(k)' <=> Unwritten(k))
    BY <1>1, <2>1 DEF Settled, Unwritten
  <2> QED
    BY <1>1, <2>1, <2>2 DEF AnswersOK, AnswerOK
<1> QED
  BY <1>2, <1>3 DEF AnswersOK

\* An answer that was read finds its command in no other place.
LEMMA AnswersAfterDispatch ==
  ASSUME TypeOK, StagesOK, WaitersOK, PlacesOK, PlacesTrue, AnswersOK, Shrunk,
         NEW c \in Clients, Dispatch(c)
  PROVE  AnswersOK'
<1> CallTypes /\ ClientTypes /\ PipeTypes
  BY TypesApart
<1>1. PICK line \in Lines : line = Head(stdout[c]) /\ line \in Elems(stdout[c])
  BY TailElems DEF Dispatch, PipeTypes
<1>2. /\ UNCHANGED <<pc, client, result, closed, work, posted, misread, stdin>>
      /\ answer' = IF line.call \in pending[c]
                   THEN [answer EXCEPT ![line.call] =
                                         IF line.ok THEN "ok" ELSE "error"]
                   ELSE answer
      /\ line.call # NoCall
  BY <1>1 DEF Dispatch, process
<1>3. ASSUME NEW k \in Calls, k # line.call \/ k \notin pending[c]
      PROVE  AnswerOK(k)'
  <2>1. answer'[k] = answer[k]
    BY <1>2, <1>3 DEF CallTypes
  <2> QED
    BY <1>2, <2>1, AnswerKept DEF AnswersOK, CallTypes
<1>4. ASSUME NEW k \in Calls, k = line.call, k \in pending[c]
      PROVE  AnswerOK(k)'
  <2>1. /\ client[k] = c /\ result[k] = "none"
        /\ answer'[k] = IF line.ok THEN "ok" ELSE "error"
    BY <1>2, <1>4 DEF WaitersOK, CallTypes
  <2>2. k \in Named(stdout[c])
    BY <1>1, <1>4 DEF Named
  <2>3. /\ ~Unwritten(k)
        /\ \A b \in Clients : k \notin Elems(stdin[b]) /\ work[b].call # k
    BY <1>2, <1>4, <2>2, NoCallAssumption DEF PlacesOK
  <2>4. /\ line.ok => posted[k] > 0
        /\ ~line.ok /\ posted[k] > 0 => k \in misread
    BY <1>1, <1>2, <1>4 DEF PlacesTrue
  <2>5. ~Unwritten(k)'
    BY <1>2, <2>3 DEF Unwritten
  <2> QED
    BY <1>2, <2>1, <2>3, <2>4, <2>5 DEF AnswerOK
<1> QED
  BY <1>3, <1>4 DEF AnswersOK

\* A caller's own steps change nobody else's answer.
LEMMA AnswersOfOthers ==
  ASSUME TypeOK, AnswersOK, Shrunk, NEW k \in Calls,
         \/ Begin(k) \/ Register(k) \/ LookAgain(k)
         \/ Answered(k) \/ Expire(k) \/ Forget(k)
  PROVE  \A j \in Calls \ {k} : AnswerOK(j)'
<1> CallTypes
  BY TypesApart
<1>1. UNCHANGED closed
  BY DEF Begin, Register, LookAgain, Answered, Expire, Forget, others
<1>2. \A j \in Calls \ {k} :
        UNCHANGED <<pc[j], client[j], answer[j], result[j]>>
  BY DEF Begin, Register, LookAgain, Answered, Expire, Forget, Return, Advance,
       CallTypes
<1> QED
  BY <1>1, <1>2, AnswerKept DEF AnswersOK, CallTypes

\* Before its command is written a caller can only be refused.
LEMMA AnswerBeforeWriting ==
  ASSUME TypeOK, WaitersOK, PlacesOK, AnswersOK, NEW k \in Calls,
         Begin(k) \/ Register(k) \/ LookAgain(k)
  PROVE  AnswerOK(k)'
<1> CallTypes /\ ClientTypes
  BY TypesApart
<1>1. UNCHANGED <<stdin, work, posted, misread, closed>>
  BY DEF Begin, Register, LookAgain, others
<1>2. /\ Unwritten(k) /\ result[k] = "none" /\ posted[k] = 0
      /\ pc[k] \in {"idle", "checked"} => answer[k] = "none"
      /\ answer[k] # "none" => closed[client[k]]
  BY DEF Begin, Register, LookAgain, Unwritten, WaitersOK, AnswersOK, AnswerOK
<1>3. \A c \in Clients : k \notin Elems(stdin[c]) /\ work[c].call # k
  BY <1>2, NoCallAssumption DEF PlacesOK
<1>4. /\ result'[k] \in {"none", "refused"}
      /\ answer'[k] \in {"none", answer[k]}
      /\ answer'[k] # "none" => client'[k] = client[k]
  BY <1>2 DEF Begin, Register, LookAgain, Return, Advance, CallTypes
<1>5. answer[k] # "ok"
  BY <1>2 DEF AnswersOK, AnswerOK, CallTypes
<1> QED
  BY <1>1, <1>2, <1>3, <1>4, <1>5 DEF AnswerOK

\* After it was written the caller is told what it was answered, or that
\* nothing is known.
LEMMA AnswerAfterWriting ==
  ASSUME TypeOK, WaitersOK, AnswersOK, NEW k \in Calls,
         Answered(k) \/ Expire(k) \/ Forget(k)
  PROVE  AnswerOK(k)'
<1> CallTypes
  BY TypesApart
<1>1. UNCHANGED <<stdin, work, posted, misread, closed, client>>
  BY DEF Answered, Expire, Forget, Return, Advance, others
<1>2. CASE Answered(k)
  <2>1. /\ answer[k] \in {"ok", "error"} /\ answer'[k] = "none"
        /\ pc'[k] = "done"
        /\ result'[k] = IF answer[k] = "ok" THEN "sent" ELSE "failed"
    BY <1>2 DEF Answered, Return, CallTypes
  <2>2. (Settled(k)' => Settled(k)) /\ ~Unwritten(k)'
    BY <1>1, <2>1 DEF Settled, Unwritten
  <2> QED
    BY <1>1, <2>1, <2>2 DEF AnswersOK, AnswerOK
<1>3. CASE Expire(k) \/ Forget(k)
  <2>1. /\ answer'[k] \in {"none", answer[k]}
        /\ pc'[k] \in {"expired", "done"}
        /\ result[k] = "none" /\ result'[k] \in {"none", "indeterminate"}
    BY <1>3 DEF Expire, Forget, Return, Advance, GivenUp, CallTypes, WaitersOK
  <2>2. (Settled(k)' => Settled(k)) /\ ~Unwritten(k)'
    BY <1>1, <2>1 DEF Settled, Unwritten
  <2> QED
    BY <1>1, <2>1, <2>2 DEF AnswersOK, AnswerOK
<1> QED
  BY <1>2, <1>3

\* A caller that writes has no answer, unless its client is closed.
LEMMA AnswersAfterWrite ==
  ASSUME TypeOK, WaitersOK, PlacesOK, AnswersOK, NEW k \in Calls, Write(k)
  PROVE  AnswersOK'
<1> CallTypes /\ PipeTypes
  BY TypesApart
<1>1. UNCHANGED <<client, closed, work, posted, misread>>
  BY DEF Write, Return, Advance, others
<1>2. /\ Unwritten(k) /\ result[k] = "none" /\ posted[k] = 0
      /\ answer[k] # "none" => closed[client[k]]
  BY DEF Write, Unwritten, WaitersOK, AnswersOK, AnswerOK
<1>3. answer[k] # "ok"
  BY <1>2 DEF AnswersOK, AnswerOK
<1>4. \A c \in Clients :
        Elems(stdin'[c]) \subseteq Elems(stdin[c]) \cup {k}
  <2>1. \A c \in Clients : Elems(Append(stdin[c], k)) = Elems(stdin[c]) \cup {k}
    BY AppendElems DEF PipeTypes
  <2>2. stdin' = stdin
          \/ stdin' = [stdin EXCEPT ![client[k]] = Append(stdin[client[k]], k)]
    BY DEF Write
  <2> QED
    BY <2>1, <2>2 DEF PipeTypes, CallTypes
<1>5. ASSUME NEW j \in Calls \ {k} PROVE AnswerOK(j)'
  <2>1. UNCHANGED <<pc[j], answer[j], result[j]>>
    BY DEF Write, Return, Advance, CallTypes
  <2>2. (Settled(j)' <=> Settled(j)) /\ (Unwritten(j)' <=> Unwritten(j))
    BY <1>1, <2>1 DEF Settled, Unwritten
  <2> QED
    BY <1>1, <1>4, <2>1, <2>2 DEF AnswersOK, AnswerOK
<1>6. AnswerOK(k)'
  <2>1. CASE sidecar[client[k]] = "ready"
    <3>1. UNCHANGED <<answer, result>> /\ pc'[k] = "waiting"
      BY <2>1 DEF Write, Advance, CallTypes
    <3>2. ~Settled(k)' /\ ~Unwritten(k)'
      BY <1>1, <1>2, <1>3, <3>1 DEF Settled, Unwritten
    <3> QED
      BY <1>1, <1>2, <1>3, <3>1, <3>2 DEF AnswerOK
  <2>2. CASE sidecar[client[k]] # "ready"
    <3>1. answer'[k] = "none" /\ result'[k] = "refused" /\ UNCHANGED stdin
      BY <2>2 DEF Write, Return, CallTypes
    <3>2. \A c \in Clients : k \notin Elems(stdin[c]) /\ work[c].call # k
      BY <1>2, NoCallAssumption DEF PlacesOK
    <3> QED
      BY <1>1, <1>2, <3>1, <3>2 DEF AnswerOK
  <2> QED
    BY <2>1, <2>2
<1> QED
  BY <1>5, <1>6 DEF AnswersOK

LEMMA AnswersAfterTake ==
  ASSUME TypeOK, PlacesOK, AnswersOK, NEW c \in Clients, Take(c)
  PROVE  AnswersOK'
<1> CallTypes /\ PipeTypes
  BY TypesApart
<1>1. PICK k \in Calls : /\ k = Head(stdin[c]) /\ k \in Elems(stdin[c])
                         /\ Elems(Tail(stdin[c])) \subseteq Elems(stdin[c])
  BY TailElems DEF Take, PipeTypes
<1>2. ~Settled(k) /\ ~Unwritten(k)
  BY <1>1 DEF PlacesOK, AnswersOK, AnswerOK
<1>3. PICK landed \in BOOLEAN :
        /\ work' = [work EXCEPT ![c] = [call |-> k, attempt |-> 1,
                                        landed |-> landed]]
        /\ posted' = IF landed THEN [posted EXCEPT ![k] = @ + 1] ELSE posted
  BY <1>1 DEF Take, Attempt
<1>4. /\ stdin' = [stdin EXCEPT ![c] = Tail(@)]
      /\ UNCHANGED <<calls, closed, misread>>
  BY DEF Take, rust
<1>5. /\ \A j \in Calls \ {k} : posted'[j] = posted[j]
      /\ posted'[k] >= posted[k]
  BY <1>3 DEF PipeTypes
<1>6. \A b \in Clients : /\ Elems(stdin'[b]) \subseteq Elems(stdin[b])
                        /\ work'[b].call \in {work[b].call, k, NoCall}
  BY <1>1, <1>3, <1>4 DEF PipeTypes
<1> QED
  BY <1>2, <1>4, <1>5, <1>6, AnswersWhenPosting

LEMMA AnswersAfterReport ==
  ASSUME TypeOK, StagesOK, PlacesOK, AnswersOK, NEW c \in Clients, Report(c)
  PROVE  AnswersOK'
<1> CallTypes /\ PipeTypes
  BY TypesApart
<1>1. PICK k \in Calls : k = work[c].call /\ k # NoCall
  BY NoCallAssumption DEF Report, StagesOK, PipeTypes, Work
<1>2. ~Settled(k) /\ ~Unwritten(k)
  BY <1>1 DEF PlacesOK, AnswersOK, AnswerOK
<1>3. /\ UNCHANGED <<calls, closed, stdin>> /\ misread \subseteq misread'
      /\ \/ Attempt(c, k, work[c].attempt + 1)
         \/ work' = [work EXCEPT ![c] = Free] /\ UNCHANGED posted
  BY <1>1 DEF Report, rust
<1>4. /\ \A j \in Calls \ {k} : posted'[j] = posted[j]
      /\ posted'[k] >= posted[k]
  BY <1>3 DEF Attempt, PipeTypes
<1>5. \A b \in Clients :
        /\ Elems(stdin'[b]) \subseteq Elems(stdin[b])
        /\ work'[b].call \in {work[b].call, k, NoCall}
  <2>1. UNCHANGED stdin
    BY <1>3
  <2>2. \A b \in Clients : work'[b] = work[b] \/ work'[b].call \in {k, NoCall}
    BY <1>3 DEF Attempt, Free, PipeTypes
  <2> QED
    BY <2>1, <2>2
<1> QED
  BY <1>2, <1>3, <1>4, <1>5, AnswersWhenPosting

\* With the agent its answers are gone, and what was answered stays true.
LEMMA AnswersAfterDeath ==
  ASSUME TypeOK, WaitersOK, AnswersOK, Shrunk, AgentDies
  PROVE  AnswersOK'
<1> CallTypes
  BY TypesApart
<1> SUFFICES ASSUME NEW k \in Calls PROVE AnswerOK(k)'
  BY DEF AnswersOK
<1>1. /\ answer'[k] = "none" /\ UNCHANGED <<client, posted, misread>>
      /\ closed'[client[k]]
      /\ IF pc[k] \in {"idle", "done"}
         THEN UNCHANGED <<pc[k], result[k]>>
         ELSE pc'[k] = "done" /\ result'[k] = "lost"
  BY DEF AgentDies, CallTypes
<1>2. (Settled(k)' => Settled(k)) /\ (Unwritten(k)' => Unwritten(k))
  BY <1>1 DEF Settled, Unwritten
<1>3. \A c \in Clients :
        k \notin Elems(stdin[c]) /\ work[c].call # k =>
          k \notin Elems(stdin'[c]) /\ work'[c].call # k
  BY DEF AgentDies
<1> QED
  BY <1>1, <1>2, <1>3 DEF AnswersOK, AnswerOK

LEMMA AnswersStep ==
  ASSUME TypeOK, StagesOK, WaitersOK, PlacesOK, PlacesTrue, AnswersOK,
         [Next]_vars
  PROVE  AnswersOK'
<1>1. CASE \E c \in Clients : Take(c) \/ Report(c)
  BY <1>1, AnswersAfterTake, AnswersAfterReport
<1>2. CASE \E k \in Calls : Write(k)
  BY <1>2, AnswersAfterWrite
<1>3. ASSUME \A c \in Clients : ~Take(c) /\ ~Report(c),
             \A k \in Calls : ~Write(k)
      PROVE  AnswersOK'
  <2>1. Shrunk
    BY <1>3, Shrinks
  <2>2. ASSUME NEW c \in Clients,
               OwnerSweeps(c) \/ ReaderSweeps(c) \/ Dispatch(c)
        PROVE  AnswersOK'
    BY <2>1, <2>2, AnswersAfterSweep, AnswersAfterDispatch
  <2>3. ASSUME NEW k \in Calls,
               \/ Begin(k) \/ Register(k) \/ LookAgain(k)
               \/ Answered(k) \/ Expire(k) \/ Forget(k)
        PROVE  AnswersOK'
    BY <2>1, <2>3, AnswersOfOthers, AnswerBeforeWriting, AnswerAfterWriting
       DEF AnswersOK
  <2>4. CASE AgentDies
    BY <2>1, <2>4, AnswersAfterDeath
  <2>5. CASE UNCHANGED vars
    <3>1. 1 \in Clients
      BY BoundsAssumption DEF Clients
    <3> QED
      BY <2>1, <2>5, <3>1, AnswersUntouched
  <2> QED
    BY <1>3, <2>1, <2>2, <2>3, <2>4, <2>5, AnswersUntouched DEF Next, Terminating
<1> QED
  BY <1>1, <1>2, <1>3

---------------------------------------------------------------------------
(* The invariant.                                                          *)

LEMMA InitInv == Init => IInv
<1> SUFFICES ASSUME Init PROVE IInv
  OBVIOUS
<1>1. TypeOK
  BY TypeOKInit
<1>2. StagesOK /\ WaitersOK /\ NoWaiterLeft
  BY NoCallAssumption DEF Init, StagesOK, WaitersOK, NoWaiterLeft, Free
<1>3. \A c \in Clients : /\ stdin[c] = <<>> /\ stdout[c] = <<>>
                        /\ work[c].call = NoCall
  BY DEF Init, Free
<1>4. PlacesOK /\ PlacesTrue
  BY <1>3, EmptyElems DEF Init, PlacesOK, PlacesTrue, Named
<1>5. AnswersOK
  BY <1>3, NoCallAssumption, EmptyElems DEF Init, AnswersOK, AnswerOK, Settled
<1> QED
  BY <1>1, <1>2, <1>4, <1>5 DEF IInv, TableInv

LEMMA StepInv == IInv /\ [Next]_vars => IInv'
BY TypeOKStep, StagesOKStep, WaitersOKStep, NoWaiterLeftStep, PlacesStep,
   AnswersStep DEF IInv, TableInv

LEMMA Invariance == Spec => []IInv
BY InitInv, StepInv, PTL DEF Spec

---------------------------------------------------------------------------
(* Theorems.                                                               *)

\* The calls, the clients and the pipes keep their types.
THEOREM TypeCorrect == Spec => []TypeOK
<1>1. IInv => TypeOK
  BY DEF IInv, TableInv
<1> QED
  BY <1>1, Invariance, PTL

\* However a close, its two sweeps and a registration interleave, nobody is
\* left waiting on a client that was closed and swept.
THEOREM CloseReachesAll == Spec => []NoWaiterLeft
<1>1. IInv => NoWaiterLeft
  BY DEF IInv, TableInv
<1> QED
  BY <1>1, Invariance, PTL

\* What a caller is told of its command is what happened in the chat.
THEOREM CallersAreTold == Spec => []Truthful
<1>1. ASSUME IInv, NEW k \in Calls
      PROVE  /\ result[k] = "sent" => posted[k] > 0
             /\ result[k] = "refused" => posted[k] = 0
             /\ result[k] = "failed" /\ posted[k] > 0
                  => k \in misread \/ closed[client[k]]
             /\ posted[k] > 1 => k \in misread
  BY <1>1 DEF IInv, PlacesTrue, AnswersOK, AnswerOK, Unwritten
<1>2. IInv => Truthful
  BY <1>1 DEF Truthful
<1> QED
  BY <1>2, Invariance, PTL

\* A command that somebody was told is sent, refused or failed on an open
\* client is performed no more.
LEMMA SettledStays ==
  ASSUME IInv, [Next]_vars, NEW k \in Calls, Settled(k)
  PROVE  posted'[k] = posted[k]
<1> CallTypes /\ PipeTypes /\ AnswerOK(k)
  BY TypesApart DEF IInv, TableInv, AnswersOK
<1>1. ASSUME NEW c \in Clients, Take(c) PROVE posted'[k] = posted[k]
  <2>1. Head(stdin[c]) # k
    BY <1>1, TailElems DEF Take, PipeTypes, AnswerOK
  <2> QED
    BY <1>1, <2>1 DEF Take, Attempt, PipeTypes
<1>2. ASSUME NEW c \in Clients, Report(c) PROVE posted'[k] = posted[k]
  <2>1. work[c].call # k
    BY DEF AnswerOK
  <2> QED
    BY <1>2, <2>1 DEF Report, Attempt, PipeTypes
<1>3. CASE \E j \in Calls : Write(j)
  BY <1>3 DEF Write, others
<1> QED
  BY <1>1, <1>2, <1>3, Shrinks DEF IInv, TableInv, Shrunk

\* What a caller was told stays true: no straggler of a command that was
\* reported sent, refused or failed is posted afterwards.
THEOREM TheLastWord == Spec => AnswerIsFinal
<1>1. IInv /\ [Next]_vars =>
        [\A k \in Calls :
           \/ result[k] \in {"sent", "refused"}
           \/ result[k] = "failed" /\ ~closed[client[k]]
           => posted'[k] = posted[k]]_vars
  BY SettledStays DEF Settled
<1> QED
  BY <1>1, Invariance, PTL DEF Spec, AnswerIsFinal

=========================================================================
