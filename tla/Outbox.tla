----------------------------- MODULE Outbox -----------------------------
(***************************************************************************)
(* The persistent outbox of the agent: the outbox_delivery table of        *)
(* storage/src/lib.rs and its users.  A summary task delivers a payload    *)
(* with deliver_text / deliver_image / deliver_file (app/src/outbox.rs),   *)
(* the main loop drains what is due, the control process retries or        *)
(* cancels a row on behalf of the operator, the main loop deletes old      *)
(* rows, and a restart of the agent finds what a crash left behind.        *)
(*                                                                         *)
(* Every statement on the table is atomic (one mutex, one SQLite           *)
(* statement).  Sending is not: it is an await between the claim and the   *)
(* update that records the outcome.                                        *)
(***************************************************************************)
EXTENDS Naturals, Sequences, FiniteSets

CONSTANTS
  Deliveries,       \* idempotency keys: one (task, room, kind, payload) each
  Drainer,          \* the main loop in outbox::drain
  Parts,            \* a payload is sent as messages 1 .. Parts
  RetryWindow,      \* operations.outbox_retry_window_seconds
  BaseDelay,        \* first retry delay (5 s)
  MaxDelay,         \* longest retry delay (300 s)
  Retention,        \* operations.retention_days
  Batch,            \* rows one drain takes (8)
  \* Bounds of the model.
  MaxTime, LastCall, MaxCalls, MaxCrashes, MaxOperatorActs, MaxStoreErrors

ASSUME DeliveriesAssumption ==
  IsFiniteSet(Deliveries) /\ Drainer \notin Deliveries

ASSUME BoundsAssumption ==
  /\ Parts \in Nat \ {0}
  /\ RetryWindow \in Nat \ {0}
  /\ BaseDelay \in Nat /\ MaxDelay \in Nat
  /\ Retention \in Nat /\ Batch \in Nat

VARIABLES
  rows,             \* outbox_delivery, one row for each idempotency key
  jobs,             \* what each worker is doing between two awaits
  due,              \* rows the current drain has listed and not yet claimed
  sent,             \* how often each part of a delivery reached the chat
  clock,
  up,               \* the agent process runs
  calls,            \* deliver_* calls made for each key
  asked,            \* operator retries of each row (history)
  misjudged,        \* failures taken for "nothing was sent" though a part
                    \* of the payload had been posted (history)
  late,             \* attempts begun after the retry window since the last
                    \* operator retry (history)
  crashes, operatorActs, storeErrors

vars == <<rows, jobs, due, sent, clock, up, calls, asked, misjudged, late,
          crashes, operatorActs, storeErrors>>

history == <<asked, misjudged, late>>

\* A caller of deliver_* is named after the key it delivers: the pipelines
\* of one task run one after the other.
Workers == Deliveries \cup {Drainer}

NoDelivery == "none"

Sent == {"delivered", "failed", "uncertain"}

RowStates == Sent \cup {"absent", "pending", "sending", "cancelled", "purged"}

Rows == [state : RowStates, attempts : Nat, nextAt : Nat, created : Nat]

\* A worker claims, sends part by part, then records the outcome.
Jobs == [pc   : {"idle", "claim", "send", "settle"},
         d    : Deliveries \cup {NoDelivery},
         seen : Nat,                \* attempts of the row it has read
         part : 1..Parts,
         fate : {"none", "ok", "retry", "unsure"}]

Job(pc, d, seen, part, fate) ==
  [pc |-> pc, d |-> d, seen |-> seen, part |-> part, fate |-> fate]

Idle == Job("idle", NoDelivery, 0, 1, "none")

NextPart(job) == Job("send", job.d, job.seen, job.part + 1, "none")

Settling(job, fate) == Job("settle", job.d, job.seen, job.part, fate)

Row(state, attempts, nextAt, created) ==
  [state |-> state, attempts |-> attempts, nextAt |-> nextAt, created |-> created]

Absent == Row("absent", 0, 0, 0)

\* update outbox_delivery set state, attempts, next_attempt_at where id = ?
Updated(row, state, attempts, nextAt) == Row(state, attempts, nextAt, row.created)

\* There is a row that a statement "... where id = ?" reaches.
Stored(d) == rows[d].state \notin {"absent", "purged"}

\* 1 << min(attempts, 6)
Doubling == <<1, 2, 4, 8, 16, 32, 64>>

Lesser(a, b) == IF a <= b THEN a ELSE b

\* Seconds until a failed delivery is tried again.
Backoff(attempts) ==
  Lesser(BaseDelay * Doubling[Lesser(attempts, 6) + 1], MaxDelay)

PastWindow(d) == clock >= rows[d].created + RetryWindow

Expired(d) == Stored(d) /\ rows[d].created + Retention < clock

Init ==
  /\ rows = [d \in Deliveries |-> Absent]
  /\ jobs = [w \in Workers |-> Idle]
  /\ due  = <<>>
  /\ sent = [d \in Deliveries |-> [p \in 1..Parts |-> 0]]
  /\ clock = 0
  /\ up = TRUE
  /\ calls = [d \in Deliveries |-> 0]
  /\ asked = [d \in Deliveries |-> 0]
  /\ misjudged = [d \in Deliveries |-> 0]
  /\ late = [d \in Deliveries |-> 0]
  /\ crashes = 0
  /\ operatorActs = 0
  /\ storeErrors = 0

-----------------------------------------------------------------------------
(* The table's statements that a worker runs.                               *)

\* Fault: insert or replace.
InsertedAnew(d) == Row("pending", 0, clock, clock)

\* insert or ignore, then select by idempotency key
Inserted(d) ==
  IF rows[d].state = "absent" THEN Row("pending", 0, clock, clock) ELSE rows[d]

\* Faults: the claim does not look at the state, or lets a claimed row be
\* claimed again.
ClaimableIfStored(d) == Stored(d)

ClaimableUnsettled(d) == rows[d].state \in {"pending", "sending"}

\* update ... set state = 'sending' where id = ? and state = 'pending'
Claimable(d) == rows[d].state = "pending"

\* Fault: attempts counted in the wrong direction.
ClaimedBackwards(d, seen) == Updated(rows[d], "sending", seen - 1, clock)

Claimed(d, seen) == Updated(rows[d], "sending", seen + 1, clock)

\* A worker that won the claim of d starts to send it.
Sending(d, seen) == Job("send", d, seen, 1, "none")

CountLate(d) ==
  late' = [late EXCEPT ![d] = IF PastWindow(d) THEN @ + 1 ELSE @]

-----------------------------------------------------------------------------
(* deliver_text, deliver_image, deliver_file.                               *)

Enqueue(d) ==
  /\ up
  /\ jobs[d].pc = "idle"
  /\ calls[d] < MaxCalls /\ clock <= LastCall
  /\ rows[d].state # "purged"        \* no task outlives its own retention
  /\ rows' = [rows EXCEPT ![d] = Inserted(d)]
  /\ jobs' = [jobs EXCEPT ![d] = Job("claim", d, Inserted(d).attempts, 1, "none")]
  /\ calls' = [calls EXCEPT ![d] = @ + 1]
  /\ UNCHANGED <<due, sent, clock, up, history, crashes, operatorActs,
                 storeErrors>>

Claim(d) ==
  /\ jobs[d].pc = "claim"
  /\ IF Claimable(d)
       THEN /\ rows' = [rows EXCEPT ![d] = Claimed(d, jobs[d].seen)]
            /\ jobs' = [jobs EXCEPT ![d] = Sending(d, jobs[d].seen)]
            /\ CountLate(d)
       ELSE /\ jobs' = [jobs EXCEPT ![d] = Idle]   \* returns Ok without sending
            /\ UNCHANGED <<rows, late>>
  /\ UNCHANGED <<due, sent, clock, up, calls, asked, misjudged, crashes,
                 operatorActs, storeErrors>>

-----------------------------------------------------------------------------
(* outbox::drain, called once in every round of the main loop.              *)

\* Fault: only rows that were never tried are due.
DueUntried ==
  {d \in Deliveries : /\ rows[d].state = "pending" /\ rows[d].nextAt <= clock
                      /\ rows[d].attempts = 0}

DueRows == {d \in Deliveries : rows[d].state = "pending" /\ rows[d].nextAt <= clock}

\* The oldest Batch rows that are due, oldest first.
DueLists ==
  LET n == Lesser(Cardinality(DueRows), Batch)
  IN  {q \in [1..n -> DueRows] :
         /\ \A i, j \in 1..n : i < j => /\ q[i] # q[j]
                                       /\ rows[q[i]].created <= rows[q[j]].created
         /\ \A d \in DueRows : (\A i \in 1..n : q[i] # d) =>
              \A i \in 1..n : rows[q[i]].created <= rows[d].created}

MainLoopFree == up /\ jobs[Drainer].pc = "idle" /\ due = <<>>

DrainScan ==
  /\ MainLoopFree
  /\ DueRows # {}
  /\ \E q \in DueLists :
       due' = [i \in DOMAIN q |-> [d |-> q[i], seen |-> rows[q[i]].attempts]]
  /\ UNCHANGED <<rows, jobs, sent, clock, up, calls, history, crashes,
                 operatorActs, storeErrors>>

\* The row is claimed as it was listed: neither next_attempt_at nor attempts
\* is read again, and a row that is no longer pending is skipped.
DrainClaim ==
  /\ jobs[Drainer].pc = "idle" /\ due # <<>>
  /\ LET entry == Head(due)
     IN  IF Claimable(entry.d)
           THEN /\ rows' = [rows EXCEPT ![entry.d] = Claimed(entry.d, entry.seen)]
                /\ jobs' = [jobs EXCEPT ![Drainer] = Sending(entry.d, entry.seen)]
                /\ CountLate(entry.d)
           ELSE UNCHANGED <<rows, jobs, late>>
  /\ due' = Tail(due)
  /\ UNCHANGED <<sent, clock, up, calls, asked, misjudged, crashes,
                 operatorActs, storeErrors>>

-----------------------------------------------------------------------------
(* PlatformWorker::send_text and the reply of the platform.                 *)

Post(d, p) == [sent EXCEPT ![d] = [sent[d] EXCEPT ![p] = @ + 1]]

\* The platform acknowledges one part; after the last one the send is done.
SendPart(w) ==
  /\ jobs[w].pc = "send"
  /\ sent' = Post(jobs[w].d, jobs[w].part)
  /\ jobs' = [jobs EXCEPT ![w] =
                IF @.part = Parts THEN Settling(@, "ok") ELSE NextPart(@)]
  /\ UNCHANGED <<rows, due, clock, up, calls, history, crashes, operatorActs,
                 storeErrors>>

\* The send fails at a part, which may have been posted all the same: a
\* missing acknowledgement, a connection closed after the command was
\* written, a sidecar that gave up after its second try.  The text of the
\* error decides whether the outbox may try again (may_have_reached_platform).
SendFails(w, posted, unsure) ==
  /\ jobs[w].pc = "send"
  /\ LET d == jobs[w].d
     IN  /\ sent' = IF posted THEN Post(d, jobs[w].part) ELSE sent
         /\ misjudged' = [misjudged EXCEPT ![d] =
              IF ~unsure /\ (posted \/ jobs[w].part > 1) THEN @ + 1 ELSE @]
  /\ jobs' = [jobs EXCEPT ![w] =
                Settling(@, IF unsure THEN "unsure" ELSE "retry")]
  /\ UNCHANGED <<rows, due, clock, up, calls, asked, late, crashes,
                 operatorActs, storeErrors>>

-----------------------------------------------------------------------------
(* update_delivery after a send: Delivered, or schedule_failure.            *)

\* Fault: schedule_failure without the retry window.
OutcomeWithoutWindow(w) ==
  LET d == jobs[w].d
      n == jobs[w].seen + 1
  IN  CASE jobs[w].fate = "ok"     -> Updated(rows[d], "delivered", n, clock)
        [] jobs[w].fate = "unsure" -> Updated(rows[d], "uncertain", n, clock)
        [] OTHER -> Updated(rows[d], "pending", n, clock + Backoff(jobs[w].seen))

Outcome(w) ==
  LET d == jobs[w].d
      n == jobs[w].seen + 1
  IN  CASE jobs[w].fate = "ok" ->
             Updated(rows[d], "delivered", IF w = Drainer THEN n ELSE 1, clock)
        [] jobs[w].fate = "unsure" ->
             Updated(rows[d], "uncertain", n, clock)
        [] jobs[w].fate = "retry" /\ PastWindow(d) ->
             Updated(rows[d], "failed", n, clock)
        [] OTHER ->
             Updated(rows[d], "pending", n, clock + Backoff(jobs[w].seen))

\* The update is unconditional: whatever the row has become meanwhile.
Settle(w) ==
  /\ jobs[w].pc = "settle"
  /\ rows' = IF Stored(jobs[w].d) THEN [rows EXCEPT ![jobs[w].d] = Outcome(w)]
                                  ELSE rows
  /\ jobs' = [jobs EXCEPT ![w] = Idle]
  /\ UNCHANGED <<due, sent, clock, up, calls, history, crashes, operatorActs,
                 storeErrors>>

\* The claim or the update fails in SQLite: the worker returns the error and
\* leaves the row as it is; drain gives up the rest of its list.
StoreFails(w) ==
  /\ storeErrors < MaxStoreErrors
  /\ \/ jobs[w].pc \in {"claim", "settle"}
     \/ w = Drainer /\ jobs[w].pc = "idle" /\ due # <<>>
  /\ jobs' = [jobs EXCEPT ![w] = Idle]
  /\ due' = IF w = Drainer THEN <<>> ELSE due
  /\ storeErrors' = storeErrors + 1
  /\ UNCHANGED <<rows, sent, clock, up, calls, history, crashes, operatorActs>>

-----------------------------------------------------------------------------
(* The control process, on the same database.                               *)

OperatorRetry(d) ==
  /\ operatorActs < MaxOperatorActs
  /\ Stored(d)
  /\ rows' = [rows EXCEPT ![d] = Updated(@, "pending", 0, clock)]
  /\ asked' = [asked EXCEPT ![d] = @ + 1]
  /\ late' = [late EXCEPT ![d] = 0]
  /\ operatorActs' = operatorActs + 1
  /\ UNCHANGED <<jobs, due, sent, clock, up, calls, misjudged, crashes,
                 storeErrors>>

OperatorCancel(d) ==
  /\ operatorActs < MaxOperatorActs
  /\ Stored(d)
  /\ rows' = [rows EXCEPT ![d] = Updated(@, "cancelled", 0, clock)]
  /\ operatorActs' = operatorActs + 1
  /\ UNCHANGED <<jobs, due, sent, clock, up, calls, history, crashes,
                 storeErrors>>

-----------------------------------------------------------------------------
(* Clean-up, crash and restart.                                             *)

Purged(row) == Updated(row, "purged", row.attempts, row.nextAt)

\* cleanup_operational_data, every six hours in the main loop
Cleanup ==
  /\ MainLoopFree
  /\ \E d \in Deliveries : Expired(d)
  /\ rows' = [d \in Deliveries |-> IF Expired(d) THEN Purged(rows[d]) ELSE rows[d]]
  /\ UNCHANGED <<jobs, due, sent, clock, up, calls, history, crashes,
                 operatorActs, storeErrors>>

\* The command a worker had written when the process died may still have
\* been carried out.
CarriedOut(W, w, d, p) ==
  IF w \in W /\ jobs[w].pc = "send" /\ jobs[w].d = d /\ jobs[w].part = p
    THEN 1 ELSE 0

Crash ==
  /\ up /\ crashes < MaxCrashes
  /\ up' = FALSE
  /\ \E W \in SUBSET {w \in Workers : jobs[w].pc = "send"} :
       sent' = [d \in Deliveries |-> [p \in 1..Parts |->
                 sent[d][p] + CarriedOut(W, d, d, p) + CarriedOut(W, Drainer, d, p)]]
  /\ jobs' = [w \in Workers |-> Idle]
  /\ due' = <<>>
  /\ crashes' = crashes + 1
  /\ UNCHANGED <<rows, clock, calls, history, operatorActs, storeErrors>>

\* Faults: recovery puts interrupted rows back in the queue, or forgets them.
RecoveredForDrain(d) ==
  IF rows[d].state = "sending" THEN Updated(rows[d], "pending", 0, clock)
                               ELSE rows[d]

RecoveredByCleanupOnly(d) == IF Expired(d) THEN Purged(rows[d]) ELSE rows[d]

\* run_agent before its loop: clean-up, then recover_interrupted_deliveries
Recovered(d) ==
  IF Expired(d) THEN Purged(rows[d])
  ELSE IF rows[d].state = "sending" 
    THEN Updated(rows[d], "uncertain", rows[d].attempts, rows[d].nextAt)
  ELSE rows[d]

Restart ==
  /\ ~up
  /\ up' = TRUE
  /\ rows' = [d \in Deliveries |-> Recovered(d)]
  /\ UNCHANGED <<jobs, due, sent, clock, calls, history, crashes, operatorActs,
                 storeErrors>>

Tick ==
  /\ clock < MaxTime
  /\ clock' = clock + 1
  /\ UNCHANGED <<rows, jobs, due, sent, up, calls, history, crashes,
                 operatorActs, storeErrors>>

-----------------------------------------------------------------------------
SendEnds(w) ==
  SendPart(w) \/ \E posted, unsure \in BOOLEAN : SendFails(w, posted, unsure)

Next ==
  \/ \E d \in Deliveries : Enqueue(d)
  \/ \E d \in Deliveries : Claim(d)
  \/ DrainScan
  \/ DrainClaim
  \/ \E w \in Workers : SendPart(w)
  \/ \E w \in Workers, posted, unsure \in BOOLEAN : SendFails(w, posted, unsure)
  \/ \E w \in Workers : Settle(w)
  \/ \E w \in Workers : StoreFails(w)
  \/ \E d \in Deliveries : OperatorRetry(d)
  \/ \E d \in Deliveries : OperatorCancel(d)
  \/ Cleanup
  \/ Crash
  \/ Restart
  \/ Tick

\* A running agent keeps looping, a send ends (it has a timeout) and time
\* passes.  Nothing forces a call, a crash, a restart or an operator.
Fairness ==
  /\ WF_vars(DrainScan)
  /\ WF_vars(DrainClaim)
  /\ WF_vars(Tick)
  /\ \A d \in Deliveries : WF_vars(Claim(d))
  /\ \A w \in Workers : WF_vars(SendEnds(w)) /\ WF_vars(Settle(w))

Spec == Init /\ [][Next]_vars

FairSpec == Spec /\ Fairness

-----------------------------------------------------------------------------
(* Properties.                                                              *)

TypeOK ==
  /\ rows \in [Deliveries -> Rows]
  /\ jobs \in [Workers -> Jobs]
  /\ due \in Seq([d : Deliveries, seen : Nat])
  /\ sent \in [Deliveries -> [1..Parts -> Nat]]
  /\ clock \in Nat
  /\ up \in BOOLEAN
  /\ calls \in [Deliveries -> Nat]
  /\ asked \in [Deliveries -> Nat]
  /\ misjudged \in [Deliveries -> Nat]
  /\ late \in [Deliveries -> Nat]
  /\ crashes \in Nat
  /\ operatorActs \in Nat
  /\ storeErrors \in Nat

\* w has claimed d and has not recorded an outcome yet.
Active(w, d) == jobs[w].d = d /\ jobs[w].pc \in {"send", "settle"}

\* What d may be posted: once, and once more for each operator retry and for
\* each failure that hid a posting.
Licence(d) == 1 + asked[d] + misjudged[d]

\* No crash, restart, race between a caller and the drain, or repeated call
\* posts a part of a payload a second time: only an operator, or a failure
\* whose text does not say that the message may have arrived, can.
AtMostOncePerLicence ==
  \A d \in Deliveries : \A p \in 1..Parts : sent[d][p] <= Licence(d)

\* Without an operator retry one worker at most is sending a row, and the row
\* then is 'sending' (or was cancelled or deleted under the worker).
OneSender ==
  \A d \in Deliveries : asked[d] = 0 =>
    /\ ~(Active(d, d) /\ Active(Drainer, d))
    /\ \A w \in {d, Drainer} :
         Active(w, d) => rows[d].state \in {"sending", "cancelled", "purged"}

\* In a running agent whose statements succeed a 'sending' row has a sender,
\* so no row is left in a state that nothing ever changes.
SendingIsHeld ==
  up /\ storeErrors = 0 =>
    \A d \in Deliveries :
      rows[d].state = "sending" => Active(d, d) \/ Active(Drainer, d)

\* After the retry window a row gets one attempt, not one for each drain.
BoundedRetryWindow == \A d \in Deliveries : late[d] <= 1

\* What was delivered, given up, found uncertain or cancelled is not touched
\* again, unless the operator retries it or the clean-up deletes it.  A
\* cancellation holds only if no send of the row is in flight.
SettledStaysSettled ==
  [][\A d \in Deliveries :
       /\ rows[d].state \in Sent \cup {"cancelled"}
       /\ asked'[d] = 0
       /\ rows[d].state = "cancelled" => ~Active(d, d) /\ ~Active(Drainer, d)
       => rows'[d].state \in {rows[d].state, "cancelled", "purged"}]_vars

\* A row that waits for the drain does not wait for ever.
PendingSettles ==
  \A d \in Deliveries :
    rows[d].state = "pending" ~>
      \/ rows[d].state \in Sent \cup {"cancelled", "purged"}
      \/ ~up
      \/ storeErrors > 0

\* The outbox keeps the promise of the abstract specification.
Promise == INSTANCE PostingLicence
             WITH posted  <- sent,
                  licence <- [d \in Deliveries |-> Licence(d)]

KeepsPromise == Promise!Spec
=============================================================================
