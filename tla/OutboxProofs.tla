-------------------------- MODULE OutboxProofs --------------------------
(***************************************************************************)
(* Proofs about Outbox, for any set of deliveries, any number of parts and *)
(* any value of the bounds.                                                *)
(***************************************************************************)
EXTENDS Outbox, FiniteSetTheorems, SequenceTheorems, TLAPS

-----------------------------------------------------------------------------
(* The inductive invariant.                                                 *)

\* A busy worker works on a delivery, a caller on its own; an outcome is known
\* before it is recorded; nothing works while the process is down.
JobsOK ==
  /\ \A w \in Workers : jobs[w].pc # "idle" => jobs[w].d \in Deliveries
  /\ \A d \in Deliveries : jobs[d].pc # "idle" => jobs[d].d = d
  /\ jobs[Drainer].pc # "claim"
  /\ \A w \in Workers :
       jobs[w].pc = "settle" => jobs[w].fate \in {"ok", "retry", "unsure"}
  /\ ~up => due = <<>> /\ \A w \in Workers : jobs[w].pc = "idle"

\* A claim of d would still succeed, now or once d has been enqueued.
Open(d) == rows[d].state \in {"absent", "pending"}

\* w will post part p of d, or will make d claimable again.
Carries(w, d, p) ==
  /\ jobs[w].d = d
  /\ \/ jobs[w].pc = "send" /\ jobs[w].part <= p
     \/ jobs[w].pc = "settle" /\ jobs[w].fate = "retry"

\* Postings of p that an open row, and that a worker, may still bring.
Opening(d) == IF Open(d) THEN 1 ELSE 0

Carried(w, d, p) == IF Carries(w, d, p) THEN 1 ELSE 0

\* Part p of d was posted, or may yet be posted, at most this often without
\* anybody granting a further posting.
Credit(d, p) ==
  sent[d][p] + Opening(d) + Carried(d, d, p) + Carried(Drainer, d, p)

CreditWithinLicence ==
  \A d \in Deliveries : \A p \in 1..Parts : Credit(d, p) <= Licence(d)

\* A claim begun after the retry window is the last one of the row.
LateIsLast ==
  \A d \in Deliveries :
    /\ late[d] <= 1
    /\ late[d] = 1 => PastWindow(d) /\ rows[d].state \notin {"absent", "pending"}

IInv == TypeOK /\ JobsOK /\ CreditWithinLicence /\ OneSender /\ LateIsLast

-----------------------------------------------------------------------------
(* Type correctness.                                                        *)

\* The delay of schedule_failure is a natural number for every attempt count.
LEMMA BackoffType == ASSUME NEW n \in Nat PROVE Backoff(n) \in Nat
<1>1. Lesser(n, 6) + 1 \in 1..7
  BY DEF Lesser
<1>2. \A i \in 1..7 : Doubling[i] \in Nat
  BY DEF Doubling
<1>3. BaseDelay * Doubling[Lesser(n, 6) + 1] \in Nat
  BY <1>1, <1>2, BoundsAssumption
<1> QED BY <1>3, BoundsAssumption DEF Backoff, Lesser

LEMMA RowType ==
  ASSUME NEW state \in RowStates, NEW attempts \in Nat, NEW nextAt \in Nat,
         NEW created \in Nat
  PROVE  Row(state, attempts, nextAt, created) \in Rows
BY DEF Row, Rows

LEMMA RowFields ==
  ASSUME NEW row \in Rows
  PROVE  /\ row.state \in RowStates /\ row.attempts \in Nat
         /\ row.nextAt \in Nat /\ row.created \in Nat
BY DEF Rows

LEMMA StateNames ==
  /\ "pending" \in RowStates /\ "sending" \in RowStates
  /\ "delivered" \in RowStates /\ "failed" \in RowStates
  /\ "uncertain" \in RowStates /\ "cancelled" \in RowStates
  /\ "purged" \in RowStates
BY DEF RowStates, Sent

LEMMA JobType ==
  ASSUME NEW pc \in {"idle", "claim", "send", "settle"},
         NEW d \in Deliveries \cup {NoDelivery}, NEW seen \in Nat,
         NEW part \in 1..Parts, NEW fate \in {"none", "ok", "retry", "unsure"}
  PROVE  Job(pc, d, seen, part, fate) \in Jobs
BY DEF Job, Jobs

LEMMA JobFields ==
  ASSUME NEW job \in Jobs
  PROVE  /\ job.pc \in {"idle", "claim", "send", "settle"}
         /\ job.d \in Deliveries \cup {NoDelivery} /\ job.seen \in Nat
         /\ job.part \in 1..Parts
         /\ job.fate \in {"none", "ok", "retry", "unsure"}
BY DEF Jobs

LEMMA FirstPart == 1 \in 1..Parts
BY BoundsAssumption

LEMMA IdleType == Idle \in Jobs
BY JobType, FirstPart DEF Idle

LEMMA UpdatedType ==
  ASSUME NEW row \in Rows, NEW state \in RowStates, NEW attempts \in Nat,
         NEW nextAt \in Nat
  PROVE  Updated(row, state, attempts, nextAt) \in Rows
BY RowType, RowFields DEF Updated

LEMMA UpdateTypes ==
  ASSUME TypeOK, NEW d \in Deliveries, NEW n \in Nat
  PROVE  /\ Inserted(d) \in Rows
         /\ Claimed(d, n) \in Rows
         /\ Purged(rows[d]) \in Rows
         /\ Recovered(d) \in Rows
         /\ Updated(rows[d], "pending", 0, clock) \in Rows
         /\ Updated(rows[d], "cancelled", 0, clock) \in Rows
<1>1. rows[d] \in Rows /\ clock \in Nat
  BY DEF TypeOK
<1>2. Inserted(d) \in Rows
  BY <1>1, RowType, StateNames DEF Inserted
<1>3. Claimed(d, n) \in Rows
  BY <1>1, UpdatedType, StateNames DEF Claimed
<1>4. Purged(rows[d]) \in Rows
  BY <1>1, UpdatedType, StateNames, RowFields DEF Purged
<1>5. Recovered(d) \in Rows
  BY <1>1, <1>4, UpdatedType, StateNames, RowFields DEF Recovered
<1> QED BY <1>1, <1>2, <1>3, <1>4, <1>5, UpdatedType, StateNames

LEMMA OutcomeType ==
  ASSUME TypeOK, JobsOK, NEW w \in Workers, jobs[w].pc = "settle"
  PROVE  Outcome(w) \in Rows
<1>1. jobs[w].d \in Deliveries
  BY DEF JobsOK
<1>2. rows[jobs[w].d] \in Rows /\ clock \in Nat
  BY <1>1 DEF TypeOK
<1>3. jobs[w].seen \in Nat
  BY JobFields DEF TypeOK
<1>4. clock + Backoff(jobs[w].seen) \in Nat
  BY <1>2, <1>3, BackoffType
<1>5. (IF w = Drainer THEN jobs[w].seen + 1 ELSE 1) \in Nat
  BY <1>3
<1>6. \A state \in {"delivered", "uncertain", "failed"} : \A n \in Nat :
        Updated(rows[jobs[w].d], state, n, clock) \in Rows
  BY <1>2, UpdatedType, StateNames
<1>7. jobs[w].seen + 1 \in Nat
  BY <1>3
<1>8. Updated(rows[jobs[w].d], "pending", jobs[w].seen + 1,
              clock + Backoff(jobs[w].seen)) \in Rows
  BY <1>2, <1>4, <1>7, UpdatedType, StateNames
<1>9. /\ Updated(rows[jobs[w].d], "delivered",
                 IF w = Drainer THEN jobs[w].seen + 1 ELSE 1, clock) \in Rows
      /\ Updated(rows[jobs[w].d], "uncertain", jobs[w].seen + 1, clock) \in Rows
      /\ Updated(rows[jobs[w].d], "failed", jobs[w].seen + 1, clock) \in Rows
  BY <1>5, <1>6, <1>7, Zenon
<1> QED BY <1>8, <1>9, Zenon DEF Outcome

LEMMA PostType ==
  ASSUME sent \in [Deliveries -> [1..Parts -> Nat]],
         NEW d \in Deliveries, NEW p \in 1..Parts
  PROVE  Post(d, p) \in [Deliveries -> [1..Parts -> Nat]]
<1>1. sent[d] \in [1..Parts -> Nat] /\ sent[d][p] \in Nat
  OBVIOUS
<1>2. [sent[d] EXCEPT ![p] = sent[d][p] + 1] \in [1..Parts -> Nat]
  BY <1>1
<1>3. \A g \in [1..Parts -> Nat] :
        [sent EXCEPT ![d] = g] \in [Deliveries -> [1..Parts -> Nat]]
  OBVIOUS
<1>4. Post(d, p) = [sent EXCEPT ![d] = [sent[d] EXCEPT ![p] = sent[d][p] + 1]]
  BY DEF Post
<1> QED BY <1>2, <1>3, <1>4

\* What the parts of the current send become.
LEMMA SendTypes ==
  ASSUME TypeOK, JobsOK, NEW w \in Workers, jobs[w].pc = "send"
  PROVE  /\ jobs[w].d \in Deliveries
         /\ jobs[w].part \in 1..Parts
         /\ Post(jobs[w].d, jobs[w].part) \in [Deliveries -> [1..Parts -> Nat]]
         /\ \A fate \in {"ok", "retry", "unsure"} : Settling(jobs[w], fate) \in Jobs
         /\ jobs[w].part # Parts => NextPart(jobs[w]) \in Jobs
<1>1. jobs[w].d \in Deliveries
  BY DEF JobsOK
<1>2. jobs[w] \in Jobs
  BY DEF TypeOK
<1>3. jobs[w].part \in 1..Parts /\ jobs[w].seen \in Nat
  BY <1>2, JobFields
<1>4. Post(jobs[w].d, jobs[w].part) \in [Deliveries -> [1..Parts -> Nat]]
  BY <1>1, <1>3, PostType DEF TypeOK
<1>5. \A fate \in {"ok", "retry", "unsure"} : Settling(jobs[w], fate) \in Jobs
  BY <1>1, <1>3, JobType DEF Settling
<1>6. jobs[w].part # Parts => jobs[w].part + 1 \in 1..Parts
  BY <1>3, BoundsAssumption
<1>7. jobs[w].part # Parts => NextPart(jobs[w]) \in Jobs
  BY <1>1, <1>3, <1>6, JobType DEF NextPart
<1> QED BY <1>1, <1>3, <1>4, <1>5, <1>7

LEMMA SendingType ==
  ASSUME NEW d \in Deliveries, NEW n \in Nat
  PROVE  Sending(d, n) \in Jobs
BY FirstPart, JobType DEF Sending

LEMMA CountLateType ==
  ASSUME TypeOK, NEW d \in Deliveries, CountLate(d)
  PROVE  late' \in [Deliveries -> Nat]
<1>1. CASE PastWindow(d)
  BY <1>1 DEF CountLate, TypeOK
<1>2. CASE ~PastWindow(d)
  BY <1>2 DEF CountLate, TypeOK
<1> QED BY <1>1, <1>2

LEMMA EntryType ==
  ASSUME TypeOK, due # <<>>
  PROVE  /\ Head(due).d \in Deliveries
         /\ Head(due).seen \in Nat
         /\ Tail(due) \in Seq([d : Deliveries, seen : Nat])
<1>1. /\ Head(due) \in [d : Deliveries, seen : Nat]
      /\ Tail(due) \in Seq([d : Deliveries, seen : Nat])
  BY HeadTailProperties DEF TypeOK
<1> QED BY <1>1

\* Every assignment of the table, of the workers and of the history keeps its
\* type.
LEMMA TypeStep == TypeOK /\ JobsOK /\ [Next]_vars => TypeOK'
<1> SUFFICES ASSUME TypeOK, JobsOK, [Next]_vars PROVE TypeOK'
  OBVIOUS
<1> USE DEF Workers, history
<1>1. ASSUME NEW d \in Deliveries, Enqueue(d) PROVE TypeOK'
  <2>1. Job("claim", d, Inserted(d).attempts, 1, "none") \in Jobs
    BY UpdateTypes, RowFields, JobType, FirstPart DEF TypeOK
  <2>2. rows' \in [Deliveries -> Rows]
    BY <1>1, UpdateTypes DEF Enqueue, TypeOK
  <2>3. jobs' \in [Workers -> Jobs]
    BY <1>1, <2>1 DEF Enqueue, TypeOK
  <2>4. calls' \in [Deliveries -> Nat]
    BY <1>1 DEF Enqueue, TypeOK
  <2> QED BY <1>1, <2>2, <2>3, <2>4 DEF Enqueue, TypeOK
<1>2. ASSUME NEW d \in Deliveries, Claim(d) PROVE TypeOK'
  <2>1. jobs[d].seen \in Nat
    BY JobFields DEF TypeOK
  <2>2. Claimed(d, jobs[d].seen) \in Rows /\ Sending(d, jobs[d].seen) \in Jobs
    BY <2>1, UpdateTypes, SendingType
  <2>3. rows' \in [Deliveries -> Rows]
    BY <1>2, <2>2 DEF Claim, TypeOK
  <2>4. jobs' \in [Workers -> Jobs]
    BY <1>2, <2>2, IdleType DEF Claim, TypeOK
  <2>5. late' \in [Deliveries -> Nat]
    BY <1>2, CountLateType DEF Claim, TypeOK
  <2> QED BY <1>2, <2>3, <2>4, <2>5 DEF Claim, TypeOK
<1>3. CASE DrainScan
  <2>1. due' \in Seq([d : Deliveries, seen : Nat])
    <3>1. PICK q \in DueLists :
            due' = [i \in DOMAIN q |-> [d |-> q[i], seen |-> rows[q[i]].attempts]]
      BY <1>3 DEF DrainScan
    <3>2. PICK n \in Nat : q \in [1..n -> Deliveries]
      <4>1. DueRows \subseteq Deliveries /\ IsFiniteSet(DueRows)
        BY DeliveriesAssumption, FS_Subset DEF DueRows
      <4>2. Lesser(Cardinality(DueRows), Batch) \in Nat
        BY <4>1, FS_CardinalityType, BoundsAssumption DEF Lesser
      <4> QED BY <3>1, <4>1, <4>2 DEF DueLists
    <3>3. \A i \in 1..n : [d |-> q[i], seen |-> rows[q[i]].attempts]
                              \in [d : Deliveries, seen : Nat]
      BY <3>2, RowFields DEF TypeOK
    <3> QED BY <3>1, <3>2, <3>3
  <2> QED BY <1>3, <2>1 DEF DrainScan, TypeOK
<1>4. CASE DrainClaim
  <2> DEFINE entry == Head(due)
  <2>1. due' \in Seq([d : Deliveries, seen : Nat])
    BY <1>4, EntryType DEF DrainClaim
  <2>2. entry.d \in Deliveries /\ entry.seen \in Nat
    BY <1>4, EntryType DEF DrainClaim
  <2>3. /\ Claimed(entry.d, entry.seen) \in Rows
        /\ Sending(entry.d, entry.seen) \in Jobs
    BY <2>2, UpdateTypes, SendingType
  <2>4. rows' \in [Deliveries -> Rows]
    BY <1>4, <2>3 DEF DrainClaim, TypeOK
  <2>5. jobs' \in [Workers -> Jobs]
    BY <1>4, <2>3 DEF DrainClaim, TypeOK
  <2>6. late' \in [Deliveries -> Nat]
    BY <1>4, <2>2, CountLateType DEF DrainClaim, TypeOK
  <2> QED BY <1>4, <2>1, <2>4, <2>5, <2>6 DEF DrainClaim, TypeOK
<1>5. ASSUME NEW w \in Workers, SendPart(w) PROVE TypeOK'
  <2>1. sent' \in [Deliveries -> [1..Parts -> Nat]]
    BY <1>5, SendTypes DEF SendPart
  <2>2. jobs' \in [Workers -> Jobs]
    BY <1>5, SendTypes DEF SendPart, TypeOK
  <2> QED BY <1>5, <2>1, <2>2 DEF SendPart, TypeOK
<1>6. ASSUME NEW w \in Workers, NEW posted \in BOOLEAN, NEW unsure \in BOOLEAN,
             SendFails(w, posted, unsure)
      PROVE  TypeOK'
  <2>1. sent' \in [Deliveries -> [1..Parts -> Nat]]
    BY <1>6, SendTypes DEF SendFails, TypeOK
  <2>2. jobs' \in [Workers -> Jobs]
    BY <1>6, SendTypes DEF SendFails, TypeOK
  <2>3. misjudged' \in [Deliveries -> Nat]
    <3>1. PICK bump \in {0, 1} :
            misjudged' = [misjudged EXCEPT ![jobs[w].d] = @ + bump]
      <4>1. CASE ~unsure /\ (posted \/ jobs[w].part > 1)
        BY <1>6, <4>1 DEF SendFails
      <4>2. CASE ~(~unsure /\ (posted \/ jobs[w].part > 1))
        <5>1. misjudged' = misjudged
          BY <1>6, <4>2 DEF SendFails, TypeOK
        <5>2. \A d \in Deliveries : misjudged[d] + 0 = misjudged[d]
          BY DEF TypeOK
        <5> QED BY <5>1, <5>2 DEF TypeOK
      <4> QED BY <4>1, <4>2
    <3>2. jobs[w].d \in Deliveries
      BY <1>6, SendTypes DEF SendFails
    <3>3. misjudged[jobs[w].d] + bump \in Nat
      BY <3>2 DEF TypeOK
    <3> QED BY <3>1, <3>3 DEF TypeOK
  <2> QED BY <1>6, <2>1, <2>2, <2>3 DEF SendFails, TypeOK
<1>7. ASSUME NEW w \in Workers, Settle(w) PROVE TypeOK'
  <2>1. rows' \in [Deliveries -> Rows]
    BY <1>7, OutcomeType DEF Settle, TypeOK
  <2>2. jobs' \in [Workers -> Jobs]
    BY <1>7, IdleType DEF Settle, TypeOK
  <2> QED BY <1>7, <2>1, <2>2 DEF Settle, TypeOK
<1>8. ASSUME NEW w \in Workers, StoreFails(w) PROVE TypeOK'
  <2>1. jobs' \in [Workers -> Jobs]
    BY <1>8, IdleType DEF StoreFails, TypeOK
  <2>2. due' \in Seq([d : Deliveries, seen : Nat])
    BY <1>8 DEF StoreFails, TypeOK
  <2> QED BY <1>8, <2>1, <2>2 DEF StoreFails, TypeOK
<1>9. ASSUME NEW d \in Deliveries, OperatorRetry(d) PROVE TypeOK'
  <2>1. rows' \in [Deliveries -> Rows]
    BY <1>9, UpdateTypes DEF OperatorRetry, TypeOK
  <2>2. asked' \in [Deliveries -> Nat] /\ late' \in [Deliveries -> Nat]
    BY <1>9 DEF OperatorRetry, TypeOK
  <2>3. operatorActs' \in Nat
    BY <1>9 DEF OperatorRetry, TypeOK
  <2> QED BY <1>9, <2>1, <2>2, <2>3 DEF OperatorRetry, TypeOK
<1>10. ASSUME NEW d \in Deliveries, OperatorCancel(d) PROVE TypeOK'
  <2>1. rows' \in [Deliveries -> Rows]
    BY <1>10, UpdateTypes DEF OperatorCancel, TypeOK
  <2> QED BY <1>10, <2>1 DEF OperatorCancel, TypeOK
<1>11. CASE Cleanup
  <2>1. rows' \in [Deliveries -> Rows]
    BY <1>11, UpdateTypes DEF Cleanup, TypeOK
  <2> QED BY <1>11, <2>1 DEF Cleanup, TypeOK
<1>12. CASE Crash
  <2>1. sent' \in [Deliveries -> [1..Parts -> Nat]]
    <3>1. PICK W : sent' = [d \in Deliveries |-> [p \in 1..Parts |->
            sent[d][p] + CarriedOut(W, d, d, p) + CarriedOut(W, Drainer, d, p)]]
      BY <1>12 DEF Crash
    <3>2. \A w, d, p : CarriedOut(W, w, d, p) \in Nat
      BY DEF CarriedOut
    <3>3. \A d \in Deliveries : \A p \in 1..Parts : sent[d][p] \in Nat
      BY DEF TypeOK
    <3>4. \A i, j, k \in Nat : i + j + k \in Nat
      OBVIOUS
    <3>5. \A d \in Deliveries : \A p \in 1..Parts :
            sent[d][p] + CarriedOut(W, d, d, p) + CarriedOut(W, Drainer, d, p) \in Nat
      BY <3>2, <3>3, <3>4, Zenon
    <3> QED BY <3>1, <3>5
  <2>2. jobs' \in [Workers -> Jobs]
    BY <1>12, IdleType DEF Crash
  <2>3. due' \in Seq([d : Deliveries, seen : Nat])
    <3>1. due' = <<>>
      BY <1>12 DEF Crash
    <3>2. <<>> \in Seq([d : Deliveries, seen : Nat])
      BY EmptySeq
    <3> QED BY <3>1, <3>2
  <2>4. crashes' = crashes + 1 /\ up' = FALSE
    BY <1>12 DEF Crash
  <2>5. crashes' \in Nat
    BY <2>4 DEF TypeOK
  <2>6. up' \in BOOLEAN
    BY <2>4, Zenon
  <2> QED BY <1>12, <2>1, <2>2, <2>3, <2>5, <2>6 DEF Crash, TypeOK
<1>13. CASE Restart
  <2>1. rows' \in [Deliveries -> Rows]
    BY <1>13, UpdateTypes DEF Restart
  <2> QED BY <1>13, <2>1 DEF Restart, TypeOK
<1>14. CASE Tick
  BY <1>14 DEF Tick, TypeOK
<1>15. CASE UNCHANGED vars
  BY <1>15 DEF vars, TypeOK
<1> QED
  BY <1>1, <1>2, <1>3, <1>4, <1>5, <1>6, <1>7, <1>8, <1>9, <1>10, <1>11, <1>12,
     <1>13, <1>14, <1>15 DEF Next

-----------------------------------------------------------------------------
(* What the workers do.                                                     *)

LEMMA JobNames ==
  ASSUME NEW pc, NEW d, NEW seen, NEW part, NEW fate
  PROVE  /\ Job(pc, d, seen, part, fate).pc = pc
         /\ Job(pc, d, seen, part, fate).d = d
         /\ Job(pc, d, seen, part, fate).part = part
         /\ Job(pc, d, seen, part, fate).fate = fate
BY DEF Job

LEMMA RowNames ==
  ASSUME NEW state, NEW attempts, NEW nextAt, NEW created
  PROVE  /\ Row(state, attempts, nextAt, created).state = state
         /\ Row(state, attempts, nextAt, created).created = created
BY DEF Row

\* A busy worker other than the drain is the caller that delivers its own key.
LEMMA WorkerOf ==
  ASSUME JobsOK, NEW w \in Workers, jobs[w].pc # "idle"
  PROVE  /\ jobs[w].d \in Deliveries
         /\ w = jobs[w].d \/ w = Drainer
BY DEF JobsOK, Workers

LEMMA JobsStep == TypeOK /\ JobsOK /\ [Next]_vars => JobsOK'
<1> SUFFICES ASSUME TypeOK, JobsOK, [Next]_vars PROVE JobsOK'
  OBVIOUS
<1>a. jobs \in [Workers -> Jobs] /\ DOMAIN jobs = Workers
  BY DEF TypeOK
<1>b. Drainer \notin Deliveries
  BY DeliveriesAssumption
<1>1. ASSUME NEW d \in Deliveries, Enqueue(d) PROVE JobsOK'
  BY <1>1, <1>a, <1>b, JobNames DEF Enqueue, JobsOK, Workers
<1>2. ASSUME NEW d \in Deliveries, Claim(d) PROVE JobsOK'
  BY <1>2, <1>a, <1>b, JobNames DEF Claim, JobsOK, Workers, Sending, Idle
<1>3. CASE DrainScan
  BY <1>3 DEF DrainScan, JobsOK, MainLoopFree
<1>4. CASE DrainClaim
  <2>1. Head(due).d \in Deliveries
    BY <1>4, EntryType DEF DrainClaim
  <2> QED BY <1>4, <1>a, <1>b, <2>1, JobNames DEF DrainClaim, JobsOK, Workers, Sending
<1>5. ASSUME NEW w \in Workers, SendPart(w) PROVE JobsOK'
  BY <1>5, <1>a, <1>b, WorkerOf, JobNames
     DEF SendPart, JobsOK, Settling, NextPart, Workers
<1>6. ASSUME NEW w \in Workers, NEW posted \in BOOLEAN, NEW unsure \in BOOLEAN,
             SendFails(w, posted, unsure)
      PROVE  JobsOK'
  BY <1>6, <1>a, <1>b, WorkerOf, JobNames DEF SendFails, JobsOK, Settling, Workers
<1>7. ASSUME NEW w \in Workers, Settle(w) PROVE JobsOK'
  BY <1>7, <1>a, <1>b, JobNames DEF Settle, JobsOK, Idle, Workers
<1>8. ASSUME NEW w \in Workers, StoreFails(w) PROVE JobsOK'
  BY <1>8, <1>a, <1>b, JobNames DEF StoreFails, JobsOK, Idle, Workers
<1>9. ASSUME NEW d \in Deliveries, OperatorRetry(d) PROVE JobsOK'
  BY <1>9 DEF OperatorRetry, JobsOK
<1>10. ASSUME NEW d \in Deliveries, OperatorCancel(d) PROVE JobsOK'
  BY <1>10 DEF OperatorCancel, JobsOK, history
<1>11. CASE Cleanup
  BY <1>11 DEF Cleanup, JobsOK
<1>12. CASE Crash
  <2>1. jobs' = [w \in Workers |-> Idle] /\ due' = <<>>
    BY <1>12 DEF Crash
  <2> QED BY <2>1, JobNames DEF JobsOK, Idle, Workers
<1>13. CASE Restart
  BY <1>13 DEF Restart, JobsOK
<1>14. CASE Tick
  BY <1>14 DEF Tick, JobsOK
<1>15. CASE UNCHANGED vars
  BY <1>15 DEF vars, JobsOK
<1> QED
  BY <1>1, <1>2, <1>3, <1>4, <1>5, <1>6, <1>7, <1>8, <1>9, <1>10, <1>11, <1>12,
     <1>13, <1>14, <1>15 DEF Next

-----------------------------------------------------------------------------
(* The promise to the chat room.                                            *)

LEMMA CountsAreNat ==
  ASSUME TypeOK, TypeOK', NEW d \in Deliveries, NEW p \in 1..Parts
  PROVE  /\ sent[d][p] \in Nat /\ sent'[d][p] \in Nat
         /\ asked[d] \in Nat /\ asked'[d] \in Nat
         /\ misjudged[d] \in Nat /\ misjudged'[d] \in Nat
<1>1. sent[d][p] \in Nat /\ asked[d] \in Nat /\ misjudged[d] \in Nat
  BY DEF TypeOK
<1>2. sent'[d][p] \in Nat /\ asked'[d] \in Nat /\ misjudged'[d] \in Nat
  BY DEF TypeOK
<1> QED BY <1>1, <1>2

\* A step that posts nothing of part p, makes no claim possible and starts no
\* send keeps the credit of p within its licence.
LEMMA CreditKept ==
  ASSUME TypeOK, TypeOK', CreditWithinLicence,
         NEW d \in Deliveries, NEW p \in 1..Parts,
         sent'[d][p] = sent[d][p],
         Open(d)' => Open(d),
         Carries(d, d, p)' => Carries(d, d, p),
         Carries(Drainer, d, p)' => Carries(Drainer, d, p),
         asked'[d] >= asked[d], misjudged'[d] >= misjudged[d]
  PROVE  (Credit(d, p) <= Licence(d))'
<1>1. /\ sent[d][p] \in Nat /\ asked[d] \in Nat /\ misjudged[d] \in Nat
      /\ asked'[d] \in Nat /\ misjudged'[d] \in Nat
  BY DEF TypeOK
<1>2. Credit(d, p) <= Licence(d)
  BY DEF CreditWithinLicence
<1>3. /\ Opening(d)' <= Opening(d)
      /\ Carried(d, d, p)' <= Carried(d, d, p)
      /\ Carried(Drainer, d, p)' <= Carried(Drainer, d, p)
  BY DEF Opening, Carried
<1>4. /\ Opening(d) \in Nat /\ Opening(d)' \in Nat
      /\ Carried(d, d, p) \in Nat /\ Carried(d, d, p)' \in Nat
      /\ Carried(Drainer, d, p) \in Nat /\ Carried(Drainer, d, p)' \in Nat
  BY DEF Opening, Carried
<1> QED BY <1>1, <1>2, <1>3, <1>4 DEF Credit, Licence

\* What a step posts of part p and what it leaves to be posted by the row and by
\* one worker is paid by what they had left before, or by the licence.
LEMMA CreditPaid ==
  ASSUME TypeOK, TypeOK', CreditWithinLicence,
         NEW d \in Deliveries, NEW p \in 1..Parts, NEW w \in {d, Drainer},
         \A v \in {d, Drainer} \ {w} : Carries(v, d, p)' => Carries(v, d, p),
         sent'[d][p] + Opening(d)' + Carried(w, d, p)' + asked[d] + misjudged[d]
           <= sent[d][p] + Opening(d) + Carried(w, d, p) + asked'[d] + misjudged'[d]
  PROVE  (Credit(d, p) <= Licence(d))'
<1>1. /\ sent[d][p] \in Nat /\ sent'[d][p] \in Nat
      /\ asked[d] \in Nat /\ asked'[d] \in Nat
      /\ misjudged[d] \in Nat /\ misjudged'[d] \in Nat
  BY CountsAreNat
<1>2. Credit(d, p) <= Licence(d)
  BY DEF CreditWithinLicence
<1>3. /\ Opening(d) \in Nat /\ Opening(d)' \in Nat
      /\ Carried(d, d, p) \in Nat /\ Carried(d, d, p)' \in Nat
      /\ Carried(Drainer, d, p) \in Nat /\ Carried(Drainer, d, p)' \in Nat
  BY DEF Opening, Carried
<1>4. CASE w = d
  <2>1. Carried(Drainer, d, p)' <= Carried(Drainer, d, p)
    BY <1>4, DeliveriesAssumption DEF Carried
  <2> QED BY <1>1, <1>2, <1>3, <1>4, <2>1 DEF Credit, Licence
<1>5. CASE w = Drainer
  <2>1. Carried(d, d, p)' <= Carried(d, d, p)
    BY <1>5, DeliveriesAssumption DEF Carried
  <2> QED BY <1>1, <1>2, <1>3, <1>5, <2>1 DEF Credit, Licence
<1> QED BY <1>4, <1>5

\* Each action pays for what it posts.
LEMMA CreditStep ==
  TypeOK /\ JobsOK /\ CreditWithinLicence /\ [Next]_vars /\ TypeOK'
    => CreditWithinLicence'
<1> SUFFICES ASSUME TypeOK, JobsOK, CreditWithinLicence, [Next]_vars, TypeOK',
                    NEW e \in Deliveries, NEW p \in 1..Parts
             PROVE  (Credit(e, p) <= Licence(e))'
  BY DEF CreditWithinLicence
<1>a. /\ jobs \in [Workers -> Jobs] /\ rows \in [Deliveries -> Rows]
      /\ Drainer \in Workers /\ e \in Workers /\ e # Drainer
  BY DeliveriesAssumption DEF TypeOK, Workers
<1>b. /\ sent[e][p] \in Nat
      /\ asked[e] \in Nat /\ asked[e] >= asked[e]
      /\ misjudged[e] \in Nat /\ misjudged[e] >= misjudged[e]
  BY CountsAreNat
<1>1. ASSUME NEW d \in Deliveries, Enqueue(d) PROVE (Credit(e, p) <= Licence(e))'
  <2>1. Open(e)' => Open(e)
    BY <1>1, <1>a, RowNames DEF Enqueue, Open, Inserted
  <2>2. /\ Carries(e, e, p)' => Carries(e, e, p)
        /\ Carries(Drainer, e, p)' => Carries(Drainer, e, p)
    BY <1>1, <1>a, JobNames, DeliveriesAssumption DEF Enqueue, Carries
  <2> QED BY <1>1, <1>b, <2>1, <2>2, CreditKept DEF Enqueue, history
<1>2. ASSUME NEW d \in Deliveries, Claim(d) PROVE (Credit(e, p) <= Licence(e))'
  <2>1. /\ asked' = asked /\ misjudged' = misjudged /\ sent' = sent
        /\ jobs[d].pc = "claim"
    BY <1>2 DEF Claim
  <2>2. CASE Claimable(d) /\ d = e
    <3>1. Open(e) /\ ~Open(e)'
      BY <1>2, <1>a, <2>2, RowNames DEF Claim, Claimable, Claimed, Updated, Open
    <3>2. ~Carries(e, e, p) /\ (Carries(Drainer, e, p)' => Carries(Drainer, e, p))
      BY <1>2, <1>a, <2>1, <2>2 DEF Claim, Carries
    <3>3. e \in {e, Drainer} /\ \A v \in {e, Drainer} \ {e} :
            Carries(v, e, p)' => Carries(v, e, p)
      BY <3>2
    <3>4. Opening(e) = 1 /\ Opening(e)' = 0 /\ Carried(e, e, p) = 0
          /\ Carried(e, e, p)' \in {0, 1}
      BY <3>1, <3>2 DEF Opening, Carried
    <3> QED BY <1>b, <2>1, <3>3, <3>4, CreditPaid
  <2>3. CASE ~(Claimable(d) /\ d = e)
    <3>1. Open(e)' => Open(e)
      BY <1>2, <1>a, <2>3, RowNames DEF Claim, Claimed, Updated, Open
    <3>2. /\ Carries(e, e, p)' => Carries(e, e, p)
          /\ Carries(Drainer, e, p)' => Carries(Drainer, e, p)
      BY <1>2, <1>a, <2>3, JobNames, DeliveriesAssumption
         DEF Claim, Carries, Sending, Idle
    <3> QED BY <1>b, <2>1, <3>1, <3>2, CreditKept
  <2> QED BY <2>2, <2>3
<1>3. CASE DrainScan
  BY <1>3, <1>b, CreditKept DEF DrainScan, history, Open, Carries
<1>4. CASE DrainClaim
  <2>1. /\ asked' = asked /\ misjudged' = misjudged /\ sent' = sent
        /\ jobs[Drainer].pc = "idle"
    BY <1>4 DEF DrainClaim
  <2>2. Head(due).d \in Deliveries
    BY <1>4, EntryType DEF DrainClaim
  <2>3. CASE Claimable(Head(due).d) /\ Head(due).d = e
    <3>1. Open(e) /\ ~Open(e)'
      BY <1>4, <1>a, <2>3, RowNames DEF DrainClaim, Claimable, Claimed, Updated, Open
    <3>2. ~Carries(Drainer, e, p) /\ (Carries(e, e, p)' => Carries(e, e, p))
      BY <1>4, <1>a, <2>1, <2>3 DEF DrainClaim, Carries
    <3>3. Drainer \in {e, Drainer} /\ \A v \in {e, Drainer} \ {Drainer} :
            Carries(v, e, p)' => Carries(v, e, p)
      BY <3>2
    <3>4. Opening(e) = 1 /\ Opening(e)' = 0 /\ Carried(Drainer, e, p) = 0
          /\ Carried(Drainer, e, p)' \in {0, 1}
      BY <3>1, <3>2 DEF Opening, Carried
    <3> QED BY <1>b, <2>1, <3>3, <3>4, CreditPaid
  <2>4. CASE ~(Claimable(Head(due).d) /\ Head(due).d = e)
    <3>1. Open(e)' => Open(e)
      BY <1>4, <1>a, <2>2, <2>4, RowNames DEF DrainClaim, Claimed, Updated, Open
    <3>2. /\ Carries(e, e, p)' => Carries(e, e, p)
          /\ Carries(Drainer, e, p)' => Carries(Drainer, e, p)
      BY <1>4, <1>a, <2>4, JobNames, DeliveriesAssumption
         DEF DrainClaim, Carries, Sending
    <3> QED BY <1>b, <2>1, <3>1, <3>2, CreditKept
  <2> QED BY <2>3, <2>4
<1>5. ASSUME NEW w \in Workers, SendPart(w) PROVE (Credit(e, p) <= Licence(e))'
  <2>1. /\ asked' = asked /\ misjudged' = misjudged /\ rows' = rows
        /\ jobs[w].pc = "send" /\ sent' = Post(jobs[w].d, jobs[w].part)
    BY <1>5 DEF SendPart, history
  <2>2. jobs[w].d \in Deliveries /\ jobs[w].part \in 1..Parts
    BY <2>1, SendTypes
  <2>3. Open(e)' <=> Open(e)
    BY <2>1 DEF Open
  <2>4. CASE jobs[w].d = e
    <3>1. w \in {e, Drainer}
      BY <2>1, <2>4, WorkerOf
    <3>2. \A v \in {e, Drainer} \ {w} : Carries(v, e, p)' => Carries(v, e, p)
      BY <1>5, <1>a DEF SendPart, Carries
    <3>3. Opening(e)' = Opening(e)
      BY <2>3 DEF Opening
    <3>4. CASE jobs[w].part = p
      <4>1. Carries(w, e, p) /\ ~Carries(w, e, p)'
        BY <1>5, <1>a, <2>1, <2>4, <3>4, JobNames, BoundsAssumption
           DEF SendPart, Carries, Settling, NextPart
      <4>2. sent'[e][p] = sent[e][p] + 1
        BY <2>1, <2>4, <3>4 DEF Post, TypeOK
      <4>3. Carried(w, e, p) = 1 /\ Carried(w, e, p)' = 0 /\ Opening(e) \in Nat
        BY <4>1 DEF Carried, Opening
      <4> QED BY <1>b, <2>1, <3>1, <3>2, <3>3, <4>2, <4>3, CreditPaid
    <3>5. CASE jobs[w].part # p
      <4>1. Carries(w, e, p)' => Carries(w, e, p)
        BY <1>5, <1>a, <2>1, <2>2, <3>5, JobNames
           DEF SendPart, Carries, Settling, NextPart
      <4>2. sent'[e][p] = sent[e][p]
        BY <2>1, <2>4, <3>5 DEF Post, TypeOK
      <4>3. \A v \in {e, Drainer} : Carries(v, e, p)' => Carries(v, e, p)
        BY <3>2, <4>1
      <4> QED BY <1>b, <2>1, <2>3, <4>2, <4>3, CreditKept
    <3> QED BY <3>4, <3>5
  <2>5. CASE jobs[w].d # e
    <3>1. sent'[e][p] = sent[e][p]
      BY <2>1, <2>5 DEF Post, TypeOK
    <3>2. \A v \in {e, Drainer} : Carries(v, e, p)' => Carries(v, e, p)
      BY <1>5, <1>a, <2>5, JobNames DEF SendPart, Carries, Settling, NextPart
    <3> QED BY <1>b, <2>1, <2>3, <3>1, <3>2, CreditKept
  <2> QED BY <2>4, <2>5
<1>6. ASSUME NEW w \in Workers, NEW posted \in BOOLEAN, NEW unsure \in BOOLEAN,
             SendFails(w, posted, unsure)
      PROVE  (Credit(e, p) <= Licence(e))'
  <2> DEFINE hidden == ~unsure /\ (posted \/ jobs[w].part > 1)
  <2>1. /\ asked' = asked /\ rows' = rows /\ jobs[w].pc = "send"
        /\ jobs' = [jobs EXCEPT ![w] =
                      Settling(jobs[w], IF unsure THEN "unsure" ELSE "retry")]
    BY <1>6 DEF SendFails
  <2>2. jobs[w].d \in Deliveries /\ jobs[w].part \in 1..Parts
    BY <2>1, SendTypes
  <2>3. Open(e)' <=> Open(e)
    BY <2>1 DEF Open
  <2>4. sent' = IF posted THEN Post(jobs[w].d, jobs[w].part) ELSE sent
    BY <1>6 DEF SendFails
  <2>5. misjudged' = [misjudged EXCEPT ![jobs[w].d] =
                        IF hidden THEN misjudged[jobs[w].d] + 1
                                  ELSE misjudged[jobs[w].d]]
    BY <1>6 DEF SendFails
  <2>6. CASE jobs[w].d = e
    <3>1. w \in {e, Drainer}
      BY <2>1, <2>6, WorkerOf
    <3>2. \A v \in {e, Drainer} \ {w} : Carries(v, e, p)' => Carries(v, e, p)
      BY <2>1, <1>a DEF Carries
    <3>3. Opening(e)' = Opening(e) /\ Opening(e) \in Nat
      BY <2>3 DEF Opening
    <3>4. misjudged'[e] = IF hidden THEN misjudged[e] + 1 ELSE misjudged[e]
      BY <2>5, <2>6 DEF TypeOK
    <3>5. sent'[e][p] = IF posted /\ jobs[w].part = p THEN sent[e][p] + 1 ELSE sent[e][p]
      BY <2>2, <2>4, <2>6 DEF Post, TypeOK
    <3>6. Carries(w, e, p) <=> jobs[w].part <= p
      BY <2>1, <2>6 DEF Carries
    <3>7. Carries(w, e, p)' <=> ~unsure
      BY <2>1, <2>6, <1>a, JobNames DEF Carries, Settling
    <3>8. Carried(w, e, p) = IF jobs[w].part <= p THEN 1 ELSE 0
      BY <3>6 DEF Carried
    <3>9. Carried(w, e, p)' = IF unsure THEN 0 ELSE 1
      BY <3>7 DEF Carried
    <3>10. sent'[e][p] + Carried(w, e, p)' + misjudged[e]
             <= sent[e][p] + Carried(w, e, p) + misjudged'[e]
      BY <1>b, <2>2, <3>4, <3>5, <3>8, <3>9
    <3>11. /\ Carried(w, e, p) \in Nat /\ Carried(w, e, p)' \in Nat
           /\ sent'[e][p] \in Nat /\ misjudged'[e] \in Nat
      BY <3>8, <3>9, CountsAreNat
    <3> QED BY <1>b, <2>1, <3>1, <3>2, <3>3, <3>10, <3>11, CreditPaid
  <2>7. CASE jobs[w].d # e
    <3>1. sent'[e][p] = sent[e][p] /\ misjudged'[e] = misjudged[e]
      BY <2>4, <2>5, <2>7 DEF Post, TypeOK
    <3>2. \A v \in {e, Drainer} : Carries(v, e, p)' => Carries(v, e, p)
      BY <2>1, <1>a, <2>7, JobNames DEF Carries, Settling
    <3> QED BY <1>b, <2>1, <2>3, <3>1, <3>2, CreditKept
  <2> QED BY <2>6, <2>7
<1>7. ASSUME NEW w \in Workers, Settle(w) PROVE (Credit(e, p) <= Licence(e))'
  <2>1. /\ asked' = asked /\ misjudged' = misjudged /\ sent' = sent
        /\ jobs[w].pc = "settle"
    BY <1>7 DEF Settle, history
  <2>2. jobs[w].d \in Deliveries
    BY <2>1, WorkerOf
  <2>3. /\ \A v \in {e, Drainer} : Carries(v, e, p)' => Carries(v, e, p)
        /\ ~Carries(w, e, p)'
    BY <1>7, <1>a, JobNames DEF Settle, Carries, Idle
  <2>4. CASE jobs[w].d = e /\ jobs[w].fate = "retry"
    <3>1. w \in {e, Drainer}
      BY <2>1, <2>4, WorkerOf
    <3>2. Carried(w, e, p) = 1 /\ Carried(w, e, p)' = 0
      BY <2>1, <2>3, <2>4 DEF Carried, Carries
    <3>3. Opening(e) \in {0, 1} /\ Opening(e)' \in {0, 1}
      BY DEF Opening
    <3>4. \A v \in {e, Drainer} \ {w} : Carries(v, e, p)' => Carries(v, e, p)
      BY <2>3
    <3> QED BY <1>b, <2>1, <3>1, <3>2, <3>3, <3>4, CreditPaid
  <2>5. CASE ~(jobs[w].d = e /\ jobs[w].fate = "retry")
    <3>1. Open(e)' => Open(e)
      <4>1. CASE jobs[w].d = e
        <5>1. jobs[w].fate \in {"ok", "unsure"}
          BY <2>1, <2>5, <4>1 DEF JobsOK
        <5>2. Outcome(w).state \in {"delivered", "uncertain"}
          BY <5>1, RowNames DEF Outcome, Updated
        <5> QED BY <1>7, <1>a, <4>1, <5>2 DEF Settle, Open
      <4>2. CASE jobs[w].d # e
        BY <1>7, <1>a, <4>2 DEF Settle, Open
      <4> QED BY <4>1, <4>2
    <3> QED BY <1>b, <2>1, <2>3, <3>1, CreditKept
  <2> QED BY <2>4, <2>5
<1>8. ASSUME NEW w \in Workers, StoreFails(w) PROVE (Credit(e, p) <= Licence(e))'
  <2>1. Open(e)' => Open(e)
    BY <1>8 DEF StoreFails, Open
  <2>2. /\ Carries(e, e, p)' => Carries(e, e, p)
        /\ Carries(Drainer, e, p)' => Carries(Drainer, e, p)
    BY <1>8, <1>a, JobNames DEF StoreFails, Carries, Idle
  <2> QED BY <1>8, <1>b, <2>1, <2>2, CreditKept DEF StoreFails, history
<1>9. ASSUME NEW d \in Deliveries, OperatorRetry(d)
      PROVE  (Credit(e, p) <= Licence(e))'
  <2>1. /\ jobs' = jobs /\ sent' = sent /\ misjudged' = misjudged
        /\ asked' = [asked EXCEPT ![d] = asked[d] + 1]
    BY <1>9 DEF OperatorRetry
  <2>2. \A v \in {e, Drainer} : Carries(v, e, p)' <=> Carries(v, e, p)
    BY <2>1 DEF Carries
  <2>3. CASE d = e
    <3>1. asked'[e] = asked[e] + 1
      BY <2>1, <2>3 DEF TypeOK
    <3>2. /\ Carried(e, e, p)' = Carried(e, e, p) /\ Carried(e, e, p) \in Nat
          /\ Opening(e) \in {0, 1} /\ Opening(e)' \in {0, 1}
      BY <2>2 DEF Carried, Opening
    <3>3. sent[e][p] + Opening(e)' + Carried(e, e, p)' + asked[e] + misjudged[e]
            <= sent[e][p] + Opening(e) + Carried(e, e, p) + asked'[e] + misjudged[e]
      BY <1>b, <3>1, <3>2
    <3> QED BY <2>1, <2>2, <3>3, CreditPaid
  <2>4. CASE d # e
    <3>1. asked'[e] = asked[e]
      BY <2>1, <2>4 DEF TypeOK
    <3>2. Open(e)' => Open(e)
      BY <1>9, <1>a, <2>4 DEF OperatorRetry, Open
    <3> QED BY <1>b, <2>1, <2>2, <3>1, <3>2, CreditKept
  <2> QED BY <2>3, <2>4
<1>10. ASSUME NEW d \in Deliveries, OperatorCancel(d)
       PROVE  (Credit(e, p) <= Licence(e))'
  <2>1. Open(e)' => Open(e)
    BY <1>10, <1>a, RowNames DEF OperatorCancel, Open, Updated
  <2> QED BY <1>10, <1>b, <2>1, CreditKept DEF OperatorCancel, Carries, history
<1>11. CASE Cleanup
  <2>1. Open(e)' => Open(e)
    BY <1>11, <1>a, RowNames DEF Cleanup, Open, Purged, Updated
  <2> QED BY <1>11, <1>b, <2>1, CreditKept DEF Cleanup, Carries, history
<1>12. CASE Crash
  <2>1. PICK W : sent' = [d \in Deliveries |-> [q \in 1..Parts |->
          sent[d][q] + CarriedOut(W, d, d, q) + CarriedOut(W, Drainer, d, q)]]
    BY <1>12 DEF Crash
  <2>2. /\ rows' = rows /\ asked' = asked /\ misjudged' = misjudged
        /\ jobs' = [w \in Workers |-> Idle]
    BY <1>12 DEF Crash, history
  <2>3. sent'[e][p] = sent[e][p] + CarriedOut(W, e, e, p) + CarriedOut(W, Drainer, e, p)
    BY <2>1
  <2>4. \A w \in {e, Drainer} : /\ CarriedOut(W, w, e, p) \in {0, 1}
                                /\ Carried(w, e, p) \in {0, 1}
                                /\ CarriedOut(W, w, e, p) <= Carried(w, e, p)
    BY DEF CarriedOut, Carried, Carries
  <2>5. \A w \in {e, Drainer} : Carried(w, e, p)' = 0
    BY <1>a, <2>2, JobNames DEF Carried, Carries, Idle
  <2>6. Opening(e)' = Opening(e) /\ Opening(e) \in {0, 1}
    BY <2>2 DEF Opening, Open
  <2>7. Credit(e, p) <= Licence(e)
    BY DEF CreditWithinLicence
  <2> QED BY <1>b, <2>2, <2>3, <2>4, <2>5, <2>6, <2>7 DEF Credit, Licence
<1>13. CASE Restart
  <2>1. Open(e)' => Open(e)
    BY <1>13, <1>a, RowNames DEF Restart, Open, Recovered, Purged, Updated
  <2> QED BY <1>13, <1>b, <2>1, CreditKept DEF Restart, Carries, history
<1>14. CASE Tick
  BY <1>14, <1>b, CreditKept DEF Tick, Open, Carries, history
<1>15. CASE UNCHANGED vars
  BY <1>15, <1>b, CreditKept DEF vars, Open, Carries
<1> QED
  BY <1>1, <1>2, <1>3, <1>4, <1>5, <1>6, <1>7, <1>8, <1>9, <1>10, <1>11, <1>12,
     <1>13, <1>14, <1>15 DEF Next

-----------------------------------------------------------------------------
(* One sender at a time.                                                    *)

\* A step after which only workers that were active before are active, and which
\* leaves the row 'sending', cancels it or deletes it, keeps the sender alone.
LEMMA SenderKept ==
  ASSUME OneSender, NEW d \in Deliveries,
         asked'[d] = 0 => asked[d] = 0,
         \A w \in {d, Drainer} : Active(w, d)' => Active(w, d),
         (\E w \in {d, Drainer} : Active(w, d)') =>
           rows'[d].state \in {rows[d].state, "sending", "cancelled", "purged"}
  PROVE  asked'[d] = 0 =>
           /\ ~(Active(d, d)' /\ Active(Drainer, d)')
           /\ \A w \in {d, Drainer} :
                Active(w, d)' => rows'[d].state \in {"sending", "cancelled", "purged"}
BY DEF OneSender

LEMMA OneSenderStep ==
  TypeOK /\ JobsOK /\ OneSender /\ [Next]_vars /\ TypeOK' => OneSender'
<1> SUFFICES ASSUME TypeOK, JobsOK, OneSender, [Next]_vars, TypeOK',
                    NEW e \in Deliveries
             PROVE  asked'[e] = 0 =>
                      /\ ~(Active(e, e)' /\ Active(Drainer, e)')
                      /\ \A w \in {e, Drainer} :
                           Active(w, e)' =>
                             rows'[e].state \in {"sending", "cancelled", "purged"}
  BY DEF OneSender
<1> DEFINE Goal == asked'[e] = 0 =>
                      /\ ~(Active(e, e)' /\ Active(Drainer, e)')
                      /\ \A w \in {e, Drainer} :
                           Active(w, e)' =>
                             rows'[e].state \in {"sending", "cancelled", "purged"}
<1>a. /\ jobs \in [Workers -> Jobs] /\ rows \in [Deliveries -> Rows]
      /\ Drainer \in Workers /\ e \in Workers /\ e # Drainer
  BY DeliveriesAssumption DEF TypeOK, Workers
\* With an open row and no operator retry nobody is active.
<1>b. asked[e] = 0 /\ rows[e].state \in {"absent", "pending"} =>
        \A w \in {e, Drainer} : ~Active(w, e)
  BY DEF OneSender
<1>1. ASSUME NEW d \in Deliveries, Enqueue(d) PROVE Goal
  <2>1. asked' = asked /\ jobs[d].pc = "idle" 
    BY <1>1 DEF Enqueue, history
  <2>2. \A w \in {e, Drainer} : Active(w, e)' => Active(w, e)
    BY <1>1, <1>a, JobNames DEF Enqueue, Active
  <2>3. rows[e].state # "absent" => rows'[e].state = rows[e].state
    BY <1>1, <1>a DEF Enqueue, Inserted
  <2> QED BY <1>b, <2>1, <2>2, <2>3, SenderKept
<1>2. ASSUME NEW d \in Deliveries, Claim(d) PROVE Goal
  <2>1. asked' = asked /\ jobs[d].pc = "claim"
    BY <1>2 DEF Claim
  <2>2. CASE Claimable(d) /\ d = e
    <3>1. rows'[e].state = "sending" /\ rows[e].state = "pending"
      BY <1>2, <1>a, <2>2, RowNames DEF Claim, Claimable, Claimed, Updated
    <3>2. Active(Drainer, e)' <=> Active(Drainer, e)
      BY <1>2, <1>a, <2>2 DEF Claim, Active
    <3> QED BY <1>b, <2>1, <3>1, <3>2
  <2>3. CASE ~(Claimable(d) /\ d = e)
    <3>1. \A w \in {e, Drainer} : Active(w, e)' => Active(w, e)
      BY <1>2, <1>a, <2>3, JobNames, DeliveriesAssumption
         DEF Claim, Active, Sending, Idle
    <3>2. rows'[e].state = rows[e].state
      BY <1>2, <1>a, <2>3 DEF Claim
    <3> QED BY <2>1, <3>1, <3>2, SenderKept
  <2> QED BY <2>2, <2>3
<1>3. CASE DrainScan
  BY <1>3, SenderKept DEF DrainScan, history, Active
<1>4. CASE DrainClaim
  <2>1. asked' = asked /\ Head(due).d \in Deliveries
    BY <1>4, EntryType DEF DrainClaim
  <2>2. CASE Claimable(Head(due).d) /\ Head(due).d = e
    <3>1. rows'[e].state = "sending" /\ rows[e].state = "pending"
      BY <1>4, <1>a, <2>2, RowNames DEF DrainClaim, Claimable, Claimed, Updated
    <3>2. Active(e, e)' <=> Active(e, e)
      BY <1>4, <1>a, <2>2 DEF DrainClaim, Active
    <3> QED BY <1>b, <2>1, <3>1, <3>2
  <2>3. CASE ~(Claimable(Head(due).d) /\ Head(due).d = e)
    <3>1. \A w \in {e, Drainer} : Active(w, e)' => Active(w, e)
      BY <1>4, <1>a, <2>3, JobNames DEF DrainClaim, Active, Sending
    <3>2. rows'[e].state = rows[e].state
      BY <1>4, <1>a, <2>1, <2>3 DEF DrainClaim
    <3> QED BY <2>1, <3>1, <3>2, SenderKept
  <2> QED BY <2>2, <2>3
<1>5. ASSUME NEW w \in Workers, SendPart(w) PROVE Goal
  <2>1. \A v \in {e, Drainer} : Active(v, e)' => Active(v, e)
    BY <1>5, <1>a, JobNames DEF SendPart, Active, Settling, NextPart
  <2> QED BY <1>5, <2>1, SenderKept DEF SendPart, history
<1>6. ASSUME NEW w \in Workers, NEW posted \in BOOLEAN, NEW unsure \in BOOLEAN,
             SendFails(w, posted, unsure)
      PROVE  Goal
  <2>1. \A v \in {e, Drainer} : Active(v, e)' => Active(v, e)
    BY <1>6, <1>a, JobNames DEF SendFails, Active, Settling
  <2>2. asked' = asked /\ rows' = rows
    BY <1>6 DEF SendFails
  <2> QED BY <2>1, <2>2, SenderKept
<1>7. ASSUME NEW w \in Workers, Settle(w) PROVE Goal
  <2>1. /\ asked' = asked /\ jobs[w].pc = "settle" /\ jobs[w].d \in Deliveries
        /\ w = jobs[w].d \/ w = Drainer
    BY <1>7, WorkerOf DEF Settle, history
  <2>2. \A v \in {e, Drainer} : Active(v, e)' => Active(v, e) /\ v # w
    BY <1>7, <1>a, JobNames DEF Settle, Active, Idle
  <2>3. CASE jobs[w].d = e
    <3>1. Active(w, e) /\ w \in {e, Drainer}
      BY <2>1, <2>3 DEF Active
    <3> QED BY <2>1, <2>2, <3>1 DEF OneSender
  <2>4. CASE jobs[w].d # e
    <3>1. rows'[e] = rows[e]
      BY <1>7, <1>a, <2>4 DEF Settle
    <3> QED BY <2>1, <2>2, <3>1, SenderKept
  <2> QED BY <2>3, <2>4
<1>8. ASSUME NEW w \in Workers, StoreFails(w) PROVE Goal
  <2>1. \A v \in {e, Drainer} : Active(v, e)' => Active(v, e)
    BY <1>8, <1>a, JobNames DEF StoreFails, Active, Idle
  <2> QED BY <1>8, <2>1, SenderKept DEF StoreFails, history
<1>9. ASSUME NEW d \in Deliveries, OperatorRetry(d) PROVE Goal
  <2>1. jobs' = jobs /\ asked' = [asked EXCEPT ![d] = asked[d] + 1]
    BY <1>9 DEF OperatorRetry
  <2>2. CASE d = e
    <3>1. asked'[e] = asked[e] + 1 /\ asked[e] \in Nat
      BY <2>1, <2>2 DEF TypeOK
    <3> QED BY <3>1
  <2>3. CASE d # e
    <3>1. asked'[e] = asked[e]
      BY <2>1, <2>3 DEF TypeOK
    <3>2. rows'[e] = rows[e]
      BY <1>9, <1>a, <2>3 DEF OperatorRetry
    <3>3. \A v \in {e, Drainer} : Active(v, e)' => Active(v, e)
      BY <2>1 DEF Active
    <3> QED BY <3>1, <3>2, <3>3, SenderKept
  <2> QED BY <2>2, <2>3
<1>10. ASSUME NEW d \in Deliveries, OperatorCancel(d) PROVE Goal
  <2>1. rows'[e].state \in {rows[e].state, "cancelled"}
    BY <1>10, <1>a, RowNames DEF OperatorCancel, Updated
  <2>2. \A v \in {e, Drainer} : Active(v, e)' => Active(v, e)
    BY <1>10 DEF OperatorCancel, Active
  <2> QED BY <1>10, <2>1, <2>2, SenderKept DEF OperatorCancel, history
<1>11. CASE Cleanup
  <2>1. rows'[e].state \in {rows[e].state, "purged"}
    BY <1>11, <1>a, RowNames DEF Cleanup, Purged, Updated
  <2>2. \A v \in {e, Drainer} : Active(v, e)' => Active(v, e)
    BY <1>11 DEF Cleanup, Active
  <2> QED BY <1>11, <2>1, <2>2, SenderKept DEF Cleanup, history
<1>12. CASE Crash
  <2>1. jobs' = [w \in Workers |-> Idle]
    BY <1>12 DEF Crash
  <2>2. \A v \in {e, Drainer} : ~Active(v, e)'
    BY <1>a, <2>1, JobNames DEF Active, Idle
  <2> QED BY <2>2
<1>13. CASE Restart
  <2>1. \A v \in {e, Drainer} : ~Active(v, e)'
    BY <1>13, <1>a DEF Restart, Active, JobsOK
  <2> QED BY <2>1
<1>14. CASE Tick
  BY <1>14, SenderKept DEF Tick, history, Active
<1>15. CASE UNCHANGED vars
  BY <1>15, SenderKept DEF vars, Active
<1> QED
  BY <1>1, <1>2, <1>3, <1>4, <1>5, <1>6, <1>7, <1>8, <1>9, <1>10, <1>11, <1>12,
     <1>13, <1>14, <1>15 DEF Next

-----------------------------------------------------------------------------
(* The retry window.                                                        *)

LEMMA LateStep ==
  TypeOK /\ JobsOK /\ LateIsLast /\ [Next]_vars /\ TypeOK' => LateIsLast'
<1> SUFFICES ASSUME TypeOK, JobsOK, LateIsLast, [Next]_vars, TypeOK',
                    NEW e \in Deliveries
             PROVE  /\ late'[e] <= 1
                    /\ late'[e] = 1 => /\ PastWindow(e)'
                                       /\ rows'[e].state \notin {"absent", "pending"}
  BY DEF LateIsLast
<1> DEFINE Goal == /\ late'[e] <= 1
                   /\ late'[e] = 1 => /\ PastWindow(e)'
                                      /\ rows'[e].state \notin {"absent", "pending"}
<1>a. /\ rows \in [Deliveries -> Rows] /\ late \in [Deliveries -> Nat]
      /\ late[e] \in Nat /\ clock \in Nat /\ rows[e].created \in Nat
  BY RowFields DEF TypeOK
<1>b. /\ late[e] <= 1
      /\ late[e] = 1 => PastWindow(e) /\ rows[e].state \notin {"absent", "pending"}
  BY DEF LateIsLast
\* The row of an action that leaves the clock and the history alone.
<1>c. ASSUME late'[e] = late[e], clock' = clock, rows'[e].created = rows[e].created,
             rows[e].state \in {"absent", "pending"}
               \/ rows'[e].state \notin {"absent", "pending"}
      PROVE  Goal
  BY <1>b, <1>c DEF PastWindow
\* The row of a claim.
<1>d. ASSUME late' = [late EXCEPT ![e] = IF PastWindow(e) THEN late[e] + 1 ELSE late[e]],
             clock' = clock, rows'[e].created = rows[e].created,
             rows[e].state = "pending", rows'[e].state = "sending"
      PROVE  Goal
  <2>1. late[e] = 0
    BY <1>a, <1>b, <1>d
  <2>2. late'[e] = IF PastWindow(e) THEN 1 ELSE 0
    BY <1>a, <1>d, <2>1
  <2>3. PastWindow(e)' <=> PastWindow(e)
    BY <1>d DEF PastWindow
  <2> QED BY <1>d, <2>2, <2>3
<1>1. ASSUME NEW d \in Deliveries, Enqueue(d) PROVE Goal
  <2>1. rows'[e] = rows[e] \/ rows[e].state = "absent"
    BY <1>1, <1>a DEF Enqueue, Inserted
  <2>2. late' = late /\ clock' = clock
    BY <1>1 DEF Enqueue, history
  <2>3. CASE rows'[e] = rows[e]
    BY <1>c, <2>2, <2>3
  <2>4. CASE rows[e].state = "absent"
    BY <1>a, <1>b, <2>2, <2>4
  <2> QED BY <2>1, <2>3, <2>4
<1>2. ASSUME NEW d \in Deliveries, Claim(d) PROVE Goal
  <2>1. clock' = clock
    BY <1>2 DEF Claim
  <2>2. CASE Claimable(d) /\ d = e
    BY <1>2, <1>a, <1>d, <2>1, <2>2, RowNames
       DEF Claim, Claimable, Claimed, Updated, CountLate
  <2>3. CASE ~(Claimable(d) /\ d = e)
    <3>1. late'[e] = late[e] /\ rows'[e] = rows[e]
      BY <1>2, <1>a, <2>3 DEF Claim, CountLate
    <3> QED BY <1>c, <2>1, <3>1
  <2> QED BY <2>2, <2>3
<1>3. CASE DrainScan
  BY <1>3, <1>c DEF DrainScan, history
<1>4. CASE DrainClaim
  <2>1. clock' = clock /\ Head(due).d \in Deliveries
    BY <1>4, EntryType DEF DrainClaim
  <2>2. CASE Claimable(Head(due).d) /\ Head(due).d = e
    BY <1>4, <1>a, <1>d, <2>1, <2>2, RowNames
       DEF DrainClaim, Claimable, Claimed, Updated, CountLate
  <2>3. CASE ~(Claimable(Head(due).d) /\ Head(due).d = e)
    <3>1. late'[e] = late[e] /\ rows'[e] = rows[e]
      BY <1>4, <1>a, <2>1, <2>3 DEF DrainClaim, CountLate
    <3> QED BY <1>c, <2>1, <3>1
  <2> QED BY <2>2, <2>3
<1>5. ASSUME NEW w \in Workers, SendPart(w) PROVE Goal
  BY <1>5, <1>c DEF SendPart, history
<1>6. ASSUME NEW w \in Workers, NEW posted \in BOOLEAN, NEW unsure \in BOOLEAN,
             SendFails(w, posted, unsure)
      PROVE  Goal
  BY <1>6, <1>c DEF SendFails
<1>7. ASSUME NEW w \in Workers, Settle(w) PROVE Goal
  <2>1. late' = late /\ clock' = clock
    BY <1>7 DEF Settle, history
  <2>2. CASE jobs[w].d = e /\ Stored(e)
    <3>1. rows'[e] = Outcome(w)
      BY <1>7, <1>a, <2>2 DEF Settle
    <3>2. Outcome(w).created = rows[e].created
      BY <2>2, RowNames DEF Outcome, Updated
    <3>3. PastWindow(e) => Outcome(w).state # "pending" /\ Outcome(w).state # "absent"
      <4>1. jobs[w].fate \in {"ok", "retry", "unsure"}
        BY <1>7 DEF Settle, JobsOK
      <4> QED BY <2>2, <4>1, RowNames DEF Outcome, Updated
    <3> QED BY <1>b, <2>1, <3>1, <3>2, <3>3 DEF PastWindow
  <2>3. CASE ~(jobs[w].d = e /\ Stored(e))
    <3>1. rows'[e] = rows[e]
      BY <1>7, <1>a, <2>3 DEF Settle
    <3> QED BY <1>c, <2>1, <3>1
  <2> QED BY <2>2, <2>3
<1>8. ASSUME NEW w \in Workers, StoreFails(w) PROVE Goal
  BY <1>8, <1>c DEF StoreFails, history
<1>9. ASSUME NEW d \in Deliveries, OperatorRetry(d) PROVE Goal
  <2>1. late' = [late EXCEPT ![d] = 0] /\ clock' = clock
    BY <1>9 DEF OperatorRetry
  <2>2. CASE d = e
    <3>1. late'[e] = 0
      BY <1>a, <2>1, <2>2
    <3> QED BY <3>1
  <2>3. CASE d # e
    <3>1. late'[e] = late[e] /\ rows'[e] = rows[e]
      BY <1>9, <1>a, <2>1, <2>3 DEF OperatorRetry
    <3> QED BY <1>c, <2>1, <3>1
  <2> QED BY <2>2, <2>3
<1>10. ASSUME NEW d \in Deliveries, OperatorCancel(d) PROVE Goal
  <2>1. late' = late /\ clock' = clock
    BY <1>10 DEF OperatorCancel, history
  <2>2. /\ rows'[e].state \in {rows[e].state, "cancelled"}
        /\ rows'[e].created = rows[e].created
    BY <1>10, <1>a, RowNames DEF OperatorCancel, Updated
  <2> QED BY <1>c, <2>1, <2>2
<1>11. CASE Cleanup
  <2>1. late' = late /\ clock' = clock
    BY <1>11 DEF Cleanup, history
  <2>2. /\ rows'[e].state \in {rows[e].state, "purged"}
        /\ rows'[e].created = rows[e].created
    BY <1>11, <1>a, RowNames DEF Cleanup, Purged, Updated
  <2> QED BY <1>c, <2>1, <2>2
<1>12. CASE Crash
  <2>1. late' = late /\ clock' = clock /\ rows' = rows
    BY <1>12 DEF Crash, history
  <2> QED BY <1>c, <2>1
<1>13. CASE Restart
  <2>1. late' = late /\ clock' = clock
    BY <1>13 DEF Restart, history
  <2>2. /\ rows'[e].state \in {rows[e].state, "purged", "uncertain"}
        /\ rows'[e].created = rows[e].created
    BY <1>13, <1>a, RowNames DEF Restart, Recovered, Purged, Updated
  <2> QED BY <1>c, <2>1, <2>2
<1>14. CASE Tick
  <2>1. late' = late /\ rows' = rows /\ clock' = clock + 1
    BY <1>14 DEF Tick, history
  <2>2. PastWindow(e) => PastWindow(e)'
    BY <1>a, <2>1, BoundsAssumption DEF PastWindow
  <2> QED BY <1>b, <2>1, <2>2
<1>15. CASE UNCHANGED vars
  BY <1>15, <1>c DEF vars
<1> QED
  BY <1>1, <1>2, <1>3, <1>4, <1>5, <1>6, <1>7, <1>8, <1>9, <1>10, <1>11, <1>12,
     <1>13, <1>14, <1>15 DEF Next

-----------------------------------------------------------------------------
(* The theorems.                                                            *)

LEMMA InitIInv == Init => IInv
<1> SUFFICES ASSUME Init PROVE IInv
  OBVIOUS
<1>1. TypeOK
  <2>1. Absent \in Rows
    BY RowType DEF Absent, RowStates, Sent
  <2>2. due \in Seq([d : Deliveries, seen : Nat])
    <3>1. <<>> \in Seq([d : Deliveries, seen : Nat])
      BY EmptySeq
    <3> QED BY <3>1 DEF Init
  <2>3. up \in BOOLEAN
    BY Zenon DEF Init
  <2>4. rows \in [Deliveries -> Rows] /\ jobs \in [Workers -> Jobs]
    BY <2>1, IdleType DEF Init
  <2>5. sent \in [Deliveries -> [1..Parts -> Nat]]
    BY DEF Init
  <2> QED BY <2>2, <2>3, <2>4, <2>5 DEF Init, TypeOK
<1>2. \A w \in Workers : jobs[w].pc = "idle"
  BY JobNames DEF Init, Idle
<1>3. JobsOK
  BY <1>2 DEF JobsOK, Workers, Init
<1>4. ~Active(Drainer, Drainer) /\ \A d \in Deliveries : \A w \in {d, Drainer} :
        ~Active(w, d) /\ \A p \in 1..Parts : ~Carries(w, d, p)
  BY <1>2 DEF Active, Carries, Workers
<1>5. OneSender
  BY <1>4 DEF OneSender
<1>6. CreditWithinLicence
  <2> SUFFICES ASSUME NEW d \in Deliveries, NEW p \in 1..Parts
               PROVE  Credit(d, p) <= Licence(d)
    BY DEF CreditWithinLicence
  <2>1. sent[d][p] = 0 /\ asked[d] = 0 /\ misjudged[d] = 0
    BY DEF Init
  <2>2. Carried(d, d, p) = 0 /\ Carried(Drainer, d, p) = 0 /\ Opening(d) \in {0, 1}
    BY <1>4 DEF Carried, Opening
  <2> QED BY <2>1, <2>2 DEF Credit, Licence
<1>7. LateIsLast
  BY DEF LateIsLast, Init
<1> QED BY <1>1, <1>3, <1>5, <1>6, <1>7 DEF IInv

LEMMA IInvStep == IInv /\ [Next]_vars => IInv'
BY TypeStep, JobsStep, CreditStep, OneSenderStep, LateStep DEF IInv

LEMMA Inductive == Spec => []IInv
BY InitIInv, IInvStep, PTL DEF Spec

\* The variables of the outbox keep their types.
THEOREM TypeCorrect == Spec => []TypeOK
<1>1. IInv => TypeOK
  BY DEF IInv
<1> QED BY <1>1, Inductive, PTL

\* Whatever crashes, races and repeated calls do, no part of a payload is posted
\* more often than the requests, the operator and the misjudged failures allow.
THEOREM PostedWithinLicence == Spec => []AtMostOncePerLicence
<1>1. IInv => AtMostOncePerLicence
  <2> SUFFICES ASSUME IInv, NEW d \in Deliveries, NEW p \in 1..Parts
               PROVE  sent[d][p] <= Licence(d)
    BY DEF AtMostOncePerLicence
  <2>1. Credit(d, p) <= Licence(d) /\ TypeOK
    BY DEF IInv, CreditWithinLicence
  <2>2. /\ sent[d][p] \in Nat /\ asked[d] \in Nat /\ misjudged[d] \in Nat
    BY <2>1 DEF TypeOK
  <2>3. /\ Opening(d) \in {0, 1} /\ Carried(d, d, p) \in {0, 1}
        /\ Carried(Drainer, d, p) \in {0, 1}
    BY DEF Opening, Carried
  <2> QED BY <2>1, <2>2, <2>3 DEF Credit, Licence
<1> QED BY <1>1, Inductive, PTL

\* The claim keeps the caller and the drain from sending one row together.
THEOREM SendersExclude == Spec => []OneSender
<1>1. IInv => OneSender
  BY DEF IInv
<1> QED BY <1>1, Inductive, PTL

\* schedule_failure gives a row one attempt after its retry window, no more.
THEOREM WindowBounds == Spec => []BoundedRetryWindow
<1>1. IInv => BoundedRetryWindow
  BY DEF IInv, LateIsLast, BoundedRetryWindow
<1> QED BY <1>1, Inductive, PTL

-----------------------------------------------------------------------------
(* A row being sent has a sender.                                           *)

\* A step that makes no row 'sending' and takes no sender away keeps it so.
LEMMA HolderKept ==
  ASSUME SendingIsHeld, NEW e \in Deliveries,
         up' /\ storeErrors' = 0 => up /\ storeErrors = 0,
         rows'[e].state = "sending" => rows[e].state = "sending",
         \A w \in {e, Drainer} : Active(w, e) => Active(w, e)'
  PROVE  up' /\ storeErrors' = 0 /\ rows'[e].state = "sending" =>
           Active(e, e)' \/ Active(Drainer, e)'
BY DEF SendingIsHeld

LEMMA OutcomeIsFinalOrPending ==
  ASSUME NEW w
  PROVE  Outcome(w).state # "sending"
BY RowNames DEF Outcome, Updated

LEMMA SendingStep ==
  TypeOK /\ JobsOK /\ SendingIsHeld /\ [Next]_vars /\ TypeOK' => SendingIsHeld'
<1> SUFFICES ASSUME TypeOK, JobsOK, SendingIsHeld, [Next]_vars, TypeOK',
                    NEW e \in Deliveries
             PROVE  up' /\ storeErrors' = 0 /\ rows'[e].state = "sending" =>
                      Active(e, e)' \/ Active(Drainer, e)'
  BY DEF SendingIsHeld
<1> DEFINE Goal == up' /\ storeErrors' = 0 /\ rows'[e].state = "sending" =>
                     Active(e, e)' \/ Active(Drainer, e)'
<1>a. /\ jobs \in [Workers -> Jobs] /\ rows \in [Deliveries -> Rows]
      /\ Drainer \in Workers /\ e \in Workers /\ e # Drainer
  BY DeliveriesAssumption DEF TypeOK, Workers
<1>1. ASSUME NEW d \in Deliveries, Enqueue(d) PROVE Goal
  <2>1. rows'[e].state = "sending" => rows[e].state = "sending"
    BY <1>1, <1>a, RowNames DEF Enqueue, Inserted
  <2>2. \A w \in {e, Drainer} : Active(w, e) => Active(w, e)'
    BY <1>1, <1>a DEF Enqueue, Active, JobsOK
  <2> QED BY <1>1, <2>1, <2>2, HolderKept DEF Enqueue
<1>2. ASSUME NEW d \in Deliveries, Claim(d) PROVE Goal
  <2>1. up' = up /\ storeErrors' = storeErrors /\ jobs[d].pc = "claim"
    BY <1>2 DEF Claim
  <2>2. CASE Claimable(d) /\ d = e
    <3>1. Active(e, e)'
      BY <1>2, <1>a, <2>2, JobNames DEF Claim, Sending, Active
    <3> QED BY <3>1
  <2>3. CASE ~(Claimable(d) /\ d = e)
    <3>1. \A w \in {e, Drainer} : Active(w, e) => Active(w, e)'
      BY <1>2, <1>a, <2>1, DeliveriesAssumption DEF Claim, Active, JobsOK
    <3>2. rows'[e].state = rows[e].state
      BY <1>2, <1>a, <2>3 DEF Claim
    <3> QED BY <2>1, <3>1, <3>2, HolderKept
  <2> QED BY <2>2, <2>3
<1>3. CASE DrainScan
  BY <1>3, HolderKept DEF DrainScan, Active
<1>4. CASE DrainClaim
  <2>1. /\ up' = up /\ storeErrors' = storeErrors /\ Head(due).d \in Deliveries
        /\ jobs[Drainer].pc = "idle"
    BY <1>4, EntryType DEF DrainClaim
  <2>2. CASE Claimable(Head(due).d) /\ Head(due).d = e
    <3>1. Active(Drainer, e)'
      BY <1>4, <1>a, <2>2, JobNames DEF DrainClaim, Sending, Active
    <3> QED BY <3>1
  <2>3. CASE ~(Claimable(Head(due).d) /\ Head(due).d = e)
    <3>1. \A w \in {e, Drainer} : Active(w, e) => Active(w, e)'
      BY <1>4, <1>a, <2>1 DEF DrainClaim, Active
    <3>2. rows'[e].state = rows[e].state
      BY <1>4, <1>a, <2>1, <2>3 DEF DrainClaim
    <3> QED BY <2>1, <3>1, <3>2, HolderKept
  <2> QED BY <2>2, <2>3
<1>5. ASSUME NEW w \in Workers, SendPart(w) PROVE Goal
  <2>1. \A v \in {e, Drainer} : Active(v, e) => Active(v, e)'
    BY <1>5, <1>a, JobNames DEF SendPart, Active, Settling, NextPart
  <2> QED BY <1>5, <2>1, HolderKept DEF SendPart
<1>6. ASSUME NEW w \in Workers, NEW posted \in BOOLEAN, NEW unsure \in BOOLEAN,
             SendFails(w, posted, unsure)
      PROVE  Goal
  <2>1. \A v \in {e, Drainer} : Active(v, e) => Active(v, e)'
    BY <1>6, <1>a, JobNames DEF SendFails, Active, Settling
  <2>2. rows' = rows /\ up' = up /\ storeErrors' = storeErrors
    BY <1>6 DEF SendFails
  <2> QED BY <2>1, <2>2, HolderKept
<1>7. ASSUME NEW w \in Workers, Settle(w) PROVE Goal
  <2>1. up' = up /\ storeErrors' = storeErrors
    BY <1>7 DEF Settle
  <2>2. CASE jobs[w].d = e
    <3>1. rows'[e].state # "sending"
      BY <1>7, <1>a, <2>2, OutcomeIsFinalOrPending DEF Settle, Stored
    <3> QED BY <3>1
  <2>3. CASE jobs[w].d # e
    <3>1. rows'[e] = rows[e]
      BY <1>7, <1>a, <2>3 DEF Settle
    <3>2. \A v \in {e, Drainer} : Active(v, e) => Active(v, e)'
      BY <1>7, <1>a, <2>3 DEF Settle, Active
    <3> QED BY <2>1, <3>1, <3>2, HolderKept
  <2> QED BY <2>2, <2>3
<1>8. ASSUME NEW w \in Workers, StoreFails(w) PROVE Goal
  <2>1. storeErrors' # 0
    BY <1>8 DEF StoreFails, TypeOK
  <2> QED BY <2>1
<1>9. ASSUME NEW d \in Deliveries, OperatorRetry(d) PROVE Goal
  <2>1. rows'[e].state = "sending" => rows[e].state = "sending"
    BY <1>9, <1>a, RowNames DEF OperatorRetry, Updated
  <2> QED BY <1>9, <2>1, HolderKept DEF OperatorRetry, Active
<1>10. ASSUME NEW d \in Deliveries, OperatorCancel(d) PROVE Goal
  <2>1. rows'[e].state = "sending" => rows[e].state = "sending"
    BY <1>10, <1>a, RowNames DEF OperatorCancel, Updated
  <2> QED BY <1>10, <2>1, HolderKept DEF OperatorCancel, Active
<1>11. CASE Cleanup
  <2>1. rows'[e].state = "sending" => rows[e].state = "sending"
    BY <1>11, <1>a, RowNames DEF Cleanup, Purged, Updated
  <2> QED BY <1>11, <2>1, HolderKept DEF Cleanup, Active
<1>12. CASE Crash
  BY <1>12 DEF Crash
<1>13. CASE Restart
  <2>1. rows'[e].state # "sending"
    BY <1>13, RowNames DEF Restart, Recovered, Purged, Updated
  <2> QED BY <2>1
<1>14. CASE Tick
  BY <1>14, HolderKept DEF Tick, Active
<1>15. CASE UNCHANGED vars
  BY <1>15, HolderKept DEF vars, Active
<1> QED
  BY <1>1, <1>2, <1>3, <1>4, <1>5, <1>6, <1>7, <1>8, <1>9, <1>10, <1>11, <1>12,
     <1>13, <1>14, <1>15 DEF Next

\* As long as the agent runs and its statements succeed, a row that is 'sending'
\* is being sent: the start-up recovery, the claims and the recorded outcomes
\* leave none behind that nothing would change again.
THEOREM SendingHasSender == Spec => []SendingIsHeld
<1>1. Init => SendingIsHeld
  BY RowNames DEF Init, SendingIsHeld, Absent
<1>2. IInv => TypeOK /\ JobsOK
  BY DEF IInv
<1>3. IInv /\ IInv' /\ SendingIsHeld /\ [Next]_vars => SendingIsHeld'
  BY <1>2, SendingStep DEF IInv
<1> QED BY <1>1, <1>3, Inductive, PTL DEF Spec

-----------------------------------------------------------------------------
(* What is settled stays settled.                                           *)

LEMMA SettledStep ==
  ASSUME IInv, [Next]_vars, NEW e \in Deliveries,
         rows[e].state \in Sent \cup {"cancelled"}, asked'[e] = 0,
         rows[e].state = "cancelled" => ~Active(e, e) /\ ~Active(Drainer, e)
  PROVE  rows'[e].state \in {rows[e].state, "cancelled", "purged"}
<1> DEFINE Goal == rows'[e].state \in {rows[e].state, "cancelled", "purged"}
<1>a. TypeOK /\ JobsOK /\ OneSender /\ rows \in [Deliveries -> Rows]
      /\ asked \in [Deliveries -> Nat]
  BY DEF IInv, TypeOK
<1>b. rows[e].state \notin {"absent", "pending", "sending"}
  BY DEF Sent
<1>c. asked[e] = 0
  <2>1. asked'[e] \in {asked[e], asked[e] + 1}
    <3>1. CASE \E d \in Deliveries : OperatorRetry(d)
      BY <1>a, <3>1 DEF OperatorRetry
    <3>2. CASE ~\E d \in Deliveries : OperatorRetry(d)
      <4>1. asked' = asked
        BY <3>2 DEF Next, vars, history, Enqueue, Claim, DrainScan, DrainClaim,
             SendPart, SendFails, Settle, StoreFails, OperatorCancel, Cleanup,
             Crash, Restart, Tick
      <4> QED BY <4>1
    <3> QED BY <3>1, <3>2
  <2>2. asked[e] \in Nat
    BY <1>a
  <2> QED BY <2>1, <2>2
<1>d. \A w \in {e, Drainer} : ~Active(w, e)
  BY <1>a, <1>c DEF OneSender, Sent
<1>1. ASSUME NEW d \in Deliveries, Enqueue(d) PROVE Goal
  BY <1>1, <1>a, <1>b DEF Enqueue, Inserted
<1>2. ASSUME NEW d \in Deliveries, Claim(d) PROVE Goal
  BY <1>2, <1>a, <1>b DEF Claim, Claimable
<1>3. CASE DrainClaim
  <2>1. Head(due).d \in Deliveries
    BY <1>3, <1>a, EntryType DEF DrainClaim
  <2> QED BY <1>3, <1>a, <1>b, <2>1 DEF DrainClaim, Claimable
<1>4. ASSUME NEW w \in Workers, Settle(w) PROVE Goal
  <2>1. jobs[w].d # e
    BY <1>4, <1>a, <1>d, WorkerOf DEF Settle, Active
  <2> QED BY <1>4, <1>a, <2>1 DEF Settle
<1>5. ASSUME NEW d \in Deliveries, OperatorRetry(d) PROVE Goal
  <2>1. asked' = [asked EXCEPT ![d] = asked[d] + 1]
    BY <1>5 DEF OperatorRetry
  <2>2. d # e
    BY <1>a, <1>c, <2>1
  <2> QED BY <1>5, <1>a, <2>2 DEF OperatorRetry
<1>6. ASSUME NEW d \in Deliveries, OperatorCancel(d) PROVE Goal
  BY <1>6, <1>a, RowNames DEF OperatorCancel, Updated
<1>7. CASE Cleanup
  BY <1>7, <1>a, RowNames DEF Cleanup, Purged, Updated
<1>8. CASE Restart
  BY <1>8, <1>a, <1>b, RowNames DEF Restart, Recovered, Purged, Updated
<1>9. CASE rows' = rows
  BY <1>9
<1> QED
  BY <1>1, <1>2, <1>3, <1>4, <1>5, <1>6, <1>7, <1>8, <1>9
     DEF Next, vars, DrainScan, SendPart, SendFails, StoreFails, Crash, Tick

\* A delivered, given-up, uncertain or cancelled row is not touched again, save by
\* the operator and the clean-up.
THEOREM SettledIsFinal == Spec => SettledStaysSettled
<1>1. IInv /\ [Next]_vars =>
        [\A d \in Deliveries :
           /\ rows[d].state \in Sent \cup {"cancelled"}
           /\ asked'[d] = 0
           /\ rows[d].state = "cancelled" => ~Active(d, d) /\ ~Active(Drainer, d)
           => rows'[d].state \in {rows[d].state, "cancelled", "purged"}]_vars
  BY SettledStep
<1> QED BY <1>1, Inductive, PTL DEF Spec, SettledStaysSettled

-----------------------------------------------------------------------------
(* The outbox implements PostingLicence.                                    *)

\* A part that a worker carries, or whose row is open, is below its licence.
LEMMA BelowLicence ==
  ASSUME IInv, NEW d \in Deliveries, NEW p \in 1..Parts
  PROVE  /\ sent[d][p] \in Nat /\ Licence(d) \in Nat
         /\ sent[d][p] + Carried(d, d, p) + Carried(Drainer, d, p) <= Licence(d)
         /\ Carried(d, d, p) \in {0, 1} /\ Carried(Drainer, d, p) \in {0, 1}
<1>1. sent[d][p] \in Nat /\ asked[d] \in Nat /\ misjudged[d] \in Nat
  BY DEF IInv, TypeOK
<1>2. Credit(d, p) <= Licence(d)
  BY DEF IInv, CreditWithinLicence
<1>3. /\ Opening(d) \in {0, 1} /\ Carried(d, d, p) \in {0, 1}
      /\ Carried(Drainer, d, p) \in {0, 1}
  BY DEF Opening, Carried
<1> QED BY <1>1, <1>2, <1>3 DEF Credit, Licence

\* Every posting happens below the licence of the state before it.
LEMMA PostingsPaid ==
  ASSUME IInv, [Next]_vars, NEW d \in Deliveries, NEW p \in 1..Parts
  PROVE  sent'[d][p] = sent[d][p]
           \/ (sent'[d][p] > sent[d][p] /\ sent'[d][p] <= Licence(d))
<1> DEFINE Goal == sent'[d][p] = sent[d][p]
                     \/ (sent'[d][p] > sent[d][p] /\ sent'[d][p] <= Licence(d))
<1>a. TypeOK /\ JobsOK
  BY DEF IInv
\* What the worker of a send may post.
<1>b. ASSUME NEW w \in Workers, jobs[w].pc = "send",
             sent' = Post(jobs[w].d, jobs[w].part)
      PROVE  Goal
  <2>1. CASE jobs[w].d = d /\ jobs[w].part = p
    <3>1. w \in {d, Drainer} /\ p <= p
      BY <1>a, <1>b, <2>1, WorkerOf
    <3>2. Carried(w, d, p) = 1
      BY <1>b, <2>1, <3>1 DEF Carried, Carries
    <3>3. sent'[d][p] = sent[d][p] + 1
      BY <1>a, <1>b, <2>1 DEF Post, TypeOK
    <3> QED BY <3>1, <3>2, <3>3, BelowLicence
  <2>2. CASE ~(jobs[w].d = d /\ jobs[w].part = p)
    <3>1. sent'[d][p] = sent[d][p]
      BY <1>a, <1>b, <2>2, SendTypes DEF Post, TypeOK
    <3> QED BY <3>1
  <2> QED BY <2>1, <2>2
<1>1. ASSUME NEW w \in Workers, SendPart(w) PROVE Goal
  BY <1>1, <1>b DEF SendPart
<1>2. ASSUME NEW w \in Workers, NEW posted \in BOOLEAN, NEW unsure \in BOOLEAN,
             SendFails(w, posted, unsure)
      PROVE  Goal
  <2>1. jobs[w].pc = "send"
        /\ sent' = IF posted THEN Post(jobs[w].d, jobs[w].part) ELSE sent
    BY <1>2 DEF SendFails
  <2> QED BY <1>b, <2>1
<1>3. CASE Crash
  <2>1. PICK W : sent' = [c \in Deliveries |-> [q \in 1..Parts |->
          sent[c][q] + CarriedOut(W, c, c, q) + CarriedOut(W, Drainer, c, q)]]
    BY <1>3 DEF Crash
  <2>2. sent'[d][p] = sent[d][p] + CarriedOut(W, d, d, p) + CarriedOut(W, Drainer, d, p)
    BY <2>1
  <2>3. p <= p
    OBVIOUS
  <2>4. \A w \in {d, Drainer} : /\ CarriedOut(W, w, d, p) \in {0, 1}
                                /\ CarriedOut(W, w, d, p) <= Carried(w, d, p)
    BY <2>3 DEF CarriedOut, Carried, Carries
  <2> QED BY <2>2, <2>4, BelowLicence
<1>4. CASE sent' = sent
  BY <1>4
<1> QED
  BY <1>1, <1>2, <1>3, <1>4
     DEF Next, vars, Enqueue, Claim, DrainScan, DrainClaim, Settle, StoreFails,
         OperatorRetry, OperatorCancel, Cleanup, Restart, Tick

\* A step grants a delivery at most one further posting.
LEMMA LicenceGrowsByOne ==
  ASSUME IInv, [Next]_vars, NEW d \in Deliveries
  PROVE  Licence(d)' \in {Licence(d), Licence(d) + 1}
<1>a. /\ asked \in [Deliveries -> Nat] /\ misjudged \in [Deliveries -> Nat]
      /\ asked[d] \in Nat /\ misjudged[d] \in Nat
  BY DEF IInv, TypeOK
<1>1. ASSUME NEW e \in Deliveries, OperatorRetry(e)
      PROVE  Licence(d)' \in {Licence(d), Licence(d) + 1}
  <2>1. asked'[d] \in {asked[d], asked[d] + 1} /\ misjudged' = misjudged
    BY <1>1, <1>a DEF OperatorRetry
  <2> QED BY <1>a, <2>1 DEF Licence
<1>2. ASSUME NEW w \in Workers, NEW posted \in BOOLEAN, NEW unsure \in BOOLEAN,
             SendFails(w, posted, unsure)
      PROVE  Licence(d)' \in {Licence(d), Licence(d) + 1}
  <2>1. misjudged'[d] \in {misjudged[d], misjudged[d] + 1} /\ asked' = asked
    BY <1>2, <1>a DEF SendFails
  <2> QED BY <1>a, <2>1 DEF Licence
<1>3. CASE asked' = asked /\ misjudged' = misjudged
  BY <1>3, <1>a DEF Licence
<1> QED
  BY <1>1, <1>2, <1>3
     DEF Next, vars, history, Enqueue, Claim, DrainScan, DrainClaim, SendPart,
         Settle, StoreFails, OperatorCancel, Cleanup, Crash, Restart, Tick

LEMMA PromiseStep == IInv /\ IInv' /\ [Next]_vars => Promise!Step
<1> SUFFICES ASSUME IInv, IInv', [Next]_vars PROVE Promise!Step
  OBVIOUS
<1>1. sent' \in [Deliveries -> [1..Parts -> Nat]]
  BY DEF IInv, TypeOK
<1>2. \A d \in Deliveries : Licence(d) \in Nat /\ Licence(d)' \in Nat
  <2>1. asked \in [Deliveries -> Nat] /\ misjudged \in [Deliveries -> Nat]
    BY DEF IInv, TypeOK
  <2>2. asked' \in [Deliveries -> Nat] /\ misjudged' \in [Deliveries -> Nat]
    BY DEF IInv, TypeOK
  <2>3. \A d \in Deliveries : Licence(d) \in Nat
    BY <2>1 DEF Licence
  <2>4. \A d \in Deliveries : Licence(d)' \in Nat
    BY <2>2 DEF Licence
  <2> QED BY <2>3, <2>4
<1>3. \A d \in Deliveries : Licence(d)' \in {Licence(d), Licence(d) + 1}
  BY LicenceGrowsByOne
<1>4. \A d \in Deliveries : \A p \in 1..Parts :
        /\ sent'[d][p] >= sent[d][p]
        /\ sent'[d][p] > sent[d][p] => sent'[d][p] <= Licence(d)
  <2> SUFFICES ASSUME NEW d \in Deliveries, NEW p \in 1..Parts
               PROVE  /\ sent'[d][p] >= sent[d][p]
                      /\ sent'[d][p] > sent[d][p] => sent'[d][p] <= Licence(d)
    OBVIOUS
  <2>1. sent[d][p] \in Nat
    BY BelowLicence
  <2>2. sent'[d][p] = sent[d][p]
          \/ (sent'[d][p] > sent[d][p] /\ sent'[d][p] <= Licence(d))
    BY PostingsPaid
  <2>3. sent'[d][p] \in Nat
    BY <1>1
  <2> QED BY <2>1, <2>2, <2>3
<1> QED BY <1>1, <1>2, <1>3, <1>4 DEF Promise!Step

\* The outbox, with its rows, claims, crashes and clocks, posts nothing that the
\* abstract specification does not allow.
THEOREM OutboxKeepsPromise == Spec => KeepsPromise
<1>1. Init => Promise!Init
  BY DEF Init, Promise!Init, Licence
<1>2. IInv /\ IInv' /\ [Next]_vars => [Promise!Step]_(Promise!vars)
  BY PromiseStep
<1> QED BY <1>1, <1>2, Inductive, PTL DEF Spec, KeepsPromise, Promise!Spec
=============================================================================
