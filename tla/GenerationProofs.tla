-------------------------- MODULE GenerationProofs --------------------------
(***************************************************************************)
(* Proofs about Generation and ProviderCall, for any number of tasks, keys,*)
(* fallback providers, attempts, polls and slots and any history.          *)
(***************************************************************************)
EXTENDS Generation, FiniteSetTheorems, SequenceTheorems, TLAPS

---------------------------------------------------------------------------
(* The progress of a task.                                                 *)

PipeFields ==
  {"opt", "stage", "next", "work", "chunk", "out", "error", "retried", "first",
   "pools", "text", "sent", "outcome", "seen"}

IsPipe(p) == p = [f \in PipeFields |-> p[f]]

\* What a step leaves alone, when it is not said to change.
LEMMA AtPipe ==
  ASSUME NEW p, IsPipe(p), NEW stage
  PROVE  /\ IsPipe(At(p, stage)) /\ At(p, stage).stage = stage
         /\ At(p, stage).opt = p.opt /\ At(p, stage).sent = p.sent
         /\ At(p, stage).outcome = p.outcome /\ At(p, stage).seen = p.seen
BY DEF IsPipe, PipeFields, At

LEMMA EndsPipe ==
  ASSUME NEW p, IsPipe(p), NEW o
  PROVE  /\ IsPipe(Ends(p, o)) /\ Ends(p, o).stage = "read health"
         /\ Ends(p, o).opt = p.opt /\ Ends(p, o).sent = p.sent
         /\ Ends(p, o).outcome = o
<1> DEFINE q == At(p, "read health")
<1>1. /\ IsPipe(q) /\ q.stage = "read health" /\ q.opt = p.opt /\ q.sent = p.sent
  BY AtPipe
<1> HIDE DEF q
<1>2. Ends(p, o) = [q EXCEPT !.outcome = o]
  BY DEF Ends, q
<1> QED
  BY <1>1, <1>2 DEF IsPipe, PipeFields

LEMMA SendsPipe ==
  ASSUME NEW p, IsPipe(p), NEW what
  PROVE  /\ IsPipe(Sends(p, what)) /\ Sends(p, what).stage = p.stage
         /\ Sends(p, what).opt = p.opt
         /\ Sends(p, what).sent = Append(p.sent, what)
         /\ Sends(p, what).outcome = p.outcome
BY DEF IsPipe, PipeFields, Sends

---------------------------------------------------------------------------
(* What is handed over.                                                    *)

Things == {"text", "image", "cooldown"}

BeforeText == MediaStages \cup {"open", "register", "text"}

Imaging ==
  {"open image", "register image", "summary slot", "wait for summary", "summary",
   "prompt slot", "wait for prompt", "prompt", "draw", "drawing"}

Over == {"read health", "write health", "ended"}

\* The text is first; the image is next, or first when there is no text.
InOrder(s, text) ==
  /\ s \in Seq(Things)
  /\ \A i \in 1..Len(s) :
       /\ s[i] = "text" => i = 1
       /\ s[i] = "image" => i = (IF s[1] = "text" THEN 2 ELSE 1)
       /\ s[i] = "image" /\ text => s[1] = "text"

LEMMA Nothing ==
  ASSUME NEW text PROVE InOrder(<<>>, text) /\ Len(<<>>) = 0
BY EmptySeq DEF InOrder

LEMMA AddText ==
  ASSUME NEW text
  PROVE  LET s == Append(<<>>, "text") IN
         InOrder(s, text) /\ Len(s) = 1 /\ s[1] = "text"
<1>1. <<>> \in Seq(Things) /\ "text" \in Things /\ Len(<<>>) = 0
  BY EmptySeq DEF Things
<1> DEFINE s == Append(<<>>, "text")
<1>2. s \in Seq(Things) /\ Len(s) = 1 /\ s[1] = "text"
  BY <1>1, AppendProperties
<1> HIDE DEF s
<1>3. InOrder(s, text)
  BY <1>2 DEF InOrder
<1> QED
  BY <1>2, <1>3 DEF s

LEMMA AddImage ==
  ASSUME NEW text \in BOOLEAN, NEW s, InOrder(s, text),
         IF text THEN Len(s) = 1 /\ s[1] = "text" ELSE Len(s) = 0
  PROVE  LET r == Append(s, "image") IN
         /\ InOrder(r, text) /\ Len(r) = Len(s) + 1 /\ Len(r) > 0
         /\ r[1] = IF text THEN "text" ELSE "image"
<1> DEFINE r == Append(s, "image")
<1>1. s \in Seq(Things) /\ "image" \in Things /\ Len(s) \in 0..1
  BY DEF InOrder, Things
<1>2. /\ r \in Seq(Things) /\ Len(r) = Len(s) + 1 /\ r[Len(s) + 1] = "image"
      /\ \A i \in 1..Len(s) : r[i] = s[i]
  BY <1>1, AppendProperties
<1> HIDE DEF r
<1>3. ASSUME text
      PROVE  InOrder(r, text) /\ r[1] = IF text THEN "text" ELSE "image"
  <2>0. Len(s) = 1 /\ s[1] = "text"
    BY <1>3, Zenon
  <2>1. Len(r) = 2 /\ r[1] = "text" /\ r[2] = "image"
    BY <1>2, <2>0
  <2>2. ASSUME NEW i \in 1..Len(r)
        PROVE  /\ r[i] = "text" => i = 1
               /\ r[i] = "image" => i = (IF r[1] = "text" THEN 2 ELSE 1)
    BY <2>1
  <2>3. InOrder(r, text)
    BY <1>2, <2>1, <2>2, Zenon DEF InOrder
  <2> QED
    BY <1>3, <2>1, <2>3
<1>4. ASSUME ~text
      PROVE  InOrder(r, text) /\ r[1] = IF text THEN "text" ELSE "image"
  <2>1. Len(r) = 1 /\ r[1] = "image"
    BY <1>1, <1>2, <1>4
  <2>2. ASSUME NEW i \in 1..Len(r)
        PROVE  /\ r[i] = "text" => i = 1
               /\ r[i] = "image" => i = (IF r[1] = "text" THEN 2 ELSE 1)
    BY <2>1
  <2>3. InOrder(r, text)
    BY <1>2, <1>4, <2>2, Zenon DEF InOrder
  <2> QED
    BY <1>4, <2>1, <2>3
<1>5. InOrder(r, text) /\ r[1] = IF text THEN "text" ELSE "image"
  BY <1>3, <1>4, Zenon
<1> QED
  BY <1>1, <1>2, <1>5 DEF r

LEMMA AddCooldown ==
  ASSUME NEW text \in BOOLEAN, NEW s, InOrder(s, text), Len(s) > 0
  PROVE  LET r == Append(s, "cooldown") IN
         InOrder(r, text) /\ Len(r) > 0 /\ r[1] = s[1]
<1> DEFINE r == Append(s, "cooldown")
<1>1. s \in Seq(Things) /\ "cooldown" \in Things /\ Len(s) \in Nat
  BY LenProperties DEF InOrder, Things
<1>2. /\ r \in Seq(Things) /\ Len(r) = Len(s) + 1 /\ r[Len(s) + 1] = "cooldown"
      /\ \A i \in 1..Len(s) : r[i] = s[i]
  BY <1>1, AppendProperties
<1> HIDE DEF r
<1>3. r[1] = s[1]
  BY <1>1, <1>2
<1>4. \A i \in 1..Len(r) : i \in 1..Len(s) \/ i = Len(s) + 1
  BY <1>1, <1>2
<1>5. InOrder(r, text)
  BY <1>1, <1>2, <1>3, <1>4 DEF InOrder
<1> QED
  BY <1>1, <1>2, <1>3, <1>5 DEF r

Asked(opt) ==
  /\ opt.kind \in {"scheduled", "manual", "preview", "weekly"}
  /\ opt.text \in BOOLEAN /\ opt.image \in BOOLEAN
  /\ opt.kind = "preview" => opt.text

\* At every stage, what has been handed over so far.
Handed(p) ==
  /\ InOrder(p.sent, p.opt.text)
  /\ p.stage \in BeforeText => p.sent = <<>>
  /\ p.stage = "text" => p.opt.text
  /\ p.stage \in Imaging =>
       /\ p.opt.kind # "preview"
       /\ IF p.opt.kind = "manual" /\ p.opt.text
          THEN Len(p.sent) = 1 /\ p.sent[1] = "text" ELSE p.sent = <<>>
  /\ p.opt.kind = "preview" => p.sent = <<>>
  /\ p.outcome = "produced" =>
       \/ p.opt.kind = "preview"
       \/ Len(p.sent) > 0 /\ p.sent[1] = IF p.opt.text THEN "text" ELSE "image"

HealthRow == [failures : Nat, open : BOOLEAN]

\* Who read an open circuit has a failure to record.
Judged(p) ==
  p.stage = "write health" =>
    /\ p.outcome \in {"produced", "failed"}
    /\ p.seen \in HealthRow
    /\ p.seen.open => p.outcome = "failed" /\ p.seen.failures >= 3

PipeOK(p) ==
  /\ IsPipe(p) /\ Asked(p.opt) /\ Judged(p)
  /\ p.stage \notin Over => p.outcome = "none"
  /\ p.opt.kind # "weekly" => p.stage \in BeforeText \cup Imaging \cup Over /\ Handed(p)

\* The tasks of a queue wait in it once, given the progress of all tasks.
Queue(q, stage, progress) ==
  /\ q \in Seq(Tasks)
  /\ \A i \in 1..Len(q) : progress[q[i]].stage = stage
  /\ \A i, j \in 1..Len(q) : q[i] = q[j] => i = j

PipeInv ==
  /\ pipe = [t \in Tasks |-> pipe[t]]
  /\ \A t \in Tasks : PipeOK(pipe[t])
  /\ health \in HealthRow
  /\ health.open => health.failures >= 3

---------------------------------------------------------------------------
(* The steps of a task.                                                    *)

\* The step of one task leaves the others alone.
LEMMA OnePipe ==
  ASSUME PipeInv, NEW t \in Tasks, NEW q, PipeOK(q),
         pipe' = [pipe EXCEPT ![t] = q], UNCHANGED health
  PROVE  PipeInv'
<1>1. pipe' = [u \in Tasks |-> pipe'[u]]
  BY DEF PipeInv
<1>2. \A u \in Tasks : pipe'[u] = IF u = t THEN q ELSE pipe[u]
  BY DEF PipeInv
<1>3. \A u \in Tasks : PipeOK(pipe'[u])
  BY <1>2 DEF PipeInv
<1> QED
  BY <1>1, <1>3 DEF PipeInv

\* A step that hands over nothing.
LEMMA Moves ==
  ASSUME NEW p, PipeOK(p), NEW q, IsPipe(q),
         q.opt = p.opt, q.sent = p.sent, q.outcome = p.outcome,
         p.stage \notin Over, q.stage \notin Over,
         p.opt.kind # "weekly" =>
           \/ /\ p.stage \in BeforeText /\ q.stage \in BeforeText
              /\ q.stage = "text" => p.opt.text
           \/ p.stage \in Imaging /\ q.stage \in Imaging
           \/ /\ p.stage \in BeforeText /\ q.stage \in Imaging
              /\ p.opt.kind # "preview" /\ ~(p.opt.kind = "manual" /\ p.opt.text)
  PROVE  PipeOK(q)
<1>1. Asked(q.opt) /\ q.outcome = "none" /\ Judged(q)
  BY DEF PipeOK, Judged, Over
<1>2. ASSUME q.opt.kind # "weekly" PROVE q.stage \in BeforeText \cup Imaging /\ Handed(q)
  <2>1. Handed(p)
    BY <1>2 DEF PipeOK
  <2>2. BeforeText \cap Imaging = {} /\ "text" \in BeforeText
    BY DEF BeforeText, Imaging, MediaStages
  <2> QED
    BY <1>1, <1>2, <2>1, <2>2 DEF Handed
<1> QED
  BY <1>1, <1>2 DEF PipeOK

\* The outcome of a task is that of what it has handed over.
Earned(p, o) ==
  p.opt.kind # "weekly" =>
    /\ InOrder(p.sent, p.opt.text)
    /\ p.opt.kind = "preview" => p.sent = <<>>
    /\ o = "produced" =>
         \/ p.opt.kind = "preview"
         \/ Len(p.sent) > 0 /\ p.sent[1] = IF p.opt.text THEN "text" ELSE "image"

\* The end of a task.
LEMMA Settles ==
  ASSUME NEW p, IsPipe(p), Asked(p.opt), NEW o, Earned(p, o)
  PROVE  PipeOK(Ends(p, o))
<1>0. PICK q : q = Ends(p, o)
  OBVIOUS
<1>1. /\ IsPipe(q) /\ q.stage = "read health" /\ q.opt = p.opt
      /\ q.sent = p.sent /\ q.outcome = o
  BY <1>0, EndsPipe, ZenonT(60)
<1>2. q.stage \in Over /\ q.stage \notin BeforeText \cup Imaging
  BY <1>1 DEF Over, BeforeText, Imaging, MediaStages
<1>3. Judged(q)
  BY <1>1 DEF Judged
<1>4. q.opt.kind # "weekly" => Handed(q)
  BY <1>1, <1>2 DEF Handed, BeforeText, Earned
<1>5. PipeOK(q)
  BY <1>1, <1>2, <1>3, <1>4 DEF PipeOK
<1> QED
  BY <1>0, <1>5

\* A task goes to another stage and starts it with nothing done.
LEMMA Enters1 ==
  ASSUME PipeInv, NEW t \in Tasks, NEW stage,
         pipe' = [pipe EXCEPT ![t] = At(@, stage)], UNCHANGED health,
         Stage(t) \notin Over, stage \notin Over,
         pipe[t].opt.kind # "weekly" =>
           \/ /\ Stage(t) \in BeforeText /\ stage \in BeforeText
              /\ stage = "text" => pipe[t].opt.text
           \/ Stage(t) \in Imaging /\ stage \in Imaging
           \/ /\ Stage(t) \in BeforeText /\ stage \in Imaging
              /\ pipe[t].opt.kind # "preview"
              /\ ~(pipe[t].opt.kind = "manual" /\ pipe[t].opt.text)
  PROVE  PipeInv'
<1> DEFINE p == pipe[t]
<1>1. PipeOK(p) /\ IsPipe(p)
  BY DEF PipeInv, PipeOK
<1>2. PICK q : q = At(p, stage)
  OBVIOUS
<1>3. /\ IsPipe(q) /\ q.stage = stage /\ q.opt = p.opt /\ q.sent = p.sent
      /\ q.outcome = p.outcome
  BY <1>1, <1>2, AtPipe
<1>4. PipeOK(q)
  BY <1>1, <1>3, Moves DEF Stage
<1>5. pipe' = [pipe EXCEPT ![t] = q]
  BY <1>2
<1> QED
  BY <1>4, <1>5, OnePipe

\* A task works on in its stage.
LEMMA Works ==
  ASSUME PipeInv, NEW t \in Tasks, NEW q, IsPipe(q),
         q.stage = pipe[t].stage, q.opt = pipe[t].opt, q.sent = pipe[t].sent,
         q.outcome = pipe[t].outcome,
         pipe' = [pipe EXCEPT ![t] = q], UNCHANGED health, Stage(t) \notin Over
  PROVE  PipeInv'
<1> DEFINE p == pipe[t]
<1>1. PipeOK(p)
  BY DEF PipeInv
<1>2. p.stage \notin Over /\ q.stage \notin Over /\ q.stage = p.stage
  BY DEF Stage
<1>3. p.opt.kind # "weekly" => p.stage \in BeforeText \/ p.stage \in Imaging
  BY <1>1, <1>2 DEF PipeOK
<1>4. p.opt.kind # "weekly" => (p.stage = "text" => p.opt.text)
  BY <1>1 DEF PipeOK, Handed
<1> HIDE DEF p
<1>5. p.opt.kind # "weekly" =>
        \/ /\ p.stage \in BeforeText /\ q.stage \in BeforeText
           /\ q.stage = "text" => p.opt.text
        \/ p.stage \in Imaging /\ q.stage \in Imaging
  BY <1>2, <1>3, <1>4, Zenon
<1>6. PipeOK(q)
  BY <1>1, <1>2, <1>5, Moves DEF p
<1> QED
  BY <1>6, OnePipe

LEMMA NoChange ==
  ASSUME PipeInv, UNCHANGED <<pipe, health>>
  PROVE  PipeInv'
BY DEF PipeInv

LEMMA MediaInv ==
  ASSUME PipeInv, NEW t \in Tasks, Captions(t) \/ Videos(t) \/ Voices(t)
  PROVE  PipeInv'
<1>0. Stage(t) \in MediaStages /\ UNCHANGED health
  BY DEF Captions, Videos, Voices, MediaStages
<1>1. /\ UNCHANGED health
      /\ Stage(t) \notin Over /\ Stage(t) \in BeforeText
      /\ NextStage[Stage(t)] \in BeforeText \ {"text"}
      /\ NextStage[Stage(t)] \notin Over
  <2>1. NextStage[Stage(t)] \in {"video", "voice", "open"}
    BY <1>0 DEF NextStage, MediaStages
  <2> QED
    BY <1>0, <2>1 DEF Over, BeforeText, MediaStages
<1>2. \/ UNCHANGED pipe
      \/ pipe' = [pipe EXCEPT ![t] = At(@, NextStage[Stage(t)])]
      \/ pipe' = [pipe EXCEPT ![t].next = @ + 1]
  BY DEF Captions, Videos, Voices, MediaSpawn, MediaJoined, MediaRefused, MediaOver
<1>3. CASE UNCHANGED pipe
  BY <1>1, <1>3, NoChange
<1>4. CASE pipe' = [pipe EXCEPT ![t] = At(@, NextStage[Stage(t)])]
  BY <1>1, <1>4, Enters1
<1>5. CASE pipe' = [pipe EXCEPT ![t].next = @ + 1]
  <2>1. IsPipe(pipe[t])
    BY DEF PipeInv, PipeOK
  <2>2. PICK q : q = [pipe[t] EXCEPT !.next = @ + 1]
    OBVIOUS
  <2>3. /\ IsPipe(q) /\ q.stage = pipe[t].stage /\ q.opt = pipe[t].opt
        /\ q.sent = pipe[t].sent /\ q.outcome = pipe[t].outcome
    BY <2>1, <2>2 DEF IsPipe, PipeFields
  <2>4. pipe' = [pipe EXCEPT ![t] = q]
    BY <1>5, <2>2
  <2> QED
    BY <1>1, <2>3, <2>4, Works
<1> QED
  BY <1>2, <1>3, <1>4, <1>5

LEMMA OpensInv ==
  ASSUME PipeInv, NEW t \in Tasks, Open(t) \/ Register(t)
  PROVE  PipeInv'
<1> DEFINE p == pipe[t]
<1>1. PipeOK(p) /\ IsPipe(p) /\ Asked(p.opt) /\ UNCHANGED health
  BY DEF PipeInv, PipeOK, Open, Opens, Register
<1>2. ASSUME NEW stage, NEW first, NEW pools,
             pipe' = [pipe EXCEPT ![t] =
               [At(@, stage) EXCEPT !.first = first, !.pools = pools]],
             p.stage \notin Over, stage \notin Over,
             p.opt.kind # "weekly" =>
               \/ /\ p.stage \in BeforeText /\ stage \in BeforeText
                  /\ stage = "text" => p.opt.text
               \/ p.stage \in Imaging /\ stage \in Imaging
               \/ /\ p.stage \in BeforeText /\ stage \in Imaging
                  /\ p.opt.kind # "preview"
                  /\ ~(p.opt.kind = "manual" /\ p.opt.text)
      PROVE  PipeInv'
  <2>1. PICK a : a = At(p, stage)
    OBVIOUS
  <2>2. /\ IsPipe(a) /\ a.stage = stage /\ a.opt = p.opt /\ a.sent = p.sent
        /\ a.outcome = p.outcome
    BY <1>1, <2>1, AtPipe
  <2>3. PICK q : q = [a EXCEPT !.first = first, !.pools = pools]
    OBVIOUS
  <2>4. /\ IsPipe(q) /\ q.stage = stage /\ q.opt = p.opt /\ q.sent = p.sent
        /\ q.outcome = p.outcome
    BY <2>2, <2>3 DEF IsPipe, PipeFields
  <2>5. PipeOK(q)
    BY <1>1, <1>2, <2>4, Moves
  <2>6. pipe' = [pipe EXCEPT ![t] = q]
    BY <1>2, <2>1, <2>3
  <2> QED
    BY <1>1, <2>5, <2>6, OnePipe
<1>3. ASSUME NEW first, NEW then, Opens(t, first, then),
             \/ p.stage = "open" /\ then = "register"
             \/ p.stage = "open image" /\ then = "register image"
      PROVE  PipeInv'
  <2>1. p.stage \notin Over /\ then \notin Over
    BY <1>3 DEF Over
  <2>2. \/ p.stage \in BeforeText /\ then \in BeforeText /\ then # "text"
        \/ p.stage \in Imaging /\ then \in Imaging
    BY <1>3 DEF BeforeText, Imaging
  <2>3. pipe' = [pipe EXCEPT ![t] =
          [At(@, then) EXCEPT !.first = first,
             !.pools = [d \in Providers |->
                          IF d < first THEN NoOwner ELSE Registered(d)]]]
    BY <1>3 DEF Opens
  <2> QED
    BY <1>2, <2>1, <2>2, <2>3
<1>4. CASE Open(t)
  BY <1>3, <1>4 DEF Open, Stage
<1>5. CASE Register(t)
  <2> DEFINE stage == AfterOpening(p)
             a == At(p, stage)
  <2>1. /\ p.stage \in {"register", "register image"}
        /\ pipe' = [pipe EXCEPT ![t] =
             [At(@, AfterOpening(@)) EXCEPT
                !.pools = [d \in Providers |-> IF d \in Creates(t) THEN t
                                               ELSE pipe[t].pools[d]]]]
    BY <1>5 DEF Register, Stage
  <2>2. p.stage \notin Over /\ stage \notin Over
    BY <2>1 DEF Over, AfterOpening
  <2>3. p.opt.kind # "weekly" =>
          \/ /\ p.stage \in BeforeText /\ stage \in BeforeText
             /\ stage = "text" => p.opt.text
          \/ p.stage \in Imaging /\ stage \in Imaging
          \/ /\ p.stage \in BeforeText /\ stage \in Imaging
             /\ p.opt.kind # "preview"
             /\ ~(p.opt.kind = "manual" /\ p.opt.text)
    <3>1. CASE p.stage = "register image"
      <4>1. stage = "summary slot"
        BY <3>1 DEF AfterOpening
      <4> QED
        BY <3>1, <4>1 DEF Imaging
    <3>2. CASE p.stage = "register" /\ p.opt.text
      <4>1. stage = "text"
        BY <3>2 DEF AfterOpening
      <4> QED
        BY <3>2, <4>1 DEF BeforeText
    <3>3. CASE p.stage = "register" /\ ~p.opt.text
      <4>1. stage \in {"open image", "summary slot"}
        BY <3>3 DEF AfterOpening
      <4>2. p.opt.kind # "preview"
        BY <1>1, <3>3 DEF Asked
      <4> QED
        BY <3>3, <4>1, <4>2 DEF BeforeText, Imaging
    <3> QED
      BY <2>1, <3>1, <3>2, <3>3
  <2>4. PICK pools : pools = [d \in Providers |-> IF d \in Creates(t) THEN t
                                                 ELSE p.pools[d]]
    OBVIOUS
  <2>5. pipe' = [pipe EXCEPT ![t] = [a EXCEPT !.pools = pools]]
    BY <2>1, <2>4
  <2>6. IsPipe(a)
    BY <1>1, AtPipe
  <2> HIDE DEF a
  <2>7. [a EXCEPT !.pools = pools] = [a EXCEPT !.first = a.first, !.pools = pools]
    BY <2>6 DEF IsPipe, PipeFields
  <2>8. pipe' = [pipe EXCEPT ![t] =
               [At(@, stage) EXCEPT !.first = a.first, !.pools = pools]]
    BY <2>5, <2>7 DEF a
  <2> HIDE DEF stage
  <2> QED
    BY <1>2, <2>2, <2>3, <2>8
<1> QED
  BY <1>4, <1>5

\* A lane changes what its task has done, not how far it is.
LEMMA LanePipe ==
  ASSUME PipeInv, NEW t \in Tasks, NEW l \in Lanes, LaneSteps(t, l)
  PROVE  \E q : /\ pipe' = [pipe EXCEPT ![t] = q] /\ IsPipe(q)
                /\ q.stage = pipe[t].stage /\ q.opt = pipe[t].opt
                /\ q.sent = pipe[t].sent /\ q.outcome = pipe[t].outcome
                /\ q.first = pipe[t].first
<1>1. IsPipe(pipe[t])
  BY DEF PipeInv, PipeOK
<1>2. CASE LlmSpawn(t, l)
  <2>1. PICK q : q = [pipe[t] EXCEPT !.work[l] = <<Requests(t)[pipe[t].next]>>,
                        !.chunk[l] = pipe[t].next, !.next = @ + 1,
                        !.out = IF pipe[t].next = 1
                                THEN [i \in 1..Len(Requests(t)) |-> <<>>] ELSE @]
    OBVIOUS
  <2>2. /\ IsPipe(q) /\ q.stage = pipe[t].stage /\ q.opt = pipe[t].opt
        /\ q.sent = pipe[t].sent /\ q.outcome = pipe[t].outcome
        /\ q.first = pipe[t].first
    BY <1>1, <2>1 DEF IsPipe, PipeFields
  <2>3. pipe' = [pipe EXCEPT ![t] = q]
    BY <1>1, <1>2, <2>1 DEF LlmSpawn, IsPipe, PipeFields, PipeInv
  <2> QED
    BY <2>2, <2>3
<1>3. CASE PartSummarised(t, l)
  <2>1. PICK q : q = [pipe[t] EXCEPT !.work[l] = Tail(@),
                        !.out[pipe[t].chunk[l]] = @ \o Head(pipe[t].work[l])]
    BY SMTT(30)
  <2>2. /\ IsPipe(q) /\ q.stage = pipe[t].stage /\ q.opt = pipe[t].opt
        /\ q.sent = pipe[t].sent /\ q.outcome = pipe[t].outcome
        /\ q.first = pipe[t].first
    BY <1>1, <2>1 DEF IsPipe, PipeFields
  <2>3. pipe' = [pipe EXCEPT ![t] = q]
    BY <1>1, <1>3, <2>1 DEF PartSummarised, IsPipe, PipeFields, PipeInv
  <2> QED
    BY <2>2, <2>3
<1>4. CASE ContextSplit(t, l)
  <2>1. PICK parts : pipe' = [pipe EXCEPT ![t].work[l] = parts]
    BY <1>4 DEF ContextSplit
  <2>2. PICK q : q = [pipe[t] EXCEPT !.work[l] = parts]
    OBVIOUS
  <2>3. /\ IsPipe(q) /\ q.stage = pipe[t].stage /\ q.opt = pipe[t].opt
        /\ q.sent = pipe[t].sent /\ q.outcome = pipe[t].outcome
        /\ q.first = pipe[t].first
    BY <1>1, <2>2 DEF IsPipe, PipeFields
  <2>4. pipe' = [pipe EXCEPT ![t] = q]
    BY <2>1, <2>2
  <2> QED
    BY <2>3, <2>4
<1>5. CASE PartFailed(t, l)
  <2>1. PICK q : q = [pipe[t] EXCEPT !.work[l] = <<>>, !.error = TRUE]
    OBVIOUS
  <2>2. /\ IsPipe(q) /\ q.stage = pipe[t].stage /\ q.opt = pipe[t].opt
        /\ q.sent = pipe[t].sent /\ q.outcome = pipe[t].outcome
        /\ q.first = pipe[t].first
    BY <1>1, <2>1 DEF IsPipe, PipeFields
  <2>3. pipe' = [pipe EXCEPT ![t] = q]
    BY <1>1, <1>5, <2>1 DEF PartFailed, IsPipe, PipeFields, PipeInv
  <2> QED
    BY <2>2, <2>3
<1> QED
  BY <1>2, <1>3, <1>4, <1>5 DEF LaneSteps

LEMMA LaneInv ==
  ASSUME PipeInv, NEW t \in Tasks, NEW l \in Lanes, LaneSteps(t, l)
  PROVE  PipeInv'
<1>1. Stage(t) \notin Over /\ UNCHANGED health
  BY DEF LaneSteps, LlmSpawn, PartSummarised, ContextSplit, PartFailed, LaneDone,
    LlmStages, Over
<1> QED
  BY <1>1, LanePipe, Works

LEMMA RefusedInv ==
  ASSUME PipeInv, NEW t \in Tasks, RefusedOnce(t)
  PROVE  PipeInv'
<1>1. Stage(t) \in LlmStages /\ Stage(t) \notin Over /\ UNCHANGED health
  BY DEF RefusedOnce, Joined, LlmStages, Over
<1>2. IsPipe(pipe[t])
  BY DEF PipeInv, PipeOK
<1>3. PICK a : a = At(pipe[t], Stage(t))
  OBVIOUS
<1>4. /\ IsPipe(a) /\ a.stage = pipe[t].stage /\ a.opt = pipe[t].opt
      /\ a.sent = pipe[t].sent /\ a.outcome = pipe[t].outcome
  BY <1>2, <1>3, AtPipe DEF Stage
<1>5. PICK q : q = [a EXCEPT !.retried = TRUE]
  OBVIOUS
<1>6. /\ IsPipe(q) /\ q.stage = pipe[t].stage /\ q.opt = pipe[t].opt
      /\ q.sent = pipe[t].sent /\ q.outcome = pipe[t].outcome
  BY <1>4, <1>5 DEF IsPipe, PipeFields
<1>7. pipe' = [pipe EXCEPT ![t] = q]
  BY <1>3, <1>5 DEF RefusedOnce
<1> QED
  BY <1>1, <1>6, <1>7, Works

---------------------------------------------------------------------------
(* The ends of a task.                                                     *)

\* A manual text is out before its image is begun, any other is not.
StandsBeforeImage(p) ==
  /\ p.opt.kind \notin {"preview", "weekly"}
  /\ InOrder(p.sent, p.opt.text)
  /\ IF p.opt.kind = "manual" /\ p.opt.text
     THEN Len(p.sent) = 1 /\ p.sent[1] = "text" ELSE p.sent = <<>>

LEMMA TextOverOK ==
  ASSUME NEW p, PipeOK(p), p.stage = "text", NEW q \in TextOver(p)
  PROVE  PipeOK(q)
<1>1. PICK out : out = FlattenSeq(p.out)
  OBVIOUS
<1>2. PICK written : written = [p EXCEPT !.text = out]
  OBVIOUS
<1>3. PICK sent : sent = Sends(written, "text")
  OBVIOUS
<1>4. IsPipe(p) /\ Asked(p.opt) /\ p.stage \in BeforeText /\ p.outcome = "none"
  BY DEF PipeOK, BeforeText, Over
<1>5. /\ IsPipe(written) /\ written.stage = p.stage /\ written.opt = p.opt
      /\ written.sent = p.sent /\ written.outcome = p.outcome
  BY <1>2, <1>4 DEF IsPipe, PipeFields
<1>6. /\ IsPipe(sent) /\ sent.stage = p.stage /\ sent.opt = p.opt
      /\ sent.sent = Append(p.sent, "text") /\ sent.outcome = p.outcome
  BY <1>3, <1>5, SendsPipe
<1>7. ASSUME p.opt.kind # "weekly"
      PROVE  /\ p.sent = <<>> /\ p.opt.text
             /\ InOrder(p.sent, p.opt.text)
             /\ InOrder(sent.sent, p.opt.text)
             /\ Len(sent.sent) = 1 /\ sent.sent[1] = "text"
  <2>1. p.sent = <<>> /\ p.opt.text /\ InOrder(p.sent, p.opt.text)
    BY <1>4, <1>7 DEF PipeOK, Handed
  <2>2. InOrder(sent.sent, p.opt.text) /\ Len(sent.sent) = 1 /\ sent.sent[1] = "text"
    BY <1>6, <2>1, AddText, Zenon
  <2> QED
    BY <2>1, <2>2
<1>8. CASE p.opt.kind = "preview" /\ q = Ends(written, "produced")
  <2>1. Earned(written, "produced")
    BY <1>5, <1>7, <1>8 DEF Earned
  <2> QED
    BY <1>4, <1>5, <1>8, <2>1, Settles
<1>9. ASSUME p.opt.kind # "preview", NEW o \in {"failed", "produced"}, q = Ends(sent, o)
      PROVE  PipeOK(q)
  <2>1. Earned(sent, o)
    <3>1. ASSUME p.opt.kind # "weekly"
          PROVE  Len(sent.sent) > 0 /\ sent.sent[1] = IF sent.opt.text THEN "text" ELSE "image"
      BY <1>6, <1>7, <3>1
    <3> QED
      BY <1>6, <1>7, <1>9, <3>1 DEF Earned
  <2> QED
    BY <1>4, <1>6, <1>9, <2>1, Settles
<1>10. ASSUME NEW r, NEW stage \in {"open image", "summary slot"}, IsPipe(r),
              r.opt = p.opt, r.outcome = p.outcome, q = At(r, stage),
              StandsBeforeImage(r)
       PROVE  PipeOK(q)
  <2>1. /\ IsPipe(q) /\ q.stage = stage /\ q.opt = p.opt /\ q.sent = r.sent
        /\ q.outcome = "none"
    <3>1. PICK a : a = At(r, stage)
      OBVIOUS
    <3>2. /\ IsPipe(a) /\ a.stage = stage /\ a.opt = r.opt /\ a.sent = r.sent
          /\ a.outcome = r.outcome
      <4>1. IsPipe(r)
        BY <1>10
      <4> QED
        BY <3>1, <4>1, AtPipe, ZenonT(60)
    <3>3. q = a /\ r.opt = p.opt /\ r.outcome = "none"
      BY <1>4, <1>10, <3>1
    <3> QED
      BY <3>2, <3>3
  <2>2. /\ q.stage \in Imaging /\ q.stage \notin BeforeText /\ q.stage # "text"
        /\ q.stage # "write health"
    BY <2>1 DEF Imaging, BeforeText, MediaStages
  <2>3. StandsBeforeImage(q)
    BY <1>10, <2>1 DEF StandsBeforeImage
  <2>4. Handed(q)
    BY <2>1, <2>2, <2>3, Zenon DEF Handed, StandsBeforeImage
  <2> QED
    BY <1>4, <2>1, <2>2, <2>4 DEF PipeOK, Judged
<1>11. \/ p.opt.kind = "preview" /\ q = Ends(written, "produced")
       \/ p.opt.kind # "preview" /\ q \in {Ends(sent, "failed"), Ends(sent, "produced")}
       \/ p.opt.kind = "manual" /\ q = At(sent, "open image")
       \/ p.opt.kind = "scheduled" /\ q = At(written, "summary slot")
  BY <1>1, <1>2, <1>3, <1>4 DEF TextOver, Asked
<1>12. CASE p.opt.kind = "manual" /\ q = At(sent, "open image")
  <2>1. StandsBeforeImage(sent)
    BY <1>6, <1>7, <1>12 DEF StandsBeforeImage
  <2> QED
    BY <1>6, <1>10, <1>12, <2>1
<1>13. CASE p.opt.kind = "scheduled" /\ q = At(written, "summary slot")
  <2>1. StandsBeforeImage(written)
    BY <1>5, <1>7, <1>13 DEF StandsBeforeImage
  <2> QED
    BY <1>5, <1>10, <1>13, <2>1
<1> QED
  BY <1>8, <1>9, <1>11, <1>12, <1>13

LEMMA WithoutImageOK ==
  ASSUME NEW p, PipeOK(p), p.stage \in Imaging, NEW untold, 
         untold \subseteq {"nothing", "failed"}, NEW q \in WithoutImage(p, untold)
  PROVE  PipeOK(q)
<1>1. IsPipe(p) /\ Asked(p.opt)
  BY DEF PipeOK
<1>2. p.opt.kind # "weekly" =>
        /\ InOrder(p.sent, p.opt.text) /\ p.opt.kind # "preview"
        /\ IF p.opt.kind = "manual" /\ p.opt.text
           THEN Len(p.sent) = 1 /\ p.sent[1] = "text" ELSE p.sent = <<>>
  BY DEF PipeOK, Handed
<1>3. CASE Deferred(p)
  <2>1. PICK sent : sent = Sends(p, "text")
    OBVIOUS
  <2>2. PICK o \in {"failed", "produced"} : q = Ends(sent, o)
    BY <1>3, <2>1 DEF WithoutImage
  <2>3. IsPipe(sent) /\ sent.opt = p.opt /\ sent.sent = Append(p.sent, "text")
    BY <1>1, <2>1, SendsPipe
  <2>4. p.opt.kind = "scheduled" /\ p.opt.text /\ p.sent = <<>>
    BY <1>2, <1>3 DEF Deferred
  <2>5. /\ InOrder(sent.sent, p.opt.text) /\ Len(sent.sent) = 1
        /\ sent.sent[1] = "text"
    BY <2>3, <2>4, AddText, Zenon
  <2>6. Len(sent.sent) > 0 /\ sent.sent[1] = IF sent.opt.text THEN "text" ELSE "image"
    BY <2>3, <2>4, <2>5
  <2>7. Earned(sent, o)
    BY <2>3, <2>4, <2>5, <2>6 DEF Earned
  <2> QED
    BY <1>1, <2>2, <2>3, <2>7, Settles
<1>4. CASE ~Deferred(p)
  <2>1. PICK o : /\ q = Ends(p, o)
                 /\ o = "produced" => p.opt.text
    BY <1>4 DEF WithoutImage
  <2>2. ASSUME p.opt.kind # "weekly", o = "produced"
        PROVE  Len(p.sent) > 0 /\ p.sent[1] = IF p.opt.text THEN "text" ELSE "image"
    <3>1. p.opt.text /\ p.opt.kind = "manual"
      BY <1>1, <1>2, <1>4, <2>1, <2>2 DEF Deferred, Asked
    <3> QED
      BY <1>2, <2>2, <3>1
  <2>3. Earned(p, o)
    BY <1>2, <2>2 DEF Earned
  <2> QED
    BY <1>1, <2>1, <2>3, Settles
<1> QED
  BY <1>3, <1>4

LEMMA WithImageOK ==
  ASSUME NEW p, PipeOK(p), p.stage \in Imaging, p.opt.kind # "weekly",
         NEW q \in WithImage(p)
  PROVE  PipeOK(q)
<1>1. IsPipe(p) /\ Asked(p.opt)
  BY DEF PipeOK
<1>2. /\ InOrder(p.sent, p.opt.text) /\ p.opt.kind # "preview"
      /\ IF p.opt.kind = "manual" /\ p.opt.text
         THEN Len(p.sent) = 1 /\ p.sent[1] = "text" ELSE p.sent = <<>>
  BY DEF PipeOK, Handed
<1>3. PICK after : after = IF Deferred(p) THEN Sends(p, "text") ELSE p
  OBVIOUS
<1>4. PICK drawn : drawn = Sends(after, "image")
  OBVIOUS
<1>5. PICK cooled : cooled = Sends(drawn, "cooldown")
  OBVIOUS
<1>6. /\ IsPipe(after) /\ after.opt = p.opt
      /\ InOrder(after.sent, p.opt.text)
      /\ IF p.opt.text THEN Len(after.sent) = 1 /\ after.sent[1] = "text"
         ELSE Len(after.sent) = 0
  <2>1. CASE Deferred(p)
    <3>1. IsPipe(after) /\ after.opt = p.opt /\ after.sent = Append(p.sent, "text")
      BY <1>1, <1>3, <2>1, SendsPipe
    <3>2. p.opt.text /\ p.sent = <<>>
      BY <1>2, <2>1 DEF Deferred
    <3>3. /\ InOrder(after.sent, p.opt.text) /\ Len(after.sent) = 1
          /\ after.sent[1] = "text"
      BY <3>1, <3>2, AddText, Zenon
    <3> QED
      BY <3>1, <3>2, <3>3
  <2>2. CASE ~Deferred(p)
    <3>1. after = p /\ (p.opt.text => p.opt.kind = "manual")
      BY <1>1, <1>2, <1>3, <2>2 DEF Deferred, Asked
    <3>2. Len(<<>>) = 0
      OBVIOUS
    <3> QED
      BY <1>1, <1>2, <3>1, <3>2
  <2> QED
    BY <2>1, <2>2
<1>7. /\ IsPipe(drawn) /\ drawn.opt = p.opt
      /\ drawn.sent = Append(after.sent, "image")
  BY <1>4, <1>6, SendsPipe
<1>8. /\ InOrder(drawn.sent, p.opt.text) /\ Len(drawn.sent) > 0
      /\ drawn.sent[1] = IF p.opt.text THEN "text" ELSE "image"
  <2>1. PICK text \in BOOLEAN : text = p.opt.text
    BY <1>1 DEF Asked
  <2>2. PICK s : s = after.sent
    OBVIOUS
  <2>3. PICK r : r = Append(s, "image")
    OBVIOUS
  <2>4. InOrder(s, text)
    BY <1>6, <2>1, <2>2, Zenon
  <2>5. IF text THEN Len(s) = 1 /\ s[1] = "text" ELSE Len(s) = 0
    BY <1>6, <2>1, <2>2, Zenon
  <2>6. InOrder(r, text) /\ Len(r) > 0 /\ r[1] = IF text THEN "text" ELSE "image"
    BY <2>3, <2>4, <2>5, AddImage, Zenon
  <2>7. r = drawn.sent
    BY <1>7, <2>2, <2>3
  <2> QED
    BY <2>1, <2>6, <2>7, Zenon
<1>9. /\ IsPipe(cooled) /\ cooled.opt = p.opt
      /\ cooled.sent = Append(drawn.sent, "cooldown")
  BY <1>5, <1>7, SendsPipe
<1>10. /\ InOrder(cooled.sent, p.opt.text) /\ Len(cooled.sent) > 0
       /\ cooled.sent[1] = drawn.sent[1]
  <2>1. p.opt.text \in BOOLEAN
    BY <1>1 DEF Asked
  <2> QED
    BY <1>8, <1>9, <2>1, AddCooldown, Zenon
<1>11. CASE q = Ends(cooled, "produced")
  <2>1. Earned(cooled, "produced")
    BY <1>2, <1>8, <1>9, <1>10 DEF Earned
  <2> QED
    BY <1>1, <1>9, <1>11, <2>1, Settles
<1>12. ASSUME NEW o, q = Ends(drawn, o)
       PROVE  PipeOK(q)
  <2>1. Earned(drawn, o)
    BY <1>2, <1>7, <1>8 DEF Earned
  <2> QED
    BY <1>1, <1>7, <1>12, <2>1, Settles
<1>13. CASE q = Ends(after, "failed")
  <2>1. Earned(after, "failed")
    BY <1>2, <1>6 DEF Earned
  <2> QED
    BY <1>1, <1>6, <1>13, <2>1, Settles
<1>14. \/ q = Ends(cooled, "produced")
       \/ \E o : q = Ends(drawn, o)
       \/ q = Ends(after, "failed")
  BY <1>3, <1>4, <1>5 DEF WithImage
<1> QED
  BY <1>11, <1>12, <1>13, <1>14

LEMMA WeeklyOverOK ==
  ASSUME NEW p, PipeOK(p), p.opt.kind = "weekly", NEW drawn \in BOOLEAN,
         NEW q \in WeeklyOver(p, drawn)
  PROVE  PipeOK(q)
<1>1. IsPipe(p) /\ Asked(p.opt)
  BY DEF PipeOK
<1>2. ASSUME NEW r, IsPipe(r), r.opt = p.opt PROVE PipeOK(Ends(r, "nothing"))
  <2>1. Earned(r, "nothing")
    BY <1>2 DEF Earned
  <2> QED
    BY <1>1, <1>2, <2>1, Settles
<1>3. PICK image : image = Sends(p, "image")
  OBVIOUS
<1>4. PICK caption : caption = Sends(image, "text")
  OBVIOUS
<1>5. PICK figures : figures = Sends(caption, "text")
  OBVIOUS
<1>6. PICK plain : plain = Sends(p, "text")
  OBVIOUS
<1>7. /\ IsPipe(image) /\ image.opt = p.opt /\ IsPipe(plain) /\ plain.opt = p.opt
  BY <1>1, <1>3, <1>6, SendsPipe
<1>8. IsPipe(caption) /\ caption.opt = p.opt
  BY <1>4, <1>7, SendsPipe
<1>9. IsPipe(figures) /\ figures.opt = p.opt
  BY <1>5, <1>8, SendsPipe
<1>10. q \in {Ends(caption, "nothing"), Ends(figures, "nothing"), Ends(plain, "nothing")}
  BY <1>3, <1>4, <1>5, <1>6 DEF WeeklyOver
<1> QED
  BY <1>2, <1>7, <1>8, <1>9, <1>10

LEMMA TextInv ==
  ASSUME PipeInv, NEW t \in Tasks, TextSummarised(t) \/ TextFails(t)
  PROVE  PipeInv'
<1>1. PipeOK(pipe[t]) /\ IsPipe(pipe[t]) /\ pipe[t].stage = "text" /\ UNCHANGED health
  BY DEF PipeInv, PipeOK, TextSummarised, TextFails, Stage
<1>2. CASE TextSummarised(t)
  <2>1. PICK q \in TextOver(pipe[t]) : pipe' = [pipe EXCEPT ![t] = q]
    BY <1>2 DEF TextSummarised
  <2> QED
    BY <1>1, <2>1, TextOverOK, OnePipe
<1>3. CASE TextFails(t)
  <2>1. PICK q : q = Ends(pipe[t], "failed")
    OBVIOUS
  <2>2. Asked(pipe[t].opt) /\ Earned(pipe[t], "failed")
    BY <1>1 DEF PipeOK, Handed, Earned
  <2>3. PipeOK(q)
    BY <1>1, <2>1, <2>2, Settles
  <2>4. pipe' = [pipe EXCEPT ![t] = q]
    BY <1>3, <2>1 DEF TextFails
  <2> QED
    BY <1>1, <2>3, <2>4, OnePipe
<1> QED
  BY <1>2, <1>3

Queues ==
  /\ Queue(prompts, "wait for prompt", pipe)
  /\ Queue(summaries, "wait for summary", pipe)

Waiting == {"wait for prompt", "wait for summary"}

LEMMA QueueHead ==
  ASSUME NEW q, NEW stage, NEW progress, Queue(q, stage, progress), q # <<>>
  PROVE  progress[Head(q)].stage = stage
<1>1. q \in Seq(Tasks)
  BY DEF Queue
<1>2. 1 \in 1..Len(q) /\ Head(q) = q[1]
  BY <1>1
<1> QED
  BY <1>2 DEF Queue

\* A task that does not wait is in no queue.
LEMMA QueueKept ==
  ASSUME NEW q, NEW stage, NEW progress, Queue(q, stage, progress),
         NEW t, progress[t].stage # stage,
         NEW then, \A u \in Tasks \ {t} : then[u] = progress[u]
  PROVE  Queue(q, stage, then)
<1>1. \A i \in 1..Len(q) : q[i] \in Tasks \ {t}
  BY DEF Queue
<1> QED
  BY <1>1 DEF Queue

LEMMA QueueJoined ==
  ASSUME NEW q, NEW stage, NEW progress, Queue(q, stage, progress),
         NEW t \in Tasks, progress[t].stage # stage,
         NEW then, then[t].stage = stage,
         \A u \in Tasks \ {t} : then[u] = progress[u]
  PROVE  Queue(Append(q, t), stage, then)
<1> DEFINE r == Append(q, t)
<1>1. q \in Seq(Tasks) /\ Len(q) \in Nat
  BY DEF Queue
<1>2. /\ r \in Seq(Tasks) /\ Len(r) = Len(q) + 1 /\ r[Len(q) + 1] = t
      /\ \A i \in 1..Len(q) : r[i] = q[i]
  BY <1>1, AppendProperties
<1> HIDE DEF r
<1>3. \A i \in 1..Len(r) : i \in 1..Len(q) \/ i = Len(q) + 1
  BY <1>1, <1>2
<1>4. \A i \in 1..Len(q) : q[i] \in Tasks \ {t} /\ progress[q[i]].stage = stage
  BY <1>1 DEF Queue
<1>5. \A i \in 1..Len(r) : then[r[i]].stage = stage
  BY <1>2, <1>3, <1>4
<1>6. \A i, j \in 1..Len(r) : r[i] = r[j] => i = j
  BY <1>2, <1>3, <1>4 DEF Queue
<1>7. Queue(r, stage, then)
  BY <1>2, <1>5, <1>6 DEF Queue
<1> QED
  BY <1>7 DEF r

LEMMA QueueServed ==
  ASSUME NEW q, NEW stage, NEW progress, Queue(q, stage, progress), q # <<>>,
         NEW then, \A u \in Tasks \ {Head(q)} : then[u] = progress[u]
  PROVE  Queue(Tail(q), stage, then)
<1> DEFINE r == Tail(q)
           t == Head(q)
<1>1. q \in Seq(Tasks) /\ Len(q) \in Nat /\ Len(q) # 0
  BY DEF Queue
<1>2. /\ r \in Seq(Tasks) /\ Len(r) = Len(q) - 1 /\ t = q[1]
      /\ \A i \in 1..Len(r) : r[i] = q[i + 1]
  BY <1>1
<1> HIDE DEF r, t
<1>3. \A i \in 1..Len(r) : i + 1 \in 1..Len(q) /\ i + 1 # 1
  BY <1>1, <1>2
<1>4. 1 \in 1..Len(q)
  BY <1>1
<1>5. \A i \in 1..Len(r) : r[i] \in Tasks \ {t} /\ progress[r[i]].stage = stage
  BY <1>1, <1>2, <1>3, <1>4 DEF Queue
<1>6. \A i \in 1..Len(r) : then[r[i]].stage = stage
  BY <1>5 DEF t
<1>7. \A i, j \in 1..Len(r) : r[i] = r[j] => i = j
  BY <1>2, <1>3 DEF Queue
<1>8. Queue(r, stage, then)
  BY <1>2, <1>6, <1>7 DEF Queue
<1> QED
  BY <1>8 DEF r

LEMMA SlotInv ==
  ASSUME PipeInv, NEW t \in Tasks,
         Queues,
         RequestSlot(t) \/ GrantSlot(t) \/ StageOver(t) \/ Draw(t)
  PROVE  PipeInv'
<1>1. PICK stage : pipe' = [pipe EXCEPT ![t] = At(@, stage)] /\ UNCHANGED health
                   /\ Stage(t) \in Imaging /\ stage \in Imaging
  <2>1. CASE RequestSlot(t)
    BY <2>1 DEF RequestSlot, Imaging
  <2>2. CASE GrantSlot(t)
    <3>1. Stage(t) = "wait for prompt" \/ Stage(t) = "wait for summary"
      BY <2>2, QueueHead DEF GrantSlot, Queues, Stage
    <3> QED
      BY <2>2, <3>1 DEF GrantSlot, Imaging
  <2>3. CASE StageOver(t)
    BY <2>3 DEF StageOver, Slotted, Imaging
  <2>4. CASE Draw(t)
    BY <2>4 DEF Draw, Imaging
  <2> QED
    BY <2>1, <2>2, <2>3, <2>4
<1>2. Stage(t) \notin Over /\ stage \notin Over
  BY <1>1 DEF Imaging, Over
<1> QED
  BY <1>1, <1>2, Enters1

LEMMA NoImageInv ==
  ASSUME PipeInv, NEW t \in Tasks, StageTimeout(t) \/ PreparationFails(t)
  PROVE  PipeInv'
<1>1. PICK q \in WithoutImage(pipe[t], {"failed"}) : pipe' = [pipe EXCEPT ![t] = q]
  BY DEF StageTimeout, PreparationFails
<1>2. PipeOK(pipe[t]) /\ pipe[t].stage \in Imaging /\ UNCHANGED health
  BY DEF PipeInv, StageTimeout, PreparationFails, Slotted, Stage, Imaging
<1>3. PipeOK(q)
  BY <1>2, WithoutImageOK
<1> QED
  BY <1>1, <1>2, <1>3, OnePipe

LEMMA ImageInv ==
  ASSUME PipeInv, NEW t \in Tasks, ImageOver(t)
  PROVE  PipeInv'
<1>1. PICK drawn \in BOOLEAN : drawn = (call[<<t, 1>>].result = "ok")
  OBVIOUS
<1>2. PICK q : /\ pipe' = [pipe EXCEPT ![t] = q]
               /\ \/ pipe[t].opt.kind = "weekly" /\ q \in WeeklyOver(pipe[t], drawn)
                  \/ pipe[t].opt.kind # "weekly" /\ q \in WithImage(pipe[t])
                  \/ q \in WithoutImage(pipe[t], {"nothing", "failed"})
  BY <1>1 DEF ImageOver
<1>3. PipeOK(pipe[t]) /\ pipe[t].stage \in Imaging /\ UNCHANGED health
  BY DEF PipeInv, ImageOver, Stage, Imaging
<1>4. PipeOK(q)
  BY <1>2, <1>3, WeeklyOverOK, WithImageOK, WithoutImageOK
<1> QED
  BY <1>2, <1>3, <1>4, OnePipe

---------------------------------------------------------------------------
(* The health of the primary.                                              *)

\* A finished task only records.
LEMMA Concludes ==
  ASSUME NEW p, PipeOK(p), p.stage \in Over, NEW q, IsPipe(q), Judged(q),
         q.stage \in Over, q.opt = p.opt, q.sent = p.sent, q.outcome = p.outcome
  PROVE  PipeOK(q)
<1>1. q.stage \notin BeforeText \cup Imaging
  BY DEF Over, BeforeText, Imaging, MediaStages
<1>2. p.opt.kind # "weekly" => Handed(q)
  BY <1>1 DEF PipeOK, Handed, BeforeText
<1> QED
  BY <1>2 DEF PipeOK

LEMMA FinishedPipe ==
  ASSUME NEW p, IsPipe(p)
  PROVE  /\ IsPipe(Finished(p)) /\ Finished(p).stage = "ended"
         /\ Finished(p).opt = p.opt /\ Finished(p).sent = p.sent
         /\ Finished(p).outcome = p.outcome
<1>1. PICK a : a = At(p, "ended")
  OBVIOUS
<1>2. /\ IsPipe(a) /\ a.stage = "ended" /\ a.opt = p.opt /\ a.sent = p.sent
      /\ a.outcome = p.outcome
  BY <1>1, AtPipe
<1>3. Finished(p) = [a EXCEPT !.pools = NoPools, !.first = 0,
                              !.seen = [failures |-> 0, open |-> FALSE]]
  BY <1>1 DEF Finished
<1> QED
  BY <1>2, <1>3 DEF IsPipe, PipeFields

LEMMA ReadInv ==
  ASSUME PipeInv, NEW t \in Tasks, ReadHealth(t)
  PROVE  PipeInv'
<1> DEFINE p == pipe[t]
<1>1. PipeOK(p) /\ IsPipe(p) /\ p.stage = "read health" /\ UNCHANGED health
  BY DEF PipeInv, PipeOK, ReadHealth, Stage
<1>2. p.stage \in Over
  BY <1>1 DEF Over
<1>3. CASE Records(p)
  <2>1. PICK a : a = At(p, "write health")
    OBVIOUS
  <2>2. /\ IsPipe(a) /\ a.stage = "write health" /\ a.opt = p.opt /\ a.sent = p.sent
        /\ a.outcome = p.outcome
    BY <1>1, <2>1, AtPipe, ZenonT(60)
  <2>3. PICK q : q = [a EXCEPT !.seen = health]
    OBVIOUS
  <2>4. /\ IsPipe(q) /\ q.stage = "write health" /\ q.opt = p.opt /\ q.sent = p.sent
        /\ q.outcome = p.outcome /\ q.seen = health
    BY <2>2, <2>3 DEF IsPipe, PipeFields
  <2>5. /\ p.outcome \in {"produced", "failed"}
        /\ health.open => p.outcome = "failed"
    BY <1>3 DEF Records
  <2>6. Judged(q)
    BY <2>4, <2>5 DEF Judged, PipeInv
  <2>7. q.stage \in Over
    BY <2>4 DEF Over
  <2>8. PipeOK(q)
    BY <1>1, <1>2, <2>4, <2>6, <2>7, Concludes
  <2>9. pipe' = [pipe EXCEPT ![t] = q]
    BY <1>3, <2>1, <2>3 DEF ReadHealth
  <2> QED
    BY <1>1, <2>8, <2>9, OnePipe
<1>4. CASE ~Records(p)
  <2>1. PICK q : q = Finished(p)
    OBVIOUS
  <2>2. /\ IsPipe(q) /\ q.stage = "ended" /\ q.opt = p.opt /\ q.sent = p.sent
        /\ q.outcome = p.outcome
    BY <1>1, <2>1, FinishedPipe
  <2>3. Judged(q) /\ q.stage \in Over
    BY <2>2 DEF Judged, Over
  <2>4. PipeOK(q)
    BY <1>1, <1>2, <2>2, <2>3, Concludes
  <2>5. pipe' = [pipe EXCEPT ![t] = q]
    BY <1>4, <2>1 DEF ReadHealth
  <2> QED
    BY <1>1, <2>4, <2>5, OnePipe
<1> QED
  BY <1>3, <1>4

\* What a task records after an open circuit keeps it open.
LEMMA Written ==
  ASSUME PipeInv, NEW t \in Tasks, WriteHealth(t)
  PROVE  /\ health' \in HealthRow
         /\ health'.open => health'.failures >= 3
         /\ pipe[t].seen.open => health'.open
<1>1. /\ pipe[t].stage = "write health" /\ Judged(pipe[t])
      /\ pipe[t].seen \in HealthRow
  BY DEF PipeInv, PipeOK, WriteHealth, Stage, Judged
<1>2. PICK failures : /\ failures = IF pipe[t].outcome = "failed"
                                    THEN pipe[t].seen.failures + 1 ELSE 0
                      /\ health' = [failures |-> failures, open |-> failures >= 3]
  BY DEF WriteHealth
<1>3. failures \in Nat /\ (pipe[t].seen.open => failures >= 3)
  <2>1. PICK seen \in HealthRow : seen = pipe[t].seen
    BY <1>1
  <2>2. seen.failures \in Nat
    BY DEF HealthRow
  <2>3. seen.open => pipe[t].outcome = "failed" /\ seen.failures >= 3
    BY <1>1, <2>1, Zenon DEF Judged
  <2>4. CASE pipe[t].outcome = "failed"
    <3>1. failures = seen.failures + 1
      BY <1>2, <2>1, <2>4
    <3>2. PICK read \in Nat : read = seen.failures
      BY <2>2
    <3>3. failures \in Nat /\ (read >= 3 => failures >= 3)
      BY <3>1, <3>2
    <3> QED
      BY <2>1, <2>3, <3>2, <3>3, Zenon
  <2>5. CASE pipe[t].outcome # "failed"
    <3>1. failures = 0
      BY <1>2, <2>5
    <3>2. ~pipe[t].seen.open
      BY <2>1, <2>3, <2>5, Zenon
    <3> QED
      BY <3>1, <3>2
  <2> QED
    BY <2>4, <2>5
<1>5. health'.failures = failures /\ health'.open = (failures >= 3)
  BY <1>2
<1>6. (failures >= 3) \in BOOLEAN
  OBVIOUS
<1>7. health' \in HealthRow
  BY <1>2, <1>3, <1>6 DEF HealthRow
<1>8. health'.open => health'.failures >= 3
  BY <1>5
<1>9. pipe[t].seen.open => health'.open
  BY <1>3, <1>5, Zenon
<1> QED
  BY <1>7, <1>8, <1>9

LEMMA WriteInv ==
  ASSUME PipeInv, NEW t \in Tasks, WriteHealth(t)
  PROVE  PipeInv'
<1>1. PipeOK(pipe[t]) /\ IsPipe(pipe[t]) /\ pipe[t].stage \in Over
  BY DEF PipeInv, PipeOK, WriteHealth, Stage, Over
<1>2. PICK q : q = Finished(pipe[t])
  OBVIOUS
<1>3. /\ IsPipe(q) /\ q.stage = "ended" /\ q.opt = pipe[t].opt
      /\ q.sent = pipe[t].sent /\ q.outcome = pipe[t].outcome
  BY <1>1, <1>2, FinishedPipe
<1>4. Judged(q) /\ q.stage \in Over
  BY <1>3 DEF Judged, Over
<1>5. PipeOK(q)
  BY <1>1, <1>3, <1>4, Concludes
<1>6. pipe' = [pipe EXCEPT ![t] = q]
  BY <1>2 DEF WriteHealth
<1>7. pipe' = [u \in Tasks |-> pipe'[u]]
  BY <1>6 DEF PipeInv
<1>8. \A u \in Tasks : pipe'[u] = IF u = t THEN q ELSE pipe[u]
  BY <1>6 DEF PipeInv
<1>9. \A u \in Tasks : PipeOK(pipe'[u])
  BY <1>5, <1>8 DEF PipeInv
<1> QED
  BY <1>7, <1>9, Written DEF PipeInv

LEMMA ExpiresInv ==
  ASSUME PipeInv, CircuitExpires
  PROVE  PipeInv'
<1>1. UNCHANGED pipe /\ health' = [health EXCEPT !.open = FALSE] /\ health \in HealthRow
  BY DEF PipeInv, CircuitExpires
<1>2. health' \in HealthRow /\ ~health'.open
  BY <1>1 DEF HealthRow
<1> QED
  BY <1>1, <1>2 DEF PipeInv

---------------------------------------------------------------------------
(* The queues of the slots.                                                *)

LEMMA QueuesInv ==
  ASSUME PipeInv, Queues, [Next]_vars
  PROVE  Queues'
<1>1. ASSUME UNCHANGED <<pipe, prompts, summaries>> PROVE Queues'
  BY <1>1 DEF Queues
<1>2. ASSUME NEW t \in Tasks, UNCHANGED <<prompts, summaries>>, Stage(t) \notin Waiting,
             \A u \in Tasks \ {t} : pipe'[u] = pipe[u]
      PROVE  Queues'
  BY <1>2, QueueKept DEF Queues, Waiting, Stage
<1>3. ASSUME NEW t \in Tasks, NEW stage, pipe' = [pipe EXCEPT ![t] = At(@, stage)]
      PROVE  /\ \A u \in Tasks \ {t} : pipe'[u] = pipe[u]
             /\ pipe'[t].stage = stage
  <2>1. IsPipe(pipe[t])
    BY DEF PipeInv, PipeOK
  <2>2. At(pipe[t], stage).stage = stage
    BY <2>1, AtPipe
  <2>3. pipe'[t] = At(pipe[t], stage)
    BY <1>3 DEF PipeInv
  <2> QED
    BY <1>3, <2>2, <2>3 DEF PipeInv
<1>4. ASSUME NEW t \in Tasks, RequestSlot(t) PROVE Queues'
  <2>1. CASE /\ Stage(t) = "summary slot" /\ summaries' = Append(summaries, t)
             /\ pipe' = [pipe EXCEPT ![t] = At(@, "wait for summary")]
             /\ UNCHANGED prompts
    <3>1. /\ \A u \in Tasks \ {t} : pipe'[u] = pipe[u]
          /\ pipe'[t].stage = "wait for summary"
      BY <1>3, <2>1
    <3>2. pipe[t].stage = "summary slot"
      BY <2>1 DEF Stage
    <3>3. Queue(Append(summaries, t), "wait for summary", pipe')
      BY <3>1, <3>2, QueueJoined DEF Queues
    <3>4. Queue(prompts, "wait for prompt", pipe')
      BY <3>1, <3>2, QueueKept DEF Queues
    <3> QED
      BY <2>1, <3>3, <3>4 DEF Queues
  <2>2. CASE /\ Stage(t) = "prompt slot" /\ prompts' = Append(prompts, t)
             /\ pipe' = [pipe EXCEPT ![t] = At(@, "wait for prompt")]
             /\ UNCHANGED summaries
    <3>1. /\ \A u \in Tasks \ {t} : pipe'[u] = pipe[u]
          /\ pipe'[t].stage = "wait for prompt"
      BY <1>3, <2>2
    <3>2. pipe[t].stage = "prompt slot"
      BY <2>2 DEF Stage
    <3>3. Queue(Append(prompts, t), "wait for prompt", pipe')
      BY <3>1, <3>2, QueueJoined DEF Queues
    <3>4. Queue(summaries, "wait for summary", pipe')
      BY <3>1, <3>2, QueueKept DEF Queues
    <3> QED
      BY <2>2, <3>3, <3>4 DEF Queues
  <2> QED
    BY <1>4, <2>1, <2>2 DEF RequestSlot
<1>5. ASSUME NEW t \in Tasks, GrantSlot(t) PROVE Queues'
  <2>1. \A u \in Tasks \ {t} : pipe'[u] = pipe[u]
    BY <1>3, <1>5 DEF GrantSlot
  <2>2. CASE /\ prompts # <<>> /\ t = Head(prompts) /\ prompts' = Tail(prompts)
             /\ UNCHANGED summaries
    <3>1. Queue(prompts', "wait for prompt", pipe')
      BY <2>1, <2>2, QueueServed DEF Queues
    <3>2. pipe[t].stage = "wait for prompt"
      BY <2>2, QueueHead DEF Queues
    <3>3. Queue(summaries', "wait for summary", pipe')
      BY <2>1, <2>2, <3>2, QueueKept DEF Queues
    <3> QED
      BY <3>1, <3>3 DEF Queues
  <2>3. CASE /\ summaries # <<>> /\ t = Head(summaries) /\ summaries' = Tail(summaries)
             /\ UNCHANGED prompts
    <3>1. Queue(summaries', "wait for summary", pipe')
      BY <2>1, <2>3, QueueServed DEF Queues
    <3>2. pipe[t].stage = "wait for summary"
      BY <2>3, QueueHead DEF Queues
    <3>3. Queue(prompts', "wait for prompt", pipe')
      BY <2>1, <2>3, <3>2, QueueKept DEF Queues
    <3> QED
      BY <3>1, <3>3 DEF Queues
  <2> QED
    BY <1>5, <2>2, <2>3 DEF GrantSlot
<1>6. ASSUME NEW t \in Tasks, Captions(t) \/ Videos(t) \/ Voices(t)
      PROVE  Queues'
  <2>1. Stage(t) \notin Waiting /\ UNCHANGED <<prompts, summaries>>
    BY <1>6 DEF Captions, Videos, Voices, Waiting, slots
  <2>2. \A u \in Tasks \ {t} : pipe'[u] = pipe[u]
    BY <1>6 DEF Captions, Videos, Voices, MediaSpawn, MediaJoined, MediaRefused,
      MediaOver, PipeInv
  <2> QED
    BY <1>2, <2>1, <2>2
<1>7. ASSUME NEW t \in Tasks,
             \/ Open(t) \/ Register(t) \/ RefusedOnce(t) \/ TextSummarised(t)
             \/ TextFails(t) \/ StageOver(t) \/ StageTimeout(t) \/ PreparationFails(t)
             \/ Draw(t) \/ ImageOver(t) \/ ReadHealth(t) \/ WriteHealth(t)
      PROVE  Queues'
  <2>1. Stage(t) \notin Waiting /\ UNCHANGED <<prompts, summaries>>
    BY <1>7 DEF Open, Opens, Register, RefusedOnce, Joined, TextSummarised, TextFails,
      StageOver, StageTimeout, PreparationFails, Draw, ImageOver, ReadHealth,
      WriteHealth, Slotted, LlmStages, Waiting, slots
  <2>2. \A u \in Tasks \ {t} : pipe'[u] = pipe[u]
    BY <1>7, ZenonT(60) DEF Open, Opens, Register, RefusedOnce, TextSummarised, TextFails,
      StageOver, StageTimeout, PreparationFails, Draw, ImageOver, ReadHealth,
      WriteHealth, PipeInv
  <2> QED
    BY <1>2, <2>1, <2>2
<1>8. ASSUME NEW t \in Tasks, NEW l \in Lanes, LaneSteps(t, l) PROVE Queues'
  <2>1. Stage(t) \notin Waiting /\ UNCHANGED <<prompts, summaries>>
    BY <1>8, ZenonT(60) DEF LaneSteps, LlmSpawn, PartSummarised, ContextSplit, PartFailed,
      LaneDone, LlmStages, Waiting, slots
  <2>2. \A u \in Tasks \ {t} : pipe'[u] = pipe[u]
    BY <1>8 DEF LaneSteps, LlmSpawn, PartSummarised, ContextSplit, PartFailed, PipeInv
  <2> QED
    BY <1>2, <2>1, <2>2
<1>9. CASE \E c \in Calls : CallSteps(c)
  BY <1>1, <1>9 DEF CallSteps, slots
<1>10. CASE CircuitExpires
  BY <1>1, <1>10 DEF CircuitExpires, slots
<1>11. CASE Done \/ UNCHANGED vars
  BY <1>1, <1>11 DEF Done, vars
<1> QED
  BY <1>4, <1>5, <1>6, <1>7, <1>8, <1>9, <1>10, <1>11 DEF Next, TaskSteps

---------------------------------------------------------------------------
(* What is proved of every summary.                                        *)

Inv == PipeInv /\ Queues

LEMMA InitInv == Init => Inv
<1> SUFFICES ASSUME Init PROVE Inv
  OBVIOUS
<1>1. PICK s \in Scenarios : pipe = [t \in Tasks |-> NewPipe(s[t])]
  BY DEF Init
<1>2. ASSUME NEW t \in Tasks PROVE PipeOK(pipe[t])
  <2>1. PICK opt : opt = s[t]
    OBVIOUS
  <2>2. Asked(opt)
    BY <1>1, <2>1, GenerationAssumption DEF Asked
  <2>3. PICK p : p = NewPipe(opt)
    OBVIOUS
  <2>4. /\ IsPipe(p) /\ p.opt = opt /\ p.sent = <<>> /\ p.outcome = "none"
        /\ p.stage = IF opt.kind = "weekly" THEN "draw" ELSE "caption"
    BY <2>3 DEF NewPipe, IsPipe, PipeFields
  <2>5. p.stage \in {"draw", "caption"}
    BY <2>4
  <2>6. p.stage # "write health" /\ p.stage \notin Over /\ p.stage # "text"
    BY <2>5 DEF Over
  <2>7. ASSUME p.opt.kind # "weekly" PROVE p.stage \in BeforeText /\ Handed(p)
    <3>1. p.stage = "caption"
      BY <2>4, <2>7
    <3>2. p.stage \in BeforeText /\ p.stage \notin Imaging
      BY <3>1 DEF BeforeText, Imaging, MediaStages
    <3>3. InOrder(p.sent, p.opt.text)
      BY <2>4, Nothing
    <3> QED
      BY <2>4, <2>6, <3>2, <3>3 DEF Handed
  <2>8. PipeOK(p)
    BY <2>2, <2>4, <2>6, <2>7 DEF PipeOK, Judged
  <2> QED
    BY <1>1, <2>1, <2>3, <2>8
<1>3. health \in HealthRow /\ ~health.open
  BY GenerationAssumption DEF Init, HealthRow
<1>4. PipeInv
  BY <1>1, <1>2, <1>3 DEF PipeInv
<1>5. Queues
  BY EmptySeq DEF Init, Queues, Queue
<1> QED
  BY <1>4, <1>5 DEF Inv

LEMMA NextInv == Inv /\ [Next]_vars => Inv'
<1> SUFFICES ASSUME PipeInv, Queues, [Next]_vars PROVE PipeInv' /\ Queues'
  BY DEF Inv
<1>1. ASSUME NEW c \in Calls, CallSteps(c) PROVE PipeInv'
  BY <1>1, NoChange DEF CallSteps
<1>2. ASSUME NEW t \in Tasks, TaskSteps(t) PROVE PipeInv'
  BY <1>2, MediaInv, OpensInv, RefusedInv, TextInv, SlotInv, NoImageInv, ImageInv,
    ReadInv, WriteInv DEF TaskSteps
<1>3. ASSUME NEW t \in Tasks, NEW l \in Lanes, LaneSteps(t, l) PROVE PipeInv'
  BY <1>3, LaneInv
<1>4. ASSUME CircuitExpires PROVE PipeInv'
  BY <1>4, ExpiresInv
<1>5. ASSUME Done \/ UNCHANGED vars PROVE PipeInv'
  BY <1>5, NoChange DEF Done, vars
<1>6. PipeInv'
  BY <1>1, <1>2, <1>3, <1>4, <1>5 DEF Next
<1> QED
  BY <1>6, QueuesInv

LEMMA AlwaysInv == Spec => []Inv
BY InitInv, NextInv, PTL DEF Spec

\* The indices at which a text or an image was handed over.
LEMMA AtMostOne ==
  ASSUME NEW S, NEW i, \A j \in S : j = i
  PROVE  Cardinality(S) =< 1
<1>1. CASE S = {}
  BY <1>1, FS_EmptySet
<1>2. CASE S # {}
  <2>1. S = {i}
    BY <1>2
  <2>2. Cardinality({i}) = 1
    BY FS_Singleton
  <2> QED
    BY <2>1, <2>2
<1> QED
  BY <1>1, <1>2

\* Every summary hands over its text once and before its image, and what it
\* reports as produced it has handed over: deliver_outboxed_text and
\* deliver_outboxed_image on every path of run_summary_pipeline.
THEOREM HandedOverOnce == Spec => []TextDelivered
<1>1. ASSUME PipeInv, NEW t \in Tasks, pipe[t].opt.kind # "weekly"
      PROVE
        /\ Cardinality(Sent(t, "text")) =< 1
        /\ Cardinality(Sent(t, "image")) =< 1
        /\ \A i \in Sent(t, "image") : pipe[t].opt.text => \E j \in Sent(t, "text") : j < i
        /\ pipe[t].outcome = "produced" =>
             \/ pipe[t].opt.text /\ (pipe[t].opt.kind = "preview" <=> Sent(t, "text") = {})
             \/ ~pipe[t].opt.text /\ Sent(t, "image") # {}
        /\ pipe[t].opt.kind = "preview" => pipe[t].sent = <<>>
  <2> DEFINE p == pipe[t]
  <2>1. PipeOK(p) /\ Handed(p) /\ Asked(p.opt)
    BY <1>1 DEF PipeInv, PipeOK
  <2>2. PICK s : s = p.sent
    OBVIOUS
  <2>3. PICK text \in BOOLEAN : text = p.opt.text
    BY <2>1 DEF Asked
  <2>4. InOrder(s, text)
    BY <2>1, <2>2, <2>3 DEF Handed
  <2>5. DOMAIN s = 1..Len(s) /\ Len(s) \in Nat
    BY <2>4 DEF InOrder
  <2>6. \A what : Sent(t, what) = {i \in 1..Len(s) : s[i] = what}
    BY <2>2, <2>5 DEF Sent
  <2>7. Cardinality(Sent(t, "text")) =< 1
    BY <2>4, <2>6, AtMostOne DEF InOrder
  <2>8. Cardinality(Sent(t, "image")) =< 1
    BY <2>4, <2>6, AtMostOne DEF InOrder
  <2>9. ASSUME NEW i \in Sent(t, "image"), text PROVE \E j \in Sent(t, "text") : j < i
    <3>1. i \in 1..Len(s) /\ s[i] = "image"
      BY <2>6, <2>9
    <3>2. s[1] = "text"
      BY <2>4, <2>9, <3>1 DEF InOrder
    <3>3. i = 2 /\ 1 \in 1..Len(s)
      BY <2>4, <2>5, <3>1, <3>2 DEF InOrder
    <3>4. 1 \in Sent(t, "text") /\ 1 < i
      BY <2>6, <3>2, <3>3
    <3> QED
      BY <3>4
  <2>10. ASSUME p.opt.kind = "preview"
         PROVE  text /\ p.sent = <<>> /\ Sent(t, "text") = {}
    <3>1. text /\ s = <<>>
      BY <2>1, <2>2, <2>3, <2>10 DEF Asked, Handed
    <3> QED
      BY <2>2, <2>6, <3>1
  <2>11. ASSUME p.outcome = "produced", p.opt.kind # "preview"
         PROVE  IF text THEN Sent(t, "text") # {} ELSE Sent(t, "image") # {}
    <3>1. Len(s) > 0 /\ s[1] = IF text THEN "text" ELSE "image"
      BY <2>1, <2>2, <2>3, <2>11 DEF Handed
    <3>2. 1 \in 1..Len(s)
      BY <2>5, <3>1
    <3> QED
      BY <2>6, <3>1, <3>2
  <2> QED
    BY <2>3, <2>7, <2>8, <2>9, <2>10, <2>11
<1>2. PipeInv => TextDelivered
  BY <1>1 DEF TextDelivered
<1> QED
  BY <1>2, AlwaysInv, PTL DEF Inv

\* record_primary_llm_health and routed_llm_config: whatever tasks read and
\* write the row between each other, only the expiry of an open circuit or a
\* task that read the row while it was closed closes it.
THEOREM OpenUntilExpiry == Spec => CircuitHolds
<1>1. ASSUME PipeInv, [Next]_vars, health.open, ~health'.open
      PROVE  CircuitExpires \/ \E t \in Tasks : /\ pipe[t].stage = "write health"
                                                /\ pipe'[t].stage = "ended"
                                                /\ ~pipe[t].seen.open
  <2>1. ASSUME NEW t \in Tasks, WriteHealth(t)
        PROVE  /\ pipe[t].stage = "write health" /\ pipe'[t].stage = "ended"
               /\ ~pipe[t].seen.open
    <3>1. IsPipe(pipe[t])
      BY <1>1 DEF PipeInv, PipeOK
    <3>2. Finished(pipe[t]).stage = "ended"
      BY <3>1, FinishedPipe
    <3>3. pipe'[t] = Finished(pipe[t]) /\ pipe[t].stage = "write health"
      BY <1>1, <2>1 DEF WriteHealth, PipeInv, Stage
    <3>4. pipe[t].seen.open => health'.open
      BY <1>1, <2>1, Written
    <3> QED
      BY <1>1, <3>2, <3>3, <3>4
  <2>2. CircuitExpires \/ \E t \in Tasks : WriteHealth(t)
    <3>1. health' # health
      BY <1>1
    <3>2. ASSUME NEW c \in Calls, CallSteps(c) PROVE FALSE
      BY <3>1, <3>2 DEF CallSteps
    <3>3. ASSUME NEW t \in Tasks, TaskSteps(t), ~WriteHealth(t) PROVE FALSE
      BY <3>1, <3>3 DEF TaskSteps, Captions, Videos, Voices, Open, Opens, Register,
        RefusedOnce, TextSummarised, TextFails, RequestSlot, GrantSlot, StageOver,
        StageTimeout, PreparationFails, Draw, ImageOver, ReadHealth
    <3>4. ASSUME NEW t \in Tasks, NEW l \in Lanes, LaneSteps(t, l) PROVE FALSE
      BY <3>1, <3>4 DEF LaneSteps, LlmSpawn, PartSummarised, ContextSplit, PartFailed
    <3> QED
      BY <1>1, <3>1, <3>2, <3>3, <3>4 DEF Next, Done, vars
  <2> QED
    BY <2>1, <2>2
<1>2. PipeInv /\ [Next]_vars =>
        [health.open /\ ~health'.open =>
           CircuitExpires \/ \E t \in Tasks : /\ pipe[t].stage = "write health"
                                              /\ pipe'[t].stage = "ended"
                                              /\ ~pipe[t].seen.open]_vars
  BY <1>1
<1> QED
  BY <1>2, AlwaysInv, PTL DEF Spec, Inv, CircuitHolds

---------------------------------------------------------------------------
(* The calls: each step of one under way brings it nearer to its end.      *)

CallFields ==
  {"client", "provider", "first", "pools", "using", "features", "loop", "at",
   "key", "attempt", "polls", "result"}

\* Media have one provider only, so only a chat and an image fail over.
CallOK(r) ==
  /\ r = [f \in CallFields |-> r[f]]
  /\ r.provider \in Nat /\ r.attempt \in Nat /\ r.polls \in Nat
  /\ r.client \notin {"chat", "image"} => r.provider = 0

CallInv == call = [c \in Calls |-> call[c]] /\ \A c \in Calls : CallOK(call[c])

Resolved(r) == r.at \in {"idle", "done"}

\* A call that r may become.
Follows(s, r) == CallOK(s) /\ (Resolved(r) \/ Nearer(s, r))

CallMoves(c) == \E s : Follows(s, call[c]) /\ call' = [call EXCEPT ![c] = s]

LEMMA NewOK ==
  ASSUME NEW client, NEW provider \in Nat, NEW pools, NEW using, NEW features,
         client \notin {"chat", "image"} => provider = 0
  PROVE  /\ CallOK(NewCall(client, provider, pools, using, features))
         /\ NewCall(client, provider, pools, using, features).provider = provider
         /\ NewCall(client, provider, pools, using, features).loop = "complete"
BY DEF CallOK, CallFields, NewCall

LEMMA NoCallOK == CallOK(NoCall) /\ NoCall.at = "idle"
<1>1. PICK r : r = NewCall("chat", 0, NoPools, {}, {})
  OBVIOUS
<1>2. CallOK(r)
  BY <1>1, NewOK
<1>3. NoCall = [r EXCEPT !.at = "idle"]
  BY <1>1 DEF NoCall
<1> QED
  BY <1>2, <1>3 DEF CallOK, CallFields

LEMMA ClosedOK == ASSUME NEW e PROVE CallOK(Closed(e)) /\ Closed(e).at = "done"
BY NoCallOK DEF CallOK, CallFields, Closed

LEMMA Closes ==
  ASSUME NEW r, NEW e PROVE Follows(Closed(e), r)
<1>1. PICK s : s = Closed(e)
  OBVIOUS
<1>2. CallOK(s) /\ s.at = "done"
  BY <1>1, ClosedOK
<1>3. Follows(s, r)
  BY <1>2 DEF Follows, Resolved, Nearer
<1> QED
  BY <1>1, <1>3

LEMMA FailedFollows ==
  ASSUME NEW r, CallOK(r), ~Resolved(r), NEW e PROVE Follows(Failed(r, e), r)
<1>1. CASE TriesNext(r, e)
  <2>1. PICK n : n = NewCall(r.client, r.provider + 1, r.pools, r.features, r.features)
    OBVIOUS
  <2>2. r.client \in {"chat", "image"} /\ r.provider + 1 \in Nat
    BY <1>1 DEF TriesNext, CallOK
  <2>3. CallOK(n) /\ n.provider = r.provider + 1
    BY <2>1, <2>2, NewOK
  <2>4. PICK s : s = [n EXCEPT !.first = r.first]
    OBVIOUS
  <2>5. CallOK(s) /\ s.provider = r.provider + 1
    BY <2>3, <2>4 DEF CallOK, CallFields
  <2>6. s.provider > r.provider
    BY <2>5 DEF CallOK
  <2>7. Failed(r, e) = s
    BY <1>1, <2>1, <2>4 DEF Failed, NextProvider
  <2> QED
    BY <2>5, <2>6, <2>7 DEF Follows, Nearer
<1>2. CASE ~TriesNext(r, e)
  BY <1>2, Closes DEF Failed
<1> QED
  BY <1>1, <1>2

\* The next attempt of the same request.
LEMMA AttemptFollows ==
  ASSUME NEW r, CallOK(r) PROVE Follows(NextAttempt(r), r)
<1>1. PICK s : s = NextAttempt(r)
  OBVIOUS
<1>2. PICK n \in Nat : n = r.attempt
  BY DEF CallOK
<1>3. CallOK(s) /\ s.attempt = n + 1 /\ s.polls = r.polls /\ s.using = r.using
      /\ s.loop = r.loop /\ s.provider = r.provider
  <2>1. PICK m \in Nat : m = n + 1
    OBVIOUS
  <2>2. s = [r EXCEPT !.at = "request", !.attempt = m]
    BY <1>1, <1>2, <2>1 DEF NextAttempt
  <2> QED
    BY <2>1, <2>2 DEF CallOK, CallFields
<1>4. s.attempt > r.attempt
  BY <1>2, <1>3
<1>5. Follows(s, r)
  BY <1>3, <1>4 DEF Follows, Nearer
<1> QED
  BY <1>1, <1>5

\* The same request, further on its way.
LEMMA PlaceFollows ==
  ASSUME NEW r, CallOK(r), NEW s, s = [r EXCEPT !.key = s.key, !.at = s.at],
         AtRank(s.at) < AtRank(r.at)
  PROVE  Follows(s, r)
<1>1. CallOK(s) /\ s.attempt = r.attempt /\ s.polls = r.polls /\ s.using = r.using
      /\ s.loop = r.loop /\ s.provider = r.provider
  BY DEF CallOK, CallFields
<1> QED
  BY <1>1 DEF Follows, Nearer

\* Without the feature that broke it.
LEMMA AgainFollows ==
  ASSUME NEW r, CallOK(r), NEW feature \in r.using PROVE Follows(Again(r, feature), r)
<1>1. PICK s : s = Again(r, feature)
  OBVIOUS
<1>2. CallOK(s) /\ s.using = r.using \ {feature} /\ s.loop = r.loop
      /\ s.provider = r.provider
  BY <1>1 DEF CallOK, CallFields, Again
<1>3. s.using \subseteq r.using /\ s.using # r.using
  BY <1>2
<1>4. Follows(s, r)
  BY <1>2, <1>3 DEF Follows, Nearer
<1> QED
  BY <1>1, <1>4

\* The next loop of an image.
LEMMA EntersFollows ==
  ASSUME NEW r, CallOK(r), NEW loop, NEW polls \in Nat,
         LoopRank(loop) < LoopRank(r.loop) \/ (loop = r.loop /\ polls > r.polls)
  PROVE  Follows([Enters(r, loop) EXCEPT !.polls = polls], r)
<1>1. PICK n : n = Enters(r, loop)
  OBVIOUS
<1>2. CallOK(n) /\ n.using = r.using /\ n.loop = loop /\ n.provider = r.provider
  BY <1>1 DEF CallOK, CallFields, Enters
<1>3. PICK s : s = [n EXCEPT !.polls = polls]
  OBVIOUS
<1>4. /\ CallOK(s) /\ s.using = r.using /\ s.loop = loop /\ s.provider = r.provider
      /\ s.polls = polls
  BY <1>2, <1>3 DEF CallOK, CallFields
<1>5. Follows(s, r)
  BY <1>4 DEF Follows, Nearer
<1> QED
  BY <1>1, <1>3, <1>5

LEMMA MediaOK ==
  ASSUME NEW client, NEW loop, NEW at, client \notin {"chat", "image"}
  PROVE  /\ CallOK(MediaCall(client, loop, at)) /\ MediaCall(client, loop, at).loop = loop
         /\ MediaCall(client, loop, at).provider = 0
<1>1. PICK n : n = NewCall(client, 0, NoPools, {}, {})
  OBVIOUS
<1>2. CallOK(n) /\ n.provider = 0
  BY <1>1, NewOK
<1>3. MediaCall(client, loop, at) = [n EXCEPT !.loop = loop, !.at = at]
  BY <1>1 DEF MediaCall
<1> QED
  BY <1>2, <1>3 DEF CallOK, CallFields

LEMMA FetchedFollows ==
  ASSUME NEW r, CallOK(r), r.client \notin {"chat", "image"}, r.loop = "fetch"
  PROVE  Follows(MediaCall(r.client, "complete", "acquire"), r)
<1>1. PICK s : s = MediaCall(r.client, "complete", "acquire")
  OBVIOUS
<1>2. CallOK(s) /\ s.loop = "complete" /\ s.provider = r.provider
  BY <1>1, MediaOK DEF CallOK
<1>3. LoopRank(s.loop) < LoopRank(r.loop)
  BY <1>2 DEF LoopRank
<1>4. Follows(s, r)
  BY <1>2, <1>3 DEF Follows, Nearer
<1> QED
  BY <1>1, <1>4

LEMMA BecomesMoves ==
  ASSUME NEW c, NEW s, Follows(s, call[c]), Becomes(c, s) PROVE CallMoves(c)
BY DEF Becomes, CallMoves

LEMMA FailsMoves ==
  ASSUME CallInv, NEW c \in Calls, ~Resolved(call[c]),
         FailsQuoting(c) \/ \E e \in Errors : Fails(c, e)
  PROVE  CallMoves(c)
<1>1. CallOK(call[c])
  BY DEF CallInv
<1>2. ASSUME NEW e, Fails(c, e) PROVE CallMoves(c)
  BY <1>1, <1>2, FailedFollows, BecomesMoves DEF Fails
<1> QED
  BY <1>2 DEF FailsQuoting

LEMMA TransportMoves ==
  ASSUME CallInv, NEW c \in Calls, ~Resolved(call[c]), TransportFails(c)
  PROVE  CallMoves(c)
<1>1. CASE Backoff(c)
  <2>1. CallOK(call[c])
    BY DEF CallInv
  <2> QED
    BY <1>1, <2>1, AttemptFollows, BecomesMoves DEF Backoff
<1>2. CASE Fails(c, "failed")
  BY <1>2, FailsMoves DEF Errors
<1> QED
  BY <1>1, <1>2 DEF TransportFails

LEMMA PlaceMoves ==
  ASSUME CallInv, NEW c \in Calls, NEW key, NEW at,
         call' = [call EXCEPT ![c] = [@ EXCEPT !.key = key, !.at = at]],
         AtRank(at) < AtRank(call[c].at)
  PROVE  CallMoves(c)
<1>1. CallOK(call[c])
  BY DEF CallInv
<1>2. PICK s : s = [call[c] EXCEPT !.key = key, !.at = at]
  OBVIOUS
<1>3. s.key = key /\ s.at = at
  BY <1>1, <1>2 DEF CallOK, CallFields
<1>4. Follows(s, call[c])
  BY <1>1, <1>2, <1>3, PlaceFollows
<1> QED
  BY <1>2, <1>4 DEF CallMoves

LEMMA StatusMoves ==
  ASSUME CallInv, NEW c \in Calls, call[c].at = "request", NEW spent,
         StatusFails(c, spent)
  PROVE  CallMoves(c)
<1>1. CallOK(call[c]) /\ ~Resolved(call[c])
  BY DEF CallInv, Resolved
<1>2. CASE Backoff(c)
  BY <1>1, <1>2, AttemptFollows, BecomesMoves DEF Backoff
<1>3. CASE FailsQuoting(c) \/ Fails(c, "failed") \/ Fails(c, "context")
  BY <1>1, <1>3, FailsMoves DEF Errors
<1>4. CASE call' = [call EXCEPT ![c].at = "paced"]
  <2>1. PICK s : s = [call[c] EXCEPT !.at = "paced"]
    OBVIOUS
  <2>2. s = [call[c] EXCEPT !.key = s.key, !.at = s.at] /\ s.at = "paced"
    BY <1>1, <2>1 DEF CallOK, CallFields
  <2>3. AtRank(s.at) < AtRank(call[c].at)
    BY <2>2 DEF AtRank
  <2>4. Follows(s, call[c])
    BY <1>1, <2>2, <2>3, PlaceFollows
  <2>5. call' = [call EXCEPT ![c] = s]
    BY <1>4, <2>1
  <2> QED
    BY <2>4, <2>5 DEF CallMoves
<1> QED
  BY <1>2, <1>3, <1>4 DEF StatusFails, ServerFails, RateLimited

LEMMA PermitMoves ==
  ASSUME CallInv, NEW c \in Calls,
         Acquire(c) \/ Granted(c) \/ PaceOver(c) \/ PaceGivesUp(c)
  PROVE  CallMoves(c)
<1>1. CallOK(call[c])
  BY DEF CallInv
<1>2. CASE Acquire(c)
  <2>1. PICK key, at : /\ at \in {"request", "wait"}
                       /\ call' = [call EXCEPT ![c].key = key, ![c].at = at]
    BY <1>2 DEF Acquire
  <2>2. call[c].at = "acquire"
    BY <1>2 DEF Acquire
  <2>3. AtRank(at) < AtRank(call[c].at)
    <3>1. AtRank("request") = 1 /\ AtRank("wait") = 2 /\ AtRank("acquire") = 3
      BY DEF AtRank
    <3>2. AtRank(at) \in {1, 2}
      BY <2>1, <3>1
    <3> QED
      BY <2>2, <3>1, <3>2
  <2>4. call' = [call EXCEPT ![c] = [@ EXCEPT !.key = key, !.at = at]]
    BY <1>1, <2>1 DEF CallInv, CallOK, CallFields
  <2> QED
    BY <2>3, <2>4, PlaceMoves
<1>3. CASE Granted(c)
  <2>1. call[c].at = "wait" /\ call' = [call EXCEPT ![c].at = "request"]
    BY <1>3 DEF Granted
  <2>2. PICK s : s = [call[c] EXCEPT !.at = "request"]
    OBVIOUS
  <2>3. s = [call[c] EXCEPT !.key = s.key, !.at = s.at] /\ s.at = "request"
    BY <1>1, <2>2 DEF CallOK, CallFields
  <2>4. AtRank(s.at) < AtRank(call[c].at)
    BY <2>1, <2>3 DEF AtRank
  <2>5. Follows(s, call[c])
    BY <1>1, <2>3, <2>4, PlaceFollows
  <2>6. call' = [call EXCEPT ![c] = s]
    BY <2>1, <2>2
  <2> QED
    BY <2>5, <2>6 DEF CallMoves
<1>4. CASE PaceOver(c)
  <2>1. PICK s : s = NextAttempt(call[c])
    OBVIOUS
  <2>2. Follows(s, call[c]) /\ call' = [call EXCEPT ![c] = s]
    BY <1>1, <1>4, <2>1, AttemptFollows DEF PaceOver
  <2> QED
    BY <2>2 DEF CallMoves
<1>5. CASE PaceGivesUp(c)
  <2>1. PICK s : s = Failed(call[c], "failed")
    OBVIOUS
  <2>2. ~Resolved(call[c])
    BY <1>5 DEF PaceGivesUp, Resolved
  <2>3. Follows(s, call[c]) /\ call' = [call EXCEPT ![c] = s]
    BY <1>1, <1>5, <2>1, <2>2, FailedFollows DEF PaceGivesUp
  <2> QED
    BY <2>3 DEF CallMoves
<1> QED
  BY <1>2, <1>3, <1>4, <1>5

LEMMA ChatMoves ==
  ASSUME CallInv, NEW c \in Calls, ChatStep(c)
  PROVE  CallMoves(c)
<1>1. call[c].at = "request"
  BY DEF ChatStep, ChatSendFails, ChatStatusFails, ChatStreamFails, ChatBadBody,
    ChatEmpty, ChatAnswered, InLoop
<1>2. CallOK(call[c]) /\ ~Resolved(call[c])
  BY <1>1 DEF CallInv, Resolved
<1>3. CASE TransportFails(c)
  BY <1>2, <1>3, TransportMoves
<1>4. CASE StatusFails(c, {FALSE})
  BY <1>1, <1>4, StatusMoves
<1>5. CASE FailsQuoting(c)
  BY <1>2, <1>5, FailsMoves
<1>6. CASE \E feature \in call[c].using : Becomes(c, Again(call[c], feature))
  BY <1>2, <1>6, AgainFollows, BecomesMoves
<1>7. CASE Becomes(c, Closed("ok"))
  BY <1>7, Closes, BecomesMoves
<1> QED
  BY <1>3, <1>4, <1>5, <1>6, <1>7 DEF ChatStep, ChatSendFails, ChatStatusFails,
    ChatStreamFails, ChatBadBody, ChatEmpty, ChatAnswered

LEMMA MediaMoves ==
  ASSUME CallInv, NEW c \in Calls, MediaStep(c)
  PROVE  CallMoves(c)
<1>1. call[c].at = "request"
  BY DEF MediaStep, CaptionFetchFails, CaptionFetched, CaptionSendFails,
    CaptionStatusFails, CaptionAnswered, VideoFetchFails, VideoFetched, VideoSendFails,
    VideoStatusFails, VideoAnswered, VoiceSendFails, VoiceStatusFails, VoiceAnswered,
    StepfunSendFails, StepfunStatusFails, StepfunAnswered, InLoop
<1>2. CallOK(call[c]) /\ ~Resolved(call[c])
  BY <1>1 DEF CallInv, Resolved
<1>3. CASE TransportFails(c)
  BY <1>2, <1>3, TransportMoves
<1>4. CASE StatusFails(c, BOOLEAN)
  BY <1>1, <1>4, StatusMoves
<1>5. CASE Answered(c)
  BY <1>2, <1>5, FailsMoves, Closes, BecomesMoves DEF Answered
<1>6. CASE /\ Fetched(c) /\ call[c].client \notin {"chat", "image"}
           /\ call[c].loop = "fetch"
  <2>1. CASE Fails(c, "failed")
    BY <1>2, <2>1, FailsMoves DEF Errors
  <2>2. CASE Becomes(c, MediaCall(call[c].client, "complete", "acquire"))
    BY <1>2, <1>6, <2>2, FetchedFollows, BecomesMoves
  <2> QED
    BY <1>6, <2>1, <2>2 DEF Fetched
<1> QED
  BY <1>3, <1>4, <1>5, <1>6 DEF MediaStep, CaptionFetchFails, CaptionFetched,
    CaptionSendFails, CaptionStatusFails, CaptionAnswered, VideoFetchFails,
    VideoFetched, VideoSendFails, VideoStatusFails, VideoAnswered, VoiceSendFails,
    VoiceStatusFails, VoiceAnswered, StepfunSendFails, StepfunStatusFails,
    StepfunAnswered, InLoop

LEMMA ImageMoves ==
  ASSUME CallInv, NEW c \in Calls, ImageStep(c)
  PROVE  CallMoves(c)
<1>1. call[c].at = "request"
  BY DEF ImageStep, ImageSendFails, ImageStatusFails, ImageAccepted, PollFails, Polled,
    DownloadFails, Downloaded, InLoop
<1>2. CallOK(call[c]) /\ ~Resolved(call[c])
  BY <1>1 DEF CallInv, Resolved
<1>3. CASE TransportFails(c)
  BY <1>2, <1>3, TransportMoves
<1>4. CASE StatusFails(c, BOOLEAN)
  BY <1>1, <1>4, StatusMoves
<1>5. CASE FailsQuoting(c) \/ WriteImage(c)
  BY <1>2, <1>5, FailsMoves, Closes, BecomesMoves DEF WriteImage, Errors
<1>6. ASSUME NEW loop, Becomes(c, Enters(call[c], loop)),
             LoopRank(loop) < LoopRank(call[c].loop)
      PROVE  CallMoves(c)
  <2>1. PICK n : n = Enters(call[c], loop)
    OBVIOUS
  <2>2. n.polls = call[c].polls /\ n = [f \in CallFields |-> n[f]]
    BY <1>2, <2>1 DEF CallOK, CallFields, Enters
  <2>3. n = [n EXCEPT !.polls = call[c].polls]
    BY <2>2 DEF CallFields
  <2>4. Follows(n, call[c])
    BY <1>2, <1>6, <2>1, <2>3, EntersFollows DEF CallOK
  <2> QED
    BY <1>6, <2>1, <2>4, BecomesMoves
<1>7. ASSUME NEW polls \in Nat,
             Becomes(c, [Enters(call[c], "poll") EXCEPT !.polls = polls]),
             \/ LoopRank("poll") < LoopRank(call[c].loop)
             \/ call[c].loop = "poll" /\ polls > call[c].polls
      PROVE  CallMoves(c)
  BY <1>2, <1>7, EntersFollows, BecomesMoves
<1>8. CASE ImageAccepted(c)
  <2>1. call[c].loop = "complete"
    BY <1>8 DEF ImageAccepted, InLoop
  <2>2. /\ LoopRank("poll") < LoopRank(call[c].loop)
        /\ LoopRank("download") < LoopRank(call[c].loop)
    BY <2>1 DEF LoopRank
  <2> QED
    BY <1>5, <1>6, <1>7, <1>8, <2>2 DEF ImageAccepted
<1>9. CASE Polled(c)
  <2>1. call[c].loop = "poll"
    BY <1>9 DEF Polled, InLoop
  <2>2. LoopRank("download") < LoopRank(call[c].loop)
    BY <2>1 DEF LoopRank
  <2>3. ASSUME Becomes(c, [Enters(call[c], "poll") EXCEPT !.polls = @ + 1])
        PROVE  CallMoves(c)
    <3>1. PICK polls \in Nat : polls = call[c].polls
      BY <1>2 DEF CallOK
    <3>2. PICK n : n = Enters(call[c], "poll")
      OBVIOUS
    <3>3. n.polls = polls
      BY <1>2, <3>1, <3>2 DEF CallOK, CallFields, Enters
    <3>4. Becomes(c, [Enters(call[c], "poll") EXCEPT !.polls = polls + 1])
      BY <2>3, <3>2, <3>3
    <3>5. polls + 1 \in Nat /\ polls + 1 > call[c].polls
      BY <3>1
    <3> QED
      BY <1>7, <2>1, <3>4, <3>5
  <2> QED
    BY <1>5, <1>6, <1>9, <2>2, <2>3 DEF Polled
<1> QED
  BY <1>3, <1>4, <1>5, <1>8, <1>9 DEF ImageStep, ImageSendFails, ImageStatusFails,
    PollFails, DownloadFails, Downloaded

LEMMA CallNextMoves ==
  ASSUME CallInv, NEW c \in Calls, CallNext(c) PROVE CallMoves(c)
BY PermitMoves, ChatMoves, MediaMoves, ImageMoves DEF CallNext

---------------------------------------------------------------------------
(* The calls of the tasks.                                                 *)

FirstInv == \A t \in Tasks : pipe[t].first \in Nat

LEMMA FirstKept ==
  ASSUME NEW p, IsPipe(p), NEW what
  PROVE  /\ At(p, what).first = p.first /\ Sends(p, what).first = p.first
         /\ Ends(p, what).first = p.first
<1>1. PICK a : a = At(p, "read health")
  OBVIOUS
<1>2. IsPipe(a) /\ a.first = p.first
  BY <1>1, AtPipe DEF At, IsPipe, PipeFields
<1>3. Ends(p, what) = [a EXCEPT !.outcome = what]
  BY <1>1 DEF Ends
<1>4. Ends(p, what).first = p.first
  BY <1>2, <1>3 DEF IsPipe, PipeFields
<1> QED
  BY <1>4 DEF At, Sends, IsPipe, PipeFields

LEMMA FirstOfText ==
  ASSUME NEW p, IsPipe(p), NEW q \in TextOver(p) PROVE q.first = p.first
<1>1. PICK out : out = FlattenSeq(p.out)
  OBVIOUS
<1>2. PICK written : written = [p EXCEPT !.text = out]
  OBVIOUS
<1>3. PICK sent : sent = Sends(written, "text")
  OBVIOUS
<1>4. IsPipe(written) /\ written.first = p.first
  BY <1>2 DEF IsPipe, PipeFields
<1>5. IsPipe(sent) /\ sent.first = p.first
  BY <1>3, <1>4, SendsPipe, FirstKept
<1>6. q \in {Ends(written, "produced"), Ends(sent, "failed"), Ends(sent, "produced"),
            At(sent, "open image"), At(written, "summary slot")}
  BY <1>1, <1>2, <1>3 DEF TextOver
<1>7. ASSUME NEW r, IsPipe(r), r.first = p.first, NEW what,
             q = Ends(r, what) \/ q = At(r, what)
      PROVE  q.first = p.first
  BY <1>7, FirstKept
<1> QED
  BY <1>4, <1>5, <1>6, <1>7

LEMMA FirstOfImage ==
  ASSUME NEW p, IsPipe(p), NEW untold, NEW drawn,
         NEW q \in WithImage(p) \cup WithoutImage(p, untold) \cup WeeklyOver(p, drawn)
  PROVE  q.first = p.first
<1>1. ASSUME NEW r, IsPipe(r), r.first = p.first, NEW what
      PROVE  IsPipe(Sends(r, what)) /\ Sends(r, what).first = p.first
  BY <1>1, SendsPipe, FirstKept
<1>2. ASSUME NEW r, IsPipe(r), r.first = p.first, NEW o, q = Ends(r, o)
      PROVE  q.first = p.first
  BY <1>2, FirstKept
<1>3. CASE q \in WithoutImage(p, untold)
  <2>1. \E o : q = Ends(p, o) \/ q = Ends(Sends(p, "text"), o)
    BY <1>3 DEF WithoutImage
  <2> QED
    BY <1>1, <1>2, <2>1
<1>4. CASE q \in WeeklyOver(p, drawn)
  <2>1. PICK image : image = Sends(p, "image")
    OBVIOUS
  <2>2. PICK caption : caption = Sends(image, "text")
    OBVIOUS
  <2>3. PICK figures : figures = Sends(caption, "text")
    OBVIOUS
  <2>4. PICK plain : plain = Sends(p, "text")
    OBVIOUS
  <2>5. IsPipe(image) /\ image.first = p.first /\ IsPipe(plain) /\ plain.first = p.first
    BY <1>1, <2>1, <2>4
  <2>6. IsPipe(caption) /\ caption.first = p.first
    BY <1>1, <2>2, <2>5
  <2>7. IsPipe(figures) /\ figures.first = p.first
    BY <1>1, <2>3, <2>6
  <2>8. q \in {Ends(caption, "nothing"), Ends(figures, "nothing"), Ends(plain, "nothing")}
    BY <1>4, <2>1, <2>2, <2>3, <2>4 DEF WeeklyOver
  <2> QED
    BY <1>2, <2>5, <2>6, <2>7, <2>8
<1>5. CASE q \in WithImage(p)
  <2>1. PICK after : after = IF Deferred(p) THEN Sends(p, "text") ELSE p
    OBVIOUS
  <2>2. PICK image : image = Sends(after, "image")
    OBVIOUS
  <2>3. PICK cooled : cooled = Sends(image, "cooldown")
    OBVIOUS
  <2>4. IsPipe(after) /\ after.first = p.first
    BY <1>1, <2>1
  <2>5. IsPipe(image) /\ image.first = p.first
    BY <1>1, <2>2, <2>4
  <2>6. IsPipe(cooled) /\ cooled.first = p.first
    BY <1>1, <2>3, <2>5
  <2>7. \E o : q = Ends(cooled, o) \/ q = Ends(image, o) \/ q = Ends(after, o)
    BY <1>5, <2>1, <2>2, <2>3 DEF WithImage
  <2> QED
    BY <1>2, <2>4, <2>5, <2>6, <2>7
<1> QED
  BY <1>3, <1>4, <1>5

LEMMA InitFirst == Init => FirstInv
BY DEF Init, FirstInv, NewPipe

LEMMA NextFirst ==
  ASSUME PipeInv, FirstInv, [Next]_vars PROVE FirstInv'
<1>1. ASSUME NEW t \in Tasks, NEW q, q.first \in Nat, pipe' = [pipe EXCEPT ![t] = q]
      PROVE  FirstInv'
  <2>1. \A u \in Tasks : pipe'[u] = IF u = t THEN q ELSE pipe[u]
    BY <1>1 DEF PipeInv
  <2> QED
    BY <1>1, <2>1 DEF FirstInv
<1>2. ASSUME NEW t \in Tasks PROVE IsPipe(pipe[t]) /\ pipe[t].first \in Nat
  BY DEF PipeInv, PipeOK, FirstInv
<1>3. ASSUME NEW t \in Tasks, NEW stage, pipe' = [pipe EXCEPT ![t] = At(@, stage)]
      PROVE  FirstInv'
  BY <1>1, <1>2, <1>3, FirstKept, ZenonT(60)
<1>4. ASSUME UNCHANGED pipe PROVE FirstInv'
  BY <1>4 DEF FirstInv
<1>5. ASSUME NEW t \in Tasks, NEW q, pipe' = [pipe EXCEPT ![t] = q],
             q.first = pipe[t].first
      PROVE  FirstInv'
  BY <1>1, <1>2, <1>5
<1>6. ASSUME NEW t \in Tasks, Captions(t) \/ Videos(t) \/ Voices(t) PROVE FirstInv'
  <2>1. ASSUME pipe' = [pipe EXCEPT ![t].next = @ + 1] PROVE FirstInv'
    <3>1. PICK q : q = [pipe[t] EXCEPT !.next = @ + 1]
      OBVIOUS
    <3>2. q.first = pipe[t].first
      BY <1>2, <3>1 DEF IsPipe, PipeFields
    <3>3. pipe' = [pipe EXCEPT ![t] = q]
      BY <2>1, <3>1
    <3> QED
      BY <1>5, <3>2, <3>3
  <2> QED
    BY <1>3, <1>4, <1>6, <2>1 DEF Captions, Videos, Voices, MediaSpawn, MediaJoined,
      MediaRefused, MediaOver
<1>7. ASSUME NEW t \in Tasks, NEW stage, NEW first \in Nat, NEW pools,
             pipe' = [pipe EXCEPT ![t] =
               [At(@, stage) EXCEPT !.first = first, !.pools = pools]]
      PROVE  FirstInv'
  <2>1. PICK a : a = At(pipe[t], stage)
    OBVIOUS
  <2>2. IsPipe(a)
    BY <1>2, <2>1, AtPipe
  <2>3. PICK q : q = [a EXCEPT !.first = first, !.pools = pools]
    OBVIOUS
  <2>4. q.first = first
    BY <2>2, <2>3 DEF IsPipe, PipeFields
  <2>5. pipe' = [pipe EXCEPT ![t] = q]
    BY <1>7, <2>1, <2>3
  <2> QED
    BY <1>1, <2>4, <2>5
<1>8. ASSUME NEW t \in Tasks, Open(t) PROVE FirstInv'
  <2>1. Routed \in Nat
    BY DEF Routed
  <2>2. PICK first, then : first \in Nat /\ Opens(t, first, then)
    BY <1>2, <1>8, <2>1 DEF Open
  <2> QED
    BY <1>7, <2>2 DEF Opens
<1>9. ASSUME NEW t \in Tasks, Register(t) PROVE FirstInv'
  <2>1. PICK stage, pools :
          pipe' = [pipe EXCEPT ![t] = [At(@, stage) EXCEPT !.pools = pools]]
    BY <1>9 DEF Register
  <2>2. PICK a : a = At(pipe[t], stage)
    OBVIOUS
  <2>3. IsPipe(a) /\ a.first = pipe[t].first
    BY <1>2, <2>2, AtPipe, FirstKept
  <2>4. PICK q : q = [a EXCEPT !.pools = pools]
    OBVIOUS
  <2>5. q.first = pipe[t].first
    BY <2>3, <2>4 DEF IsPipe, PipeFields
  <2>6. pipe' = [pipe EXCEPT ![t] = q]
    BY <2>1, <2>2, <2>4
  <2> QED
    BY <1>5, <2>5, <2>6
<1>10. ASSUME NEW t \in Tasks, RefusedOnce(t) PROVE FirstInv'
  <2>1. PICK a : a = At(pipe[t], Stage(t))
    OBVIOUS
  <2>2. IsPipe(a) /\ a.first = pipe[t].first
    BY <1>2, <2>1, AtPipe, FirstKept
  <2>3. PICK q : q = [a EXCEPT !.retried = TRUE]
    OBVIOUS
  <2>4. q.first = pipe[t].first
    BY <2>2, <2>3 DEF IsPipe, PipeFields
  <2>5. pipe' = [pipe EXCEPT ![t] = q]
    BY <1>10, <2>1, <2>3 DEF RefusedOnce
  <2> QED
    BY <1>5, <2>4, <2>5
<1>11. ASSUME NEW t \in Tasks, TextSummarised(t) PROVE FirstInv'
  BY <1>2, <1>5, <1>11, FirstOfText DEF TextSummarised
<1>12. ASSUME NEW t \in Tasks, TextFails(t) PROVE FirstInv'
  BY <1>2, <1>5, <1>12, FirstKept DEF TextFails
<1>13. ASSUME NEW t \in Tasks, RequestSlot(t) \/ GrantSlot(t) \/ StageOver(t) \/ Draw(t)
       PROVE  FirstInv'
  BY <1>3, <1>13 DEF RequestSlot, GrantSlot, StageOver, Draw
<1>14. ASSUME NEW t \in Tasks, StageTimeout(t) \/ PreparationFails(t) PROVE FirstInv'
  BY <1>2, <1>5, <1>14, FirstOfImage DEF StageTimeout, PreparationFails
<1>15. ASSUME NEW t \in Tasks, ImageOver(t) PROVE FirstInv'
  <2>1. PICK drawn, untold, q :
          /\ q \in WithImage(pipe[t]) \cup WithoutImage(pipe[t], untold)
                   \cup WeeklyOver(pipe[t], drawn)
          /\ pipe' = [pipe EXCEPT ![t] = q]
    BY <1>15 DEF ImageOver
  <2> QED
    BY <1>2, <1>5, <2>1, FirstOfImage
<1>16. ASSUME NEW t \in Tasks, pipe' = [pipe EXCEPT ![t] = Finished(@)] PROVE FirstInv'
  <2>1. PICK a : a = At(pipe[t], "ended")
    OBVIOUS
  <2>2. IsPipe(a)
    BY <1>2, <2>1, AtPipe
  <2>3. PICK q : q = [a EXCEPT !.pools = NoPools, !.first = 0,
                               !.seen = [failures |-> 0, open |-> FALSE]]
    OBVIOUS
  <2>4. q.first \in Nat
    BY <2>2, <2>3 DEF IsPipe, PipeFields
  <2>5. pipe' = [pipe EXCEPT ![t] = q]
    BY <1>16, <2>1, <2>3 DEF Finished
  <2> QED
    BY <1>1, <2>4, <2>5
<1>17. ASSUME NEW t \in Tasks, ReadHealth(t) PROVE FirstInv'
  <2>1. CASE Records(pipe[t])
    <3>1. PICK a : a = At(pipe[t], "write health")
      OBVIOUS
    <3>2. IsPipe(a) /\ a.first = pipe[t].first
      BY <1>2, <3>1, AtPipe, FirstKept
    <3>3. PICK q : q = [a EXCEPT !.seen = health]
      OBVIOUS
    <3>4. q.first = pipe[t].first
      BY <3>2, <3>3 DEF IsPipe, PipeFields
    <3>5. pipe' = [pipe EXCEPT ![t] = q]
      BY <1>17, <2>1, <3>1, <3>3 DEF ReadHealth
    <3> QED
      BY <1>5, <3>4, <3>5
  <2>2. CASE ~Records(pipe[t])
    BY <1>16, <1>17, <2>2 DEF ReadHealth
  <2> QED
    BY <2>1, <2>2
<1>18. ASSUME NEW t \in Tasks, NEW l \in Lanes, LaneSteps(t, l) PROVE FirstInv'
  BY <1>5, <1>18, LanePipe
<1>19. ASSUME NEW t \in Tasks, TaskSteps(t) PROVE FirstInv'
  BY <1>6, <1>8, <1>9, <1>10, <1>11, <1>12, <1>13, <1>14, <1>15, <1>16, <1>17, <1>19
    DEF TaskSteps, WriteHealth
<1> QED
  BY <1>4, <1>18, <1>19 DEF Next, CallSteps, CircuitExpires, Done, vars

---------------------------------------------------------------------------
(* Every call converges.                                                   *)

\* What a step may do to the calls.
Converging ==
  /\ CallInv'
  /\ \A c \in Calls : call'[c] # call[c] =>
       Resolved(call[c]) \/ Nearer(call'[c], call[c])

LEMMA OneConverges ==
  ASSUME CallInv, NEW c \in Calls, CallMoves(c) PROVE Converging
<1>1. PICK s : Follows(s, call[c]) /\ call' = [call EXCEPT ![c] = s]
  BY DEF CallMoves
<1>2. /\ call' = [d \in Calls |-> call'[d]]
      /\ \A d \in Calls : call'[d] = IF d = c THEN s ELSE call[d]
  BY <1>1 DEF CallInv
<1> QED
  BY <1>1, <1>2 DEF Follows, CallInv, Converging

LEMMA NoneConverges ==
  ASSUME CallInv, UNCHANGED call PROVE Converging
BY DEF CallInv, Converging

LEMMA BeginsConverges ==
  ASSUME CallInv, NEW c \in Calls, NEW r, CallOK(r), Begins(c, r) PROVE Converging
<1>1. Follows(r, call[c]) /\ Becomes(c, r)
  BY DEF Begins, Follows, Resolved
<1> QED
  BY <1>1, BecomesMoves, OneConverges

\* A resolved call is put away.
LEMMA ClearsConverges ==
  ASSUME CallInv, NEW c \in Calls, call[c].at = "done", Becomes(c, NoCall)
  PROVE  Converging
<1>1. Follows(NoCall, call[c])
  BY NoCallOK DEF Follows, Resolved
<1> QED
  BY <1>1, BecomesMoves, OneConverges

LEMMA AbandonsConverges ==
  ASSUME CallInv, NEW dropped, Abandons(dropped) PROVE Converging
<1>1. /\ call' = [c \in Calls |-> call'[c]]
      /\ \A c \in Calls : call'[c] = IF c \in dropped THEN NoCall ELSE call[c]
  BY DEF Abandons
<1>2. \A r : Resolved(r) \/ Nearer(NoCall, r)
  BY NoCallOK DEF Resolved, Nearer
<1> QED
  BY <1>1, <1>2, NoCallOK DEF CallInv, Converging

LEMMA LlmOK ==
  ASSUME FirstInv, NEW t \in Tasks PROVE CallOK(LlmCall(pipe[t]))
BY NewOK DEF FirstInv, LlmCall

LEMMA SourcesOK ==
  ASSUME NEW r \in CaptionSource \cup VideoSource \cup VoiceSource PROVE CallOK(r)
<1>1. \/ \E client \in Media : \E loop, at : r = MediaCall(client, loop, at)
      \/ r = Closed("failed")
  BY DEF CaptionSource, VideoSource, VoiceSource, Media
<1>2. \A client \in Media : client \notin {"chat", "image"}
  BY DEF Media
<1> QED
  BY <1>1, <1>2, MediaOK, ClosedOK

LEMMA TaskConverges ==
  ASSUME CallInv, NEW t \in Tasks, TaskSteps(t) PROVE Converging
<1>1. \A l \in Lanes : <<t, l>> \in Calls
  BY GenerationAssumption
<1>2. ASSUME NEW sources, sources \subseteq CaptionSource \cup VideoSource \cup VoiceSource,
             \/ \E l \in Lanes : MediaSpawn(t, l, sources) \/ MediaJoined(t, l)
             \/ MediaRefused(t) \/ MediaOver(t)
      PROVE  Converging
  <2>1. ASSUME NEW l \in Lanes, MediaSpawn(t, l, sources) PROVE Converging
    <3>1. PICK r \in sources : Begins(<<t, l>>, r)
      BY <2>1 DEF MediaSpawn
    <3>2. CallOK(r)
      BY <1>2, SourcesOK
    <3> QED
      BY <1>1, <3>1, <3>2, BeginsConverges
  <2>2. ASSUME NEW l \in Lanes, MediaJoined(t, l) PROVE Converging
    BY <1>1, <2>2, ClearsConverges DEF MediaJoined
  <2>3. CASE MediaRefused(t)
    BY <2>3, AbandonsConverges DEF MediaRefused
  <2>4. CASE MediaOver(t)
    BY <2>4, NoneConverges DEF MediaOver, callVars
  <2> QED
    BY <1>2, <2>1, <2>2, <2>3, <2>4
<1>3. CASE Captions(t) \/ Videos(t) \/ Voices(t)
  BY <1>2, <1>3 DEF Captions, Videos, Voices
<1>4. CASE StageTimeout(t)
  BY <1>4, AbandonsConverges DEF StageTimeout
<1>5. 1 \in Lanes
  <2>1. PICK n \in Nat \ {0} : n = Cardinality(Lanes)
    BY GenerationAssumption
  <2>2. Lanes = 1..n
    BY <2>1, GenerationAssumption
  <2> QED
    BY <2>2
<1>6. CASE Draw(t)
  <2>1. CallOK(NewCall("image", 0, NoPools, {}, {}))
    BY NewOK
  <2> QED
    BY <1>1, <1>5, <1>6, <2>1, BeginsConverges DEF Draw
<1>7. CASE ImageOver(t)
  BY <1>1, <1>5, <1>7, ClearsConverges DEF ImageOver
<1>8. CASE UNCHANGED call
  BY <1>8, NoneConverges
<1> QED
  BY <1>3, <1>4, <1>6, <1>7, <1>8 DEF TaskSteps, Open, Opens, Register, RefusedOnce,
    TextSummarised, TextFails, RequestSlot, GrantSlot, StageOver, PreparationFails,
    ReadHealth, WriteHealth, callVars

LEMMA LaneConverges ==
  ASSUME CallInv, FirstInv, NEW t \in Tasks, NEW l \in Lanes, LaneSteps(t, l)
  PROVE  Converging
<1>1. <<t, l>> \in Calls
  BY GenerationAssumption
<1>2. CallOK(LlmCall(pipe[t]))
  BY LlmOK
<1>3. CASE LlmSpawn(t, l)
  BY <1>1, <1>2, <1>3, BeginsConverges DEF LlmSpawn
<1>4. ASSUME NEW parts, LaneDone(t, l), LaneGoesOn(t, l, parts) PROVE Converging
  <2>1. PICK s : /\ s = IF parts = <<>> THEN NoCall ELSE LlmCall(pipe[t])
                 /\ call' = [call EXCEPT ![<<t, l>>] = s]
    BY <1>4 DEF LaneGoesOn
  <2>2. CallOK(s)
    BY <1>2, <2>1, NoCallOK
  <2>3. Follows(s, call[<<t, l>>])
    BY <1>4, <2>2 DEF Follows, Resolved, LaneDone
  <2> QED
    BY <1>1, <2>1, <2>3, OneConverges DEF CallMoves
<1>5. CASE PartSummarised(t, l)
  BY <1>4, <1>5 DEF PartSummarised
<1>6. CASE ContextSplit(t, l)
  BY <1>4, <1>6 DEF ContextSplit
<1>7. CASE PartFailed(t, l)
  BY <1>1, <1>7, ClearsConverges DEF PartFailed, LaneDone
<1> QED
  BY <1>3, <1>5, <1>6, <1>7 DEF LaneSteps

LEMMA NextConverges ==
  ASSUME CallInv, FirstInv, [Next]_vars PROVE Converging
<1>1. ASSUME NEW c \in Calls, CallSteps(c) PROVE Converging
  BY <1>1, CallNextMoves, OneConverges DEF CallSteps
<1>2. CASE UNCHANGED call
  BY <1>2, NoneConverges
<1> QED
  BY <1>1, <1>2, TaskConverges, LaneConverges DEF Next, CircuitExpires, Done, vars,
    callVars

LEMMA InitCalls == Init => CallInv
BY NoCallOK DEF Init, CallInv

LEMMA AlwaysCalls == Spec => [](CallInv /\ FirstInv)
<1>1. Init => CallInv /\ FirstInv
  BY InitCalls, InitFirst
<1>2. PipeInv /\ CallInv /\ FirstInv /\ [Next]_vars => CallInv' /\ FirstInv'
  BY NextConverges, NextFirst DEF Converging
<1> QED
  BY <1>1, <1>2, AlwaysInv, PTL DEF Spec, Inv

\* The request loops of every client and the fallback chains end: whatever the
\* providers answer, a call never goes back to what it has left.
THEOREM EveryCallConverges == Spec => CallsConverge
<1>1. ASSUME CallInv, FirstInv, [Next]_vars
      PROVE  \A c \in Calls : call'[c] # call[c] =>
               call[c].at \in {"idle", "done"} \/ Nearer(call'[c], call[c])
  BY <1>1, NextConverges DEF Converging, Resolved
<1>2. CallInv /\ FirstInv /\ [Next]_vars =>
        [\A c \in Calls : call'[c] # call[c] =>
           call[c].at \in {"idle", "done"} \/ Nearer(call'[c], call[c])]_vars
  BY <1>1
<1> QED
  BY <1>2, AlwaysCalls, PTL DEF Spec, CallsConverge

===========================================================================
