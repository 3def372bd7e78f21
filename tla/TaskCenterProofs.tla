------------------------ MODULE TaskCenterProofs ------------------------
(***************************************************************************)
(* Proofs about TaskCenter, for any set of rooms, any number of tasks and  *)
(* any number of crashes, cancellations, retries and faults.               *)
(***************************************************************************)
EXTENDS TaskCenter, TLAPS

Running(r) == jobs[r].pc # "idle"

\* A run belongs to a row of its room: no task has two runs.
Owned(r) ==
  /\ Running(r) => /\ jobs[r].task \in Tasks
                   /\ rows[jobs[r].task].room = r
                   /\ rows[jobs[r].task].state # "absent"
  /\ ~Running(r) => jobs[r].outcome = "none"

\* Only a run that is about to record its end can find its task ended, and
\* only as a preview has left it.
Unended(r) ==
  Running(r) /\ rows[jobs[r].task].state \in Finished =>
    /\ jobs[r].pc = "end" /\ jobs[r].outcome = "produced"
    /\ rows[jobs[r].task].state = "succeeded"

\* The run may still hand over x.
Ahead(j, x) ==
  \/ j.pc \in {"waiting", "created", "check", "load", "prepare", "compose",
               "summarize", "reply"}
  \/ j.pc = "picture" /\ (x = "image" \/ j.opts.defer)
  \/ j.pc = "attach" /\ x = "image"
  \/ j.pc = "late" /\ x = "text"

\* From here the run hands over without another stage that is not resumable.
Committed == {"compose", "reply", "picture", "attach", "late"}

\* A restart, or the next pass over the retries, runs the task again.
Again(t) ==
  \/ Waiting(t)
  \/ rows[t].state = "running" /\ rows[t].stage \in Resumable

\* What a run has still to hand over is covered by updates that were lost; a
\* run past its last protecting stage, of a task that would run again, has
\* lost one update more.
Unsent(r) ==
  \A x \in Outputs : Running(r) /\ Ahead(jobs[r], x) =>
    /\ handed[jobs[r].task][x] <= lost[jobs[r].task]
    /\ jobs[r].pc \in Committed /\ Again(jobs[r].task) =>
         handed[jobs[r].task][x] < lost[jobs[r].task]

\* The branches around the image: where the text has been handed over.
TextSent(r) ==
  /\ \/ jobs[r].pc = "attach"
     \/ jobs[r].pc = "picture" /\ ~jobs[r].opts.defer
     \/ jobs[r].outcome = "produced" /\ ~jobs[r].opts.preview
  /\ jobs[r].opts.text
  => handed[jobs[r].task]["text"] > 0

Once(t) ==
  \A x \in Outputs : /\ handed[t][x] <= 1 + lost[t]
                     /\ Again(t) => handed[t][x] <= lost[t]
                     /\ rows[t].state = "absent" => handed[t][x] = 0

IsRun(t) ==
  up /\ lost[t] = 0 /\ rows[t].state = "running" =>
    /\ jobs[rows[t].room].task = t
    /\ jobs[rows[t].room].pc \notin {"idle", "waiting", "created"}

RoomInv(r) == Owned(r) /\ Unended(r) /\ Unsent(r) /\ TextSent(r)

TaskInv(t) == Once(t) /\ IsRun(t)

IInv == /\ TypeOK
        /\ \A r \in Rooms : RoomInv(r)
        /\ \A t \in Tasks : TaskInv(t)

-----------------------------------------------------------------------------
(* Types.                                                                   *)

LEMMA ConstantTypes ==
  /\ Tasks \subseteq Nat /\ NoTask \notin Tasks
  /\ MaxTasks \in Nat
  BY TaskCenterAssumption DEF TaskCenterAssumption, Tasks, NoTask

LEMMA RowTypes ==
  /\ Absent \in Rows /\ Absent.state = "absent"
  /\ \A s \in States, g \in Stages, b \in BOOLEAN, r \in Rooms : Row(s, g, b, r) \in Rows
  <1>1. (CHOOSE r \in Rooms : TRUE) \in Rooms
    BY TaskCenterAssumption DEF TaskCenterAssumption
  <1> QED
    BY <1>1 DEF Absent, Row, Rows, States, Stages

LEMMA JobTypes ==
  /\ Idle \in Jobs /\ Idle.pc = "idle" /\ Idle.task = NoTask /\ Idle.outcome = "none"
  /\ \A t \in Tasks, o \in Options :
       Job("created", t, o) \in Jobs /\ Job("waiting", t, o) \in Jobs
  BY DEF Idle, Job, Jobs, NoOptions, Options

\* What SetStage does, and what it leaves alone.
LEMMA StageWritten ==
  ASSUME TypeOK, NEW t \in Tasks, rows[t].state # "absent",
         NEW s \in States \ {"absent", "purged"}, NEW g \in Stages,
         SetStage(t, s, g)
  PROVE  /\ rows' \in [Tasks -> Rows] /\ lost' \in [Tasks -> Nat] /\ faults' \in Nat
         /\ \A u \in Tasks \ {t} : rows'[u] = rows[u] /\ lost'[u] = lost[u]
         /\ rows'[t].room = rows[t].room /\ rows'[t].retry = rows[t].retry
         /\ \/ lost'[t] = lost[t] + 1 /\ rows'[t] = rows[t]
            \/ /\ lost'[t] = lost[t]
               /\ rows'[t].state = s /\ rows'[t].stage = g
            \/ lost'[t] = lost[t] /\ rows'[t] = rows[t] /\ rows[t].state = "purged"
  <1>1. rows[t] \in Rows /\ lost[t] \in Nat /\ rows[t].room \in Rooms /\ rows[t].retry \in BOOLEAN
    BY DEF TypeOK, Rows
  <1>2. Updated(t, s, g) \in Rows
    BY <1>1, RowTypes DEF Updated
  <1>3. /\ Updated(t, s, g).state = s /\ Updated(t, s, g).stage = g
        /\ Updated(t, s, g).room = rows[t].room /\ Updated(t, s, g).retry = rows[t].retry
    BY DEF Updated, Row
  <1>4. CASE UNCHANGED <<lost, faults>>
    <2>1. CASE Stored(t) /\ rows' = [rows EXCEPT ![t] = Updated(t, s, g)]
      BY <1>1, <1>2, <1>3, <1>4, <2>1 DEF TypeOK
    <2>2. CASE ~Stored(t) /\ rows' = rows
      BY <1>1, <1>4, <2>2 DEF TypeOK, Stored
    <2> QED
      BY <1>4, <2>1, <2>2, <1>1 DEF SetStage, Lose, TypeOK
  <1>5. CASE Lose(t) /\ UNCHANGED rows
    BY <1>1, <1>5 DEF Lose, Fault, TypeOK
  <1> QED
    BY <1>4, <1>5 DEF SetStage

\* What Hand does, and what it leaves alone.
LEMMA Handed ==
  ASSUME TypeOK, NEW t \in Tasks, NEW x \in Outputs, Hand(t, x)
  PROVE  /\ handed' \in [Tasks -> [Outputs -> Nat]]
         /\ \A u \in Tasks \ {t} : handed'[u] = handed[u]
         /\ handed'[t][x] = handed[t][x] + 1
         /\ \A y \in Outputs \ {x} : handed'[t][y] = handed[t][y]
  BY DEF TypeOK, Hand

-----------------------------------------------------------------------------
(* Steps of a run.                                                          *)

\* A step of the run of room r, as seen from the other rooms and tasks.
OnlyRun(r) ==
  /\ up' = up
  /\ \A q \in Rooms \ {r} : jobs'[q] = jobs[q]
  /\ \A u \in Tasks \ {jobs[r].task} :
       rows'[u] = rows[u] /\ handed'[u] = handed[u] /\ lost'[u] = lost[u]
  /\ rows'[jobs[r].task].room = rows[jobs[r].task].room

LEMMA Framed ==
  ASSUME IInv, NEW r \in Rooms, NEW t \in Tasks, jobs[r].task = t, Running(r),
         OnlyRun(r), TypeOK', RoomInv(r)', TaskInv(t)'
  PROVE  IInv'
  <1>0. rows[t].room = r
    BY DEF IInv, RoomInv, Owned
  <1>1. ASSUME NEW q \in Rooms, q # r  PROVE RoomInv(q)'
    <2>1. RoomInv(q) /\ jobs'[q] = jobs[q]
      BY <1>1 DEF IInv, OnlyRun
    <2>2. CASE Running(q)
      <3>1. jobs[q].task \in Tasks \ {t}
        BY <1>0, <1>1, <2>1, <2>2 DEF RoomInv, Owned
      <3>2. UNCHANGED <<rows[jobs[q].task], handed[jobs[q].task], lost[jobs[q].task]>>
        BY <3>1, <2>1 DEF OnlyRun
      <3> QED
        BY <2>1, <3>2 DEF RoomInv, Owned, Unended, Unsent, TextSent, Running, Ahead, Again, Waiting
    <2>3. CASE ~Running(q)
      BY <2>1, <2>3 DEF RoomInv, Owned, Unended, Unsent, TextSent, Running
    <2> QED
      BY <2>2, <2>3
  <1>2. ASSUME NEW u \in Tasks, u # t  PROVE TaskInv(u)'
    <2>1. UNCHANGED <<rows[u], handed[u], lost[u], up>>
      BY <1>2 DEF OnlyRun
    <2>2. Once(u)'
      BY <2>1 DEF IInv, TaskInv, Once, Again, Waiting
    <2>3. IsRun(u)'
      <3>1. rows[u].room \in Rooms
        BY DEF IInv, TypeOK, Rows
      <3>2. IsRun(u)
        BY DEF IInv, TaskInv
      <3>3. CASE rows[u].room = r
        BY <1>2, <2>1, <3>2, <3>3 DEF IsRun
      <3>4. CASE rows[u].room # r
        BY <2>1, <3>1, <3>2, <3>4 DEF IsRun, OnlyRun
      <3> QED
        BY <3>3, <3>4
    <2> QED
      BY <2>2, <2>3 DEF TaskInv
  <1> QED
    BY <1>1, <1>2 DEF IInv

\* Every step of a run needs to be looked at only at its room and its task.
LEMMA RunOf ==
  ASSUME IInv, NEW r \in Rooms, Running(r)
  PROVE  /\ jobs[r] \in Jobs /\ jobs[r].task \in Tasks
         /\ rows[jobs[r].task] \in Rows /\ rows[jobs[r].task].room = r
         /\ rows[jobs[r].task].state # "absent"
         /\ lost[jobs[r].task] \in Nat
         /\ \A x \in Outputs : handed[jobs[r].task][x] \in Nat
  BY DEF IInv, TypeOK, RoomInv, Owned

Early == {"waiting", "created", "check", "load", "prepare", "compose", "summarize", "reply"}

\* A step that records the stage which the pipeline reaches.
LEMMA Reaching ==
  ASSUME IInv, NEW r \in Rooms, NEW from \in Early, NEW to \in Early \ {"waiting", "created"},
         NEW stage \in Stages, to \in Committed => stage \notin Resumable,
         Reaches(r, from, to, stage)
  PROVE  IInv'
  <1>1. Running(r) /\ jobs[r].pc = from /\ from # "end"
    BY DEF Reaches, At, Running, Early
  <1>0. PICK t \in Tasks : jobs[r].task = t
    BY <1>1, RunOf
  <1>2. /\ jobs[r] \in Jobs /\ rows[t] \in Rows /\ rows[t].room = r
        /\ rows[t].state # "absent" /\ lost[t] \in Nat
        /\ \A x \in Outputs : handed[t][x] \in Nat
    BY <1>1, <1>0, RunOf
  <1>3. "running" \in States \ {"absent", "purged"}
    BY DEF States
  <1>4. TypeOK
    BY DEF IInv
  <1>5. /\ rows' \in [Tasks -> Rows] /\ lost' \in [Tasks -> Nat] /\ faults' \in Nat
        /\ \A u \in Tasks \ {t} : rows'[u] = rows[u] /\ lost'[u] = lost[u]
        /\ rows'[t].room = rows[t].room /\ rows'[t].retry = rows[t].retry
        /\ \/ lost'[t] = lost[t] + 1 /\ rows'[t] = rows[t]
           \/ /\ lost'[t] = lost[t]
              /\ rows'[t].state = "running" /\ rows'[t].stage = stage
           \/ lost'[t] = lost[t] /\ rows'[t] = rows[t] /\ rows[t].state = "purged"
    <2>1. SetStage(t, "running", stage)
      BY <1>0 DEF Reaches
    <2> QED
      BY <1>2, <1>3, <1>4, <2>1, StageWritten
  <1>6. /\ jobs' = [jobs EXCEPT ![r].pc = to]
        /\ UNCHANGED <<handed, up, preview, crashes, cancels, retries>>
    BY DEF Reaches, Goto, bounds
  <1>7. /\ jobs'[r] \in Jobs /\ jobs'[r].pc = to /\ jobs'[r].task = t
        /\ jobs'[r].opts = jobs[r].opts /\ jobs'[r].outcome = jobs[r].outcome
        /\ jobs' \in [Rooms -> Jobs] /\ \A q \in Rooms \ {r} : jobs'[q] = jobs[q]
    BY <1>0, <1>2, <1>4, <1>6 DEF TypeOK, Jobs, Early
  <1>8. TypeOK'
    BY <1>4, <1>5, <1>6, <1>7 DEF TypeOK
  <1>9. OnlyRun(r)
    BY <1>0, <1>5, <1>6, <1>7 DEF OnlyRun
  <1>10. RoomInv(r)'
    <2>1. RoomInv(r)
      BY DEF IInv
    <2>2. Owned(r)'
      BY <1>2, <1>5, <1>7, <2>1 DEF RoomInv, Owned, Running, Early
    <2>3. Unended(r)'
      BY <1>1, <1>0, <1>5, <1>7, <2>1 DEF RoomInv, Unended, Running, Finished
    <2>4. Unsent(r)'
      <3>1. \A x \in Outputs : handed[t][x] <= lost[t]
        BY <1>1, <1>0, <2>1 DEF RoomInv, Unsent, Ahead, Early
      <3>2. ASSUME to \in Committed, Again(t)'  PROVE lost'[t] = lost[t] + 1
        BY <1>5, <3>2 DEF Again, Waiting
      <3> QED
        BY <1>2, <1>5, <1>6, <1>7, <3>1, <3>2 DEF Unsent
    <2>5. TextSent(r)'
      BY <1>1, <1>0, <1>6, <1>7, <2>1 DEF RoomInv, TextSent, Early
    <2> QED
      BY <2>2, <2>3, <2>4, <2>5 DEF RoomInv
  <1>11. TaskInv(t)'
    <2>1. Once(t)'
      <3>1. \A x \in Outputs : handed[t][x] <= lost[t]
        BY <1>1, <1>0 DEF IInv, RoomInv, Unsent, Ahead, Early
      <3> QED
        BY <1>2, <1>5, <1>6, <3>1 DEF Once
    <2>2. IsRun(t)'
      BY <1>2, <1>5, <1>7 DEF IsRun, Early
    <2> QED
      BY <2>1, <2>2 DEF TaskInv
  <1> QED
    BY <1>1, <1>2, <1>8, <1>9, <1>10, <1>11, <1>0, Framed

\* The places in the pipeline a run can be at after its first step.
Places == {"check", "load", "prepare", "compose", "summarize", "reply", "picture",
           "attach", "late", "end"}

\* A run goes on to the job j; its row and what is lost stay.
MovesTo(r, j) ==
  /\ jobs' = [jobs EXCEPT ![r] = j]
  /\ j \in Jobs /\ j.pc \in Places
  /\ j.task = jobs[r].task /\ j.opts = jobs[r].opts
  /\ UNCHANGED <<rows, up, lost>>

\* Nothing is handed over.
LEMMA Moving ==
  ASSUME IInv, NEW r \in Rooms, jobs[r].pc \in Places \ {"end"}, NEW j, MovesTo(r, j),
         TypeOK', handed' = handed,
         j.pc \in Committed => jobs[r].pc \in Committed,
         \A x \in Outputs : Ahead(j, x) => Ahead(jobs[r], x),
         TextSent(r)'
  PROVE  IInv'
  <1>1. Running(r) /\ jobs[r].pc \notin {"idle", "waiting", "created", "end"}
    BY DEF Running, Places
  <1>2. PICK t \in Tasks : jobs[r].task = t
    BY <1>1, RunOf
  <1>3. jobs'[r] = j /\ \A q \in Rooms \ {r} : jobs'[q] = jobs[q]
    BY DEF MovesTo, IInv, TypeOK
  <1>4. OnlyRun(r)
    BY <1>3 DEF OnlyRun, MovesTo
  <1>5. RoomInv(r)'
    <2>1. RoomInv(r)
      BY DEF IInv
    <2>2. Owned(r)'
      BY <1>1, <1>2, <1>3, <2>1 DEF RoomInv, Owned, Running, MovesTo, Places
    <2>3. Unended(r)'
      BY <1>1, <1>2, <1>3, <2>1 DEF RoomInv, Unended, Running, MovesTo
    <2>4. Unsent(r)'
      BY <1>1, <1>2, <1>3, <2>1 DEF RoomInv, Unsent, MovesTo, Again, Waiting, Running
    <2> QED
      BY <2>2, <2>3, <2>4 DEF RoomInv
  <1>6. TaskInv(t)'
    <2>1. TaskInv(t) /\ rows[t].room = r
      BY <1>1, <1>2, RunOf DEF IInv
    <2>2. Once(t)'
      BY <2>1 DEF TaskInv, Once, Again, Waiting, MovesTo
    <2>3. IsRun(t)'
      BY <1>2, <1>3, <2>1 DEF IsRun, MovesTo, Places
    <2> QED
      BY <2>2, <2>3 DEF TaskInv
  <1> QED
    BY <1>1, <1>2, <1>4, <1>5, <1>6, Framed

\* x is handed over.
LEMMA Delivering ==
  ASSUME IInv, NEW r \in Rooms, jobs[r].pc \in Committed, NEW j, MovesTo(r, j), TypeOK',
         NEW x \in Outputs, Hand(jobs[r].task, x), Ahead(jobs[r], x), ~Ahead(j, x),
         j.pc \in Committed \cup {"end"},
         \A y \in Outputs : Ahead(j, y) => Ahead(jobs[r], y),
         TextSent(r)'
  PROVE  IInv'
  <1>1. Running(r) /\ jobs[r].pc \notin {"idle", "waiting", "created", "end"}
    BY DEF Running, Committed
  <1>2. PICK t \in Tasks : jobs[r].task = t
    BY <1>1, RunOf
  <1>3. jobs'[r] = j /\ \A q \in Rooms \ {r} : jobs'[q] = jobs[q]
    BY DEF MovesTo, IInv, TypeOK
  <1>4. /\ \A u \in Tasks \ {t} : handed'[u] = handed[u]
        /\ handed'[t][x] = handed[t][x] + 1
        /\ \A y \in Outputs \ {x} : handed'[t][y] = handed[t][y]
    BY <1>2, Handed DEF IInv
  <1>5. /\ lost[t] \in Nat /\ rows[t].room = r /\ rows[t].state # "absent"
        /\ \A y \in Outputs : handed[t][y] \in Nat
    BY <1>1, <1>2, RunOf
  <1>6. handed[t][x] <= lost[t] /\ (Again(t) => handed[t][x] < lost[t])
    BY <1>1, <1>2 DEF IInv, RoomInv, Unsent
  <1>7. UNCHANGED <<rows[t], lost[t], up>> /\ Again(t)' = Again(t)
    BY DEF MovesTo, Again, Waiting
  <1>8. OnlyRun(r)
    BY <1>2, <1>3, <1>4 DEF OnlyRun, MovesTo
  <1>9. RoomInv(r)'
    <2>1. RoomInv(r)
      BY DEF IInv
    <2>2. Owned(r)'
      BY <1>1, <1>2, <1>3, <2>1 DEF RoomInv, Owned, Running, MovesTo, Committed
    <2>3. Unended(r)'
      BY <1>1, <1>2, <1>3, <2>1 DEF RoomInv, Unended, Running, MovesTo
    <2>4. Unsent(r)'
      BY <1>1, <1>2, <1>3, <1>4, <1>7, <2>1 DEF RoomInv, Unsent, MovesTo, Running
    <2> QED
      BY <2>2, <2>3, <2>4 DEF RoomInv
  <1>10. TaskInv(t)'
    <2>1. TaskInv(t)
      BY DEF IInv
    <2>2. Once(t)'
      BY <1>4, <1>5, <1>6, <1>7, <2>1 DEF TaskInv, Once
    <2>3. IsRun(t)'
      BY <1>2, <1>3, <1>5, <1>7 DEF IsRun, MovesTo, Committed
    <2> QED
      BY <2>2, <2>3 DEF TaskInv
  <1> QED
    BY <1>1, <1>2, <1>8, <1>9, <1>10, Framed

\* A run that goes to "end", or to another place, with the fields it has.
LEMMA Moved ==
  ASSUME IInv, NEW r \in Rooms, Running(r), UNCHANGED <<rows, up, lost>>
  PROVE  /\ \A p \in Places : Goto(r, p) => MovesTo(r, [jobs[r] EXCEPT !.pc = p])
         /\ \A o \in {"produced", "empty", "failed"} :
              Ends(r, o) => MovesTo(r, [jobs[r] EXCEPT !.pc = "end", !.outcome = o])
  <1>1. jobs \in [Rooms -> Jobs] /\ jobs[r] \in Jobs
    BY DEF IInv, TypeOK
  <1>2. ASSUME NEW p \in Places, Goto(r, p)
        PROVE  MovesTo(r, [jobs[r] EXCEPT !.pc = p])
    BY <1>1, <1>2 DEF Goto, MovesTo, Jobs, Places
  <1>3. ASSUME NEW o \in {"produced", "empty", "failed"}, Ends(r, o)
        PROVE  MovesTo(r, [jobs[r] EXCEPT !.pc = "end", !.outcome = o])
    BY <1>1, <1>3 DEF Ends, MovesTo, Jobs, Places
  <1> QED
    BY <1>2, <1>3

LEMMA MovedTypes ==
  ASSUME IInv, NEW r \in Rooms, NEW j, MovesTo(r, j), faults' \in Nat,
         handed' \in [Tasks -> [Outputs -> Nat]], UNCHANGED <<preview, bounds>>
  PROVE  TypeOK' /\ jobs'[r] = j
  BY DEF IInv, TypeOK, MovesTo, bounds

\* A run ends without handing anything over.
LEMMA EndsQuietly ==
  ASSUME IInv, NEW r \in Rooms, jobs[r].pc \in Places \ {"end"},
         NEW o \in {"produced", "empty", "failed"}, Ends(r, o), faults' \in Nat,
         UNCHANGED <<rows, handed, up, lost, preview, bounds>>,
         o = "produced" /\ jobs[r].opts.text /\ ~jobs[r].opts.preview =>
           handed[jobs[r].task]["text"] > 0
  PROVE  IInv'
  <1> DEFINE j == [jobs[r] EXCEPT !.pc = "end", !.outcome = o]
  <1>1. jobs[r] \in Jobs /\ Running(r)
    BY DEF IInv, TypeOK, Running, Places
  <1>2. MovesTo(r, j)
    BY <1>1, Moved
  <1>3. TypeOK' /\ jobs'[r] = j
    <2>1. handed' \in [Tasks -> [Outputs -> Nat]]
      BY DEF IInv, TypeOK
    <2> QED
      BY <1>2, <2>1, MovedTypes
  <1>4. j.pc = "end" /\ j.outcome = o /\ j.opts = jobs[r].opts /\ j.task = jobs[r].task
    BY <1>1 DEF Jobs
  <1>5. TextSent(r)'
    BY <1>3, <1>4 DEF TextSent
  <1>6. \A x \in Outputs : ~Ahead(j, x)
    BY <1>4 DEF Ahead
  <1> QED
    BY <1>2, <1>3, <1>4, <1>5, <1>6, Moving DEF Committed

\* A run ends by handing over x.
LEMMA EndsDelivering ==
  ASSUME IInv, NEW r \in Rooms, jobs[r].pc \in Committed,
         NEW o \in {"produced", "empty", "failed"}, Ends(r, o), faults' \in Nat,
         NEW x \in Outputs, Hand(jobs[r].task, x), Ahead(jobs[r], x),
         UNCHANGED <<rows, up, lost, preview, bounds>>,
         o = "produced" /\ jobs[r].opts.text /\ ~jobs[r].opts.preview =>
           x = "text" \/ handed[jobs[r].task]["text"] > 0
  PROVE  IInv'
  <1> DEFINE j == [jobs[r] EXCEPT !.pc = "end", !.outcome = o]
  <1>1. /\ jobs[r] \in Jobs /\ Running(r) /\ jobs[r].task \in Tasks
        /\ \A y \in Outputs : handed[jobs[r].task][y] \in Nat
    <2>1. Running(r)
      BY DEF Running, Committed
    <2> QED
      BY <2>1, RunOf
  <1>2. MovesTo(r, j)
    BY <1>1, Moved
  <1>3. /\ handed' \in [Tasks -> [Outputs -> Nat]]
        /\ handed'[jobs[r].task][x] = handed[jobs[r].task][x] + 1
        /\ \A y \in Outputs \ {x} : handed'[jobs[r].task][y] = handed[jobs[r].task][y]
    BY <1>1, Handed DEF IInv
  <1>4. TypeOK' /\ jobs'[r] = j
    BY <1>2, <1>3, MovedTypes
  <1>5. j.pc = "end" /\ j.outcome = o /\ j.opts = jobs[r].opts /\ j.task = jobs[r].task
    BY <1>1 DEF Jobs
  <1>6. TextSent(r)'
    <2> SUFFICES ASSUME o = "produced", ~jobs[r].opts.preview, jobs[r].opts.text
                 PROVE  handed'[jobs[r].task]["text"] > 0
      BY <1>4, <1>5 DEF TextSent
    <2>1. "text" \in Outputs
      BY DEF Outputs
    <2>2. CASE x = "text"
      BY <1>1, <1>3, <2>1, <2>2
    <2>3. CASE x # "text"
      BY <1>3, <2>1, <2>3
    <2> QED
      BY <2>2, <2>3
  <1>7. \A y \in Outputs : ~Ahead(j, y)
    BY <1>5 DEF Ahead
  <1> QED
    BY <1>2, <1>4, <1>5, <1>6, <1>7, Delivering

\* A run goes to another place and hands over nothing.
LEMMA GoesOn ==
  ASSUME IInv, NEW r \in Rooms, jobs[r].pc \in Places \ {"end"},
         NEW p \in Places \ {"end"}, Goto(r, p), faults' \in Nat,
         UNCHANGED <<rows, handed, up, lost, preview, bounds>>,
         p \in Committed => jobs[r].pc \in Committed,
         \A x \in Outputs : Ahead([jobs[r] EXCEPT !.pc = p], x) => Ahead(jobs[r], x),
         p = "attach" \/ (p = "picture" /\ ~jobs[r].opts.defer) => ~jobs[r].opts.text
  PROVE  IInv'
  <1> DEFINE j == [jobs[r] EXCEPT !.pc = p]
  <1>1. jobs[r] \in Jobs /\ Running(r) /\ RoomInv(r)
    BY DEF IInv, TypeOK, Running, Places
  <1>2. MovesTo(r, j)
    BY <1>1, Moved
  <1>3. TypeOK' /\ jobs'[r] = j
    <2>1. handed' \in [Tasks -> [Outputs -> Nat]]
      BY DEF IInv, TypeOK
    <2> QED
      BY <1>2, <2>1, MovedTypes
  <1>4. /\ j.pc = p /\ j.opts = jobs[r].opts /\ j.task = jobs[r].task
        /\ j.outcome = jobs[r].outcome
    BY <1>1 DEF Jobs
  <1>5. TextSent(r)'
    BY <1>1, <1>3, <1>4 DEF RoomInv, TextSent
  <1> QED
    BY <1>2, <1>3, <1>4, <1>5, Moving

LEMMA GoesOnAfterText ==
  ASSUME IInv, NEW r \in Rooms, jobs[r].pc \in Committed,
         NEW p \in {"picture", "attach"}, Goto(r, p), faults' \in Nat,
         Hand(jobs[r].task, "text"), Ahead(jobs[r], "text"), Ahead(jobs[r], "image"),
         p = "picture" => ~jobs[r].opts.defer,
         UNCHANGED <<rows, up, lost, preview, bounds>>
  PROVE  IInv'
  <1> DEFINE j == [jobs[r] EXCEPT !.pc = p]
  <1>1. /\ jobs[r] \in Jobs /\ Running(r) /\ jobs[r].task \in Tasks
        /\ \A y \in Outputs : handed[jobs[r].task][y] \in Nat
    <2>1. Running(r)
      BY DEF Running, Committed
    <2> QED
      BY <2>1, RunOf
  <1>2. MovesTo(r, j)
    BY <1>1, Moved DEF Places
  <1>3. /\ handed' \in [Tasks -> [Outputs -> Nat]]
        /\ handed'[jobs[r].task]["text"] = handed[jobs[r].task]["text"] + 1
    BY <1>1, Handed DEF IInv, Outputs
  <1>4. TypeOK' /\ jobs'[r] = j
    BY <1>2, <1>3, MovedTypes
  <1>5. j.pc = p /\ j.opts = jobs[r].opts /\ j.task = jobs[r].task
    BY <1>1 DEF Jobs
  <1>6. TextSent(r)'
    BY <1>1, <1>3, <1>4, <1>5 DEF TextSent, Outputs
  <1>7. ~Ahead(j, "text") /\ \A y \in Outputs : Ahead(j, y) => Ahead(jobs[r], y)
    BY <1>5 DEF Ahead, Outputs
  <1> QED
    BY <1>2, <1>4, <1>5, <1>6, <1>7, Delivering DEF Outputs, Committed

LEMMA FaultTypes == TypeOK /\ Fault => faults' \in Nat
  BY DEF TypeOK, Fault

LEMMA RecordingSteps ==
  ASSUME IInv, NEW r \in Rooms,
         Accept(r) \/ BeginRetry(r) \/ Load(r) \/ Prepare(r) \/ Summarize(r)
  PROVE  IInv'
  <1>1. CASE Accept(r)
    BY <1>1, Reaching DEF Accept, Early, Stages, Resumable, Committed
  <1>2. CASE BeginRetry(r)
    BY <1>2, Reaching DEF BeginRetry, Early, Stages, Resumable, Committed
  <1>3. CASE Load(r)
    BY <1>3, Reaching DEF Load, Early, Stages, Resumable, Committed
  <1>4. CASE Prepare(r)
    BY <1>4, Reaching DEF Prepare, Early, Stages, Resumable, Committed
  <1>5. CASE Summarize(r)
    BY <1>5, Reaching DEF Summarize, Early, Stages, Resumable, Committed
  <1> QED
    BY <1>1, <1>2, <1>3, <1>4, <1>5

LEMMA CheckKeeps ==
  ASSUME IInv, NEW r \in Rooms, Check(r)
  PROVE  IInv'
  <1>1. /\ jobs[r].pc = "check" /\ jobs[r].pc \in Places \ {"end"} /\ faults' \in Nat
        /\ UNCHANGED <<rows, handed, up, lost, preview, bounds>>
    BY FaultTypes DEF Check, At, Places, IInv, TypeOK
  <1>2. CASE Ends(r, "empty")
    BY <1>1, <1>2, EndsQuietly
  <1>3. CASE Goto(r, "load")
    <2>1. \A x \in Outputs : Ahead(jobs[r], x)
      BY <1>1 DEF Ahead
    <2>2. "load" \in Places \ {"end"} /\ "load" \notin Committed
      BY DEF Places, Committed
    <2> QED
      BY <1>1, <1>3, <2>1, <2>2, GoesOn
  <1> QED
    BY <1>2, <1>3 DEF Check

LEMMA ComposeKeeps ==
  ASSUME IInv, NEW r \in Rooms, Compose(r)
  PROVE  IInv'
  <1>1. CASE Reaches(r, "compose", "summarize", "text_summary")
    BY <1>1, Reaching DEF Early, Stages, Resumable, Committed
  <1>2. CASE /\ ~jobs[r].opts.text /\ At(r, "compose") /\ Goto(r, "picture")
             /\ UNCHANGED <<rows, handed, up, lost, preview, bounds, faults>>
    <2>1. jobs[r].pc = "compose" /\ jobs[r] \in Jobs /\ faults' \in Nat
      BY <1>2 DEF At, IInv, TypeOK
    <2>2. \A x \in Outputs : Ahead(jobs[r], x)
      BY <2>1 DEF Ahead
    <2> QED
      BY <1>2, <2>1, <2>2, GoesOn DEF Places, Committed
  <1> QED
    BY <1>1, <1>2 DEF Compose

LEMMA EarlyEndsKeep ==
  ASSUME IInv, NEW r \in Rooms, NothingToDo(r) \/ StepFails(r)
  PROVE  IInv'
  <1>1. /\ jobs[r].pc \in Places \ {"end"} /\ faults' \in Nat
        /\ UNCHANGED <<rows, handed, up, lost, preview, bounds>>
    BY DEF NothingToDo, StepFails, Places, IInv, TypeOK
  <1> QED
    BY <1>1, EndsQuietly DEF NothingToDo, StepFails

LEMMA ReplyKeeps ==
  ASSUME IInv, NEW r \in Rooms, Reply(r)
  PROVE  IInv'
  <1> DEFINE o == jobs[r].opts
  <1>1. /\ jobs[r].pc = "reply" /\ jobs[r] \in Jobs /\ ~o.preview
        /\ UNCHANGED <<rows, up, lost, preview, bounds>>
        /\ \A x \in Outputs : Ahead(jobs[r], x)
    BY DEF Reply, At, Ahead, IInv, TypeOK
  <1>2. faults' \in Nat
    BY FaultTypes DEF Reply, Delivers, IInv, TypeOK
  <1>3. "reply" \in Places \ {"end"} /\ "reply" \in Committed
    BY DEF Places, Committed
  <1>4. CASE o.defer /\ Goto(r, IF o.image THEN "picture" ELSE "late") /\ UNCHANGED <<handed, faults>>
    <2>1. (IF o.image THEN "picture" ELSE "late") \in {"picture", "late"}
      OBVIOUS
    <2> QED
      BY <1>1, <1>2, <1>3, <1>4, <2>1, GoesOn DEF Places
  <1>5. ASSUME NEW ok \in BOOLEAN, ~o.defer, Delivers(jobs[r].task, "text", ok),
               IF ok /\ o.image THEN Goto(r, "picture")
                               ELSE Ends(r, IF ok THEN "produced" ELSE "failed")
        PROVE  IInv'
    <2>1. CASE Hand(jobs[r].task, "text") /\ ok /\ o.image
      BY <1>1, <1>2, <1>3, <1>5, <2>1, GoesOnAfterText DEF Outputs
    <2>2. CASE Hand(jobs[r].task, "text") /\ ~(ok /\ o.image)
      <3>1. (IF ok THEN "produced" ELSE "failed") \in {"produced", "failed"}
        OBVIOUS
      <3> QED
        BY <1>1, <1>2, <1>3, <1>5, <2>2, <3>1, EndsDelivering DEF Outputs
    <2>3. CASE ~ok /\ UNCHANGED handed
      BY <1>1, <1>2, <1>3, <1>5, <2>3, EndsQuietly
    <2> QED
      BY <1>5, <2>1, <2>2, <2>3 DEF Delivers
  <1> QED
    BY <1>4, <1>5 DEF Reply

LEMMA BackgroundKeeps ==
  ASSUME IInv, NEW r \in Rooms, Background(r)
  PROVE  IInv'
  <1> DEFINE o == jobs[r].opts
             out(recorded) == IF o.text \/ recorded THEN "produced" ELSE "empty"
  <1>1. /\ jobs[r].pc = "picture" /\ jobs[r] \in Jobs /\ ~o.defer /\ faults' \in Nat
        /\ UNCHANGED <<rows, up, lost, preview, bounds>>
        /\ Ahead(jobs[r], "image")
    BY DEF Background, At, Ahead, IInv, TypeOK
  <1>2. o.text => handed[jobs[r].task]["text"] > 0
    BY <1>1 DEF IInv, RoomInv, TextSent
  <1>3. PICK recorded \in BOOLEAN :
          /\ Hand(jobs[r].task, "image") \/ (~recorded /\ UNCHANGED handed)
          /\ Ends(r, out(recorded))
    BY DEF Background
  <1>4. out(recorded) \in {"produced", "empty"}
    OBVIOUS
  <1>5. "picture" \in Committed /\ "picture" \in Places \ {"end"}
    BY DEF Committed, Places
  <1> HIDE DEF out
  <1>6. CASE Hand(jobs[r].task, "image")
    BY <1>1, <1>2, <1>3, <1>4, <1>5, <1>6, EndsDelivering DEF Outputs
  <1>7. CASE UNCHANGED handed
    BY <1>1, <1>2, <1>3, <1>4, <1>5, <1>7, EndsQuietly
  <1> QED
    BY <1>3, <1>6, <1>7

\* A delivery that is followed by the end of the run.
LEMMA LastDelivery ==
  ASSUME IInv, NEW r \in Rooms, jobs[r].pc \in Committed, NEW x \in Outputs,
         Ahead(jobs[r], x), NEW ok \in BOOLEAN,
         Delivers(jobs[r].task, x, ok), Ends(r, IF ok THEN "produced" ELSE "failed"),
         UNCHANGED <<rows, up, lost, preview, bounds>>,
         jobs[r].opts.text => x = "text" \/ handed[jobs[r].task]["text"] > 0
  PROVE  IInv'
  <1>1. faults' \in Nat
    BY FaultTypes DEF Delivers, IInv, TypeOK
  <1>2. jobs[r].pc \in Places \ {"end"}
    BY DEF Committed, Places
  <1>3. (IF ok THEN "produced" ELSE "failed") \in {"produced", "failed"}
    OBVIOUS
  <1>4. CASE Hand(jobs[r].task, x)
    BY <1>1, <1>3, <1>4, EndsDelivering
  <1>5. CASE ~ok /\ UNCHANGED handed
    BY <1>1, <1>2, <1>5, EndsQuietly
  <1> QED
    BY <1>4, <1>5 DEF Delivers

LEMMA PictureKeeps ==
  ASSUME IInv, NEW r \in Rooms, Picture(r)
  PROVE  IInv'
  <1>1. /\ jobs[r].pc = "picture" /\ jobs[r].opts.defer
        /\ UNCHANGED <<rows, up, lost, preview, bounds>>
        /\ \A x \in Outputs : Ahead(jobs[r], x)
    BY DEF Picture, At, Ahead
  <1>2. "picture" \in Committed /\ "picture" \in Places \ {"end"} /\ "text" \in Outputs
    BY DEF Committed, Places, Outputs
  <1>3. ASSUME NEW ok \in BOOLEAN, Delivers(jobs[r].task, "text", ok),
               Ends(r, IF ok THEN "produced" ELSE "failed")
        PROVE  IInv'
    BY <1>1, <1>2, <1>3, LastDelivery
  <1>4. CASE /\ ~jobs[r].opts.text /\ UNCHANGED <<handed, faults>>
             /\ Ends(r, "empty") \/ Ends(r, "failed")
    BY <1>1, <1>2, <1>4, EndsQuietly DEF IInv, TypeOK
  <1>5. ASSUME NEW ok \in BOOLEAN, Delivers(jobs[r].task, "text", ok),
               IF ok THEN Goto(r, "attach") ELSE Ends(r, "failed")
        PROVE  IInv'
    <2>1. CASE ok
      <3>1. Hand(jobs[r].task, "text") /\ faults' \in Nat
        BY <1>5, <2>1 DEF Delivers, IInv, TypeOK
      <3>2. Ahead(jobs[r], "image")
        BY <1>1 DEF Ahead
      <3> QED
        BY <1>1, <1>2, <1>5, <2>1, <3>1, <3>2, GoesOnAfterText
    <2>2. CASE ~ok
      BY <1>3, <1>5, <2>2
    <2> QED
      BY <2>1, <2>2
  <1>6. CASE ~jobs[r].opts.text /\ Goto(r, "attach") /\ UNCHANGED <<handed, faults>>
    BY <1>1, <1>2, <1>6, GoesOn DEF Places, IInv, TypeOK
  <1> QED
    BY <1>3, <1>4, <1>5, <1>6 DEF Picture, NoPicture, TextBeforePicture

LEMMA LastKeeps ==
  ASSUME IInv, NEW r \in Rooms, Attach(r) \/ Late(r)
  PROVE  IInv'
  <1>1. CASE Attach(r)
    <2>1. jobs[r].pc = "attach"
      BY <1>1 DEF Attach, Last, At
    <2>2. jobs[r].opts.text => handed[jobs[r].task]["text"] > 0
      BY <2>1 DEF IInv, RoomInv, TextSent
    <2> QED
      BY <1>1, <2>1, <2>2, LastDelivery DEF Attach, Last, Committed, Ahead, Outputs
  <1>2. CASE Late(r)
    BY <1>2, LastDelivery DEF Late, Last, At, Committed, Ahead, Outputs
  <1> QED
    BY <1>1, <1>2

LEMMA PreviewReadyKeeps ==
  ASSUME IInv, NEW r \in Rooms, PreviewReady(r)
  PROVE  IInv'
  <1> DEFINE j == [jobs[r] EXCEPT !.pc = "end", !.outcome = "produced"]
  <1>1. Running(r) /\ jobs[r].pc = "reply" /\ jobs[r].opts.preview
    BY DEF PreviewReady, At, Running
  <1>2. PICK t \in Tasks : jobs[r].task = t
    BY <1>1, RunOf
  <1>3. /\ jobs[r] \in Jobs /\ lost[t] \in Nat /\ rows[t].room = r /\ rows[t].state # "absent"
        /\ \A x \in Outputs : handed[t][x] \in Nat
    BY <1>1, <1>2, RunOf
  <1>4. /\ rows' \in [Tasks -> Rows] /\ lost' \in [Tasks -> Nat] /\ faults' \in Nat
        /\ \A u \in Tasks \ {t} : rows'[u] = rows[u] /\ lost'[u] = lost[u]
        /\ rows'[t].room = rows[t].room
        /\ \/ lost'[t] = lost[t] + 1 /\ rows'[t] = rows[t]
           \/ /\ lost'[t] = lost[t]
              /\ rows'[t].state = "succeeded"
           \/ lost'[t] = lost[t] /\ rows'[t] = rows[t] /\ rows[t].state = "purged"
    <2>1. "succeeded" \in States \ {"absent", "purged"} /\ "preview_ready" \in Stages
      BY DEF States, Finished, Stages
    <2>2. SetStage(t, "succeeded", "preview_ready")
      BY <1>2 DEF PreviewReady
    <2> QED
      BY <1>3, <2>1, <2>2, StageWritten DEF IInv
  <1>5. /\ jobs' = [jobs EXCEPT ![r] = j] /\ j \in Jobs
        /\ UNCHANGED <<handed, up, preview, crashes, cancels, retries>>
    BY <1>3 DEF PreviewReady, Ends, bounds, Jobs
  <1>6. /\ jobs' \in [Rooms -> Jobs] /\ \A q \in Rooms \ {r} : jobs'[q] = jobs[q]
        /\ jobs'[r].pc = "end" /\ jobs'[r].outcome = "produced" /\ jobs'[r].task = t
        /\ jobs'[r].opts = jobs[r].opts
    BY <1>2, <1>3, <1>5 DEF IInv, TypeOK, Jobs
  <1>7. TypeOK'
    BY <1>4, <1>5, <1>6 DEF IInv, TypeOK
  <1>8. OnlyRun(r)
    BY <1>2, <1>4, <1>5, <1>6 DEF OnlyRun
  <1>9. RoomInv(r)'
    <2>1. Owned(r)'
      BY <1>3, <1>4, <1>6 DEF Owned, Running
    <2>2. Unended(r)'
      <3>1. rows[t].state \notin Finished
        BY <1>1, <1>2 DEF IInv, RoomInv, Unended
      <3> QED
        BY <1>4, <1>6, <3>1 DEF Unended
    <2>3. Unsent(r)' /\ TextSent(r)'
      BY <1>1, <1>6 DEF Unsent, Ahead, TextSent
    <2> QED
      BY <2>1, <2>2, <2>3 DEF RoomInv
  <1>10. TaskInv(t)'
    <2>1. \A x \in Outputs : handed[t][x] <= lost[t]
      BY <1>1, <1>2 DEF IInv, RoomInv, Unsent, Ahead
    <2>2. Once(t)'
      BY <1>3, <1>4, <1>5, <2>1 DEF Once
    <2>3. IsRun(t)'
      BY <1>3, <1>4, <1>6 DEF IsRun
    <2> QED
      BY <2>2, <2>3 DEF TaskInv
  <1> QED
    BY <1>1, <1>2, <1>7, <1>8, <1>9, <1>10, Framed

\* A room whose run is over, and the row of that run.
LEMMA IdleRoom ==
  ASSUME IInv, NEW r \in Rooms, jobs' = [jobs EXCEPT ![r] = Idle]
  PROVE  /\ jobs' \in [Rooms -> Jobs] /\ \A q \in Rooms \ {r} : jobs'[q] = jobs[q]
         /\ RoomInv(r)'
  <1>1. jobs'[r] = Idle /\ jobs' \in [Rooms -> Jobs] /\ \A q \in Rooms \ {r} : jobs'[q] = jobs[q]
    BY JobTypes DEF IInv, TypeOK
  <1> QED
    BY <1>1, JobTypes DEF RoomInv, Owned, Unended, Unsent, TextSent, Running

LEMMA FinishKeeps ==
  ASSUME IInv, NEW r \in Rooms, Finish(r)
  PROVE  IInv'
  <1> DEFINE final == Closing(jobs[r].outcome)
  <1>1. Running(r) /\ jobs[r].pc = "end"
    BY DEF Finish, At, Running
  <1>2. PICK t \in Tasks : jobs[r].task = t
    BY <1>1, RunOf
  <1>3. /\ lost[t] \in Nat /\ rows[t].room = r /\ rows[t].state # "absent"
        /\ \A x \in Outputs : handed[t][x] \in Nat
    BY <1>1, <1>2, RunOf
  <1>4. final.state \in Finished /\ final.stage \in Stages
    BY DEF Closing, Finished, Stages
  <1>5. /\ rows' \in [Tasks -> Rows] /\ lost' \in [Tasks -> Nat] /\ faults' \in Nat
        /\ \A u \in Tasks \ {t} : rows'[u] = rows[u] /\ lost'[u] = lost[u]
        /\ rows'[t].room = rows[t].room
        /\ \/ lost'[t] = lost[t] + 1 /\ rows'[t] = rows[t]
           \/ /\ lost'[t] = lost[t]
              /\ rows'[t].state \in Finished
           \/ lost'[t] = lost[t] /\ rows'[t] = rows[t] /\ rows[t].state = "purged"
    <2>1. final.state \in States \ {"absent", "purged"}
      BY <1>4 DEF States, Finished
    <2>2. SetStage(t, final.state, final.stage)
      BY <1>2 DEF Finish
    <2> QED
      BY <1>3, <1>4, <2>1, <2>2, StageWritten DEF IInv
  <1>6. /\ jobs' = [jobs EXCEPT ![r] = Idle]
        /\ UNCHANGED <<handed, up, preview, crashes, cancels, retries>>
    BY DEF Finish, bounds
  <1>7. TypeOK'
    BY <1>5, <1>6, IdleRoom DEF IInv, TypeOK
  <1>8. OnlyRun(r) /\ RoomInv(r)'
    BY <1>2, <1>5, <1>6, IdleRoom DEF OnlyRun
  <1>9. TaskInv(t)'
    <2>1. Once(t)'
      BY <1>3, <1>5, <1>6 DEF IInv, TaskInv, Once, Again, Waiting, Finished
    <2>2. IsRun(t)'
      BY <1>3, <1>5 DEF IsRun, Finished
    <2> QED
      BY <2>1, <2>2 DEF TaskInv
  <1> QED
    BY <1>1, <1>2, <1>7, <1>8, <1>9, Framed

LEMMA PanicKeeps ==
  ASSUME IInv, NEW r \in Rooms, Panic(r)
  PROVE  IInv'
  <1>1. Running(r)
    BY DEF Panic, Running
  <1>2. PICK t \in Tasks : jobs[r].task = t
    BY <1>1, RunOf
  <1>3. /\ lost[t] \in Nat /\ rows[t].room = r /\ rows[t].state # "absent"
        /\ \A x \in Outputs : handed[t][x] \in Nat
    BY <1>1, <1>2, RunOf
  <1>4. /\ jobs' = [jobs EXCEPT ![r] = Idle]
        /\ UNCHANGED <<rows, handed, up, preview, crashes, cancels, retries>>
        /\ lost' \in [Tasks -> Nat] /\ faults' \in Nat
        /\ lost'[t] = lost[t] + 1 /\ \A u \in Tasks \ {t} : lost'[u] = lost[u]
    BY <1>2, <1>3 DEF Panic, Lose, Fault, IInv, TypeOK, bounds
  <1>5. TypeOK'
    BY <1>4, IdleRoom DEF IInv, TypeOK
  <1>6. OnlyRun(r) /\ RoomInv(r)'
    BY <1>2, <1>4, IdleRoom DEF OnlyRun
  <1>7. TaskInv(t)'
    BY <1>3, <1>4 DEF IInv, TaskInv, Once, Again, Waiting, IsRun
  <1> QED
    BY <1>1, <1>2, <1>5, <1>6, <1>7, Framed

LEMMA StepsKeep ==
  ASSUME IInv, NEW r \in Rooms, Steps(r)
  PROVE  IInv'
  BY RecordingSteps, CheckKeeps, ComposeKeeps, EarlyEndsKeep, ReplyKeeps, BackgroundKeeps,
     PictureKeeps, LastKeeps, PreviewReadyKeeps, FinishKeeps DEF Steps

-----------------------------------------------------------------------------
(* New runs, the control process, clean-up, crash and restart.              *)

\* A room without a run is given one.
LEMMA Starting ==
  ASSUME IInv, NEW r \in Rooms, ~Running(r), NEW j \in Jobs,
         jobs' = [jobs EXCEPT ![r] = j]
  PROVE  /\ jobs' \in [Rooms -> Jobs] /\ jobs'[r] = j
         /\ \A q \in Rooms \ {r} : jobs'[q] = jobs[q]
  BY DEF IInv, TypeOK

LEMMA CreateKeeps ==
  ASSUME IInv, NEW r \in Rooms, NEW t \in Tasks, NEW o \in Options, Create(r, t, o)
  PROVE  IInv'
  <1> DEFINE j == Job("created", t, o)
             row == Row("queued", "queued", FALSE, r)
  <1>1. /\ ~Running(r) /\ rows[t].state = "absent"
        /\ jobs' = [jobs EXCEPT ![r] = j]
        /\ rows' = [rows EXCEPT ![t] = row]
        /\ preview' = [preview EXCEPT ![t] = o.preview]
        /\ UNCHANGED <<handed, up, lost, crashes, cancels, retries, faults>>
    BY DEF Create, At, Running, Unused, bounds
  <1>2. /\ j \in Jobs /\ j.pc = "created" /\ j.task = t /\ j.opts = o /\ j.outcome = "none"
    BY JobTypes DEF Job
  <1>3. /\ row \in Rows /\ row.state = "queued" /\ ~row.retry /\ row.room = r
    BY RowTypes DEF Row, States, Stages
  <1> HIDE DEF row
  <1>4. /\ rows' \in [Tasks -> Rows] /\ rows'[t] = row
        /\ \A u \in Tasks \ {t} : rows'[u] = rows[u]
    BY <1>1, <1>3 DEF IInv, TypeOK
  <1>5. /\ jobs' \in [Rooms -> Jobs] /\ jobs'[r] = j
        /\ \A q \in Rooms \ {r} : jobs'[q] = jobs[q]
    BY <1>1, <1>2, Starting
  <1>6. TypeOK'
    BY <1>1, <1>4, <1>5 DEF IInv, TypeOK, Options
  <1>7. /\ lost[t] \in Nat
        /\ \A x \in Outputs : handed[t][x] = 0
    BY <1>1 DEF IInv, TypeOK, TaskInv, Once
  <1>8. ASSUME NEW q \in Rooms  PROVE RoomInv(q)'
    <2>1. CASE q = r
      <3>1. Owned(r)' /\ Unended(r)' /\ TextSent(r)'
        BY <1>2, <1>3, <1>4, <1>5 DEF Owned, Unended, TextSent, Running, Finished
      <3>2. Unsent(r)'
        BY <1>1, <1>2, <1>5, <1>7 DEF Unsent, Committed
      <3> QED
        BY <2>1, <3>1, <3>2 DEF RoomInv
    <2>2. CASE q # r
      <3>1. RoomInv(q) /\ jobs'[q] = jobs[q]
        BY <1>5, <2>2 DEF IInv
      <3>2. Running(q) => jobs[q].task \in Tasks \ {t}
        BY <1>1, <3>1 DEF RoomInv, Owned
      <3> QED
        BY <1>1, <1>4, <3>1, <3>2 DEF RoomInv, Owned, Unended, Unsent, TextSent, Running, Ahead, Again, Waiting
    <2> QED
      BY <2>1, <2>2
  <1>9. ASSUME NEW u \in Tasks  PROVE TaskInv(u)'
    <2>1. CASE u = t
      <3>1. rows'[t].state = "queued" /\ ~rows'[t].retry
        BY <1>3, <1>4
      <3>2. ~Again(t)'
        BY <3>1 DEF Again, Waiting
      <3> QED
        BY <1>1, <1>7, <2>1, <3>1, <3>2 DEF TaskInv, Once, IsRun
    <2>2. CASE u # t
      <3>1. rows'[u] = rows[u] /\ rows[u].room \in Rooms
        BY <1>4, <2>2 DEF IInv, TypeOK, Rows
      <3>2. TaskInv(u)
        BY DEF IInv
      <3>3. Once(u)'
        BY <1>1, <3>1, <3>2 DEF TaskInv, Once, Again, Waiting
      <3>4. IsRun(u)'
        BY <1>1, <1>5, <3>1, <3>2 DEF TaskInv, IsRun, Running
      <3> QED
        BY <3>3, <3>4 DEF TaskInv
    <2> QED
      BY <2>1, <2>2
  <1> QED
    BY <1>6, <1>8, <1>9 DEF IInv

LEMMA AdmitKeeps ==
  ASSUME IInv, NEW t \in Tasks, NEW o \in Options, Admit(t, o)
  PROVE  IInv'
  <1> DEFINE j == Job("waiting", t, o)
  <1>1. PICK r \in Rooms : r = rows[t].room
    BY DEF IInv, TypeOK, Rows
  <1>2. /\ ~Running(r) /\ Waiting(t)
        /\ jobs' = [jobs EXCEPT ![r] = j]
        /\ UNCHANGED <<rows, handed, up, lost, preview, crashes, cancels, retries, faults>>
    BY <1>1 DEF Admit, At, Running, bounds
  <1>3. /\ j \in Jobs /\ j.pc = "waiting" /\ j.task = t /\ j.opts = o /\ j.outcome = "none"
    BY JobTypes DEF Job
  <1>4. /\ jobs' \in [Rooms -> Jobs] /\ jobs'[r] = j
        /\ \A q \in Rooms \ {r} : jobs'[q] = jobs[q]
    BY <1>2, <1>3, Starting
  <1>5. TypeOK'
    BY <1>2, <1>4 DEF IInv, TypeOK
  <1>6. ASSUME NEW q \in Rooms  PROVE RoomInv(q)'
    <2>1. CASE q = r
      <3>1. Owned(r)' /\ Unended(r)' /\ TextSent(r)'
        BY <1>1, <1>2, <1>3, <1>4 DEF Owned, Unended, TextSent, Running, Waiting, Finished
      <3>2. Unsent(r)'
        BY <1>2, <1>3, <1>4 DEF IInv, TaskInv, Once, Unsent, Again, Committed
      <3> QED
        BY <2>1, <3>1, <3>2 DEF RoomInv
    <2>2. CASE q # r
      <3>1. RoomInv(q) /\ jobs'[q] = jobs[q]
        BY <1>4, <2>2 DEF IInv
      <3>2. UNCHANGED <<rows, handed, lost>>
        BY <1>2
      <3>3. Owned(q)' /\ Unended(q)' /\ TextSent(q)'
        BY <3>1, <3>2 DEF RoomInv, Owned, Unended, TextSent, Running
      <3>4. Unsent(q)'
        BY <3>1, <3>2 DEF RoomInv, Unsent, Running, Ahead, Again, Waiting
      <3> QED
        BY <3>3, <3>4 DEF RoomInv
    <2> QED
      BY <2>1, <2>2
  <1>7. ASSUME NEW u \in Tasks  PROVE TaskInv(u)'
    <2>1. TaskInv(u) /\ rows[u].room \in Rooms
      BY DEF IInv, TypeOK, Rows
    <2>2. Once(u)'
      BY <1>2, <2>1 DEF TaskInv, Once, Again, Waiting
    <2>3. IsRun(u)'
      BY <1>2, <1>4, <2>1 DEF TaskInv, IsRun, Running
    <2> QED
      BY <2>2, <2>3 DEF TaskInv
  <1> QED
    BY <1>5, <1>6, <1>7 DEF IInv

\* Steps that only write rows: no run sees its own row as another's, and a
\* row that would not run again does not come to.
LEMMA Rewriting ==
  ASSUME IInv, rows' \in [Tasks -> Rows], TypeOK',
         UNCHANGED <<jobs, handed, up, lost>>,
         \A t \in Tasks :
           \/ rows'[t] = rows[t]
           \/ /\ rows[t].state # "absent"
              /\ rows'[t].room = rows[t].room
              /\ rows'[t].state \in {"cancelled", "purged"}
  PROVE  IInv'
  <1>1. ASSUME NEW r \in Rooms  PROVE RoomInv(r)'
    <2>1. RoomInv(r) /\ jobs'[r] = jobs[r]
      BY DEF IInv
    <2>2. Owned(r)' /\ Unended(r)' /\ TextSent(r)'
      BY <2>1 DEF RoomInv, Owned, Unended, TextSent, Running, Finished
    <2>3. Unsent(r)'
      <3>1. Running(r) => jobs[r].task \in Tasks
        BY <2>1 DEF RoomInv, Owned
      <3>2. \A t \in Tasks : Again(t)' => Again(t)
        BY DEF Again, Waiting
      <3> QED
        BY <2>1, <3>1, <3>2 DEF RoomInv, Unsent, Running
    <2> QED
      BY <2>2, <2>3 DEF RoomInv
  <1>2. ASSUME NEW t \in Tasks  PROVE TaskInv(t)'
    BY DEF IInv, TaskInv, Once, IsRun, Again, Waiting
  <1> QED
    BY <1>1, <1>2 DEF IInv

LEMMA Rewritten ==
  ASSUME TypeOK, NEW t \in Tasks, NEW s \in States, NEW g \in Stages
  PROVE  /\ Updated(t, s, g) \in Rows /\ Updated(t, s, g).state = s
         /\ Updated(t, s, g).stage = g
         /\ Updated(t, s, g).room = rows[t].room /\ Updated(t, s, g).retry = rows[t].retry
  <1>1. rows[t] \in Rows
    BY DEF TypeOK
  <1> QED
    BY <1>1, RowTypes DEF Updated, Row, Rows

LEMMA CancelKeeps ==
  ASSUME IInv, NEW t \in Tasks, Cancel(t)
  PROVE  IInv'
  <1>1. /\ rows[t].state # "absent"
        /\ rows' = [rows EXCEPT ![t] = Updated(t, "cancelled", "cancelled")]
        /\ cancels' = cancels + 1
        /\ UNCHANGED <<jobs, handed, up, lost, preview, crashes, retries, faults>>
    BY DEF Cancel, Stored
  <1>2. /\ Updated(t, "cancelled", "cancelled") \in Rows
        /\ Updated(t, "cancelled", "cancelled").state = "cancelled"
        /\ Updated(t, "cancelled", "cancelled").room = rows[t].room
    BY Rewritten DEF IInv, States, Stages
  <1>3. rows' \in [Tasks -> Rows] /\ TypeOK'
    BY <1>1, <1>2 DEF IInv, TypeOK
  <1> QED
    BY <1>1, <1>2, <1>3, Rewriting DEF IInv, TypeOK

LEMMA KeptRow ==
  ASSUME IInv, NEW t \in Tasks, NEW k
  PROVE  /\ Kept(t, k) \in Rows
         /\ \/ Kept(t, k) = rows[t]
            \/ /\ rows[t].state # "absent"
               /\ Kept(t, k).room = rows[t].room /\ Kept(t, k).state = "purged"
  <1>1. /\ Updated(t, "purged", "none") \in Rows
        /\ Updated(t, "purged", "none").state = "purged"
        /\ Updated(t, "purged", "none").room = rows[t].room
    BY Rewritten DEF IInv, States, Stages
  <1> QED
    BY <1>1 DEF Kept, Stored, IInv, TypeOK

LEMMA CleanupKeeps ==
  ASSUME IInv, NEW k \in Tasks, Cleanup(k)
  PROVE  IInv'
  <1>1. /\ rows' = [t \in Tasks |-> Kept(t, k)]
        /\ UNCHANGED <<jobs, handed, up, lost, preview, crashes, cancels, retries, faults>>
    BY DEF Cleanup, bounds
  <1>2. rows' \in [Tasks -> Rows] /\ TypeOK'
    BY <1>1, KeptRow DEF IInv, TypeOK
  <1> QED
    BY <1>1, <1>2, KeptRow, Rewriting

LEMMA RetryKeeps ==
  ASSUME IInv, NEW t \in Tasks, NEW u \in Tasks, Retry(t, u)
  PROVE  IInv'
  <1> DEFINE row == Row("queued", "queued", TRUE, rows[t].room)
  <1>1. /\ rows[u].state = "absent"
        /\ rows' = [rows EXCEPT ![u] = row] /\ retries' = retries + 1
        /\ UNCHANGED <<jobs, handed, up, lost, preview, crashes, cancels, faults>>
    BY DEF Retry, Unused
  <1>2. row \in Rows /\ row.state = "queued"
    <2>1. rows[t].room \in Rooms
      BY DEF IInv, TypeOK, Rows
    <2> QED
      BY <2>1, RowTypes DEF Row, States, Stages
  <1> HIDE DEF row
  <1>3. /\ rows' \in [Tasks -> Rows] /\ rows'[u] = row
        /\ \A v \in Tasks \ {u} : rows'[v] = rows[v]
    BY <1>1, <1>2 DEF IInv, TypeOK
  <1>4. TypeOK'
    BY <1>1, <1>3 DEF IInv, TypeOK
  <1>5. ASSUME NEW r \in Rooms  PROVE RoomInv(r)'
    <2>1. RoomInv(r) /\ jobs'[r] = jobs[r]
      BY <1>1 DEF IInv
    <2>2. Running(r) => jobs[r].task \in Tasks \ {u}
      BY <1>1, <2>1 DEF RoomInv, Owned
    <2> QED
      BY <1>1, <1>3, <2>1, <2>2
        DEF RoomInv, Owned, Unended, Unsent, TextSent, Running, Ahead, Again, Waiting
  <1>6. ASSUME NEW v \in Tasks  PROVE TaskInv(v)'
    <2>1. TaskInv(v)
      BY DEF IInv
    <2>2. CASE v = u
      <3>1. lost[u] \in Nat /\ \A x \in Outputs : handed[u][x] = 0
        BY <1>1, <2>1, <2>2 DEF TaskInv, Once, IInv, TypeOK
      <3>2. rows'[u].state = "queued"
        BY <1>2, <1>3
      <3>3. Once(u)'
        BY <1>1, <3>1, <3>2 DEF Once
      <3>4. IsRun(u)'
        BY <3>2 DEF IsRun
      <3> QED
        BY <2>2, <3>3, <3>4 DEF TaskInv
    <2>3. CASE v # u
      BY <1>1, <1>3, <2>1, <2>3 DEF TaskInv, Once, IsRun, Again, Waiting
    <2> QED
      BY <2>2, <2>3
  <1> QED
    BY <1>4, <1>5, <1>6 DEF IInv

LEMMA CrashKeeps ==
  ASSUME IInv, Crash
  PROVE  IInv'
  <1>1. /\ up' = FALSE /\ jobs' = [r \in Rooms |-> Idle] /\ crashes' = crashes + 1
        /\ UNCHANGED <<rows, handed, lost, preview, cancels, retries, faults>>
    BY DEF Crash
  <1>2. TypeOK'
    <2>1. jobs' \in [Rooms -> Jobs] /\ crashes' \in Nat
      BY <1>1, JobTypes DEF IInv, TypeOK
    <2>2. up' \in BOOLEAN
      BY <1>1
    <2> QED
      BY <1>1, <2>1, <2>2 DEF IInv, TypeOK
  <1>3. ASSUME NEW r \in Rooms  PROVE RoomInv(r)'
    <2>1. jobs'[r] = Idle
      BY <1>1
    <2> QED
      BY <2>1, JobTypes DEF RoomInv, Owned, Unended, Unsent, TextSent, Running
  <1>4. ASSUME NEW t \in Tasks  PROVE TaskInv(t)'
    <2>1. TaskInv(t) /\ UNCHANGED <<rows, handed, lost>> /\ ~up'
      BY <1>1 DEF IInv
    <2>2. Once(t)'
      BY <2>1 DEF TaskInv, Once, Again, Waiting
    <2>3. IsRun(t)'
      BY <2>1 DEF IsRun
    <2> QED
      BY <2>2, <2>3 DEF TaskInv
  <1> QED
    BY <1>2, <1>3, <1>4 DEF IInv

\* Recovery runs a task again only if its row allows it, and leaves none
\* 'running'.
LEMMA RecoveredRow ==
  ASSUME NEW row \in Rows
  PROVE  /\ Recovered(row) \in Rows /\ Recovered(row).state # "running"
         /\ Recovered(row).room = row.room
         /\ Recovered(row).state = "absent" => row.state = "absent"
         /\ Recovered(row).retry /\ Recovered(row).state = "queued" =>
              \/ row.retry /\ row.state = "queued"
              \/ row.state = "running" /\ row.stage \in Resumable
  <1>1. CASE row.state = "running" /\ row.stage \in Resumable
    <2>1. Recovered(row) = Row("queued", "recovered_after_restart", TRUE, row.room)
      BY <1>1 DEF Recovered
    <2> QED
      BY <1>1, <2>1, RowTypes DEF Row, Rows, States, Stages
  <1>2. CASE row.state = "running" /\ row.stage \notin Resumable
    <2>1. Recovered(row) = Row("failed", "interrupted_requires_retry", row.retry, row.room)
      BY <1>2 DEF Recovered
    <2> QED
      BY <2>1, RowTypes DEF Row, Rows, States, Finished, Stages
  <1>3. CASE row.state # "running"
    BY <1>3 DEF Recovered
  <1> QED
    BY <1>1, <1>2, <1>3

LEMMA RestartKeeps ==
  ASSUME IInv, \A r \in Rooms : ~up => jobs[r] = Idle,
         NEW k \in Tasks \cup {NoTask}, Restart(k)
  PROVE  IInv'
  <1>1. /\ ~up /\ up' = TRUE
        /\ rows' = [t \in Tasks |-> Recovered(Kept(t, k))]
        /\ UNCHANGED <<jobs, handed, lost, preview, crashes, cancels, retries, faults>>
    BY DEF Restart, bounds
  <1>2. ASSUME NEW t \in Tasks
        PROVE  /\ rows'[t] \in Rows /\ rows'[t].state # "running"
               /\ rows'[t].state = "absent" => rows[t].state = "absent"
               /\ Again(t)' => Again(t)
    <2>1. rows'[t] = Recovered(Kept(t, k))
      BY <1>1
    <2>2. /\ Kept(t, k) \in Rows
          /\ Kept(t, k) = rows[t] \/ (rows[t].state # "absent" /\ Kept(t, k).state = "purged")
      BY KeptRow
    <2>3. /\ rows'[t] \in Rows /\ rows'[t].state # "running"
          /\ rows'[t].state = "absent" => rows[t].state = "absent"
      BY <2>1, <2>2, RecoveredRow
    <2>4. Again(t)' => Again(t)
      BY <2>1, <2>2, <2>3, RecoveredRow DEF Again, Waiting
    <2> QED
      BY <2>3, <2>4
  <1>3. TypeOK'
    BY <1>1, <1>2 DEF IInv, TypeOK
  <1>4. ASSUME NEW r \in Rooms  PROVE RoomInv(r)'
    BY <1>1, JobTypes DEF RoomInv, Owned, Unended, Unsent, TextSent, Running
  <1>5. ASSUME NEW t \in Tasks  PROVE TaskInv(t)'
    BY <1>1, <1>2 DEF IInv, TaskInv, Once, IsRun
  <1> QED
    BY <1>3, <1>4, <1>5 DEF IInv

-----------------------------------------------------------------------------
(* The invariant.                                                           *)

\* A process that does not run has no runs.
DownIdle == \A r \in Rooms : ~up => jobs[r] = Idle

LEMMA StepsUp ==
  ASSUME IInv, DownIdle, NEW r \in Rooms, Running(r)
  PROVE  up
  BY JobTypes DEF DownIdle, Running

LEMMA InitHolds == Init => IInv /\ DownIdle
  <1> SUFFICES ASSUME Init PROVE IInv /\ DownIdle
    OBVIOUS
  <1>1. TypeOK
    <2>1. rows \in [Tasks -> Rows] /\ jobs \in [Rooms -> Jobs]
      BY RowTypes, JobTypes DEF Init
    <2>2. handed \in [Tasks -> [Outputs -> Nat]] /\ lost \in [Tasks -> Nat]
      BY DEF Init
    <2>3. preview \in [Tasks -> BOOLEAN] /\ up \in BOOLEAN
      BY DEF Init
    <2> QED
      BY <2>1, <2>2, <2>3 DEF Init, TypeOK
  <1>2. ASSUME NEW r \in Rooms  PROVE RoomInv(r)
    BY JobTypes DEF Init, RoomInv, Owned, Unended, Unsent, TextSent, Running
  <1>3. ASSUME NEW t \in Tasks  PROVE TaskInv(t)
    BY RowTypes DEF Init, TaskInv, Once, IsRun, Again, Waiting
  <1> QED
    BY <1>1, <1>2, <1>3 DEF IInv, DownIdle, Init

LEMMA StayUp ==
  ASSUME IInv, DownIdle, [Next]_vars
  PROVE  DownIdle'
  <1>1. ASSUME NEW r \in Rooms, Steps(r) \/ Panic(r)  PROVE up'
    <2>1. Running(r)
      BY <1>1 DEF Steps, Panic, Accept, BeginRetry, Check, Load, Prepare, Compose, Summarize,
                  NothingToDo, StepFails, PreviewReady, Reply, Background, Picture, Attach,
                  Late, Last, Finish, Reaches, At, Running
    <2>2. up' = up
      BY <1>1 DEF Steps, Panic, Accept, BeginRetry, Check, Load, Prepare, Compose, Summarize,
                  NothingToDo, StepFails, PreviewReady, Reply, Background, Picture, Attach,
                  Late, Last, Finish, Reaches
    <2> QED
      BY <2>1, <2>2, StepsUp
  <1>2. ASSUME NEW r \in Rooms, NEW t \in Tasks, NEW o \in Options,
               Create(r, t, o) \/ Admit(t, o)
        PROVE  up'
    <2>1. up
      BY <1>2 DEF Create, Admit
    <2>2. up' = up
      BY <1>2 DEF Create, Admit
    <2> QED
      BY <2>1, <2>2
  <1>3. ASSUME NEW t \in Tasks, NEW u \in Tasks,
               Cancel(t) \/ Retry(t, u) \/ Cleanup(t)
        PROVE  UNCHANGED <<up, jobs>>
    BY <1>3 DEF Cancel, Retry, Cleanup
  <1>4. CASE Crash
    BY <1>4 DEF Crash, DownIdle
  <1>5. ASSUME NEW k, Restart(k)  PROVE up'
    BY <1>5 DEF Restart
  <1>6. CASE UNCHANGED vars
    BY <1>6 DEF vars, DownIdle
  <1> QED
    BY <1>1, <1>2, <1>3, <1>4, <1>5, <1>6 DEF Next, DownIdle

LEMMA NextKeeps ==
  ASSUME IInv, DownIdle, [Next]_vars
  PROVE  IInv'
  <1>1. ASSUME NEW r \in Rooms, Steps(r) \/ Panic(r)  PROVE IInv'
    BY <1>1, StepsKeep, PanicKeeps
  <1>2. ASSUME NEW k \in Tasks \cup {NoTask}, Restart(k)  PROVE IInv'
    BY <1>2, RestartKeeps DEF DownIdle
  <1>3. CASE UNCHANGED vars
    BY <1>3 DEF vars, IInv, TypeOK, RoomInv, TaskInv, Owned, Unended, Unsent, TextSent,
                Once, IsRun, Running, Ahead, Again, Waiting
  <1> QED
    BY <1>1, <1>2, <1>3, CreateKeeps, AdmitKeeps, CancelKeeps, RetryKeeps, CleanupKeeps,
       CrashKeeps DEF Next

\* The inductive invariant holds of every state that can be reached.
LEMMA Invariance == Spec => [](IInv /\ DownIdle)
  <1>1. Init => IInv /\ DownIdle
    BY InitHolds
  <1>2. (IInv /\ DownIdle) /\ [Next]_vars => (IInv /\ DownIdle)'
    BY NextKeeps, StayUp
  <1> QED
    BY <1>1, <1>2, PTL DEF Spec

-----------------------------------------------------------------------------
(* Tasks that have ended.                                                   *)

\* A run that is not at its end does not have the row of an ended task.
LEMMA OthersStay ==
  ASSUME IInv, NEW r \in Rooms, Running(r), jobs[r].pc # "end",
         NEW s \in {"running", "succeeded"}, NEW g \in Stages, SetStage(jobs[r].task, s, g),
         NEW u \in Tasks, rows[u].state \in Finished
  PROVE  rows'[u] = rows[u]
  <1>1. u # jobs[r].task
    BY DEF IInv, RoomInv, Unended
  <1>2. jobs[r].task \in Tasks /\ rows[jobs[r].task].state # "absent" /\ TypeOK
    BY RunOf DEF IInv
  <1>3. s \in States \ {"absent", "purged"}
    BY DEF States, Finished
  <1> QED
    BY <1>1, <1>2, <1>3, StageWritten

LEMMA RunKeepsEnded ==
  ASSUME IInv, NEW r \in Rooms, Steps(r), NEW u \in Tasks, rows[u].state \in Finished
  PROVE  rows'[u].state = rows[u].state
  <1>1. ASSUME NEW from \in Early, NEW to, NEW g \in Stages, Reaches(r, from, to, g)
        PROVE  rows'[u] = rows[u]
    BY <1>1, OthersStay DEF Reaches, At, Running, Early
  <1>2. CASE UNCHANGED rows
    BY <1>2
  <1>3. CASE PreviewReady(r)
    BY <1>3, OthersStay DEF PreviewReady, At, Running, Stages
  <1>4. CASE Finish(r)
    <2> DEFINE final == Closing(jobs[r].outcome)
    <2>1. Running(r) /\ jobs[r].pc = "end"
      BY <1>4 DEF Finish, At, Running
    <2>2. PICK t \in Tasks : jobs[r].task = t
      BY <2>1, RunOf
    <2>3. /\ final.state \in States \ {"absent", "purged"} /\ final.stage \in Stages
          /\ jobs[r].outcome = "produced" => final.state = "succeeded"
      BY DEF Closing, States, Finished, Stages
    <2>4. /\ SetStage(t, final.state, final.stage) /\ rows[t].state # "absent"
          /\ TypeOK
      BY <1>4, <2>1, <2>2, RunOf DEF Finish, IInv
    <2> HIDE DEF final
    <2>5. \/ rows'[u] = rows[u]
          \/ u = t /\ rows'[u].state = final.state
      BY <2>3, <2>4, StageWritten
    <2>6. u = t => jobs[r].outcome = "produced" /\ rows[u].state = "succeeded"
      BY <2>1, <2>2 DEF IInv, RoomInv, Unended
    <2> QED
      BY <2>3, <2>5, <2>6
  <1>5. CASE Accept(r) \/ BeginRetry(r) \/ Load(r) \/ Prepare(r) \/ Summarize(r)
    BY <1>1, <1>5 DEF Accept, BeginRetry, Load, Prepare, Summarize, Early, Stages, Resumable
  <1>6. CASE Compose(r)
    BY <1>1, <1>2, <1>6 DEF Compose, Early, Stages, Resumable
  <1>7. CASE \/ Check(r) \/ NothingToDo(r) \/ StepFails(r) \/ Reply(r) \/ Background(r)
             \/ Picture(r) \/ Attach(r) \/ Late(r)
    BY <1>2, <1>7 DEF Check, NothingToDo, StepFails, Reply, Background, Picture, Attach,
                      Late, Last
  <1> QED
    BY <1>3, <1>4, <1>5, <1>6, <1>7 DEF Steps

Stays(t) ==
  rows[t].state \in Finished => rows'[t].state \in {rows[t].state, "cancelled", "purged"}

LEMMA EndedStays ==
  ASSUME IInv, [Next]_vars, NEW t \in Tasks
  PROVE  Stays(t)
  <1>1. ASSUME NEW r \in Rooms, Steps(r)  PROVE Stays(t)
    BY <1>1, RunKeepsEnded DEF Stays
  <1>2. ASSUME UNCHANGED rows  PROVE Stays(t)
    BY <1>2 DEF Stays
  <1>3. ASSUME NEW r \in Rooms, NEW u \in Tasks, NEW o \in Options, Create(r, u, o)
        PROVE  Stays(t)
    BY <1>3 DEF Stays, Create, Unused, Finished, IInv, TypeOK
  <1>4. ASSUME NEW u \in Tasks, Cancel(u)  PROVE Stays(t)
    <2>1. Updated(u, "cancelled", "cancelled").state = "cancelled"
      BY DEF Updated, Row
    <2>2. rows' = [rows EXCEPT ![u] = Updated(u, "cancelled", "cancelled")]
      BY <1>4 DEF Cancel
    <2>3. rows'[t] = rows[t] \/ rows'[t].state = "cancelled"
      BY <2>1, <2>2 DEF IInv, TypeOK
    <2> QED
      BY <2>3 DEF Stays
  <1>5. ASSUME NEW u \in Tasks, NEW v \in Tasks, Retry(u, v)  PROVE Stays(t)
    BY <1>5 DEF Stays, Retry, Unused, Finished, IInv, TypeOK
  <1>6. ASSUME NEW k \in Tasks, Cleanup(k)  PROVE Stays(t)
    <2>1. rows'[t] = Kept(t, k)
      BY <1>6 DEF Cleanup
    <2> QED
      BY <2>1, KeptRow DEF Stays
  <1>7. ASSUME NEW k \in Tasks \cup {NoTask}, Restart(k)  PROVE Stays(t)
    <2>1. rows'[t] = Recovered(Kept(t, k))
      BY <1>7 DEF Restart
    <2>2. Kept(t, k) = rows[t] \/ Kept(t, k).state = "purged"
      BY KeptRow
    <2>3. Kept(t, k).state # "running" => rows'[t] = Kept(t, k)
      BY <2>1 DEF Recovered
    <2> QED
      BY <2>2, <2>3 DEF Stays, Finished
  <1>8. ASSUME NEW r \in Rooms, Panic(r)  PROVE UNCHANGED rows
    BY <1>8 DEF Panic
  <1>9. ASSUME NEW u \in Tasks, NEW o \in Options, Admit(u, o)  PROVE UNCHANGED rows
    BY <1>9 DEF Admit
  <1>10. Crash \/ UNCHANGED vars => UNCHANGED rows
    BY DEF Crash, vars
  <1> QED
    BY <1>1, <1>2, <1>3, <1>4, <1>5, <1>6, <1>7, <1>8, <1>9, <1>10 DEF Next

-----------------------------------------------------------------------------
(* Theorems.                                                                *)

\* The table, the runs and the counters keep their types.
THEOREM TypeCorrect == Spec => []TypeOK
  <1>1. IInv => TypeOK
    BY DEF IInv
  <1> QED
    BY <1>1, Invariance, PTL

\* No sequence of crashes, cancellations, retries, panics and lost updates
\* makes a task hand over a text or an image more often than once and once
\* more for each update of its row that was lost.
THEOREM NoSpam == Spec => []HandedOnce
  <1>1. IInv => HandedOnce
    BY DEF IInv, TaskInv, Once, HandedOnce
  <1> QED
    BY <1>1, Invariance, PTL

\* Recovery and the ends of runs leave no task 'running' that nobody runs.
THEOREM NoneLeftRunning == Spec => []RunningIsRun
  <1>1. IInv => RunningIsRun
    BY DEF IInv, TaskInv, IsRun, RunningIsRun
  <1> QED
    BY <1>1, Invariance, PTL

\* Whichever way a run takes around the image, a run that reports a summary
\* has handed over its text.
THEOREM TextIsSent == Spec => []TextNotForgotten
  <1>1. IInv => TextNotForgotten
    BY DEF IInv, RoomInv, TextSent, TextNotForgotten
  <1> QED
    BY <1>1, Invariance, PTL

\* Neither a restart nor a retry that was listed before runs a task again
\* that has ended.
THEOREM EndIsFinal == Spec => EndedStaysEnded
  <1>1. IInv /\ [Next]_vars =>
          [\A t \in Tasks :
             rows[t].state \in Finished =>
               rows'[t].state \in {rows[t].state, "cancelled", "purged"}]_vars
    BY EndedStays DEF Stays
  <1> QED
    BY <1>1, Invariance, PTL DEF Spec, EndedStaysEnded

=============================================================================
