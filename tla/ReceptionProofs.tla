-------------------------- MODULE ReceptionProofs --------------------------
(***************************************************************************)
(* Proofs about Reception, for windows, a lookback, pages and a retention  *)
(* of any length, any number of messages, events, crashes and restarts:    *)
(* no unexplained repetition, and no command forgotten by the watcher.     *)
(***************************************************************************)
EXTENDS Reception, SequenceTheorems, FiniteSetTheorems, FunctionTheorems,
        WellFoundedInduction, TLAPS

---------------------------------------------------------------------------
(* No unexplained repetition.                                              *)

Acceptance(a) == a.when \in Nat /\ a.when <= clock /\ a.life <= life /\ a.life \in Nat

\* What was accepted in this life is among the attempts or out of retention.
Remembered(a) ==
  agentUp /\ a.life = life =>
    \/ [about |-> a.about, id |-> a.id, at |-> a.at, when |-> a.when] \in attempts
    \/ clock > a.when + Retention

MemoryInv ==
  /\ clock \in Nat /\ life \in Nat
  /\ \E S : accepted \in Seq(S)
  /\ \A n \in DOMAIN accepted : Acceptance(accepted[n]) /\ Remembered(accepted[n])
  /\ RepeatsExplained

\* A second acceptance is explained by the first.
Explained(a, b) ==
  a.about = b.about =>
    \/ a.life # b.life
    \/ b.when > a.when + Retention
    \/ /\ ~(a.id /\ b.id)
       /\ ~EventTimesClose(a.at, b.at)
       /\ b.when > a.when + ProcessWindow

LEMMA Windows == Retention \in Nat /\ ProcessWindow \in Nat
BY WindowsAssumption

\* Time passes, attempts that are out of retention go, nothing is accepted.
LEMMA NothingAccepted ==
  ASSUME MemoryInv, UNCHANGED <<accepted, life, agentUp>>,
         clock' \in Nat, clock' >= clock,
         attempts' = attempts \/ Retained \subseteq attempts'
  PROVE  MemoryInv'
<1>1. RepeatsExplained'
  BY DEF MemoryInv, RepeatsExplained
<1>2. ASSUME NEW n \in DOMAIN accepted
      PROVE  Acceptance(accepted[n])' /\ Remembered(accepted[n])'
  <2> DEFINE a == accepted[n]
             t == [about |-> a.about, id |-> a.id, at |-> a.at, when |-> a.when]
  <2>1. Acceptance(a) /\ Remembered(a) /\ accepted' = accepted /\ clock \in Nat
    BY DEF MemoryInv
  <2>2. Acceptance(a)'
    BY <2>1 DEF Acceptance
  <2>3. ASSUME agentUp, a.life = life
        PROVE  t \in attempts' \/ clock' > a.when + Retention
    <3>1. a.when \in Nat /\ (t \in attempts \/ clock > a.when + Retention)
      BY <2>1, <2>3 DEF Acceptance, Remembered
    <3>2. t.when = a.when
      OBVIOUS
    <3> HIDE DEF t, a
    <3>3. t \in Retained \/ clock > a.when + Retention \/ t \in attempts'
      BY <2>1, <3>1, <3>2, Windows DEF Retained
    <3> QED
      BY <2>1, <3>1, <3>3, Windows
  <2>4. Remembered(a)'
    BY <2>1, <2>3 DEF Remembered
  <2> QED
    BY <2>2, <2>4
<1> QED
  BY <1>1, <1>2 DEF MemoryInv

\* A request is accepted when no attempt that is retained is the same trigger.
LEMMA DecideInv ==
  ASSUME MemoryInv, Decide
  PROVE  MemoryInv'
<1> DEFINE e == job.event
           t == [about |-> e.about, id |-> e.id, at |-> e.at, when |-> clock]
<1>0. PICK b : b = [about |-> e.about, id |-> e.id, at |-> e.at, when |-> clock,
                    life |-> life]
  OBVIOUS
<1>1. /\ ~\E a \in Retained : SameTrigger(a, e)
      /\ attempts' = Retained \cup {t}
      /\ UNCHANGED <<clock, life, agentUp>>
      /\ accepted' = Append(accepted, b) \/ UNCHANGED accepted
      /\ agentUp
  BY <1>0 DEF Decide, rest
<1>2. CASE UNCHANGED accepted
  BY <1>1, <1>2, NothingAccepted DEF MemoryInv
<1>3. CASE accepted' = Append(accepted, b)
  <2>1. PICK S : accepted \in Seq(S)
    BY DEF MemoryInv
  <2>2. accepted \in Seq(S \cup {b}) /\ b \in S \cup {b}
    BY <2>1
  <2>3. /\ accepted' \in Seq(S \cup {b})
        /\ DOMAIN accepted = 1..Len(accepted) /\ Len(accepted) \in Nat
        /\ DOMAIN accepted' = 1..(Len(accepted) + 1)
        /\ accepted'[Len(accepted) + 1] = b
        /\ \A n \in 1..Len(accepted) : accepted'[n] = accepted[n]
    BY <1>3, <2>2, AppendProperties, LenProperties
  <2>4. /\ b.when = clock /\ b.life = life
        /\ b.about = e.about /\ b.id = e.id /\ b.at = e.at
        /\ [about |-> b.about, id |-> b.id, at |-> b.at, when |-> b.when] = t
    BY <1>0
  <2>5. clock \in Nat /\ life \in Nat
    BY DEF MemoryInv
  <2>6. ASSUME NEW n \in 1..Len(accepted)
        PROVE  /\ Acceptance(accepted[n])' /\ Remembered(accepted[n])'
               /\ Explained(accepted[n], b)
    <3> DEFINE a == accepted[n]
               u == [about |-> a.about, id |-> a.id, at |-> a.at, when |-> a.when]
    <3>1. Acceptance(a) /\ Remembered(a) /\ accepted'[n] = a
      BY <2>3 DEF MemoryInv
    <3>2. Acceptance(accepted[n])'
      BY <1>1, <3>1 DEF Acceptance
    <3>3. /\ u.when = a.when /\ u.about = a.about /\ u.id = a.id /\ u.at = a.at
          /\ a.when \in Nat
      BY <3>1 DEF Acceptance
    <3>4. a.life = life => u \in attempts \/ clock > a.when + Retention
      BY <1>1, <3>1 DEF Remembered
    <3> HIDE DEF a, u, t, e
    <3>5. a.life = life => u \in Retained \/ clock > a.when + Retention
      BY <2>5, <3>3, <3>4, Windows DEF Retained
    <3>6. Remembered(accepted[n])'
      <4>1. accepted'[n].life = life => u \in attempts' \/ clock > a.when + Retention
        BY <1>1, <3>1, <3>5
      <4> QED
        BY <1>1, <3>1, <4>1 DEF Remembered, u, a
    <3>7. ASSUME a.about = b.about, a.life = life, u \in Retained
          PROVE  /\ ~(a.id /\ b.id)
                 /\ ~EventTimesClose(a.at, b.at)
                 /\ clock > a.when + ProcessWindow
      <4>1. ~SameTrigger(u, e)
        BY <1>1, <3>7
      <4>2. ~(u.id /\ e.id)
        BY <2>4, <3>3, <3>7, <4>1 DEF SameTrigger
      <4>3. ~(u.when >= clock - ProcessWindow) /\ ~EventTimesClose(u.at, e.at)
        BY <4>1, <4>2 DEF SameTrigger
      <4> QED
        BY <2>4, <2>5, <3>3, <4>2, <4>3, Windows
    <3>8. Explained(a, b)
      BY <2>4, <3>5, <3>7 DEF Explained
    <3> QED
      BY <3>2, <3>6, <3>8 DEF a
  <2>7. Acceptance(b)' /\ Remembered(b)'
    BY <1>1, <2>4, <2>5 DEF Acceptance, Remembered
  <2>8. \A n \in DOMAIN accepted' :
          Acceptance(accepted[n])' /\ Remembered(accepted[n])'
    <3> SUFFICES ASSUME NEW n \in DOMAIN accepted'
                 PROVE  Acceptance(accepted[n])' /\ Remembered(accepted[n])'
      OBVIOUS
    <3>1. CASE n \in 1..Len(accepted)
      BY <2>6, <3>1
    <3>2. CASE n = Len(accepted) + 1
      BY <2>3, <2>7, <3>2
    <3> QED
      BY <2>3, <3>1, <3>2
  <2>9. ASSUME NEW m \in DOMAIN accepted', NEW n \in DOMAIN accepted', m < n
        PROVE  Explained(accepted'[m], accepted'[n])
    <3>1. m \in 1..Len(accepted) /\ accepted'[m] = accepted[m]
      BY <2>3, <2>9
    <3>2. CASE n = Len(accepted) + 1
      BY <2>3, <2>6, <3>1, <3>2
    <3>3. CASE n \in 1..Len(accepted)
      BY <2>3, <2>9, <3>1, <3>3 DEF MemoryInv, RepeatsExplained, Explained
    <3> QED
      BY <2>3, <3>2, <3>3
  <2>10. RepeatsExplained'
    BY <2>9 DEF RepeatsExplained, Explained
  <2> QED
    BY <1>1, <2>3, <2>5, <2>8, <2>10 DEF MemoryInv
<1> QED
  BY <1>1, <1>2, <1>3

LEMMA MemorySteps ==
  ASSUME MemoryInv, [Next]_vars
  PROVE  MemoryInv'
<1>1. clock \in Nat /\ life \in Nat
  BY DEF MemoryInv
<1>2. CASE Tick
  BY <1>1, <1>2, NothingAccepted DEF Tick, agent
<1>3. CASE UNCHANGED <<clock, accepted, life, agentUp, attempts>>
  BY <1>1, <1>3, NothingAccepted
<1>4. CASE Arrive \/ Notice \/ RestartComesDue
  BY <1>3, <1>4 DEF Arrive, Notice, RestartComesDue, agent, task
<1>5. CASE WatcherSteps
  <2>1. UNCHANGED clock /\ UNCHANGED agent
    BY <1>5 DEF WatcherSteps, BeginPoll, TakeBaseline, PageOn, EndPoll, PollFails,
      SendEvent, SaveState, WatcherPanics
  <2> QED
    BY <1>3, <2>1 DEF agent
<1>6. CASE Drain \/ Drained \/ Wait \/ Finish
  BY <1>3, <1>6 DEF Drain, Drained, Wait, Finish, Enqueue, task, rest
<1>7. CASE Ignore
  BY <1>1, <1>7, NothingAccepted DEF Ignore, rest
<1>8. CASE Decide
  BY <1>8, DecideInv
<1>9. CASE Crash
  <2>1. UNCHANGED <<clock, accepted, life>> /\ ~agentUp'
    BY <1>9 DEF Crash
  <2> QED
    BY <2>1 DEF MemoryInv, Acceptance, Remembered, RepeatsExplained
<1>10. CASE Restart
  <2>1. UNCHANGED <<clock, accepted>> /\ life' = life + 1
    BY <1>10 DEF Restart, task
  <2>2. \A n \in DOMAIN accepted :
          Acceptance(accepted[n])' /\ Remembered(accepted[n])'
    <3> SUFFICES ASSUME NEW n \in DOMAIN accepted
                 PROVE  Acceptance(accepted[n])' /\ Remembered(accepted[n])'
      OBVIOUS
    <3>1. Acceptance(accepted[n])
      BY DEF MemoryInv
    <3> QED
      BY <1>1, <2>1, <3>1 DEF Acceptance, Remembered
  <2> QED
    BY <1>1, <2>1, <2>2 DEF MemoryInv, RepeatsExplained
<1>11. CASE UNCHANGED vars
  BY <1>3, <1>11 DEF vars, agent
<1> QED
  BY <1>2, <1>4, <1>5, <1>6, <1>7, <1>8, <1>9, <1>10, <1>11 DEF Next

\* RepeatsExplained.  A command is accepted twice only after a restart of the
\* agent, after the retention, or when one of the two events had no id, was
\* stamped anew and the first was no longer recent.
THEOREM NoUnexplainedRepeat == Spec => []RepeatsExplained
<1>1. Init => MemoryInv
  BY EmptySeq DEF Init, MemoryInv, RepeatsExplained
<1>2. MemoryInv /\ [Next]_vars => MemoryInv'
  BY MemorySteps
<1>3. MemoryInv => RepeatsExplained
  BY DEF MemoryInv
<1> QED
  BY <1>1, <1>2, <1>3, PTL DEF Spec

---------------------------------------------------------------------------
(* Least and greatest numbers of a set.                                    *)

\* A non-empty set of natural numbers has a least element.
LEMMA LeastNat ==
  ASSUME NEW S \in SUBSET Nat, S # {}
  PROVE  \E x \in S : \A y \in S : x <= y
<1> DEFINE R == OpToRel(<, Nat)
<1>1. IsWellFoundedOn(R, Nat)
  BY NatLessThanWellFounded
<1>2. \A x, y \in Nat : x < y => <<x, y>> \in R
  BY DEF OpToRel
<1> HIDE DEF R
<1>3. PICK x \in S : \A y \in S : <<y, x>> \notin R
  BY <1>1, WFMin
<1>4. ASSUME NEW y \in S PROVE x <= y
  <2>1. x \in Nat /\ y \in Nat /\ ~(y < x)
    BY <1>2, <1>3
  <2> QED
    BY <2>1
<1> QED
  BY <1>4

LEMMA MinOfNats ==
  ASSUME NEW S \in SUBSET Nat, S # {}
  PROVE  Min(S) \in S /\ \A y \in S : Min(S) <= y
BY LeastNat DEF Min

LEMMA MaxOfNats ==
  ASSUME NEW n \in Nat, NEW S \in SUBSET (0..n), S # {}
  PROVE  Max(S) \in S /\ \A y \in S : y <= Max(S)
<1> DEFINE U == {u \in Nat : \A y \in S : y <= u}
<1>1. U \in SUBSET Nat /\ n \in U
  OBVIOUS
<1>2. PICK u \in U : \A v \in U : u <= v
  BY <1>1, LeastNat
<1>3. u \in S
  <2>1. SUFFICES ASSUME u \notin S PROVE FALSE
    OBVIOUS
  <2>2. PICK y \in S : TRUE
    OBVIOUS
  <2>3. y <= u /\ y # u /\ u \in Nat /\ y \in Nat
    BY <1>2, <2>1
  <2>4. u - 1 \in U
    BY <1>2, <2>1, <2>3
  <2> QED
    BY <1>2, <2>3, <2>4
<1>4. \E x \in S : \A y \in S : x >= y
  BY <1>2, <1>3
<1> QED
  BY <1>4 DEF Max

LEMMA MinOfTwo ==
  ASSUME NEW a \in Int, NEW b \in Int
  PROVE  Min({a, b}) = IF a <= b THEN a ELSE b
BY DEF Min

LEMMA MaxOfTwo ==
  ASSUME NEW a \in Int, NEW b \in Int
  PROVE  Max({a, b}) = IF a >= b THEN a ELSE b
BY DEF Max

---------------------------------------------------------------------------
(* Where the watcher stands.                                               *)

\* A watermark is a row of the database, a cursor no time to come.
RoomOK(room) == room \in RoomState /\ room.last <= Len(log) /\ room.cursor <= clock

FileOK == file # NoFile => file = <<Head(file)>> /\ RoomOK(Head(file))

\* The query has come down from the row top; what is above came since.
Reached(top) ==
  /\ top \in DOMAIN log
  /\ query.before <= top
  /\ query.got = query.before..top
  /\ \A i \in query.got : log[i].at <= query.now
  /\ \A i \in DOMAIN log : i > top => log[i].late \/ log[i].at + Lookback >= query.now

QueryOK ==
  /\ query \in Query
  /\ query.now <= clock
  /\ query.got = {} => query.before = MaxMessages + 1
  /\ query.got # {} => mem.initialized /\ \E top \in DOMAIN log : Reached(top)

\* What the watcher holds in each of its phases.  Between polls the file is
\* what the thread knows; while it sends, it knows more than the file.
PhaseOK ==
  /\ step \in {"off", "idle", "paging", "sending"}
  /\ step = "off" => mem = NoRoom
  /\ ~agentUp => step = "off" /\ channel = <<>>
  /\ step # "paging" => query.got = {}
  /\ step # "sending" => outgoing = <<>>
  /\ step \in {"idle", "paging"} => file = <<mem>>
  /\ step = "sending" =>
       /\ mem.initialized
       /\ file # NoFile
       /\ mem.start = Head(file).start
       /\ \A i \in Range(outgoing) : i > Head(file).last

SentOK == outgoing \in Seq(DOMAIN log) /\ channel \in Seq(DOMAIN log)

---------------------------------------------------------------------------
(* Why a row below the watermark may go unseen, and which rows have to be   *)
(* excused already: commands not above the watermark, and commands above   *)
(* it that the window of the next poll will no longer show.                *)

Excused(i, start) ==
  \/ i \in baseline \cup taken \cup Range(channel) \cup lost \cup overrun
  \/ log[i].late \/ log[i].at < start
  \/ \E j \in DOMAIN log : i < j /\ log[j].at < log[i].at

\* Below the watermark there are only what is about to be sent and what is
\* excused.
NoneBelow(room, pending) ==
  \A i \in DOMAIN log :
    log[i].kind = "command" /\ i <= room.last => i \in pending \/ Excused(i, room.start)

\* Above it nothing lies so far back that a window from time on misses it.
NoneBehind(room, time) ==
  \A i \in DOMAIN log :
    log[i].kind = "command" /\ i > room.last /\ log[i].at + Lookback < time
      => Excused(i, room.start)

\* Both hold of the file; while a poll is sent they hold of what it knows.
KeptInv ==
  /\ file # NoFile =>
       /\ NoneBelow(Head(file), {})
       /\ Head(file).initialized => NoneBehind(Head(file), Head(file).cursor)
  /\ step = "sending" =>
       /\ NoneBelow(mem, Range(outgoing))
       /\ NoneBehind(mem, query.now)

\* Types, and where a watcher of each phase stands.
WatcherInv ==
  WatcherTypeOK /\ RoomOK(mem) /\ FileOK /\ QueryOK /\ PhaseOK /\ SentOK

LEMMA Bounds == MaxTime \in Nat /\ MaxMessages \in Nat /\ MaxStops \in Nat
BY WatcherBoundsAssumption

\* What the type of the log says of its rows.
LEMMA LogFacts ==
  ASSUME WatcherTypeOK
  PROVE  /\ Len(log) \in 0..MaxMessages
         /\ DOMAIN log = 1..Len(log)
         /\ DOMAIN log \subseteq Ids
         /\ \A i \in DOMAIN log : /\ log[i] \in [kind : Kinds, at : 0..MaxTime, late : BOOLEAN]
                                  /\ log[i].at \in 0..MaxTime
<1>1. log \in Seq([kind : Kinds, at : 0..MaxTime, late : BOOLEAN]) /\ Len(log) <= MaxMessages
  BY DEF WatcherTypeOK
<1>2. DOMAIN log = 1..Len(log) /\ Len(log) \in Nat
  BY <1>1, LenProperties
<1>3. \A i \in DOMAIN log : log[i] \in [kind : Kinds, at : 0..MaxTime, late : BOOLEAN]
  BY <1>1, <1>2, ElementOfSeq
<1> QED
  BY <1>1, <1>2, <1>3, Bounds DEF Ids

\* What the types of rooms and queries say of their fields.
LEMMA RoomFields ==
  ASSUME NEW room \in RoomState
  PROVE  /\ room.last \in 0..MaxMessages
         /\ room.cursor \in 0..MaxTime /\ room.start \in 0..MaxTime
         /\ room.initialized \in BOOLEAN
BY Bounds DEF RoomState, Ids, NoId

LEMMA RoomSaved ==
  ASSUME NEW room \in RoomState, NEW time \in 0..MaxTime,
         NEW saved, saved = [room EXCEPT !.cursor = time]
  PROVE  /\ saved \in RoomState /\ saved.cursor = time
         /\ saved.start = room.start /\ saved.last = room.last
         /\ saved.initialized = room.initialized
BY DEF RoomState

LEMMA QueryFields ==
  ASSUME NEW q \in Query
  PROVE  /\ q.now \in 0..MaxTime /\ q.before \in 1..(MaxMessages + 1)
         /\ q.got \subseteq Ids
BY DEF Query

LEMMA NoRoomType ==
  /\ NoRoom \in RoomState /\ NoRoom.last = 0
  /\ ~NoRoom.initialized /\ NoRoom.cursor = 0
BY Bounds DEF NoRoom, RoomState, NoId

LEMMA NewRoomType ==
  ASSUME clock \in 0..MaxTime
  PROVE  NewRoom \in RoomState /\ NewRoom.last = 0 /\ ~NewRoom.initialized
         /\ NewRoom.cursor = clock
BY DEF NewRoom, RoomState, NoId

LEMMA NoQueryType ==
  /\ NoQuery \in Query /\ NoQuery.now = 0 /\ NoQuery.got = {}
  /\ NoQuery.before = MaxMessages + 1
BY Bounds DEF NoQuery, Query

LEMMA QueryAt ==
  ASSUME NEW time \in 0..MaxTime, NEW q, q = [NoQuery EXCEPT !.now = time]
  PROVE  q \in Query /\ q.now = time /\ q.got = {} /\ q.before = MaxMessages + 1
BY Bounds DEF NoQuery, Query

\* A page comes from at most Limit consecutive rows.
LEMMA RowsFacts ==
  ASSUME WatcherTypeOK, NEW before \in 1..(MaxMessages + 1)
  PROVE  /\ End(before) = IF before <= Len(log) + 1 THEN before ELSE Len(log) + 1
         /\ Oldest(before) \in 1..End(before)
         /\ End(before) - Oldest(before) <= Limit
         /\ Oldest(before) = 1 \/ Oldest(before) = End(before) - Limit
         /\ Rows(before) = Oldest(before)..(End(before) - 1)
         /\ Rows(before) \subseteq DOMAIN log
<1>1. Len(log) \in 0..MaxMessages /\ DOMAIN log = 1..Len(log)
  BY LogFacts
<1>2. End(before) = IF before <= Len(log) + 1 THEN before ELSE Len(log) + 1
  BY <1>1, MinOfTwo DEF End
<1>3. End(before) \in 1..(Len(log) + 1) /\ Limit \in Nat \ {0}
  BY <1>1, <1>2, LimitAssumption
<1>4. Oldest(before) = IF 1 >= End(before) - Limit THEN 1 ELSE End(before) - Limit
  BY <1>3, MaxOfTwo DEF Oldest
<1> QED
  BY <1>1, <1>2, <1>3, <1>4 DEF Rows

LEMMA PageFacts ==
  ASSUME WatcherTypeOK, NEW before \in 1..(MaxMessages + 1), NEW since, NEW until,
         NEW page, page = Page(before, since, until)
  PROVE  /\ page \subseteq Rows(before) /\ page \subseteq DOMAIN log
         /\ page \subseteq Ids /\ page \subseteq 0..MaxMessages
         /\ ~CutShort(page) => page = Rows(before) /\ Oldest(before) = End(before) - Limit
<1>1. page \subseteq Rows(before) /\ page \subseteq DOMAIN log /\ page \subseteq Ids
  BY RowsFacts, LogFacts DEF Page
<1>2. /\ IsFiniteSet(Rows(before))
      /\ Cardinality(Rows(before)) = End(before) - Oldest(before)
      /\ End(before) \in Int /\ Oldest(before) \in Int
  <2>1. /\ Oldest(before) \in 1..End(before) /\ End(before) \in Int
        /\ Rows(before) = Oldest(before)..(End(before) - 1)
    BY RowsFacts, LogFacts
  <2>2. ASSUME NEW a \in Int, NEW b \in Int, a <= b
        PROVE  IsFiniteSet(a..(b - 1)) /\ Cardinality(a..(b - 1)) = b - a
    <3>1. PICK e \in Int : e = b - 1
      OBVIOUS
    <3>2. IsFiniteSet(a..e) /\ Cardinality(a..e) = IF a > e THEN 0 ELSE e - a + 1
      BY FS_Interval
    <3>3. (IF a > e THEN 0 ELSE e - a + 1) = b - a
      BY <2>2, <3>1
    <3> QED
      BY <3>1, <3>2, <3>3
  <2>3. Oldest(before) \in Int /\ Oldest(before) <= End(before)
    BY <2>1
  <2> QED
    BY <2>1, <2>2, <2>3
<1>3. ASSUME ~CutShort(page)
      PROVE  page = Rows(before) /\ Oldest(before) = End(before) - Limit
  <2>1. /\ Cardinality(page) \in Nat /\ Cardinality(page) <= Cardinality(Rows(before))
        /\ Cardinality(page) = Cardinality(Rows(before)) => page = Rows(before)
    BY <1>1, <1>2, FS_Subset, FS_CardinalityType
  <2>2. Cardinality(page) >= Limit /\ Limit \in Nat
    BY <1>3, <2>1, LimitAssumption DEF CutShort
  <2>3. End(before) - Oldest(before) <= Limit
    BY RowsFacts
  <2> QED
    BY <1>2, <2>1, <2>2, <2>3
<1> QED
  BY <1>1, <1>3 DEF Ids

\* The events of a poll are its ids, each once.
LEMMA OrderedFacts ==
  ASSUME WatcherTypeOK, NEW ids, ids \subseteq DOMAIN log, NEW q \in Ordered(ids)
  PROVE  q \in Seq(ids) /\ Range(q) = ids
<1> DEFINE n == Cardinality(ids)
<1>1. DOMAIN log = 1..Len(log) /\ Len(log) \in Nat
  BY LogFacts, Bounds
<1>2. IsFiniteSet(ids) /\ n \in Nat
  <2>1. IsFiniteSet(DOMAIN log)
    BY <1>1, FS_Interval
  <2> QED
    BY <2>1, FS_Subset, FS_CardinalityType
<1>3. q \in [1..n -> ids] /\ \A m, k \in 1..n : m < k => Precedes(q[m], q[k])
  BY DEF Ordered
<1>4. IsFiniteSet(1..n) /\ Cardinality(1..n) = n
  BY <1>2, FS_Interval
<1>5. ASSUME NEW a \in 1..n, NEW b \in 1..n, q[a] = q[b] PROVE a = b
  <2>1. ~Precedes(q[a], q[a])
    <3>1. q[a] \in DOMAIN log
      BY <1>3
    <3>2. q[a] \in Int /\ log[q[a]].at \in Int
      BY <1>1, <3>1, LogFacts, Bounds
    <3> QED
      BY <3>2 DEF Precedes
  <2>2. ~(a < b) /\ ~(b < a)
    BY <1>3, <1>5, <2>1
  <2> QED
    BY <1>2, <2>2
<1>6. q \in Injection(1..n, ids)
  BY <1>3, <1>5, Fun_IsInj
<1>7. q \in Surjection(1..n, ids)
  BY <1>2, <1>4, <1>6, FS_Injection
<1>8. \A t \in ids : \E s \in 1..n : q[s] = t
  BY <1>7 DEF Surjection
<1>9. q \in Seq(ids)
  BY <1>2, <1>3, SeqDef
<1> QED
  BY <1>3, <1>8, <1>9 DEF Range

LEMMA FileOf ==
  ASSUME NEW room
  PROVE  <<room>> # NoFile /\ Head(<<room>>) = room /\ Len(<<room>>) = 1
         /\ (room \in RoomState => <<room>> \in Seq(RoomState))
BY DEF NoFile

\* A step that leaves the database, the watcher and its channel alone.
LEMMA WatcherLeft ==
  ASSUME WatcherInv, UNCHANGED <<clock, log, watcher, stops, history, agentUp>>
  PROVE  WatcherInv'
BY DEF WatcherInv, WatcherTypeOK, RoomOK, FileOK, QueryOK, Reached, PhaseOK, SentOK,
       watcher, history

LEMMA TickPlaces == ASSUME WatcherInv, Tick PROVE WatcherInv'
<1>1. /\ clock' = clock + 1 /\ clock < MaxTime /\ clock \in 0..MaxTime
      /\ UNCHANGED <<log, step, mem, query, outgoing, file, channel, stops,
                     baseline, lost, overrun, agentUp>>
  BY DEF Tick, watcher, history, agent, WatcherInv, WatcherTypeOK
<1>2. WatcherTypeOK'
  BY <1>1, Bounds DEF WatcherInv, WatcherTypeOK
<1>3. \A room \in RoomState : room.cursor <= clock => room.cursor <= clock'
  BY <1>1, RoomFields, Bounds
<1>4. RoomOK(mem)' /\ FileOK'
  BY <1>1, <1>3 DEF WatcherInv, RoomOK, FileOK
<1>5. QueryOK'
  <2>1. query.now <= clock' /\ query \in Query
    BY <1>1, QueryFields, Bounds DEF WatcherInv, QueryOK
  <2> QED
    BY <1>1, <2>1 DEF WatcherInv, QueryOK, Reached
<1>6. PhaseOK' /\ SentOK'
  BY <1>1 DEF WatcherInv, PhaseOK, SentOK
<1> QED
  BY <1>2, <1>4, <1>5, <1>6 DEF WatcherInv

\* What arrives comes above all ids, and is late or close to the present.
LEMMA ArriveRow ==
  ASSUME WatcherTypeOK, Arrive
  PROVE  \E row \in [kind : Kinds, at : 0..MaxTime, late : BOOLEAN] :
           /\ row.late \/ row.at + Lookback >= clock
           /\ row.at \in Nat
           /\ log' = Append(log, row)
           /\ Len(log) < MaxMessages
           /\ Len(log') = Len(log) + 1
           /\ DOMAIN log' = 1..(Len(log) + 1)
           /\ log'[Len(log) + 1] = row
           /\ \A i \in DOMAIN log : log'[i] = log[i]
<1>1. PICK kind \in Kinds, at \in Max({0, clock - MaxDelay})..clock : Insert(kind, at)
  BY DEF Arrive
<1>2. clock \in 0..MaxTime /\ MaxDelay \in Nat /\ Lookback \in Nat /\ MaxTime \in Nat
  BY WatcherBoundsAssumption, LimitAssumption DEF WatcherTypeOK
<1>3. at \in 0..MaxTime
  <2>1. PICK d : d = clock - MaxDelay /\ d \in Int
    BY <1>2
  <2>2. Max({0, d}) = IF 0 >= d THEN 0 ELSE d
    BY <2>1, MaxOfTwo
  <2> QED
    BY <1>2, <2>1, <2>2
<1>4. PICK row : row = [kind |-> kind, at |-> at, late |-> clock > at + Lookback]
  OBVIOUS
<1>5. /\ row \in [kind : Kinds, at : 0..MaxTime, late : BOOLEAN]
      /\ row.at = at /\ row.late = (clock > at + Lookback)
  BY <1>2, <1>3, <1>4
<1>6. log' = Append(log, row) /\ Len(log) < MaxMessages
  BY <1>1, <1>4 DEF Insert
<1>7. log \in Seq([kind : Kinds, at : 0..MaxTime, late : BOOLEAN])
  BY DEF WatcherTypeOK
<1>8. /\ Len(log') = Len(log) + 1 /\ DOMAIN log' = 1..(Len(log) + 1)
      /\ log'[Len(log) + 1] = row /\ \A i \in DOMAIN log : log'[i] = log[i]
  BY <1>5, <1>6, <1>7, AppendProperties, LenProperties
<1>9. row.late \/ row.at + Lookback >= clock
  BY <1>2, <1>3, <1>5
<1>10. row.at \in Nat
  BY <1>2, <1>3, <1>5
<1> QED
  BY <1>5, <1>6, <1>8, <1>9, <1>10

LEMMA ArrivePlaces == ASSUME WatcherInv, Arrive PROVE WatcherInv'
<1>1. UNCHANGED <<clock, step, mem, query, outgoing, file, channel, stops,
                  baseline, lost, overrun, agentUp>>
  BY DEF Arrive, watcher, history, agent
<1>2. PICK row \in [kind : Kinds, at : 0..MaxTime, late : BOOLEAN] :
           /\ row.late \/ row.at + Lookback >= clock
           /\ row.at \in Nat
           /\ log' = Append(log, row)
           /\ Len(log) < MaxMessages
           /\ Len(log') = Len(log) + 1
           /\ DOMAIN log' = 1..(Len(log) + 1)
           /\ log'[Len(log) + 1] = row
           /\ \A i \in DOMAIN log : log'[i] = log[i]
  BY ArriveRow DEF WatcherInv
<1>3. /\ Len(log) \in 0..MaxMessages /\ DOMAIN log = 1..Len(log) /\ Lookback \in Nat
      /\ DOMAIN log \subseteq DOMAIN log' /\ MaxMessages \in Nat
  BY <1>2, LogFacts, LimitAssumption, Bounds DEF WatcherInv
<1>4. WatcherTypeOK'
  <2>1. log' \in Seq([kind : Kinds, at : 0..MaxTime, late : BOOLEAN])
    BY <1>2, AppendProperties DEF WatcherInv, WatcherTypeOK
  <2>2. Len(log') <= MaxMessages
    BY <1>2, <1>3
  <2> QED
    BY <1>1, <2>1, <2>2 DEF WatcherInv, WatcherTypeOK
<1>5. \A room \in RoomState : room.last <= Len(log) => room.last <= Len(log')
  BY <1>2, <1>3, RoomFields
<1>6. RoomOK(mem)' /\ FileOK'
  BY <1>1, <1>5 DEF WatcherInv, RoomOK, FileOK
<1>7. QueryOK'
  <2>1. /\ query \in Query /\ query.now <= clock /\ query.now \in Int /\ clock \in Int
    BY QueryFields, Bounds DEF WatcherInv, QueryOK, WatcherTypeOK
  <2>2. ASSUME NEW top \in DOMAIN log, Reached(top)
        PROVE  top \in DOMAIN log' /\ Reached(top)'
    <3>1. /\ query.before <= top /\ query.got = query.before..top
          /\ \A i \in query.got : log[i].at <= query.now
          /\ \A i \in DOMAIN log : i > top => log[i].late \/ log[i].at + Lookback >= query.now
      BY <2>2 DEF Reached
    <3>2. query.got \subseteq DOMAIN log
      BY <1>3, <2>1, <3>1, QueryFields
    <3>3. \A i \in query.got : log'[i].at <= query.now
      BY <1>2, <3>1, <3>2
    <3>4. ASSUME NEW i \in DOMAIN log', i > top
          PROVE  log'[i].late \/ log'[i].at + Lookback >= query.now
      <4>1. CASE i \in DOMAIN log
        BY <1>2, <3>1, <3>4, <4>1
      <4>2. CASE i = Len(log) + 1
        BY <1>2, <1>3, <2>1, <4>2
      <4> QED
        BY <1>2, <1>3, <4>1, <4>2
    <3> QED
      BY <1>1, <1>3, <3>1, <3>3, <3>4 DEF Reached
  <2> QED
    BY <1>1, <2>1, <2>2 DEF WatcherInv, QueryOK
<1>8. PhaseOK'
  BY <1>1 DEF WatcherInv, PhaseOK
<1>9. SentOK'
  BY <1>1, <1>3, SeqMonotonic DEF WatcherInv, SentOK
<1> QED
  BY <1>4, <1>6, <1>7, <1>8, <1>9 DEF WatcherInv

\* The rows, the room and the query as an open poll finds them.
\* What the invariant says of the variables, in numbers.
LEMMA Facts ==
  ASSUME WatcherInv
  PROVE  /\ Len(log) \in 0..MaxMessages /\ DOMAIN log = 1..Len(log)
         /\ DOMAIN log \subseteq Ids
         /\ mem \in RoomState /\ mem.last \in 0..MaxMessages /\ mem.last <= Len(log)
         /\ mem.cursor \in 0..MaxTime /\ mem.cursor <= clock
         /\ query \in Query /\ query.now \in 0..MaxTime /\ query.now <= clock
         /\ query.before \in 1..(MaxMessages + 1) /\ query.got \subseteq DOMAIN log
         /\ clock \in 0..MaxTime
<1>1. query.got \subseteq DOMAIN log
  BY LogFacts, QueryFields, Bounds DEF WatcherInv, QueryOK, Reached
<1> QED
  BY <1>1, LogFacts, RoomFields, QueryFields DEF WatcherInv, WatcherTypeOK, RoomOK, QueryOK

LEMMA BeginPollPlaces == ASSUME WatcherInv, BeginPoll, UNCHANGED agent PROVE WatcherInv'
<1>1. PICK q : q = [NoQuery EXCEPT !.now = clock]
  OBVIOUS
<1>2. /\ step = "idle" /\ step' = "paging" /\ query' = q
      /\ UNCHANGED <<clock, log, mem, outgoing, file, channel, stops,
                     baseline, lost, overrun, agentUp>>
  BY <1>1 DEF BeginPoll, history, agent
<1>3. q \in Query /\ q.now = clock /\ q.got = {} /\ q.before = MaxMessages + 1
  BY <1>1, QueryAt DEF WatcherInv, WatcherTypeOK
<1>4. WatcherTypeOK'
  BY <1>2, <1>3 DEF WatcherInv, WatcherTypeOK
<1>5. RoomOK(mem)' /\ FileOK' /\ SentOK'
  BY <1>2 DEF WatcherInv, RoomOK, FileOK, SentOK
<1>6. QueryOK'
  BY <1>2, <1>3, Facts DEF QueryOK
<1>7. PhaseOK'
  BY <1>2, <1>3 DEF WatcherInv, PhaseOK
<1> QED
  BY <1>4, <1>5, <1>6, <1>7 DEF WatcherInv

LEMMA TakeBaselinePlaces ==
  ASSUME WatcherInv, TakeBaseline, UNCHANGED agent PROVE WatcherInv'
<1>1. PICK last : last = Max(NextPage \cup {NoId})
  OBVIOUS
<1>0. PICK old : old = mem
  OBVIOUS
<1>2. PICK room : room = [old EXCEPT !.initialized = TRUE, !.last = last]
  OBVIOUS
<1>3. /\ step = "paging" /\ ~mem.initialized /\ mem' = room /\ step' = "sending"
      /\ baseline' = baseline \cup DOMAIN log
      /\ UNCHANGED <<clock, log, query, outgoing, file, channel, stops, lost,
                     overrun, agentUp>>
  BY <1>0, <1>1, <1>2 DEF TakeBaseline, agent
<1>4. last \in Ids \cup {NoId} /\ last <= Len(log)
  <2>1. NextPage \subseteq DOMAIN log
    BY Facts, PageFacts DEF NextPage, WatcherInv
  <2>2. NextPage \cup {NoId} \in SUBSET (0..Len(log)) /\ NextPage \cup {NoId} # {}
    BY <2>1, Facts DEF NoId
  <2>3. Len(log) \in Nat
    BY Facts, Bounds
  <2>4. last \in NextPage \cup {NoId}
    BY <1>1, <2>2, <2>3, MaxOfNats
  <2> QED
    BY <2>1, <2>2, <2>4, Facts
<1>5. /\ room \in RoomState /\ room.last = last /\ room.start = mem.start
      /\ room.cursor = mem.cursor /\ room.initialized
  <2>1. old \in RoomState
    BY <1>0, Facts
  <2>2. /\ room \in RoomState /\ room.last = last /\ room.start = old.start
        /\ room.cursor = old.cursor /\ room.initialized
    BY <1>2, <1>4, <2>1 DEF RoomState
  <2> QED
    BY <1>0, <2>2
<1>6. WatcherTypeOK'
  BY <1>3, <1>5, Facts DEF WatcherInv, WatcherTypeOK
<1>7. RoomOK(mem)' /\ FileOK' /\ SentOK'
  BY <1>3, <1>4, <1>5, Facts DEF WatcherInv, RoomOK, FileOK, SentOK
<1>8. query.got = {}
  BY <1>3 DEF WatcherInv, QueryOK
<1>9. QueryOK'
  BY <1>3, <1>8 DEF WatcherInv, QueryOK
<1>10. file = <<mem>> /\ outgoing = <<>>
  BY <1>3 DEF WatcherInv, PhaseOK
<1>11. PhaseOK'
  <2>1. file # NoFile /\ Head(file) = mem
    BY <1>10, FileOf
  <2>2. Range(outgoing) = {}
    BY <1>10 DEF Range
  <2>3. ~agentUp => FALSE
    BY <1>3 DEF WatcherInv, PhaseOK
  <2> QED
    BY <1>3, <1>5, <1>8, <2>1, <2>2, <2>3 DEF PhaseOK
<1> QED
  BY <1>6, <1>7, <1>9, <1>11 DEF WatcherInv

LEMMA PollFailsPlaces == ASSUME WatcherInv, PollFails, UNCHANGED agent PROVE WatcherInv'
<1>1. /\ step = "paging" /\ step' = "idle" /\ query' = NoQuery
      /\ UNCHANGED <<clock, log, mem, outgoing, file, channel, stops,
                     baseline, lost, overrun, agentUp>>
  BY DEF PollFails, history, agent
<1>2. WatcherTypeOK'
  BY <1>1, NoQueryType DEF WatcherInv, WatcherTypeOK
<1>3. RoomOK(mem)' /\ FileOK' /\ SentOK'
  BY <1>1 DEF WatcherInv, RoomOK, FileOK, SentOK
<1>4. QueryOK'
  BY <1>1, NoQueryType, Facts, Bounds DEF QueryOK
<1>5. PhaseOK'
  BY <1>1, NoQueryType DEF WatcherInv, PhaseOK
<1> QED
  BY <1>2, <1>3, <1>4, <1>5 DEF WatcherInv

LEMMA SendEventPlaces == ASSUME WatcherInv, SendEvent, UNCHANGED agent PROVE WatcherInv'
<1>1. /\ step = "sending" /\ outgoing # <<>>
      /\ channel' = Append(channel, Head(outgoing)) /\ outgoing' = Tail(outgoing)
      /\ UNCHANGED <<clock, log, step, mem, query, file, stops,
                     baseline, lost, overrun, agentUp>>
  BY DEF SendEvent, history, agent
<1>2. outgoing \in Seq(DOMAIN log) /\ channel \in Seq(DOMAIN log)
  BY DEF WatcherInv, SentOK
<1>3. /\ outgoing' \in Seq(DOMAIN log) /\ channel' \in Seq(DOMAIN log)
  BY <1>1, <1>2, HeadTailProperties, AppendProperties
<1>4. \A i \in Range(outgoing') : i \in Range(outgoing)
  BY <1>1, <1>2 DEF Range
<1>5. WatcherTypeOK'
  BY <1>1, <1>3, Facts, SeqMonotonic DEF WatcherInv, WatcherTypeOK
<1>6. RoomOK(mem)' /\ FileOK' /\ SentOK'
  BY <1>1, <1>3 DEF WatcherInv, RoomOK, FileOK, SentOK
<1>7. QueryOK'
  BY <1>1 DEF WatcherInv, QueryOK, Reached
<1>8. PhaseOK'
  BY <1>1, <1>4 DEF WatcherInv, PhaseOK
<1> QED
  BY <1>5, <1>6, <1>7, <1>8 DEF WatcherInv

LEMMA SaveStatePlaces == ASSUME WatcherInv, SaveState, UNCHANGED agent PROVE WatcherInv'
<1>1. PICK room : room = [mem EXCEPT !.cursor = query.now]
  OBVIOUS
<1>2. /\ step = "sending" /\ outgoing = <<>>
      /\ mem' = room /\ file' = <<room>> /\ step' = "idle" /\ query' = NoQuery
      /\ UNCHANGED <<clock, log, outgoing, channel, stops, baseline, lost, overrun,
                     agentUp>>
  BY <1>1 DEF SaveState, AllSent, NextCursor, history, agent
<1>3. /\ room \in RoomState /\ room.cursor = query.now /\ room.last = mem.last
  BY <1>1, Facts, RoomSaved
<1>4. WatcherTypeOK'
  BY <1>2, <1>3, FileOf, NoQueryType DEF WatcherInv, WatcherTypeOK
<1>5. RoomOK(mem)' /\ FileOK' /\ SentOK'
  BY <1>2, <1>3, FileOf, Facts DEF WatcherInv, RoomOK, FileOK, SentOK
<1>6. QueryOK'
  BY <1>2, NoQueryType, Facts, Bounds DEF QueryOK
<1>7. PhaseOK'
  BY <1>2, NoQueryType DEF WatcherInv, PhaseOK
<1> QED
  BY <1>4, <1>5, <1>6, <1>7 DEF WatcherInv

\* A full page continues the rows read so far without a gap.
LEMMA PageOnPlaces == ASSUME WatcherInv, PageOn, UNCHANGED agent PROVE WatcherInv'
<1> DEFINE low == Oldest(query.before)
<1>1. PICK page : page = NextPage
  OBVIOUS
<1>2. PICK old : old = query
  OBVIOUS
<1>3. PICK q : q = [old EXCEPT !.before = Min(page), !.got = old.got \cup page]
  OBVIOUS
<1>4. /\ step = "paging" /\ mem.initialized /\ page # {} /\ ~CutShort(page)
      /\ query' = q
      /\ UNCHANGED <<clock, log, step, mem, outgoing, file, channel, stops,
                     baseline, lost, overrun, agentUp>>
  BY <1>1, <1>2, <1>3 DEF PageOn, history, agent
<1>5. /\ page = Rows(query.before) /\ page \subseteq DOMAIN log /\ page \subseteq Ids
      /\ \A i \in page : log[i].at <= query.now
  <2>1. page = Page(query.before, Since, query.now)
    BY <1>1 DEF NextPage
  <2>2. \A i \in page : log[i].at <= query.now
    BY <2>1 DEF Page
  <2> QED
    BY <1>4, <2>1, <2>2, Facts, PageFacts DEF WatcherInv
<1>6. /\ End(query.before) = IF query.before <= Len(log) + 1 THEN query.before ELSE Len(log) + 1
      /\ low \in 1..End(query.before) /\ low \in Int
      /\ page = low..(End(query.before) - 1)
  BY <1>5, RowsFacts, Facts DEF WatcherInv
<1> HIDE DEF low
<1>7. low \in page /\ \A i \in page : low <= i
  <2>1. PICK i \in page : TRUE
    BY <1>4
  <2> QED
    BY <1>6, <2>1, Facts, Bounds
<1>8. Min(page) = low
  <2>1. page \in SUBSET Nat
    BY <1>5 DEF Ids
  <2>2. PICK m : m = Min(page)
    OBVIOUS
  <2>3. m \in page /\ \A i \in page : m <= i
    BY <1>4, <2>1, <2>2, MinOfNats
  <2>4. m \in Int /\ m <= low /\ low <= m
    BY <1>7, <2>1, <2>3
  <2> QED
    BY <1>6, <2>2, <2>4
<1>9. /\ q \in Query /\ q.now = query.now /\ q.got = query.got \cup page /\ q.before = low
  <2>1. old \in Query /\ Min(page) \in 1..(MaxMessages + 1)
    BY <1>2, <1>5, <1>7, <1>8, Facts, Bounds DEF Ids
  <2>2. /\ q \in Query /\ q.now = old.now /\ q.got = old.got \cup page
        /\ q.before = Min(page)
    BY <1>3, <1>5, <2>1 DEF Query
  <2> QED
    BY <1>2, <1>8, <2>2
<1>10. WatcherTypeOK'
  BY <1>4, <1>9 DEF WatcherInv, WatcherTypeOK
<1>11. RoomOK(mem)' /\ FileOK' /\ SentOK'
  BY <1>4 DEF WatcherInv, RoomOK, FileOK, SentOK
<1>12. \E top \in DOMAIN log :
         /\ low <= top /\ query.got \cup page = low..top
         /\ \A i \in query.got \cup page : log[i].at <= query.now
         /\ \A i \in DOMAIN log : i > top => log[i].late \/ log[i].at + Lookback >= query.now
  <2>1. CASE query.got = {}
    <3>1. query.before = MaxMessages + 1
      BY <2>1 DEF WatcherInv, QueryOK
    <3>0. Len(log) \in 0..MaxMessages /\ MaxMessages \in Nat
      BY Facts, Bounds
    <3>2. End(query.before) = Len(log) + 1
      BY <1>6, <3>1, <3>0
    <3>3. page = low..Len(log) /\ Len(log) \in DOMAIN log /\ low <= Len(log)
      BY <1>6, <1>7, <3>2, Facts, Bounds
    <3>4. \A i \in DOMAIN log : ~(i > Len(log))
      BY Facts, Bounds
    <3> QED
      BY <1>5, <2>1, <3>3, <3>4
  <2>2. CASE query.got # {}
    <3>1. PICK top \in DOMAIN log : Reached(top)
      BY <2>2 DEF WatcherInv, QueryOK
    <3>2. /\ query.before <= top /\ query.got = query.before..top
          /\ \A i \in query.got : log[i].at <= query.now
          /\ \A i \in DOMAIN log : i > top => log[i].late \/ log[i].at + Lookback >= query.now
      BY <3>1 DEF Reached
    <3>3. /\ query.before \in Int /\ top \in Int /\ top <= Len(log) /\ Len(log) \in Int
      BY <3>1, Facts, Bounds
    <3>4. End(query.before) = query.before
      BY <1>6, <3>2, <3>3
    <3>5. page = low..(query.before - 1) /\ low <= query.before - 1
      BY <1>6, <1>7, <3>3, <3>4
    <3>6. query.got \cup page = low..top
      BY <1>6, <3>2, <3>3, <3>5
    <3> QED
      BY <1>5, <1>6, <3>1, <3>2, <3>3, <3>5, <3>6
  <2> QED
    BY <2>1, <2>2
<1>13. QueryOK'
  <2>1. \E top \in DOMAIN log : Reached(top)'
    BY <1>4, <1>9, <1>12 DEF Reached
  <2> QED
    BY <1>4, <1>9, <2>1, Facts DEF QueryOK
<1>14. PhaseOK'
  BY <1>4 DEF WatcherInv, PhaseOK
<1> QED
  BY <1>10, <1>11, <1>13, <1>14 DEF WatcherInv

\* What EndPoll makes of the rows the poll has read.
\* What the end of a poll does to what the watcher knows.
LEMMA EndPollFacts ==
  ASSUME WatcherInv, EndPoll,
         NEW page, page = NextPage, NEW got, got = query.got \cup page
  PROVE  /\ step = "paging" /\ step' = "sending" /\ mem.initialized
         /\ page \subseteq DOMAIN log /\ got \subseteq DOMAIN log
         /\ mem' \in RoomState /\ mem'.start = mem.start /\ mem'.initialized
         /\ mem'.cursor = mem.cursor
         /\ mem'.last \in got \cup {mem.last} /\ mem.last <= mem'.last
         /\ \A i \in got : i <= mem'.last
         /\ mem'.last <= Len(log)
         /\ outgoing' \in Seq(DOMAIN log)
         /\ Range(outgoing') = {i \in got : Fresh(i) /\ log[i].kind = "command"}
         /\ overrun' = overrun \cup Withheld(query.before, mem.last)
         /\ query' \in Query /\ query'.now = query.now /\ query'.got = {}
         /\ query'.before = MaxMessages + 1
         /\ UNCHANGED <<clock, log, file, channel, stops, baseline, lost>>
<1>1. PICK old : old = mem
  OBVIOUS
<1>2. PICK last : last = Max(got \cup {old.last})
  OBVIOUS
<1>3. PICK now : now = query.now
  OBVIOUS
<1>4. /\ step = "paging" /\ step' = "sending" /\ mem.initialized
      /\ outgoing' \in Ordered({i \in got : Fresh(i) /\ log[i].kind = "command"})
      /\ mem' = [old EXCEPT !.last = last]
      /\ overrun' = overrun \cup Withheld(query.before, mem.last)
      /\ query' = [NoQuery EXCEPT !.now = now]
      /\ UNCHANGED <<clock, log, file, channel, stops, baseline, lost>>
  BY <1>1, <1>2, <1>3 DEF EndPoll
<1>5. page \subseteq DOMAIN log /\ got \subseteq DOMAIN log
  BY Facts, PageFacts DEF NextPage, WatcherInv
<1>6. /\ last \in got \cup {mem.last} /\ \A i \in got \cup {mem.last} : i <= last
      /\ last \in 0..Len(log) /\ last \in Ids \cup {NoId} /\ last <= Len(log)
  <2>1. got \cup {mem.last} \in SUBSET (0..Len(log)) /\ got \cup {mem.last} # {}
        /\ Len(log) \in Nat
    BY <1>5, Facts, Bounds
  <2>2. last \in got \cup {mem.last} /\ \A i \in got \cup {mem.last} : i <= last
    BY <1>1, <1>2, <2>1, MaxOfNats
  <2>3. last \in 0..Len(log) /\ last <= Len(log)
    BY <2>1, <2>2
  <2>4. last \in Ids \cup {NoId}
    BY <2>3, Facts, Bounds DEF Ids, NoId
  <2> QED
    BY <2>2, <2>3, <2>4
<1>7. /\ mem' \in RoomState /\ mem'.start = mem.start /\ mem'.initialized
      /\ mem'.cursor = mem.cursor /\ mem'.last = last
  <2>1. PICK room : room = [old EXCEPT !.last = last]
    OBVIOUS
  <2>2. old \in RoomState
    BY <1>1, Facts
  <2>3. /\ room \in RoomState /\ room.start = old.start /\ room.last = last
        /\ room.initialized = old.initialized /\ room.cursor = old.cursor
    BY <1>6, <2>1, <2>2 DEF RoomState
  <2> QED
    BY <1>1, <1>4, <2>1, <2>3
<1>8. /\ outgoing' \in Seq(DOMAIN log)
      /\ Range(outgoing') = {i \in got : Fresh(i) /\ log[i].kind = "command"}
  <2>1. PICK ids : ids = {i \in got : Fresh(i) /\ log[i].kind = "command"}
    OBVIOUS
  <2>2. PICK q \in Ordered(ids) : outgoing' = q
    BY <1>4, <2>1
  <2>3. ids \subseteq DOMAIN log
    BY <1>5, <2>1
  <2>4. q \in Seq(ids) /\ Range(q) = ids
    BY <2>2, <2>3, OrderedFacts DEF WatcherInv
  <2>5. q \in Seq(DOMAIN log)
    BY <2>3, <2>4, SeqMonotonic
  <2> QED
    BY <2>1, <2>2, <2>4, <2>5
<1>9. /\ query' \in Query /\ query'.now = query.now /\ query'.got = {}
      /\ query'.before = MaxMessages + 1
  <2>1. PICK q : q = [NoQuery EXCEPT !.now = now]
    OBVIOUS
  <2>2. now \in 0..MaxTime
    BY <1>3, Facts
  <2>3. q \in Query /\ q.now = now /\ q.got = {} /\ q.before = MaxMessages + 1
    BY <2>1, <2>2, QueryAt
  <2> QED
    BY <1>3, <1>4, <2>1, <2>3
<1> QED
  BY <1>4, <1>5, <1>6, <1>7, <1>8, <1>9

LEMMA EndPollPlaces == ASSUME WatcherInv, EndPoll, UNCHANGED agent PROVE WatcherInv'
<1>0. PICK page : page = NextPage
  OBVIOUS
<1>1. PICK got : got = query.got \cup page
  OBVIOUS
<1>2. /\ step = "paging" /\ step' = "sending" /\ mem.initialized
      /\ mem' \in RoomState /\ mem'.start = mem.start /\ mem'.initialized
      /\ mem'.cursor = mem.cursor /\ mem'.last <= Len(log)
      /\ outgoing' \in Seq(DOMAIN log)
      /\ Range(outgoing') = {i \in got : Fresh(i) /\ log[i].kind = "command"}
      /\ overrun' = overrun \cup Withheld(query.before, mem.last)
      /\ query' \in Query /\ query'.now = query.now /\ query'.got = {}
      /\ query'.before = MaxMessages + 1 /\ got \subseteq DOMAIN log
      /\ UNCHANGED <<clock, log, file, channel, stops, baseline, lost>>
  BY <1>0, <1>1, EndPollFacts
<1>3. agentUp' = agentUp
  BY DEF agent
<1>4. overrun' \subseteq Ids
  <2>0. /\ Len(log) \in 0..MaxMessages /\ MaxMessages \in Nat
        /\ query.before \in 1..(MaxMessages + 1)
    BY Facts, Bounds
  <2>9. /\ Oldest(query.before) \in 1..End(query.before)
        /\ End(query.before) = IF query.before <= Len(log) + 1 THEN query.before
                                                           ELSE Len(log) + 1
    BY <2>0, RowsFacts DEF WatcherInv
  <2>1. Oldest(query.before) \in 1..(Len(log) + 1)
    BY <2>0, <2>9
  <2>2. Withheld(query.before, mem.last) \subseteq Ids
    BY <2>1, Facts, Bounds DEF Withheld, Ids
  <2> QED
    BY <1>2, <2>2 DEF WatcherInv, WatcherTypeOK
<1>5. WatcherTypeOK'
  <2>1. outgoing' \in Seq(Ids)
    BY <1>2, Facts, SeqMonotonic
  <2> QED
    BY <1>2, <1>4, <2>1 DEF WatcherInv, WatcherTypeOK
<1>6. RoomOK(mem)' /\ FileOK' /\ SentOK'
  BY <1>2, Facts DEF WatcherInv, RoomOK, FileOK, SentOK
<1>7. QueryOK'
  BY <1>2, Facts DEF QueryOK
<1>8. file = <<mem>> /\ agentUp
  BY <1>2 DEF WatcherInv, PhaseOK
<1>9. \A i \in Range(outgoing') : i > mem.last
  BY <1>2, Facts, Bounds DEF Fresh, NoId
<1>10. PhaseOK'
  <2>1. file # NoFile /\ Head(file) = mem
    BY <1>8, FileOf
  <2> QED
    BY <1>2, <1>3, <1>8, <1>9, <2>1 DEF PhaseOK
<1> QED
  BY <1>5, <1>6, <1>7, <1>10 DEF WatcherInv

\* The channel holds rows of the database.
LEMMA ChannelIds ==
  ASSUME WatcherInv
  PROVE  Range(channel) \subseteq DOMAIN log /\ Range(channel) \subseteq Ids
<1>1. channel \in Seq(DOMAIN log)
  BY DEF WatcherInv, SentOK
<1>2. Range(channel) \subseteq DOMAIN log
  BY <1>1, RangeOfSeq
<1> QED
  BY <1>2, Facts

\* A watcher starts from the file, or as if the room were new.
\* A watcher starts from the file, or afresh and then without a watermark.
LEMMA StartFacts ==
  ASSUME WatcherInv, StartWatcher
  PROVE  /\ step' = "idle" /\ query' = NoQuery /\ outgoing' = <<>> /\ channel' = <<>>
         /\ mem' \in RoomState /\ file' = <<mem'>>
         /\ mem'.last <= Len(log) /\ mem'.cursor <= clock
         /\ \/ file # NoFile /\ mem' = Head(file)
            \/ mem'.last = 0 /\ ~mem'.initialized
<1>1. /\ step' = "idle" /\ query' = NoQuery /\ outgoing' = <<>> /\ channel' = <<>>
      /\ mem' = (IF file = NoFile THEN NewRoom ELSE Head(file)) /\ file' = <<mem'>>
  BY DEF StartWatcher
<1>2. CASE file = NoFile
  BY <1>1, <1>2, Facts, Bounds, NewRoomType
<1>3. CASE file # NoFile
  <2>1. RoomOK(Head(file))
    BY <1>3 DEF WatcherInv, FileOK
  <2> QED
    BY <1>1, <1>3, <2>1 DEF RoomOK
<1> QED
  BY <1>2, <1>3

LEMMA StartPlaces ==
  ASSUME WatcherInv, StartWatcher, UNCHANGED <<clock, log, baseline, overrun>>,
         agentUp', stops' \in 0..MaxStops, lost' \subseteq Ids
  PROVE  WatcherInv'
<1>1. /\ step' = "idle" /\ query' = NoQuery /\ outgoing' = <<>> /\ channel' = <<>>
      /\ mem' \in RoomState /\ file' = <<mem'>>
      /\ mem'.last <= Len(log) /\ mem'.cursor <= clock
  BY StartFacts
<1>2. <<>> \in Seq(Ids) /\ <<>> \in Seq(DOMAIN log)
  BY EmptySeq
<1>3. WatcherTypeOK'
  BY <1>1, <1>2, FileOf, NoQueryType DEF WatcherInv, WatcherTypeOK
<1>4. RoomOK(mem)' /\ FileOK'
  BY <1>1, FileOf DEF RoomOK, FileOK
<1>5. SentOK'
  BY <1>1, <1>2 DEF SentOK
<1>6. QueryOK'
  BY <1>1, NoQueryType, Facts, Bounds DEF QueryOK
<1>7. PhaseOK'
  BY <1>1, NoQueryType DEF PhaseOK
<1> QED
  BY <1>3, <1>4, <1>5, <1>6, <1>7 DEF WatcherInv

\* A watcher ends: on its own, or with the agent.
LEMMA OffPlaces ==
  ASSUME WatcherInv, Off, UNCHANGED <<clock, log, baseline, overrun>>,
         file' = file \/ file' = NoFile,
         \/ UNCHANGED <<channel, agentUp>> /\ step # "off"
         \/ channel' = <<>>,
         stops' \in 0..MaxStops, lost' \subseteq Ids
  PROVE  WatcherInv'
<1>1. step' = "off" /\ query' = NoQuery /\ outgoing' = <<>> /\ mem' = NoRoom
  BY DEF Off
<1>2. <<>> \in Seq(Ids) /\ <<>> \in Seq(DOMAIN log) /\ <<>> \in Seq(RoomState)
      /\ Len(<<>>) = 0
  BY EmptySeq
<1>3. channel' \in Seq(Ids) /\ channel' \in Seq(DOMAIN log)
  <2>1. channel \in Seq(Ids) /\ channel \in Seq(DOMAIN log)
    BY DEF WatcherInv, SentOK, WatcherTypeOK
  <2>2. channel' = channel \/ channel' = <<>>
    OBVIOUS
  <2> QED
    BY <1>2, <2>1, <2>2
<1>4. file' \in Seq(RoomState) /\ Len(file') <= 1
  <2>1. file \in Seq(RoomState) /\ Len(file) <= 1
    BY DEF WatcherInv, WatcherTypeOK
  <2>2. file' = file \/ file' = <<>>
    BY DEF NoFile
  <2>3. CASE file' = file
    BY <2>1, <2>3
  <2>4. CASE file' = <<>>
    BY <1>2, <2>4
  <2> QED
    BY <2>2, <2>3, <2>4
<1>5. WatcherTypeOK'
  BY <1>1, <1>2, <1>3, <1>4, NoRoomType, NoQueryType DEF WatcherInv, WatcherTypeOK
<1>6. RoomOK(mem)'
  BY <1>1, NoRoomType, Facts, Bounds DEF RoomOK
<1>7. FileOK'
  BY DEF WatcherInv, FileOK, RoomOK
<1>8. SentOK'
  BY <1>1, <1>2, <1>3 DEF SentOK
<1>9. QueryOK'
  BY <1>1, NoQueryType, Facts, Bounds DEF QueryOK
<1>10. ~agentUp' => channel' = <<>>
  BY DEF WatcherInv, PhaseOK
<1>11. PhaseOK'
  BY <1>1, <1>10, NoQueryType DEF PhaseOK
<1> QED
  BY <1>5, <1>6, <1>7, <1>8, <1>9, <1>11 DEF WatcherInv

LEMMA DrainPlaces == ASSUME WatcherInv, Drain PROVE WatcherInv'
<1>1. /\ channel # <<>> /\ channel' = Tail(channel) /\ agentUp
      /\ UNCHANGED <<clock, log, step, mem, query, outgoing, file, stops,
                     baseline, lost, overrun, agentUp>>
  BY DEF Drain, history
<1>2. channel \in Seq(Ids) /\ channel \in Seq(DOMAIN log)
  BY DEF WatcherInv, WatcherTypeOK, SentOK
<1>3. channel' \in Seq(Ids) /\ channel' \in Seq(DOMAIN log)
  BY <1>1, <1>2, HeadTailProperties
<1> QED
  BY <1>1, <1>3 DEF WatcherInv, WatcherTypeOK, RoomOK, FileOK, QueryOK, Reached,
     PhaseOK, SentOK

\* Every step keeps the places.
LEMMA WatcherInvStep == WatcherInv /\ [Next]_vars => WatcherInv'
<1> SUFFICES ASSUME WatcherInv, [Next]_vars PROVE WatcherInv'
  OBVIOUS
<1>1. CASE Tick
  BY <1>1, TickPlaces
<1>2. CASE Arrive
  BY <1>2, ArrivePlaces
<1>3. CASE Notice \/ RestartComesDue \/ Drained
  BY <1>3, WatcherLeft DEF Notice, RestartComesDue, Drained
<1>4. CASE Ignore \/ Decide \/ Finish
  BY <1>4, WatcherLeft DEF Ignore, Decide, Finish, rest
<1>5. CASE WatcherSteps
  <2>1. UNCHANGED agent /\ agentUp' = agentUp
    BY <1>5 DEF WatcherSteps, agent
  <2>2. CASE BeginPoll
    BY <2>1, <2>2, BeginPollPlaces
  <2>3. CASE TakeBaseline
    BY <2>1, <2>3, TakeBaselinePlaces
  <2>4. CASE PageOn
    BY <2>1, <2>4, PageOnPlaces
  <2>5. CASE EndPoll
    BY <2>1, <2>5, EndPollPlaces
  <2>6. CASE PollFails
    BY <2>1, <2>6, PollFailsPlaces
  <2>7. CASE SendEvent
    BY <2>1, <2>7, SendEventPlaces
  <2>8. CASE SaveState
    BY <2>1, <2>8, SaveStatePlaces
  <2>9. CASE WatcherPanics
    <3>1. /\ step # "off" /\ Off /\ stops < MaxStops /\ stops' = stops + 1
          /\ UNCHANGED <<clock, log, file, channel, baseline, lost, overrun>>
      BY <2>9 DEF WatcherPanics, Stop, history
    <3>2. stops' \in 0..MaxStops /\ lost' \subseteq Ids
      BY <3>1, Bounds DEF WatcherInv, WatcherTypeOK
    <3> QED
      BY <2>1, <3>1, <3>2, OffPlaces
  <2> QED
    BY <1>5, <2>2, <2>3, <2>4, <2>5, <2>6, <2>7, <2>8, <2>9 DEF WatcherSteps
<1>6. CASE Drain
  BY <1>6, DrainPlaces
<1>7. CASE Wait
  <2>1. agentUp /\ UNCHANGED <<clock, log, agentUp>>
    BY <1>7 DEF Wait
  <2>2. CASE UNCHANGED <<watcher, stops, history>>
    BY <2>1, <2>2, WatcherLeft
  <2>3. CASE Replace /\ (UNCHANGED stops \/ Stop)
    <3>1. /\ StartWatcher /\ lost' = lost \cup Range(channel)
          /\ UNCHANGED <<baseline, overrun>>
      BY <2>3 DEF Replace
    <3>2. stops' \in 0..MaxStops /\ lost' \subseteq Ids
      BY <2>3, <3>1, ChannelIds, Bounds DEF Stop, WatcherInv, WatcherTypeOK
    <3> QED
      BY <2>1, <3>1, <3>2, StartPlaces
  <2> QED
    BY <1>7, <2>2, <2>3 DEF Wait
<1>8. CASE Crash
  <2>1. /\ stops < MaxStops /\ stops' = stops + 1 /\ Off
        /\ file' = file \/ file' = NoFile
        /\ lost' = lost \cup Range(channel) /\ channel' = <<>>
        /\ UNCHANGED <<clock, log, baseline, overrun>>
    BY <1>8 DEF Crash, Stop, WatcherKilled
  <2>2. stops' \in 0..MaxStops /\ lost' \subseteq Ids
    BY <2>1, ChannelIds, Bounds DEF WatcherInv, WatcherTypeOK
  <2> QED
    BY <2>1, <2>2, OffPlaces
<1>9. CASE Restart
  <2>1. /\ agentUp' /\ StartWatcher
        /\ UNCHANGED <<clock, log, stops, baseline, lost, overrun>>
    BY <1>9 DEF Restart, history
  <2>2. stops' \in 0..MaxStops /\ lost' \subseteq Ids
    BY <2>1 DEF WatcherInv, WatcherTypeOK
  <2> QED
    BY <2>1, <2>2, StartPlaces
<1>10. CASE UNCHANGED vars
  BY <1>10, WatcherLeft DEF vars, agent
<1> QED
  BY <1>1, <1>2, <1>3, <1>4, <1>5, <1>6, <1>7, <1>8, <1>9, <1>10 DEF Next

LEMMA WatcherInvInit == Init => WatcherInv
<1> SUFFICES ASSUME Init PROVE WatcherInv
  OBVIOUS
<1>1. /\ clock = 0 /\ log = <<>> /\ step = "idle" /\ mem = NoRoom /\ query = NoQuery
      /\ outgoing = <<>> /\ file = <<NoRoom>> /\ channel = <<>> /\ stops = 0
      /\ baseline = {} /\ lost = {} /\ overrun = {} /\ agentUp
  BY DEF Init
<1>2. /\ <<>> \in Seq(Ids) /\ <<>> \in Seq(DOMAIN log) /\ Len(<<>>) = 0
      /\ <<>> \in Seq([kind : Kinds, at : 0..MaxTime, late : BOOLEAN])
  BY EmptySeq
<1>3. WatcherTypeOK
  BY <1>1, <1>2, NoRoomType, NoQueryType, FileOf, Bounds DEF WatcherTypeOK
<1>4. RoomOK(mem) /\ FileOK
  BY <1>1, <1>2, NoRoomType, FileOf DEF RoomOK, FileOK
<1>5. QueryOK
  BY <1>1, NoQueryType DEF QueryOK
<1>6. PhaseOK
  BY <1>1, NoQueryType DEF PhaseOK
<1>7. SentOK
  BY <1>1, <1>2 DEF SentOK
<1> QED
  BY <1>3, <1>4, <1>5, <1>6, <1>7 DEF WatcherInv

\* A step that forgets no row and no reason.
---------------------------------------------------------------------------
(* What is excused stays excused.                                          *)

\* No row is changed, no history shrinks, nothing leaves the channel but to
\* the main loop or to be lost.
Keeps ==
  /\ DOMAIN log \subseteq DOMAIN log'
  /\ \A i \in DOMAIN log : log'[i] = log[i]
  /\ baseline \subseteq baseline' /\ lost \subseteq lost'
  /\ overrun \subseteq overrun' /\ taken \subseteq taken'
  /\ Range(channel) \subseteq Range(channel') \cup taken' \cup lost'

LEMMA ExcusedStays ==
  ASSUME Keeps, NEW i \in DOMAIN log, NEW start, Excused(i, start)
  PROVE  Excused(i, start)'
BY DEF Keeps, Excused

\* A file that is not written keeps what it has.
LEMMA FileKept ==
  ASSUME KeptInv, Keeps, UNCHANGED <<log, file>>
  PROVE  file' # NoFile =>
           /\ NoneBelow(Head(file), {})'
           /\ Head(file').initialized => NoneBehind(Head(file), Head(file).cursor)'
<1>1. PICK r : r = Head(file)
  OBVIOUS
<1>2. CASE file # NoFile
  <2>1. /\ NoneBelow(r, {})
        /\ r.initialized => NoneBehind(r, r.cursor)
    BY <1>1, <1>2 DEF KeptInv
  <2>2. ASSUME NEW i \in DOMAIN log', log'[i].kind = "command", i <= r.last
        PROVE  Excused(i, r.start)'
    <3>1. i \in DOMAIN log /\ Excused(i, r.start)
      BY <2>1, <2>2 DEF NoneBelow
    <3> QED
      BY <3>1, ExcusedStays
  <2>3. ASSUME r.initialized, NEW i \in DOMAIN log', log'[i].kind = "command",
               i > r.last, log'[i].at + Lookback < r.cursor
        PROVE  Excused(i, r.start)'
    <3>1. i \in DOMAIN log /\ Excused(i, r.start)
      BY <2>1, <2>3 DEF NoneBehind
    <3> QED
      BY <3>1, ExcusedStays
  <2>4. Head(file') = r
    BY <1>1
  <2> QED
    BY <2>2, <2>3, <2>4 DEF NoneBelow, NoneBehind
<1> QED
  BY <1>2

\* So does a poll being sent: what it no longer holds is in the channel.
LEMMA SendingKept ==
  ASSUME KeptInv, Keeps, UNCHANGED <<log, step, mem>>, query'.now = query.now,
         Range(outgoing) \subseteq Range(outgoing') \cup Range(channel')
  PROVE  step' = "sending" =>
           /\ NoneBelow(mem, Range(outgoing))'
           /\ NoneBehind(mem, query.now)'
<1> SUFFICES ASSUME step = "sending"
             PROVE  /\ NoneBelow(mem, Range(outgoing))'
                    /\ NoneBehind(mem, query.now)'
  OBVIOUS
<1>1. NoneBelow(mem, Range(outgoing)) /\ NoneBehind(mem, query.now)
  BY DEF KeptInv
<1>2. ASSUME NEW i \in DOMAIN log', log'[i].kind = "command", i <= mem'.last
      PROVE  i \in Range(outgoing') \/ Excused(i, mem.start)'
  <2>1. i \in DOMAIN log /\ (i \in Range(outgoing) \/ Excused(i, mem.start))
    BY <1>1, <1>2 DEF NoneBelow
  <2>2. CASE Excused(i, mem.start)
    <3>1. PICK s : s = mem.start
      OBVIOUS
    <3>2. Excused(i, s)'
      BY <2>1, <2>2, <3>1, ExcusedStays
    <3> QED
      BY <3>1, <3>2
  <2>3. CASE i \in Range(outgoing)
    BY <2>3 DEF Excused
  <2> QED
    BY <2>1, <2>2, <2>3
<1>3. ASSUME NEW i \in DOMAIN log', log'[i].kind = "command", i > mem'.last,
             log'[i].at + Lookback < query'.now
      PROVE  Excused(i, mem.start)'
  <2>1. PICK s : s = mem.start
    OBVIOUS
  <2>2. i \in DOMAIN log /\ Excused(i, s)
    BY <1>1, <1>3, <2>1 DEF NoneBehind
  <2>3. Excused(i, s)'
    BY <2>2, ExcusedStays
  <2> QED
    BY <2>1, <2>3
<1> QED
  BY <1>2, <1>3 DEF NoneBelow, NoneBehind

LEMMA KeptLeft ==
  ASSUME KeptInv, Keeps, UNCHANGED <<log, step, mem, query, outgoing, file>>
  PROVE  KeptInv'
BY FileKept, SendingKept DEF KeptInv

\* A row that arrives lies above every watermark; what is below a cursor then
\* is late.
LEMMA ArriveKept == ASSUME WatcherInv, KeptInv, Arrive PROVE KeptInv'
<1>1. UNCHANGED <<clock, step, mem, query, outgoing, file, channel, baseline,
                  lost, overrun, taken>>
  BY DEF Arrive, watcher, history, agent
<1>2. PICK row \in [kind : Kinds, at : 0..MaxTime, late : BOOLEAN] :
           /\ row.late \/ row.at + Lookback >= clock
           /\ row.at \in Nat
           /\ DOMAIN log' = 1..(Len(log) + 1)
           /\ log'[Len(log) + 1] = row
           /\ \A i \in DOMAIN log : log'[i] = log[i]
  BY ArriveRow DEF WatcherInv
<1>3. /\ Len(log) \in 0..MaxMessages /\ DOMAIN log = 1..Len(log) /\ Lookback \in Nat
      /\ MaxMessages \in Nat /\ MaxTime \in Nat /\ clock \in 0..MaxTime
  BY Facts, LimitAssumption, Bounds
<1>4. Keeps
  BY <1>1, <1>2, <1>3 DEF Keeps
<1>5. ASSUME NEW room \in RoomState, RoomOK(room), NEW time \in 0..MaxTime, time <= clock,
             NEW pending
      PROVE  /\ NoneBelow(room, pending) =>
                  \A i \in DOMAIN log' : log'[i].kind = "command" /\ i <= room.last =>
                    i \in pending \/ Excused(i, room.start)'
             /\ NoneBehind(room, time) =>
                  \A i \in DOMAIN log' :
                    log'[i].kind = "command" /\ i > room.last
                      /\ log'[i].at + Lookback < time => Excused(i, room.start)'
  <2>1. room.last \in 0..MaxMessages /\ room.last <= Len(log)
    BY <1>5, RoomFields DEF RoomOK
  <2>2. \A i \in DOMAIN log : Excused(i, room.start) => Excused(i, room.start)'
    BY <1>4, ExcusedStays
  <2>3. ASSUME NoneBelow(room, pending), NEW i \in DOMAIN log',
               log'[i].kind = "command", i <= room.last
        PROVE  i \in pending \/ Excused(i, room.start)'
    <3>1. i \in DOMAIN log
      BY <1>2, <1>3, <2>1, <2>3
    <3> QED
      BY <1>2, <2>2, <2>3, <3>1 DEF NoneBelow
  <2>4. ASSUME NoneBehind(room, time), NEW i \in DOMAIN log',
               log'[i].kind = "command", i > room.last, log'[i].at + Lookback < time
        PROVE  Excused(i, room.start)'
    <3>1. CASE i \in DOMAIN log
      BY <1>2, <2>2, <2>4, <3>1 DEF NoneBehind
    <3>2. CASE i = Len(log) + 1
      <4>1. row.late
        BY <1>2, <1>3, <1>5, <2>4, <3>2
      <4> QED
        BY <1>2, <3>2, <4>1 DEF Excused
    <3> QED
      BY <1>2, <1>3, <3>1, <3>2
  <2> QED
    BY <2>3, <2>4
<1>6. PICK f : f = Head(file)
  OBVIOUS
<1>7. PICK m : m = mem
  OBVIOUS
<1>8. file # NoFile =>
        /\ NoneBelow(Head(file), {})'
        /\ Head(file').initialized => NoneBehind(Head(file), Head(file).cursor)'
  <2> SUFFICES ASSUME file # NoFile
               PROVE  /\ NoneBelow(Head(file), {})'
                      /\ Head(file').initialized =>
                           NoneBehind(Head(file), Head(file).cursor)'
    OBVIOUS
  <2>1. /\ NoneBelow(f, {}) /\ (f.initialized => NoneBehind(f, f.cursor))
        /\ f \in RoomState /\ RoomOK(f)
    BY <1>6 DEF KeptInv, WatcherInv, FileOK, RoomOK
  <2>2. f.cursor \in 0..MaxTime /\ f.cursor <= clock
    BY <2>1, RoomFields DEF RoomOK
  <2>3. /\ \A i \in DOMAIN log' : log'[i].kind = "command" /\ i <= f.last =>
             Excused(i, f.start)'
        /\ f.initialized =>
             \A i \in DOMAIN log' :
               log'[i].kind = "command" /\ i > f.last
                 /\ log'[i].at + Lookback < f.cursor => Excused(i, f.start)'
    BY <1>5, <2>1, <2>2
  <2>4. Head(file') = f
    BY <1>1, <1>6
  <2> QED
    BY <2>3, <2>4 DEF NoneBelow, NoneBehind
<1>9. step = "sending" =>
        /\ NoneBelow(mem, Range(outgoing))'
        /\ NoneBehind(mem, query.now)'
  <2> SUFFICES ASSUME step = "sending"
               PROVE  /\ NoneBelow(mem, Range(outgoing))'
                      /\ NoneBehind(mem, query.now)'
    OBVIOUS
  <2>1. PICK p : p = Range(outgoing)
    OBVIOUS
  <2>2. PICK t : t = query.now
    OBVIOUS
  <2>3. /\ NoneBelow(m, p) /\ NoneBehind(m, t) /\ m \in RoomState /\ RoomOK(m)
        /\ t \in 0..MaxTime /\ t <= clock
    BY <1>7, <2>1, <2>2, Facts DEF KeptInv, WatcherInv
  <2>4. /\ \A i \in DOMAIN log' : log'[i].kind = "command" /\ i <= m.last =>
             i \in p \/ Excused(i, m.start)'
        /\ \A i \in DOMAIN log' :
             log'[i].kind = "command" /\ i > m.last
               /\ log'[i].at + Lookback < t => Excused(i, m.start)'
    BY <1>5, <2>3
  <2>5. mem' = m /\ Range(outgoing') = p /\ query'.now = t
    BY <1>1, <1>7, <2>1, <2>2
  <2> QED
    BY <2>4, <2>5 DEF NoneBelow, NoneBehind
<1> QED
  BY <1>1, <1>8, <1>9 DEF KeptInv

\* At a baseline all rows are excused.
LEMMA TakeBaselineKept ==
  ASSUME WatcherInv, KeptInv, TakeBaseline, UNCHANGED agent PROVE KeptInv'
<1>1. /\ step' = "sending" /\ baseline' = baseline \cup DOMAIN log
      /\ UNCHANGED <<log, query, outgoing, file, channel, lost, overrun, taken>>
  BY DEF TakeBaseline, agent
<1>2. Keeps
  BY <1>1 DEF Keeps
<1>3. \A i \in DOMAIN log' : \A start : Excused(i, start)'
  BY <1>1 DEF Excused
<1>4. NoneBelow(mem, Range(outgoing))' /\ NoneBehind(mem, query.now)'
  BY <1>3 DEF NoneBelow, NoneBehind
<1> QED
  BY <1>1, <1>2, <1>4, FileKept DEF KeptInv

\* Sending moves an element from the front of one sequence to the end of
\* another.
LEMMA AppendedRange ==
  ASSUME NEW S, NEW c \in Seq(S), NEW e \in S
  PROVE  Range(Append(c, e)) = Range(c) \cup {e}
<1>1. /\ DOMAIN c = 1..Len(c) /\ Len(c) \in Nat
      /\ DOMAIN Append(c, e) = 1..(Len(c) + 1)
      /\ \A i \in 1..Len(c) : Append(c, e)[i] = c[i]
      /\ Append(c, e)[Len(c) + 1] = e
  BY AppendProperties, LenProperties
<1>2. DOMAIN Append(c, e) = DOMAIN c \cup {Len(c) + 1}
  BY <1>1
<1> QED
  BY <1>1, <1>2 DEF Range

LEMMA TailRange ==
  ASSUME NEW S, NEW o \in Seq(S), o # <<>>
  PROVE  Range(o) = {Head(o)} \cup Range(Tail(o))
<1>1. /\ DOMAIN o = 1..Len(o) /\ Len(o) \in Nat /\ Len(o) > 0
      /\ Head(o) = o[1]
      /\ DOMAIN Tail(o) = 1..(Len(o) - 1)
      /\ \A i \in 1..(Len(o) - 1) : Tail(o)[i] = o[i + 1]
  <2>1. DOMAIN o = 1..Len(o) /\ Len(o) \in Nat /\ Len(o) > 0
    BY EmptySeq, LenProperties
  <2>2. /\ Len(Tail(o)) = Len(o) - 1 /\ Tail(o) \in Seq(S)
        /\ \A i \in 1..Len(Tail(o)) : Tail(o)[i] = o[i + 1]
    BY HeadTailProperties
  <2>3. Head(o) = o[1]
    BY DEF Head
  <2> QED
    BY <2>1, <2>2, <2>3, LenProperties
<1>2. ASSUME NEW i \in DOMAIN o PROVE o[i] \in {Head(o)} \cup Range(Tail(o))
  <2>1. CASE i = 1
    BY <1>1, <2>1
  <2>2. CASE i # 1
    <3>1. i - 1 \in DOMAIN Tail(o) /\ Tail(o)[i - 1] = o[i]
      BY <1>1, <2>2
    <3> QED
      BY <3>1 DEF Range
  <2> QED
    BY <2>1, <2>2
<1>3. ASSUME NEW i \in DOMAIN Tail(o) PROVE Tail(o)[i] \in Range(o)
  <2>1. i + 1 \in DOMAIN o /\ Tail(o)[i] = o[i + 1]
    BY <1>1
  <2> QED
    BY <2>1 DEF Range
<1>4. Head(o) \in Range(o)
  BY <1>1 DEF Range
<1> QED
  BY <1>2, <1>3, <1>4 DEF Range

LEMMA SendEventKept ==
  ASSUME WatcherInv, KeptInv, SendEvent, UNCHANGED agent PROVE KeptInv'
<1>1. /\ step = "sending" /\ outgoing # <<>>
      /\ channel' = Append(channel, Head(outgoing)) /\ outgoing' = Tail(outgoing)
      /\ UNCHANGED <<log, step, mem, query, file, baseline, lost, overrun, taken>>
  BY DEF SendEvent, history, agent
<1>2. outgoing \in Seq(DOMAIN log) /\ channel \in Seq(DOMAIN log)
  BY DEF WatcherInv, SentOK
<1>3. PICK c : c = channel
  OBVIOUS
<1>4. PICK o : o = outgoing
  OBVIOUS
<1>5. /\ Range(Append(c, Head(o))) = Range(c) \cup {Head(o)}
      /\ Range(o) = {Head(o)} \cup Range(Tail(o))
  <2>1. Head(o) \in DOMAIN log /\ c \in Seq(DOMAIN log) /\ o \in Seq(DOMAIN log)
        /\ o # <<>>
    BY <1>1, <1>2, <1>3, <1>4, HeadTailProperties
  <2>2. Range(Append(c, Head(o))) = Range(c) \cup {Head(o)}
    BY <2>1, AppendedRange
  <2>3. Range(o) = {Head(o)} \cup Range(Tail(o))
    BY <2>1, TailRange
  <2> QED
    BY <2>2, <2>3
<1>6. /\ Range(channel') = Range(channel) \cup {Head(outgoing)}
      /\ Range(outgoing) \subseteq Range(outgoing') \cup Range(channel')
  BY <1>1, <1>3, <1>4, <1>5
<1>7. Keeps
  BY <1>1, <1>6 DEF Keeps
<1> QED
  BY <1>1, <1>6, <1>7, FileKept, SendingKept DEF KeptInv

\* With nothing left to send the room goes to the file as it is.
LEMMA SaveStateKept ==
  ASSUME WatcherInv, KeptInv, SaveState, UNCHANGED agent PROVE KeptInv'
<1>0. PICK old : old = mem
  OBVIOUS
<1>11. PICK time : time = query.now
  OBVIOUS
<1>1. PICK room : room = [old EXCEPT !.cursor = time]
  OBVIOUS
<1>2. /\ step = "sending" /\ outgoing = <<>> /\ file' = <<room>> /\ step' = "idle"
      /\ UNCHANGED <<log, channel, baseline, lost, overrun, taken>>
  BY <1>0, <1>1, <1>11 DEF SaveState, AllSent, NextCursor, history, agent
<1>3. /\ room.cursor = time /\ room.last = old.last /\ room.start = old.start
      /\ old \in RoomState
  BY <1>0, <1>1, <1>11, Facts DEF RoomState
<1>4. /\ NoneBelow(old, {}) /\ NoneBehind(old, time)
  <2>1. Range(outgoing) = {}
    BY <1>2 DEF Range
  <2> QED
    BY <1>0, <1>2, <1>11, <2>1 DEF KeptInv
<1>5. Keeps
  BY <1>2 DEF Keeps
<1>6. \A i \in DOMAIN log : Excused(i, old.start) => Excused(i, old.start)'
  BY <1>5, ExcusedStays
<1>7. file' # NoFile /\ Head(file') = room
  BY <1>2, FileOf
<1>8. ASSUME NEW i \in DOMAIN log', log'[i].kind = "command", i <= room.last
      PROVE  Excused(i, room.start)'
  BY <1>2, <1>3, <1>4, <1>6, <1>8 DEF NoneBelow
<1>9. ASSUME NEW i \in DOMAIN log', log'[i].kind = "command", i > room.last,
             log'[i].at + Lookback < room.cursor
      PROVE  Excused(i, room.start)'
  BY <1>2, <1>3, <1>4, <1>6, <1>9 DEF NoneBehind
<1>10. NoneBelow(Head(file), {})' /\ NoneBehind(Head(file), Head(file).cursor)'
  BY <1>7, <1>8, <1>9 DEF NoneBelow, NoneBehind
<1> QED
  BY <1>2, <1>10 DEF KeptInv

\* The new thread goes on from the file, or from no watermark at all.
LEMMA StartKept ==
  ASSUME WatcherInv, KeptInv, StartWatcher, Keeps, UNCHANGED log
  PROVE  KeptInv'
<1>1. PICK room : room = mem'
  OBVIOUS
<1>2. /\ step' = "idle" /\ file' = <<room>> /\ room \in RoomState
      /\ \/ file # NoFile /\ room = Head(file)
         \/ room.last = 0 /\ ~room.initialized
  BY <1>1, StartFacts
<1>3. file' # NoFile /\ Head(file') = room
  BY <1>2, FileOf
<1>4. CASE file # NoFile /\ room = Head(file)
  <2>1. NoneBelow(room, {}) /\ (room.initialized => NoneBehind(room, room.cursor))
    BY <1>4 DEF KeptInv
  <2>2. \A i \in DOMAIN log : Excused(i, room.start) => Excused(i, room.start)'
    BY ExcusedStays
  <2> QED
    BY <1>2, <1>3, <2>1, <2>2 DEF KeptInv, NoneBelow, NoneBehind
<1>5. CASE room.last = 0 /\ ~room.initialized
  <2>1. \A i \in DOMAIN log' : ~(i <= room.last)
    BY <1>5, Facts, Bounds
  <2> QED
    BY <1>2, <1>3, <1>5, <2>1 DEF KeptInv, NoneBelow
<1> QED
  BY <1>2, <1>4, <1>5

LEMMA OffKept ==
  ASSUME KeptInv, Off, Keeps, UNCHANGED log, file' = file \/ file' = NoFile
  PROVE  KeptInv'
BY FileKept DEF KeptInv, Off
\* What a poll leaves above its watermark lies below its last page, or in
\* the last page but of no use, or came while it was paging.
LEMMA Unpolled ==
  ASSUME WatcherInv, EndPoll,
         NEW got, got = query.got \cup NextPage,
         NEW i \in DOMAIN log, i > mem.last, i \notin got
  PROVE  \/ i \in overrun'
         \/ i \in Rows(query.before)
         \/ /\ \A j \in got : j < i
            /\ log[i].late \/ log[i].at + Lookback >= query.now
<1>0. PICK b : b = query.before
  OBVIOUS
<1>1. /\ b \in 1..(MaxMessages + 1) /\ query \in Query
      /\ Len(log) \in 0..MaxMessages /\ DOMAIN log = 1..Len(log) /\ MaxMessages \in Nat
      /\ mem.last \in 0..MaxMessages
  <2>1. query \in Query /\ mem \in RoomState
    BY DEF WatcherInv, WatcherTypeOK
  <2> QED
    BY <1>0, <2>1, Facts, QueryFields, RoomFields, Bounds
<1>2. /\ End(b) = IF b <= Len(log) + 1 THEN b ELSE Len(log) + 1
      /\ Oldest(b) \in 1..End(b)
      /\ Rows(b) = Oldest(b)..(End(b) - 1)
  BY <1>1, RowsFacts DEF WatcherInv
<1>3. i < Oldest(b) => i \in overrun'
  <2>1. i < Oldest(b) => i \in Withheld(b, mem.last)
    BY <1>1, <1>2 DEF Withheld
  <2> QED
    BY <1>0, <2>1 DEF EndPoll
<1>4. CASE query.got = {}
  <2>1. End(b) = Len(log) + 1
    BY <1>0, <1>1, <1>2, <1>4 DEF WatcherInv, QueryOK
  <2>2. i < Oldest(b) \/ i \in Rows(b)
    BY <1>1, <1>2, <2>1
  <2> QED
    BY <1>0, <1>3, <2>2
<1>5. CASE query.got # {}
  <2>1. PICK top \in DOMAIN log : Reached(top)
    BY <1>5 DEF WatcherInv, QueryOK
  <2>2. b <= top /\ query.got = b..top /\ End(b) = b
    BY <1>0, <1>1, <1>2, <2>1 DEF Reached
  <2>3. CASE i < b
    <3>1. i < Oldest(b) \/ i \in Rows(b)
      BY <1>1, <1>2, <2>2, <2>3
    <3> QED
      BY <1>0, <1>3, <3>1
  <2>4. CASE i > top
    <3>1. log[i].late \/ log[i].at + Lookback >= query.now
      BY <2>1, <2>4 DEF Reached
    <3>2. NextPage \subseteq Rows(b)
      BY <1>0, <1>1, PageFacts DEF NextPage, WatcherInv
    <3>3. \A j \in got : j \in Int /\ j <= top
      BY <1>1, <1>2, <2>2, <3>2
    <3> QED
      BY <1>1, <2>1, <2>4, <3>1, <3>3
  <2>5. i \in b..top => i \in got
    BY <2>2
  <2> QED
    BY <1>1, <2>1, <2>3, <2>4, <2>5
<1> QED
  BY <1>4, <1>5

\* A poll takes nothing that is newer than itself.
LEMMA PolledOld ==
  ASSUME WatcherInv, EndPoll,
         NEW got, got = query.got \cup NextPage, NEW j \in got
  PROVE  log[j].at <= query.now
<1>1. CASE j \in NextPage
  BY <1>1 DEF NextPage, Page
<1>2. CASE j \in query.got
  <2>1. PICK top \in DOMAIN log : Reached(top)
    BY <1>2 DEF WatcherInv, QueryOK
  <2> QED
    BY <1>2, <2>1 DEF Reached
<1> QED
  BY <1>1, <1>2

\* A row between the watermarks is sent, or was stamped before the start, or
\* was withheld, or lay outside the window: before it, then it was excused
\* already; behind it, then the new watermark is an earlier row behind it.
LEMMA EndPollKept ==
  ASSUME WatcherInv, KeptInv, EndPoll, UNCHANGED agent PROVE KeptInv'
<1>0. PICK page : page = NextPage
  OBVIOUS
<1>1. PICK got : got = query.got \cup page
  OBVIOUS
<1>2. PICK old : old = mem
  OBVIOUS
<1>3. PICK new : new = mem'
  OBVIOUS
<1>4. PICK now : now = query.now
  OBVIOUS
<1>5. /\ step = "paging" /\ step' = "sending" /\ old.initialized
      /\ page \subseteq DOMAIN log /\ got \subseteq DOMAIN log
      /\ new \in RoomState /\ new.start = old.start
      /\ new.last \in got \cup {old.last} /\ old.last <= new.last
      /\ \A i \in got : i <= new.last
      /\ Range(outgoing') = {i \in got : Fresh(i) /\ log[i].kind = "command"}
      /\ query'.now = now
      /\ UNCHANGED <<log, file, channel, baseline, lost>>
      /\ overrun \subseteq overrun'
  BY <1>0, <1>1, <1>2, <1>3, <1>4, EndPollFacts
<1>6. Keeps
  BY <1>5 DEF Keeps, agent
<1>7. file = <<old>> /\ file # NoFile /\ Head(file) = old
  BY <1>2, <1>5, FileOf DEF WatcherInv, PhaseOK
<1>8. NoneBelow(old, {}) /\ NoneBehind(old, old.cursor)
  BY <1>5, <1>7 DEF KeptInv
<1>9. \A i \in DOMAIN log : Excused(i, old.start) => Excused(i, old.start)'
  BY <1>6, ExcusedStays
<1>10. /\ DOMAIN log \subseteq Nat /\ Lookback \in Nat
       /\ old.last \in Nat /\ new.last \in Nat /\ old.cursor \in Nat /\ now \in Nat
       /\ \A i \in DOMAIN log : log[i].at \in Nat
  <2>1. old \in RoomState
    BY <1>2, Facts
  <2>2. /\ old.last \in 0..MaxMessages /\ new.last \in 0..MaxMessages
        /\ old.cursor \in 0..MaxTime /\ now \in 0..MaxTime
    BY <1>4, <1>5, <2>1, RoomFields, Facts
  <2>3. \A i \in DOMAIN log : log[i].at \in 0..MaxTime
    BY LogFacts DEF WatcherInv
  <2>4. DOMAIN log = 1..Len(log)
    BY Facts
  <2> QED
    BY <2>2, <2>3, <2>4, LimitAssumption, Bounds
<1>11. ASSUME NEW i \in DOMAIN log, log[i].kind = "command", i \in Rows(query.before),
              i \notin got
       PROVE  Excused(i, old.start)' \/ log[i].at > now
              \/ i <= old.last
  <2>1. i \notin Page(query.before, Since, now)
    BY <1>0, <1>1, <1>4, <1>11 DEF NextPage
  <2>2. log[i].at < old.cursor - Lookback \/ log[i].at > now
    BY <1>2, <1>10, <1>11, <2>1 DEF Page, Since
  <2>3. CASE log[i].at < old.cursor - Lookback /\ i > old.last
    <3>1. log[i].at + Lookback < old.cursor
      BY <1>10, <2>3
    <3> QED
      BY <1>8, <1>9, <1>11, <2>3, <3>1 DEF NoneBehind
  <2> QED
    BY <1>10, <2>2, <2>3
<1>12. ASSUME NEW i \in DOMAIN log', log'[i].kind = "command", i <= new.last
       PROVE  i \in Range(outgoing') \/ Excused(i, new.start)'
  <2>1. i \in DOMAIN log /\ log[i].kind = "command"
    BY <1>5, <1>12
  <2>2. CASE i <= old.last
    BY <1>5, <1>8, <1>9, <2>1, <2>2 DEF NoneBelow
  <2>3. CASE i > old.last /\ i \in got
    <3>1. CASE Fresh(i)
      BY <1>5, <2>1, <2>3, <3>1
    <3>2. CASE ~Fresh(i)
      <4>1. log[i].at < old.start
        BY <1>2, <1>10, <2>1, <2>3, <3>2, Facts, RoomFields, Bounds DEF Fresh
      <4> QED
        BY <1>5, <2>1, <4>1 DEF Excused
    <3> QED
      BY <3>1, <3>2
  <2>4. CASE i > old.last /\ i \notin got
    <3>1. new.last \in got /\ i < new.last
      BY <1>5, <1>10, <1>12, <2>1, <2>4
    <3>2. \/ i \in overrun' \/ i \in Rows(query.before)
          \/ \A j \in got : j < i
      BY <1>0, <1>1, <1>2, <2>1, <2>4, Unpolled
    <3>3. CASE i \in overrun'
      BY <3>3 DEF Excused
    <3>4. CASE i \in Rows(query.before)
      <4>1. CASE log[i].at > now
        <5>1. log[new.last].at <= now
          BY <1>0, <1>1, <1>4, <3>1, PolledOld
        <5>2. new.last \in DOMAIN log' /\ i < new.last /\ log'[new.last].at < log'[i].at
          BY <1>5, <1>10, <2>1, <3>1, <4>1, <5>1
        <5> QED
          BY <5>2 DEF Excused
      <4> QED
        BY <1>5, <1>10, <1>11, <2>1, <2>4, <3>4, <4>1
    <3> QED
      BY <1>10, <2>1, <3>1, <3>2, <3>3, <3>4
  <2> QED
    BY <1>10, <2>1, <2>2, <2>3, <2>4
<1>13. ASSUME NEW i \in DOMAIN log', log'[i].kind = "command", i > new.last,
              log'[i].at + Lookback < query'.now
       PROVE  Excused(i, new.start)'
  <2>1. /\ i \in DOMAIN log /\ log[i].kind = "command" /\ i > old.last
        /\ i \notin got /\ log[i].at + Lookback < now /\ ~(log[i].at > now)
    BY <1>5, <1>10, <1>13
  <2>2. \/ i \in overrun' \/ i \in Rows(query.before)
        \/ log[i].late \/ log[i].at + Lookback >= now
    BY <1>0, <1>1, <1>2, <1>4, <2>1, Unpolled
  <2>3. CASE i \in overrun' \/ log[i].late
    BY <1>5, <2>3 DEF Excused
  <2>4. CASE i \in Rows(query.before)
    BY <1>5, <1>10, <1>11, <2>1, <2>4
  <2> QED
    BY <1>10, <2>1, <2>2, <2>3, <2>4
<1>14. NoneBelow(mem, Range(outgoing))' /\ NoneBehind(mem, query.now)'
  BY <1>3, <1>12, <1>13 DEF NoneBelow, NoneBehind
<1> QED
  BY <1>5, <1>6, <1>14, FileKept DEF KeptInv

LEMMA WaitKept == ASSUME WatcherInv, KeptInv, Wait PROVE KeptInv'
<1>1. UNCHANGED log /\ taken \subseteq taken'
  BY DEF Wait, Enqueue
<1>2. CASE Replace
  <2>1. Keeps
    <3>1. lost' = lost \cup Range(channel) /\ UNCHANGED <<baseline, overrun>>
      BY <1>2 DEF Replace
    <3> QED
      BY <1>1, <3>1 DEF Keeps
  <2> QED
    BY <1>1, <1>2, <2>1, StartKept DEF Replace
<1>3. CASE UNCHANGED <<watcher, stops, history>>
  <2>1. Keeps /\ UNCHANGED <<step, mem, query, outgoing, file>>
    BY <1>1, <1>3 DEF Keeps, watcher, history
  <2> QED
    BY <1>1, <2>1, KeptLeft
<1> QED
  BY <1>2, <1>3 DEF Wait

LEMMA DrainKept == ASSUME WatcherInv, KeptInv, Drain PROVE KeptInv'
<1>1. /\ channel # <<>> /\ channel' = Tail(channel)
      /\ taken' = taken \cup {Head(channel)}
      /\ UNCHANGED <<log, step, mem, query, outgoing, file, baseline, lost, overrun>>
  BY DEF Drain, Enqueue, Recovered, history
<1>2. Range(channel) = {Head(channel)} \cup Range(Tail(channel))
  <2>1. channel \in Seq(DOMAIN log)
    BY DEF WatcherInv, SentOK
  <2>2. PICK c : c = channel
    OBVIOUS
  <2>3. PICK S : S = DOMAIN log
    OBVIOUS
  <2> QED
    BY <1>1, <2>1, <2>2, <2>3, TailRange
<1>3. Keeps
  BY <1>1, <1>2 DEF Keeps
<1> QED
  BY <1>1, <1>3, KeptLeft

\* Every step keeps the rows accounted for.
LEMMA KeptStep == WatcherInv /\ KeptInv /\ [Next]_vars => KeptInv'
<1> SUFFICES ASSUME WatcherInv, KeptInv, [Next]_vars PROVE KeptInv'
  OBVIOUS
<1>1. CASE \/ Tick \/ Notice \/ RestartComesDue \/ Drained \/ Ignore \/ Decide
           \/ Finish \/ UNCHANGED vars
  <2>1. UNCHANGED <<log, watcher, history, taken>>
    BY <1>1 DEF Tick, Notice, RestartComesDue, Drained, Ignore, Decide, Finish, vars,
      agent, task, rest
  <2>2. Keeps /\ UNCHANGED <<step, mem, query, outgoing, file>>
    BY <2>1 DEF Keeps, watcher, history
  <2> QED
    BY <2>1, <2>2, KeptLeft
<1>2. CASE Arrive
  BY <1>2, ArriveKept
<1>3. CASE WatcherSteps
  <2>1. CASE (BeginPoll \/ PageOn \/ PollFails) /\ UNCHANGED agent
    <3>1. /\ step' # "sending"
          /\ UNCHANGED <<log, file, channel, history, taken>>
      BY <2>1 DEF BeginPoll, PageOn, PollFails, agent
    <3>2. Keeps
      BY <3>1 DEF Keeps, history
    <3> QED
      BY <3>1, <3>2, FileKept DEF KeptInv
  <2>2. CASE WatcherPanics /\ UNCHANGED agent
    <3>1. Off /\ UNCHANGED <<log, file, channel, history, taken>>
      BY <2>2 DEF WatcherPanics, agent
    <3>2. Keeps
      BY <3>1 DEF Keeps, history
    <3> QED
      BY <3>1, <3>2, OffKept
  <2> QED
    BY <1>3, <2>1, <2>2, TakeBaselineKept, EndPollKept, SendEventKept, SaveStateKept
       DEF WatcherSteps
<1>4. CASE Drain
  BY <1>4, DrainKept
<1>5. CASE Wait
  BY <1>5, WaitKept
<1>6. CASE Crash
  <2>1. /\ Off /\ UNCHANGED <<log, taken, baseline, overrun>>
        /\ lost' = lost \cup Range(channel)
        /\ file' = file \/ file' = NoFile
    BY <1>6 DEF Crash, WatcherKilled
  <2>2. Keeps
    BY <2>1 DEF Keeps
  <2> QED
    BY <2>1, <2>2, OffKept
<1>7. CASE Restart
  <2>1. StartWatcher /\ UNCHANGED <<log, history, taken>>
    BY <1>7 DEF Restart
  <2>2. Range(channel) = {}
    BY <1>7 DEF Restart, WatcherInv, PhaseOK, Range
  <2>3. Keeps
    BY <2>1, <2>2 DEF Keeps, history
  <2> QED
    BY <2>1, <2>3, StartKept
<1> QED
  BY <1>1, <1>2, <1>3, <1>4, <1>5, <1>6, <1>7 DEF Next

LEMMA KeptInit == Init => KeptInv
<1> SUFFICES ASSUME Init PROVE KeptInv
  OBVIOUS
<1>1. log = <<>> /\ step = "idle"
  BY DEF Init
<1>2. DOMAIN log = {}
  BY <1>1
<1> QED
  BY <1>1, <1>2 DEF KeptInv, NoneBelow, NoneBehind

---------------------------------------------------------------------------
(* Theorems about the watcher.                                             *)

\* The watcher keeps to its places and its rows stay accounted for.
THEOREM WatcherInvariance == Spec => [](WatcherInv /\ KeptInv)
<1>1. Init => WatcherInv /\ KeptInv
  BY WatcherInvInit, KeptInit
<1>2. WatcherInv /\ KeptInv /\ [Next]_vars => (WatcherInv /\ KeptInv)'
  BY WatcherInvStep, KeptStep
<1> QED
  BY <1>1, <1>2, PTL DEF Spec

\* The variables of the database, the watcher thread, its file and its
\* channel have their types: no page, watermark or cursor leaves its range.
THEOREM WatcherTypes == Spec => []WatcherTypeOK
<1>1. WatcherInv => WatcherTypeOK
  BY DEF WatcherInv
<1> QED
  BY <1>1, WatcherInvariance, PTL

\* An event about to be sent lies above the watermark of the file
\* (poll_room and save_state of the watcher): what the file says was sent is
\* not sent again.
THEOREM SentIsNew == Spec => []SentAboveFile
<1>1. WatcherInv => SentAboveFile
  <2> SUFFICES ASSUME WatcherInv PROVE SentAboveFile
    OBVIOUS
  <2>1. CASE step = "sending"
    BY <2>1 DEF WatcherInv, PhaseOK, SentAboveFile
  <2>2. CASE step # "sending"
    <3>1. Range(outgoing) = {}
      BY <2>2 DEF WatcherInv, PhaseOK, Range
    <3> QED
      BY <3>1 DEF SentAboveFile
  <2> QED
    BY <2>1, <2>2
<1> QED
  BY <1>1, WatcherInvariance, PTL

\* A command not above the watermark of the file is on its way to the main
\* loop or was taken by it, unless one of the named circumstances excuses it:
\* pages of any size, any lookback, any delay, stops and crashes at any step.
THEOREM NothingForgotten == Spec => []NotForgotten
<1>1. KeptInv => NotForgotten
  <2> SUFFICES ASSUME KeptInv, NEW i \in DOMAIN log, log[i].kind = "command",
                      file # NoFile, i <= Head(file).last
               PROVE  Excused(i, Head(file).start)
    BY DEF NotForgotten, Excused
  <2>1. NoneBelow(Head(file), {})
    BY DEF KeptInv
  <2> QED
    BY <2>1 DEF NoneBelow
<1> QED
  BY <1>1, WatcherInvariance, PTL
=============================================================================
