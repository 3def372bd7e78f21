-------------------------- MODULE WxdbWatcher --------------------------
(***************************************************************************)
(* The recovery path for commands.  A thread polls the local chat          *)
(* database of a room, page by page, and sends every command above its     *)
(* watermark to the main loop; watermark and cursor survive in a JSON      *)
(* file.  The database is external: a log of messages whose local ids      *)
(* grow, read through a provider that cuts a page before the agent drops   *)
(* rows it cannot use.                                                     *)
(***************************************************************************)
EXTENDS Integers, Sequences, FiniteSets, FiniteSetsExt, Functions,
        SequencesExt

CONSTANTS
  Limit,            \* rows of a page: WXDB_COMMAND_WATCH_LIMIT and the page
                    \* limit of a summary's history
  Lookback,         \* WXDB_COMMAND_WATCH_LOOKBACK_SECONDS, in ticks
  Kinds,            \* what a row can be
  \* Bounds of the model.
  MaxTime,          \* ticks
  MaxMessages,      \* rows of the database
  MaxDelay,         \* ticks from the timestamp of a row to its arrival
  MaxStops          \* watcher panics and restarts, crashes of the agent

ASSUME LimitAssumption == Limit \in Nat \ {0} /\ Lookback \in Nat
ASSUME KindsAssumption == Kinds \subseteq {"command", "chat", "unsupported"}
ASSUME WatcherBoundsAssumption ==
  {MaxTime, MaxMessages, MaxDelay, MaxStops} \subseteq Nat

VARIABLES
  clock,
  log,              \* the rows of the room: kind, timestamp, and whether
                    \* they came later than the lookback allows (history)
  step,             \* where the watcher thread is
  mem,              \* its RoomState
  query,            \* the query it is paging through
  outgoing,         \* events of the poll not yet sent
  file,             \* wxdb-command-watcher-state.json
  channel,          \* events sent and not yet received
  stops,
  \* History: ids visible at a baseline, ids in a channel that was dropped,
  \* ids above the watermark that a poll stopped before.
  baseline, lost, overrun

history == <<baseline, lost, overrun>>

watcher == <<step, mem, query, outgoing, file, channel>>

Ids == 1..MaxMessages

NoId == 0           \* no watermark yet: local ids start at 1

RoomState == [initialized : BOOLEAN, last : Ids \cup {NoId},
              cursor : 0..MaxTime, start : 0..MaxTime]

\* The file holds a room's state, or is missing or unreadable.
NoFile == <<>>

Query == [now : 0..MaxTime, before : 1..(MaxMessages + 1), got : SUBSET Ids]

NoQuery == [now |-> 0, before |-> MaxMessages + 1, got |-> {}]

NewRoom == [initialized |-> FALSE, last |-> NoId, cursor |-> clock,
            start |-> clock]

WatcherTypeOK ==
  /\ clock \in 0..MaxTime
  /\ log \in Seq([kind : Kinds, at : 0..MaxTime, late : BOOLEAN])
  /\ Len(log) <= MaxMessages
  /\ step \in {"off", "idle", "paging", "sending"}
  /\ mem \in RoomState
  /\ query \in Query
  /\ outgoing \in Seq(Ids)
  /\ file \in Seq(RoomState) /\ Len(file) <= 1
  /\ channel \in Seq(Ids)
  /\ stops \in 0..MaxStops
  /\ {baseline, lost, overrun} \subseteq SUBSET Ids

---------------------------------------------------------------------------
(* The database and its provider.                                          *)

\* A row appears now; its timestamp may lie in the past.
Insert(kind, at) ==
  /\ Len(log) < MaxMessages
  /\ log' = Append(log, [kind |-> kind, at |-> at,
                         late |-> clock > at + Lookback])

\* The newest rows of the room before a local id, at most Limit of them.
End(before) == Min({before, Len(log) + 1})

Oldest(before) == Max({1, End(before) - Limit})

Rows(before) == Oldest(before)..(End(before) - 1)

\* What is left of them when unsupported and empty rows are dropped and the
\* window, which the provider knows only by its days, is cut out.
Page(before, since, until) ==
  {i \in Rows(before) : /\ log[i].kind # "unsupported"
                        /\ since <= log[i].at /\ log[i].at <= until}

\* "page_len < limit": there are no older rows.
CutShort(page) == Cardinality(page) < Limit

\* Rows above a watermark that the query has not come to when it stops.
Withheld(before, last) == (last + 1)..(Oldest(before) - 1)

---------------------------------------------------------------------------
(* The thread.                                                             *)

NoRoom == [initialized |-> FALSE, last |-> NoId, cursor |-> 0, start |-> 0]

Off == /\ step' = "off"
       /\ mem' = NoRoom
       /\ query' = NoQuery
       /\ outgoing' = <<>>

\* run: load_state, a fresh RoomState for an unknown room, save_state.
StartWatcher ==
  LET room == IF file = NoFile THEN NewRoom ELSE Head(file) IN
  /\ step' = "idle"
  /\ mem' = room
  /\ file' = <<room>>
  /\ query' = NoQuery
  /\ outgoing' = <<>>
  /\ channel' = <<>>

BeginPoll ==
  /\ step = "idle"
  /\ step' = "paging"
  /\ query' = [NoQuery EXCEPT !.now = clock]
  /\ UNCHANGED <<clock, log, mem, outgoing, file, channel, stops, history>>

Since == mem.cursor - Lookback

NextPage == Page(query.before, Since, query.now)

\* The first poll of a room takes the newest id as its watermark.
TakeBaseline ==
  /\ step = "paging"
  /\ ~mem.initialized
  /\ mem' = [mem EXCEPT !.initialized = TRUE,
                        !.last = Max(NextPage \cup {NoId})]
  /\ baseline' = baseline \cup DOMAIN log
  /\ step' = "sending"
  /\ UNCHANGED <<clock, log, query, outgoing, file, channel, stops, lost,
                 overrun>>

\* paginate_wxdb_history goes on behind a full page above the watermark.
PageOn ==
  LET page == NextPage IN
  /\ step = "paging"
  /\ mem.initialized
  /\ page # {} /\ ~CutShort(page)
  /\ mem.last = NoId \/ \A i \in page : i > mem.last
  /\ query' = [query EXCEPT !.before = Min(page), !.got = @ \cup page]
  /\ UNCHANGED <<clock, log, step, mem, outgoing, file, channel, stops,
                 history>>

\* Fault: a new id is one the last poll has not reached.
FreshFromWatermark(i) == i >= mem.last /\ i # NoId

\* Above the watermark, or at the first message ever not before the start.
Fresh(i) ==
  IF mem.last = NoId THEN log[i].at >= mem.start ELSE i > mem.last

\* By timestamp, then by id.
Precedes(i, j) == \/ log[i].at < log[j].at
                  \/ log[i].at = log[j].at /\ i < j

\* The one sequence of the ids in that order.
Ordered(ids) ==
  {q \in [1..Cardinality(ids) -> ids] :
     \A m, n \in DOMAIN q : m < n => Precedes(q[m], q[n])}

\* An empty page on the way is an error: there the provider has no second
\* source.  Otherwise the last page gives the commands to send and the
\* watermark to go on from.
EndPoll ==
  LET page == NextPage
      got  == query.got \cup page
  IN
  /\ step = "paging"
  /\ mem.initialized
  /\ \/ page = {} /\ query.got = {}
     \/ page # {} /\ CutShort(page)
     \/ mem.last # NoId /\ \E i \in page : i <= mem.last
  /\ outgoing' \in Ordered({i \in got : Fresh(i) /\ log[i].kind = "command"})
  /\ mem' = [mem EXCEPT !.last = Max(got \cup {@})]
  /\ overrun' = overrun \cup Withheld(query.before, mem.last)
  /\ step' = "sending"
  /\ query' = [NoQuery EXCEPT !.now = query.now]
  /\ UNCHANGED <<clock, log, file, channel, stops, baseline, lost>>

\* The provider fails, is too slow, or has nothing before a full page: the
\* state of the room is as before the poll.
PollFails ==
  /\ step = "paging"
  /\ step' = "idle"
  /\ query' = NoQuery
  /\ UNCHANGED <<clock, log, mem, outgoing, file, channel, stops, history>>

SendEvent ==
  /\ step = "sending"
  /\ outgoing # <<>>
  /\ channel' = Append(channel, Head(outgoing))
  /\ outgoing' = Tail(outgoing)
  /\ UNCHANGED <<clock, log, step, mem, query, file, stops, history>>

\* Fault: the file is written before the events are sent.
AllSentAssumed == TRUE

AllSent == outgoing = <<>>

\* The cursor moves to the time the poll began.
NextCursor == query.now

\* The file follows when all events of the poll are sent.
SaveState ==
  /\ step = "sending"
  /\ AllSent
  /\ mem' = [mem EXCEPT !.cursor = NextCursor]
  /\ file' = <<mem'>>
  /\ step' = "idle"
  /\ query' = NoQuery
  /\ UNCHANGED <<clock, log, outgoing, channel, stops, history>>

Stop == stops < MaxStops /\ stops' = stops + 1

\* The thread ends on its own; what it has sent can still be received.
WatcherPanics ==
  /\ step # "off"
  /\ Stop
  /\ Off
  /\ UNCHANGED <<clock, log, file, channel, history>>

\* The old thread is stopped and joined, its receiver is dropped with what
\* is in it, and a new thread starts from the file.
Replace ==
  /\ StartWatcher
  /\ lost' = lost \cup Range(channel)
  /\ UNCHANGED <<baseline, overrun>>

\* The process ends, perhaps in the middle of fs::write, which leaves a file
\* that load_state takes for none.
WatcherKilled ==
  /\ Off
  /\ file' \in {file} \cup (IF step = "sending" /\ AllSent THEN {NoFile} ELSE {})
  /\ lost' = lost \cup Range(channel)
  /\ channel' = <<>>
  /\ UNCHANGED <<baseline, overrun>>

---------------------------------------------------------------------------

\* Nothing is sent that the file says was sent: an event a watcher is about
\* to send lies above the watermark of the file, so only a stop between the
\* first send and the save makes the next watcher send it again.
SentAboveFile ==
  \A i \in Range(outgoing) : file = NoFile \/ i > Head(file).last
=========================================================================
