----------------------------- MODULE Generation -----------------------------
(***************************************************************************)
(* How a summary is generated and handed over: the media of its history,   *)
(* the choice of a provider and its shared key pool, the text in one or    *)
(* more chunks with context splits and one retry after a refusal, the      *)
(* image in its two slotted stages, the order of text and image, and the   *)
(* health of the primary provider that every finished task updates.        *)
(* Several tasks share the keys, the slots and the health row; every call  *)
(* a task has under way is a call of ProviderCall.                         *)
(*                                                                         *)
(* Abstractions.  Content is the sequence of the messages it covers.  What *)
(* is handed over goes to the outbox, which is modelled on its own: here a *)
(* delivery succeeds or ends with an error.  The scheduler task of the     *)
(* slots handles its commands at once.  Lanes are the concurrent requests  *)
(* of one stage.  A stage may time out at any point while it holds a slot. *)
(***************************************************************************)
EXTENDS ProviderCall

CONSTANTS
  Tasks,            \* the summaries under way
  Lanes,            \* 1..max_concurrent_requests of every stage
  Capacity,         \* image pipeline slots
  InitialFailures,  \* failures in a row recorded before
  Scenarios         \* what the tasks are asked for and the history they find

ASSUME GenerationAssumption ==
  /\ Calls = Tasks \X Lanes
  /\ Owners = Tasks /\ IsFiniteSet(Tasks)
  /\ Lanes = 1..Cardinality(Lanes) /\ Cardinality(Lanes) \in Nat \ {0}
  /\ Capacity \in Nat \ {0}
  /\ InitialFailures \in Nat
  /\ \A s \in Scenarios, t \in Tasks :
       /\ s[t].kind \in {"scheduled", "manual", "preview", "weekly"}
       /\ s[t].text \in BOOLEAN /\ s[t].image \in BOOLEAN
       /\ s[t].kind = "preview" => s[t].text
       /\ s[t].features \subseteq {"stream", "thinking"}
       /\ s[t].chunks \in Seq(Seq(Nat)) \ {<<>>}
       /\ DOMAIN s[t].items = {"caption", "video", "voice"}

VARIABLES
  pipe,      \* per task, its progress
  registry,  \* KEY_POOL_REGISTRY: the owner of the pool for each provider
  prompts,   \* tasks that wait for a slot for their image prompt
  summaries, \* tasks that wait for a slot for their image summary
  leases,    \* tasks that hold a slot
  health     \* the row of the primary in provider_health

vars == <<call, waiters, limited, pipe, registry, prompts, summaries, leases, health>>
slots == <<prompts, summaries, leases>>

NoWork == [l \in Lanes |-> <<>>]

\* opt: the kind of the task, whether it wants a text and an image, what its
\* model asks a chat for, its messages as chunks that fit the prompt, and the
\* number of images, videos and voices among them.
\* stage: what the task does.  next: the next item or chunk of the stage.
\* work: the parts a lane has yet to summarise, its first under way.
NewPipe(opt) ==
  [opt |-> opt, stage |-> IF opt.kind = "weekly" THEN "draw" ELSE "caption",
   next |-> 1, work |-> NoWork, chunk |-> [l \in Lanes |-> 0], out |-> <<>>,
   error |-> FALSE, retried |-> FALSE, first |-> 0, pools |-> NoPools,
   text |-> <<>>, sent |-> <<>>, outcome |-> "none",
   seen |-> [failures |-> 0, open |-> FALSE]]

Init ==
  /\ call = [c \in Calls |-> NoCall]
  /\ waiters = <<>>
  /\ limited = <<>>
  /\ \E s \in Scenarios : pipe = [t \in Tasks |-> NewPipe(s[t])]
  /\ registry = [p \in Providers |-> NoOwner]
  /\ prompts = <<>>
  /\ summaries = <<>>
  /\ leases = {}
  /\ health = [failures |-> InitialFailures, open |-> FALSE]

---------------------------------------------------------------------------
(* Stages and the lanes they run on.                                       *)

Stage(t) == pipe[t].stage
MediaStages == {"caption", "video", "voice"}
LlmStages == {"text", "summary", "prompt"}

All(t) == FlattenSeq(pipe[t].opt.chunks)
CallsOf(t) == {t} \X Lanes
Resting(t) == \A c \in CallsOf(t) : call[c].at = "idle"

\* Lanes are alike: the first free one takes the next request.
Free(t, l) ==
  /\ call[<<t, l>>].at = "idle"
  /\ \A k \in 1..(l - 1) : call[<<t, k>>].at # "idle"

\* The requests of a stage: the prompt of an image is one request.
Requests(t) == IF Stage(t) = "prompt" THEN <<All(t)>> ELSE pipe[t].opt.chunks

\* with_streaming(false) for the two requests that prepare an image.
LlmCall(p) ==
  NewCall("chat", p.first, p.pools,
          IF p.stage = "text" THEN p.opt.features ELSE p.opt.features \ {"stream"},
          p.opt.features)

\* A stage starts with nothing done.
At(p, stage) ==
  [p EXCEPT !.stage = stage, !.next = 1, !.work = NoWork,
            !.chunk = [l \in Lanes |-> 0], !.out = <<>>, !.error = FALSE,
            !.retried = FALSE]

---------------------------------------------------------------------------
(* media_service: captions, then video captions, then transcriptions.      *)

NextStage == [caption |-> "video", video |-> "voice", voice |-> "open"]

\* A lane takes the next item; its source may already be refused.
MediaSpawn(t, l, sources) ==
  /\ pipe[t].next =< pipe[t].opt.items[Stage(t)]
  /\ Free(t, l)
  /\ \E r \in sources : Begins(<<t, l>>, r)
  /\ pipe' = [pipe EXCEPT ![t].next = @ + 1]

\* A result is inserted into the history, or the placeholder stays.
MediaJoined(t, l) ==
  /\ call[<<t, l>>].at = "done"
  /\ call[<<t, l>>].result # "denied"
  /\ Becomes(<<t, l>>, NoCall)
  /\ UNCHANGED pipe

\* A refused key stops the batch: the other requests are dropped.
MediaRefused(t) ==
  /\ \E c \in CallsOf(t) : call[c].at = "done" /\ call[c].result = "denied"
  /\ Abandons(CallsOf(t))
  /\ pipe' = [pipe EXCEPT ![t] = At(@, NextStage[Stage(t)])]

MediaOver(t) ==
  /\ pipe[t].next > pipe[t].opt.items[Stage(t)]
  /\ Resting(t)
  /\ pipe' = [pipe EXCEPT ![t] = At(@, NextStage[Stage(t)])]
  /\ UNCHANGED callVars

Captions(t) ==
  /\ Stage(t) = "caption"
  /\ \/ \E l \in Lanes : MediaSpawn(t, l, CaptionSource) \/ MediaJoined(t, l)
     \/ MediaRefused(t) \/ MediaOver(t)
  /\ UNCHANGED <<registry, slots, health>>

Videos(t) ==
  /\ Stage(t) = "video"
  /\ \/ \E l \in Lanes : MediaSpawn(t, l, VideoSource) \/ MediaJoined(t, l)
     \/ MediaRefused(t) \/ MediaOver(t)
  /\ UNCHANGED <<registry, slots, health>>

Voices(t) ==
  /\ Stage(t) = "voice"
  /\ \/ \E l \in Lanes : MediaSpawn(t, l, VoiceSource) \/ MediaJoined(t, l)
     \/ MediaRefused(t) \/ MediaOver(t)
  /\ UNCHANGED <<registry, slots, health>>

---------------------------------------------------------------------------
(* routed_llm_config and OpenAiCompatibleLlm::new.                         *)

\* An open circuit starts the chain at the first fallback, if there is one.
Routed == IF health.open /\ LastFallback > 0 THEN 1 ELSE 0

\* The registry holds a pool weakly: while some client uses it.
Alive(p, owner) ==
  \E t \in Tasks : Stage(t) # "ended" /\ pipe[t].pools[p] = owner

Registered(p) ==
  IF registry[p] # NoOwner /\ Alive(p, registry[p]) THEN registry[p] ELSE NoOwner

\* The image of a manual summary has a client of its own on the same route.
Opens(t, first, then) ==
  /\ pipe' = [pipe EXCEPT ![t] =
       [At(@, then) EXCEPT
          !.first = first,
          !.pools = [p \in Providers |->
                       IF p < first THEN NoOwner ELSE Registered(p)]]]
  /\ UNCHANGED <<callVars, registry, slots, health>>

\* First lock: the pools that are there.  The code looks up, and inserts, for
\* one provider after another; here all are looked up in one step and those
\* not found inserted in the next, which keeps the race of two tasks.
Open(t) ==
  \/ Stage(t) = "open" /\ Opens(t, Routed, "register")
  \/ Stage(t) = "open image" /\ Opens(t, pipe[t].first, "register image")

Creates(t) == {p \in pipe[t].first..LastFallback : pipe[t].pools[p] = NoOwner}

AfterOpening(p) ==
  CASE p.stage = "register image" -> "summary slot"
    [] p.stage = "register" /\ p.opt.text -> "text"
    [] p.stage = "register" /\ ~p.opt.text /\ p.opt.kind = "manual" -> "open image"
    [] OTHER -> "summary slot"

\* Second lock: the pools that were not there, over whatever came since.
Register(t) ==
  /\ Stage(t) \in {"register", "register image"}
  /\ registry' = [p \in Providers |-> IF p \in Creates(t) THEN t ELSE registry[p]]
  /\ pipe' = [pipe EXCEPT ![t] =
       [At(@, AfterOpening(@)) EXCEPT
          !.pools = [p \in Providers |-> IF p \in Creates(t) THEN t
                                         ELSE pipe[t].pools[p]]]]
  /\ UNCHANGED <<callVars, slots, health>>

---------------------------------------------------------------------------
(* llm_service: one stage of requests, direct or in chunks.                *)

\* Fault: the halves are pushed in reading order, so the later is popped first.
HalvesPushedForward(part) ==
  LET middle == Len(part) \div 2
  IN <<SubSeq(part, middle + 1, Len(part)), SubSeq(part, 1, middle)>>

\* Pushed right, then left: the left one is summarised first.
Halves(part) ==
  LET middle == Len(part) \div 2
  IN <<SubSeq(part, 1, middle), SubSeq(part, middle + 1, Len(part))>>

LlmSpawn(t, l) ==
  /\ Stage(t) \in LlmStages
  /\ pipe[t].next =< Len(Requests(t))
  /\ Free(t, l)
  /\ Begins(<<t, l>>, LlmCall(pipe[t]))
  /\ pipe' = [pipe EXCEPT ![t].work[l] = <<Requests(t)[pipe[t].next]>>,
                          ![t].chunk[l] = pipe[t].next,
                          ![t].next = @ + 1,
                          ![t].out = IF pipe[t].next = 1
                                     THEN [i \in 1..Len(Requests(t)) |-> <<>>]
                                     ELSE @]
  /\ UNCHANGED <<registry, slots, health>>

LaneDone(t, l) ==
  /\ Stage(t) \in LlmStages
  /\ call[<<t, l>>].at = "done"

\* The lane goes on with these parts, or is free for the next chunk.
LaneGoesOn(t, l, parts) ==
  call' = [call EXCEPT ![<<t, l>>] =
             IF parts = <<>> THEN NoCall ELSE LlmCall(pipe[t])]

PartSummarised(t, l) ==
  /\ LaneDone(t, l)
  /\ call[<<t, l>>].result = "ok"
  /\ LaneGoesOn(t, l, Tail(pipe[t].work[l]))
  /\ pipe' = [pipe EXCEPT ![t].work[l] = Tail(@),
                          ![t].out[pipe[t].chunk[l]] = @ \o Head(pipe[t].work[l])]
  /\ UNCHANGED <<waiters, limited, registry, slots, health>>

\* Only a chunk is split, a direct request is not.  The depth of twelve halvings
\* at which the code stops is left out: a part that one message still fills
\* fails here as there, and more splits only add behaviours.
Splits(t, l) ==
  /\ call[<<t, l>>].result = "context"
  /\ Len(Requests(t)) > 1
  /\ Len(Head(pipe[t].work[l])) > 1

ContextSplit(t, l) ==
  /\ LaneDone(t, l) /\ Splits(t, l)
  /\ LET parts == Halves(Head(pipe[t].work[l])) \o Tail(pipe[t].work[l])
     IN /\ LaneGoesOn(t, l, parts)
        /\ pipe' = [pipe EXCEPT ![t].work[l] = parts]
  /\ UNCHANGED <<waiters, limited, registry, slots, health>>

\* The chunk is lost; the others go on all the same.
PartFailed(t, l) ==
  /\ LaneDone(t, l)
  /\ call[<<t, l>>].result # "ok" /\ ~Splits(t, l)
  /\ Becomes(<<t, l>>, NoCall)
  /\ pipe' = [pipe EXCEPT ![t].work[l] = <<>>, ![t].error = TRUE]
  /\ UNCHANGED <<registry, slots, health>>

\* Every request was joined.
Joined(t) ==
  /\ Stage(t) \in LlmStages
  /\ pipe[t].next > Len(Requests(t))
  /\ Resting(t)

\* One retry with the safety-aware prompt.
RefusedOnce(t) ==
  /\ Joined(t)
  /\ ~pipe[t].error /\ ~pipe[t].retried
  /\ pipe' = [pipe EXCEPT ![t] = [At(@, Stage(t)) EXCEPT !.retried = TRUE]]
  /\ UNCHANGED <<callVars, registry, slots, health>>

StageFails(t) == Joined(t) /\ (pipe[t].error \/ pipe[t].retried)
StageSucceeds(t) == Joined(t) /\ ~pipe[t].error

---------------------------------------------------------------------------
(* run_summary_pipeline after its text, and the end of the task.           *)

Sends(p, what) == [p EXCEPT !.sent = Append(@, what)]

\* What is left of a finished task.
Ends(p, outcome) == [At(p, "read health") EXCEPT !.outcome = outcome]

Deferred(p) == p.opt.kind = "scheduled" /\ p.opt.text

\* deliver_outboxed_text: the text is in the outbox, its delivery may fail.
TextOver(p) ==
  LET written == [p EXCEPT !.text = FlattenSeq(p.out)]
      sent == Sends(written, "text")
  IN CASE p.opt.kind = "preview" -> {Ends(written, "produced")}
       [] p.opt.kind = "manual" ->
            {Ends(sent, "failed"),
             IF p.opt.image THEN At(sent, "open image") ELSE Ends(sent, "produced")}
       [] p.opt.kind = "scheduled" /\ p.opt.image -> {At(written, "summary slot")}
       [] OTHER -> {Ends(sent, "failed"), Ends(sent, "produced")}

TextSummarised(t) ==
  /\ Stage(t) = "text" /\ StageSucceeds(t)
  /\ \E p \in TextOver(pipe[t]) : pipe' = [pipe EXCEPT ![t] = p]
  /\ UNCHANGED <<callVars, registry, slots, health>>

TextFails(t) ==
  /\ Stage(t) = "text" /\ StageFails(t)
  /\ pipe' = [pipe EXCEPT ![t] = Ends(@, "failed")]
  /\ UNCHANGED <<callVars, registry, slots, health>>

\* Fault: the deferred text is dropped with the image.
WithoutBoth(p, untold) ==
  {Ends(p, o) : o \in IF p.opt.text THEN {"produced"} ELSE untold}

\* The deferred text is sent without its image.  Without a text: an error of
\* the preparation is the task's, of the image itself only a message.
WithoutImage(p, untold) ==
  IF Deferred(p)
  THEN {Ends(Sends(p, "text"), o) : o \in {"failed", "produced"}}
  ELSE {Ends(p, o) : o \in IF p.opt.text THEN {"produced"}
                           ELSE IF p.opt.kind = "manual" THEN {"nothing"}
                           ELSE untold}

\* The text, then the image, then the cooldown; either delivery may fail.
WithImage(p) ==
  LET after == IF Deferred(p) THEN Sends(p, "text") ELSE p
      drawn == Sends(after, "image")
      failed == IF p.opt.kind # "manual" THEN "failed"
                ELSE IF p.opt.text THEN "produced" ELSE "nothing"
  IN {Ends(Sends(drawn, "cooldown"), "produced"), Ends(drawn, failed)}
       \cup (IF Deferred(p) THEN {Ends(after, "failed")} ELSE {})

\* The chart, then its caption; a failure of either sends the plain figures.
WeeklyOver(p, drawn) ==
  LET image == Sends(p, "image")
  IN IF drawn
     THEN {Ends(Sends(image, "text"), "nothing"),
           Ends(Sends(Sends(image, "text"), "text"), "nothing")}
     ELSE {Ends(Sends(p, "text"), "nothing")}

---------------------------------------------------------------------------
(* summary_image: two stages with a slot each, then the image.             *)

RequestSlot(t) ==
  \/ /\ Stage(t) = "summary slot"
     /\ summaries' = Append(summaries, t)
     /\ pipe' = [pipe EXCEPT ![t] = At(@, "wait for summary")]
     /\ UNCHANGED <<callVars, registry, prompts, leases, health>>
  \/ /\ Stage(t) = "prompt slot"
     /\ prompts' = Append(prompts, t)
     /\ pipe' = [pipe EXCEPT ![t] = At(@, "wait for prompt")]
     /\ UNCHANGED <<callVars, registry, summaries, leases, health>>

\* A prompt goes before every summary.
GrantSlot(t) ==
  /\ Cardinality(leases) < Capacity
  /\ \/ /\ prompts # <<>> /\ t = Head(prompts)
        /\ prompts' = Tail(prompts)
        /\ pipe' = [pipe EXCEPT ![t] = At(@, "prompt")]
        /\ UNCHANGED summaries
     \/ /\ prompts = <<>> /\ summaries # <<>> /\ t = Head(summaries)
        /\ summaries' = Tail(summaries)
        /\ pipe' = [pipe EXCEPT ![t] = At(@, "summary")]
        /\ UNCHANGED prompts
  /\ leases' = leases \cup {t}
  /\ UNCHANGED <<callVars, registry, health>>

Slotted(t) == Stage(t) \in {"summary", "prompt"}

StageOver(t) ==
  /\ Slotted(t) /\ StageSucceeds(t)
  /\ pipe' = [pipe EXCEPT ![t] =
       At(@, IF Stage(t) = "summary" THEN "prompt slot" ELSE "draw")]
  /\ leases' = leases \ {t}
  /\ UNCHANGED <<callVars, registry, prompts, summaries, health>>

\* The total timeout drops the future of the stage and all it waits for.
StageTimeout(t) ==
  /\ Slotted(t)
  /\ Abandons(CallsOf(t))
  /\ \E p \in WithoutImage(pipe[t], {"failed"}) : pipe' = [pipe EXCEPT ![t] = p]
  /\ leases' = leases \ {t}
  /\ UNCHANGED <<registry, prompts, summaries, health>>

PreparationFails(t) ==
  /\ Slotted(t) /\ StageFails(t)
  /\ \E p \in WithoutImage(pipe[t], {"failed"}) : pipe' = [pipe EXCEPT ![t] = p]
  /\ leases' = leases \ {t}
  /\ UNCHANGED <<callVars, registry, prompts, summaries, health>>

Draw(t) ==
  /\ Stage(t) = "draw"
  /\ Resting(t)
  /\ Begins(<<t, 1>>, NewCall("image", 0, NoPools, {}, {}))
  /\ pipe' = [pipe EXCEPT ![t] = At(@, "drawing")]
  /\ UNCHANGED <<registry, slots, health>>

ImageOver(t) ==
  /\ Stage(t) = "drawing"
  /\ call[<<t, 1>>].at = "done"
  /\ LET drawn == call[<<t, 1>>].result = "ok"
     IN \E p \in IF pipe[t].opt.kind = "weekly" THEN WeeklyOver(pipe[t], drawn)
                 ELSE IF drawn THEN WithImage(pipe[t])
                 ELSE WithoutImage(pipe[t], {"nothing", "failed"}) :
          pipe' = [pipe EXCEPT ![t] = p]
  /\ Becomes(<<t, 1>>, NoCall)
  /\ UNCHANGED <<registry, slots, health>>

---------------------------------------------------------------------------
(* record_primary_llm_health: a read, then a write of the row.             *)

\* Fault: a success is recorded whatever the circuit.
RecordsEvenOpen(p) == p.outcome \in {"produced", "failed"}

\* A success while the circuit is open is not the primary's.
Records(p) ==
  p.outcome = "failed" \/ (p.outcome = "produced" /\ ~health.open)

Finished(p) == [At(p, "ended") EXCEPT !.pools = NoPools, !.first = 0,
                                      !.seen = [failures |-> 0, open |-> FALSE]]

ReadHealth(t) ==
  /\ Stage(t) = "read health"
  /\ pipe' = [pipe EXCEPT ![t] =
       IF Records(@) THEN [At(@, "write health") EXCEPT !.seen = health]
       ELSE Finished(@)]
  /\ UNCHANGED <<callVars, registry, slots, health>>

WriteHealth(t) ==
  /\ Stage(t) = "write health"
  /\ LET failures == IF pipe[t].outcome = "failed"
                     THEN pipe[t].seen.failures + 1 ELSE 0
     IN health' = [failures |-> failures, open |-> failures >= 3]
  /\ pipe' = [pipe EXCEPT ![t] = Finished(@)]
  /\ UNCHANGED <<callVars, registry, slots>>

\* Five minutes later.
CircuitExpires ==
  /\ health.open
  /\ health' = [health EXCEPT !.open = FALSE]
  /\ UNCHANGED <<callVars, pipe, registry, slots>>

---------------------------------------------------------------------------

CallSteps(c) == CallNext(c) /\ UNCHANGED <<pipe, registry, slots, health>>

LaneSteps(t, l) ==
  LlmSpawn(t, l) \/ PartSummarised(t, l) \/ ContextSplit(t, l) \/ PartFailed(t, l)

TaskSteps(t) ==
  \/ Captions(t) \/ Videos(t) \/ Voices(t)
  \/ Open(t) \/ Register(t)
  \/ RefusedOnce(t) \/ TextSummarised(t) \/ TextFails(t)
  \/ RequestSlot(t) \/ GrantSlot(t) \/ StageOver(t) \/ StageTimeout(t)
  \/ PreparationFails(t) \/ Draw(t) \/ ImageOver(t)
  \/ ReadHealth(t) \/ WriteHealth(t)

Done == (\A t \in Tasks : Stage(t) = "ended") /\ UNCHANGED vars

Next ==
  \/ \E c \in Calls : CallSteps(c)
  \/ \E t \in Tasks : TaskSteps(t) \/ \E l \in Lanes : LaneSteps(t, l)
  \/ CircuitExpires
  \/ Done

Spec == Init /\ [][Next]_vars

---------------------------------------------------------------------------

Stages ==
  MediaStages \cup LlmStages \cup
    {"open", "register", "open image", "register image", "summary slot",
     "wait for summary", "prompt slot", "wait for prompt", "draw", "drawing",
     "read health", "write health", "ended"}

\* The values the variables may take.
TypeOK ==
  /\ CallTypeOK
  /\ \A t \in Tasks :
       /\ pipe[t].stage \in Stages
       /\ pipe[t].next \in Nat
       /\ \A l \in Lanes : pipe[t].chunk[l] \in 0..Len(pipe[t].opt.chunks)
       /\ pipe[t].first \in Providers
       /\ pipe[t].pools \in [Providers -> Tasks \cup {NoOwner}]
       /\ pipe[t].outcome \in {"none", "produced", "nothing", "failed"}
  /\ registry \in [Providers -> Tasks \cup {NoOwner}]
  /\ prompts \in Seq(Tasks) /\ summaries \in Seq(Tasks)
  /\ leases \in SUBSET Tasks
  /\ health \in [failures : Nat, open : BOOLEAN]

PoolsOf(p) == {pipe[t].pools[p] : t \in Tasks} \ {NoOwner}

\* "The per-key cap is enforced across the whole process" (key_pool.rs), as
\* far as the code goes: a key of a provider serves at most PerKey requests
\* for every pool of its keys that is alive.  A second pool is only there
\* when two clients registered at the same time.
KeyCap ==
  \A p \in Providers, k \in Keys :
    Cardinality({c \in Calls : /\ call[c].client = "chat" /\ call[c].provider = p
                               /\ call[c].key = k /\ Holds(call[c])})
      =< PerKey * Cardinality(PoolsOf(p))

\* Nothing is kept by what is over: the queue for a permit and the queue for
\* a rate-limited retry hold exactly the calls that wait in them, once each;
\* a slot is held by a task in a slotted stage and waited for by a task that
\* asked; a task between two stages has no call under way.
PermitsReturned ==
  /\ IsInjective(waiters) /\ IsInjective(limited)
  /\ \A c \in Calls :
       /\ call[c].at = "wait" <=> \E i \in DOMAIN waiters : waiters[i] = c
       /\ call[c].at = "paced" <=> \E i \in DOMAIN limited : limited[i] = c
  /\ Cardinality(leases) =< Capacity
  /\ \A t \in Tasks :
       /\ t \in leases <=> Slotted(t)
       /\ Stage(t) = "wait for summary" <=> \E i \in DOMAIN summaries : summaries[i] = t
       /\ Stage(t) = "wait for prompt" <=> \E i \in DOMAIN prompts : prompts[i] = t
       /\ Resting(t) \/ Stage(t) \in MediaStages \cup LlmStages \cup {"drawing"}

\* A text covers every message once and in order, however its chunks were
\* split and in whatever order their answers came.
CoversHistory == \A t \in Tasks : pipe[t].text \in {<<>>, All(t)}

Sent(t, what) == {i \in DOMAIN pipe[t].sent : pipe[t].sent[i] = what}

\* A summary hands over its text once, before its image, and also when the
\* image fails; a task that reports a summary has handed over what it was
\* asked for; a preview hands over nothing.
TextDelivered ==
  \A t \in Tasks : pipe[t].opt.kind # "weekly" =>
    /\ Cardinality(Sent(t, "text")) =< 1
    /\ Cardinality(Sent(t, "image")) =< 1
    /\ \A i \in Sent(t, "image") : pipe[t].opt.text => \E j \in Sent(t, "text") : j < i
    /\ pipe[t].outcome = "produced" =>
         \/ pipe[t].opt.text /\ (pipe[t].opt.kind = "preview" <=> Sent(t, "text") = {})
         \/ ~pipe[t].opt.text /\ Sent(t, "image") # {}
    /\ pipe[t].opt.kind = "preview" => pipe[t].sent = <<>>

\* Every step of a call under way brings it nearer to its end: it cannot
\* retry, drop variants, fail over or poll for ever.
CallsConverge ==
  [][\A c \in Calls :
       call'[c] # call[c] =>
         call[c].at \in {"idle", "done"} \/ Nearer(call'[c], call[c])]_vars

\* An open circuit is closed by its expiry, or by a task that saw it closed:
\* the success of a fallback does not close it.
CircuitHolds ==
  [][health.open /\ ~health'.open =>
       CircuitExpires \/ \E t \in Tasks : /\ pipe[t].stage = "write health"
                                          /\ pipe'[t].stage = "ended"
                                          /\ ~pipe[t].seen.open]_vars

=============================================================================
