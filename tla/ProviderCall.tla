---------------------------- MODULE ProviderCall ----------------------------
(***************************************************************************)
(* The calls of crates/ai: one request of a chat, caption, video, voice,   *)
(* StepFun or image client, with its key permit, its retries, the queue    *)
(* that lets one rate-limited request at a time wait for its next attempt, *)
(* its fallback providers, and the polling and download of an image.       *)
(*                                                                         *)
(* Abstractions.  A response is the branch it selects.  Time is left out:  *)
(* where a retry is refused because the 180 s or the deadline have passed, *)
(* the model may refuse it at that point.  MaxPolls stands for the polls   *)
(* that fit before the deadline of an image task.  The round-robin start,  *)
(* a counter shared with every other request, may be any key.              *)
(***************************************************************************)
EXTENDS Integers, Sequences, SequencesExt, FiniteSets

CONSTANTS
  Calls,         \* the places where a call may be under way
  Owners,        \* who may have created a key pool
  Keys,          \* the API keys of one chat provider
  PerKey,        \* max_concurrent_per_key of the chat; the others have none
  MaxAttempts,   \* retry_5xx_attempts + 1
  LastFallback,  \* number of fallback providers; the primary is provider 0
  MaxPolls       \* bound: polls of one image task before its deadline

ASSUME CallAssumption ==
  /\ Keys # {}
  /\ PerKey \in Nat \ {0}
  /\ MaxAttempts \in Nat \ {0}
  /\ LastFallback \in Nat
  /\ MaxPolls \in Nat \ {0}

VARIABLES
  call,     \* the call at every place
  waiters,  \* calls that wait for a permit of a key, in order of arrival
  limited   \* HTTP_RATE_LIMIT_RETRY_QUEUE: its first call sleeps, others wait

callVars == <<call, waiters, limited>>

NoKey == "no key"
NoOwner == "nobody"
Providers == 0..LastFallback
Media == {"caption", "video", "voice", "stepfun"}

\* "failed": an error of the provider, of the connection or of the time given;
\* "denied": a refused key or request; "context": a prompt that is too long.
Errors == {"failed", "denied", "context"}

\* pools: whose pool the client uses for the keys of each provider.
\* using: what the next request of a chat asks for and a variant may drop.
\* features: what its configuration asks for.
NewCall(client, provider, pools, using, features) ==
  [client |-> client, provider |-> provider, first |-> provider,
   pools |-> pools, using |-> using, features |-> features, loop |-> "complete", at |-> "acquire",
   key |-> NoKey, attempt |-> 1, polls |-> 0, result |-> "none"]

ASSUME NamesAssumption == NoKey \notin Keys /\ NoOwner \notin Owners

NoPools == [p \in Providers |-> NoOwner]
NoCall == [NewCall("chat", 0, NoPools, {}, {}) EXCEPT !.at = "idle"]
Closed(result) == [NoCall EXCEPT !.at = "done", !.result = result]

---------------------------------------------------------------------------
(* The queues: for a permit of a key, and for the next attempt.            *)

\* A queue without some of its members: the others keep their order.
DroppedFrom(s, dropped) ==
  LET kept     == {i \in DOMAIN s : s[i] \notin dropped}
      place(i) == Cardinality({j \in kept : j =< i})
  IN [n \in 1..Cardinality(kept) |-> s[CHOOSE i \in kept : place(i) = n]]

---------------------------------------------------------------------------
(* The key pool of a provider.                                             *)

Holds(r) == r.key # NoKey /\ r.at # "wait"

SamePool(r, s) ==
  /\ r.client = "chat" /\ s.client = "chat"
  /\ r.provider = s.provider
  /\ r.pools[r.provider] = s.pools[s.provider]

InFlight(r, k) ==
  {c \in Calls : SamePool(call[c], r) /\ call[c].key = k /\ Holds(call[c])}

Queued(r, k) ==
  SelectSeq(waiters, LAMBDA c : SamePool(call[c], r) /\ call[c].key = k)

\* Fault: the cap is compared before the permit is counted.
FreeKeysOneMore(r) ==
  {k \in Keys : Cardinality(InFlight(r, k)) =< PerKey /\ Queued(r, k) = <<>>}

\* A released permit goes to the first waiter, so a newcomer finds none.
FreeKeys(r) ==
  {k \in Keys : Cardinality(InFlight(r, k)) < PerKey /\ Queued(r, k) = <<>>}

\* The code tries the keys one after another, then waits for the one it began
\* with: it may wait although a key it has tried is free by then.
Acquire(c) ==
  /\ call[c].at = "acquire"
  /\ LET free == IF call[c].client = "chat" THEN FreeKeys(call[c]) ELSE Keys
     IN \/ /\ \E k \in free :
                  call' = [call EXCEPT ![c].key = k, ![c].at = "request"]
           /\ UNCHANGED waiters
        \/ /\ \E k \in Keys \ free :
                  call' = [call EXCEPT ![c].key = k, ![c].at = "wait"]
           /\ waiters' = Append(waiters, c)
  /\ UNCHANGED limited

Granted(c) ==
  /\ call[c].at = "wait"
  /\ Head(Queued(call[c], call[c].key)) = c
  /\ Cardinality(InFlight(call[c], call[c].key)) < PerKey
  /\ call' = [call EXCEPT ![c].at = "request"]
  /\ waiters' = DroppedFrom(waiters, {c})
  /\ UNCHANGED limited

---------------------------------------------------------------------------
(* What an error does: the next provider, or the end of the call.          *)

\* Not a refused key or request, nor any reply whose text has a " 400".
Failover(e) == e \notin {"denied", "context"}

\* After the first fallback a chat goes on whatever the error; an image stops
\* at the first error that is not its provider's.
TriesNext(r, e) ==
  /\ r.client \in {"chat", "image"}
  /\ r.provider < LastFallback
  /\ Failover(e) \/ (r.client = "chat" /\ r.provider > r.first)

\* with_streaming changes the first provider only: a fallback streams again.
NextProvider(r) ==
  [NewCall(r.client, r.provider + 1, r.pools, r.features, r.features)
     EXCEPT !.first = r.first]

\* What the callers tell apart: a refused key when media are described, a
\* prompt that is too long when a text is written.
Told(client, e) ==
  IF e = "denied" /\ client \notin Media THEN "failed" ELSE e

Failed(r, e) ==
  IF TriesNext(r, e) THEN NextProvider(r) ELSE Closed(Told(r.client, e))

Becomes(c, r) ==
  /\ call' = [call EXCEPT ![c] = r]
  /\ UNCHANGED <<waiters, limited>>

Fails(c, e) == Becomes(c, Failed(call[c], e))

\* The error quotes the reply, so whether it is failed over depends on it.
FailsQuoting(c) == \E e \in {"failed", "denied"} : Fails(c, e)

---------------------------------------------------------------------------
(* The retry policy of every request loop.                                 *)

InLoop(c, clients, loop) ==
  /\ call[c].at = "request"
  /\ call[c].client \in clients
  /\ call[c].loop = loop

\* Fault: the last attempt is retried as well.
MayRetryOnceMore(c) == call[c].attempt =< MaxAttempts

MayRetry(c) == call[c].attempt < MaxAttempts

\* Fault: the attempts are counted per wait.
NextAttemptUncounted(r) == [r EXCEPT !.at = "request"]

NextAttempt(r) == [r EXCEPT !.at = "request", !.attempt = @ + 1]

\* The permit is kept while the call sleeps.
Backoff(c) == Becomes(c, NextAttempt(call[c]))

\* should_retry_http_transport_error: a timeout or a failed connection.
TransportFails(c) == (MayRetry(c) /\ Backoff(c)) \/ Fails(c, "failed")

\* A 5xx.  A budget that starts with the loop may be spent by slow requests;
\* the chat starts it after the request, so its first wait always fits.
ServerFails(c, spent) ==
  \/ MayRetry(c) /\ Backoff(c)
  \/ (TRUE \in spent \/ ~MayRetry(c)) /\ FailsQuoting(c)

\* 429: through the serial queue, unless the wait exceeds the budget.
RateLimited(c) ==
  \/ /\ MayRetry(c)
     /\ call' = [call EXCEPT ![c].at = "paced"]
     /\ limited' = Append(limited, c)
     /\ UNCHANGED waiters
  \/ Fails(c, "failed")

\* Any other status: a refused key or request, a policy block, and for a chat
\* a context that is too long.
StatusFails(c, spent) ==
  \/ ServerFails(c, spent)
  \/ RateLimited(c)
  \/ FailsQuoting(c)
  \/ call[c].client = "chat" /\ Fails(c, "context")

\* The head of the queue has slept.
PaceOver(c) ==
  /\ call[c].at = "paced"
  /\ Head(limited) = c
  /\ call' = [call EXCEPT ![c] = NextAttempt(@)]
  /\ limited' = Tail(limited)
  /\ UNCHANGED waiters

\* The budget ends while the call waits for the queue.
PaceGivesUp(c) ==
  /\ call[c].at = "paced"
  /\ call' = [call EXCEPT ![c] = Failed(@, "failed")]
  /\ limited' = DroppedFrom(limited, {c})
  /\ UNCHANGED waiters

---------------------------------------------------------------------------
(* OpenAiCompatibleLlm: a chat completion.                                 *)

\* No response, or no first event of a stream, in time.
ChatSendFails(c) ==
  InLoop(c, {"chat"}, "complete") /\ TransportFails(c)

ChatStatusFails(c) ==
  InLoop(c, {"chat"}, "complete") /\ StatusFails(c, {FALSE})

\* The next request variant: the feature is dropped for good and the attempts
\* start again, with the same permit.
Again(r, feature) == [r EXCEPT !.attempt = 1, !.using = @ \ {feature}]

\* A stream that breaks, stalls, ends without [DONE] or holds an invalid event.
ChatStreamFails(c) ==
  /\ InLoop(c, {"chat"}, "complete")
  /\ "stream" \in call[c].using
  /\ Becomes(c, Again(call[c], "stream"))

\* The body cannot be read, or is not JSON.
ChatBadBody(c) ==
  /\ InLoop(c, {"chat"}, "complete")
  /\ FailsQuoting(c)

\* A reply without content: cut off while thinking, or simply empty.
ChatEmpty(c) ==
  /\ InLoop(c, {"chat"}, "complete")
  /\ \/ /\ "thinking" \in call[c].using
        /\ Becomes(c, Again(call[c], "thinking"))
     \/ FailsQuoting(c)

ChatAnswered(c) ==
  InLoop(c, {"chat"}, "complete") /\ Becomes(c, Closed("ok"))

ChatStep(c) ==
  \/ ChatSendFails(c) \/ ChatStatusFails(c) \/ ChatStreamFails(c)
  \/ ChatBadBody(c) \/ ChatEmpty(c) \/ ChatAnswered(c)

---------------------------------------------------------------------------
(* The media clients.  A remote file is fetched without a permit first.    *)

MediaCall(client, loop, at) ==
  [NewCall(client, 0, NoPools, {}, {}) EXCEPT !.loop = loop, !.at = at]

\* A data URL or a local file is used as it is, unless it is not valid.
CaptionSource ==
  {MediaCall("caption", "fetch", "request"),
   MediaCall("caption", "complete", "acquire"), Closed("failed")}

VideoSource ==
  {MediaCall("video", "fetch", "request"),
   MediaCall("video", "complete", "acquire"), Closed("failed")}

VoiceSource ==
  {MediaCall("voice", "complete", "acquire"),
   MediaCall("stepfun", "complete", "acquire"), Closed("failed")}

Fetched(c) ==
  \/ Becomes(c, MediaCall(call[c].client, "complete", "acquire"))
  \/ Fails(c, "failed")

\* The body is read, parsed and searched for its text.
Answered(c) ==
  \/ Becomes(c, Closed("ok"))
  \/ FailsQuoting(c)

CaptionFetchFails(c) ==
  /\ InLoop(c, {"caption"}, "fetch")
  /\ TransportFails(c) \/ StatusFails(c, BOOLEAN)

CaptionFetched(c) == InLoop(c, {"caption"}, "fetch") /\ Fetched(c)

CaptionSendFails(c) == InLoop(c, {"caption"}, "complete") /\ TransportFails(c)

CaptionStatusFails(c) ==
  InLoop(c, {"caption"}, "complete") /\ StatusFails(c, BOOLEAN)

CaptionAnswered(c) == InLoop(c, {"caption"}, "complete") /\ Answered(c)

VideoFetchFails(c) ==
  /\ InLoop(c, {"video"}, "fetch")
  /\ TransportFails(c) \/ StatusFails(c, BOOLEAN)

VideoFetched(c) == InLoop(c, {"video"}, "fetch") /\ Fetched(c)

VideoSendFails(c) == InLoop(c, {"video"}, "complete") /\ TransportFails(c)

VideoStatusFails(c) ==
  InLoop(c, {"video"}, "complete") /\ StatusFails(c, BOOLEAN)

VideoAnswered(c) == InLoop(c, {"video"}, "complete") /\ Answered(c)

VoiceSendFails(c) == InLoop(c, {"voice"}, "complete") /\ TransportFails(c)

VoiceStatusFails(c) ==
  InLoop(c, {"voice"}, "complete") /\ StatusFails(c, BOOLEAN)

VoiceAnswered(c) == InLoop(c, {"voice"}, "complete") /\ Answered(c)

StepfunSendFails(c) == InLoop(c, {"stepfun"}, "complete") /\ TransportFails(c)

StepfunStatusFails(c) ==
  InLoop(c, {"stepfun"}, "complete") /\ StatusFails(c, BOOLEAN)

StepfunAnswered(c) == InLoop(c, {"stepfun"}, "complete") /\ Answered(c)

MediaStep(c) ==
  \/ CaptionFetchFails(c) \/ CaptionFetched(c) \/ CaptionSendFails(c)
  \/ CaptionStatusFails(c) \/ CaptionAnswered(c)
  \/ VideoFetchFails(c) \/ VideoFetched(c) \/ VideoSendFails(c)
  \/ VideoStatusFails(c) \/ VideoAnswered(c)
  \/ VoiceSendFails(c) \/ VoiceStatusFails(c) \/ VoiceAnswered(c)
  \/ StepfunSendFails(c) \/ StepfunStatusFails(c) \/ StepfunAnswered(c)

---------------------------------------------------------------------------
(* OpenAiImageClient: the request, the task it may start, the download.    *)

ImageSendFails(c) == InLoop(c, {"image"}, "complete") /\ TransportFails(c)

ImageStatusFails(c) ==
  InLoop(c, {"image"}, "complete") /\ StatusFails(c, BOOLEAN)

\* The permit is kept; the attempts of the next loop are its own.
Enters(r, loop) == [r EXCEPT !.loop = loop, !.attempt = 1, !.at = "request"]

\* fs::write of the artifact may fail: an Io error, so a fallback pays again.
WriteImage(c) == Becomes(c, Closed("ok")) \/ Fails(c, "failed")

\* The bytes of the image, or a NovelAI archive; a URL; a task to poll, whose
\* first delay may already reach the deadline.
ImageAccepted(c) ==
  /\ InLoop(c, {"image"}, "complete")
  /\ \/ WriteImage(c)
     \/ Becomes(c, Enters(call[c], "download"))
     \/ Becomes(c, [Enters(call[c], "poll") EXCEPT !.polls = 1])
     \/ FailsQuoting(c)

PollFails(c) ==
  /\ InLoop(c, {"image"}, "poll")
  /\ TransportFails(c) \/ StatusFails(c, BOOLEAN)

\* Completed, failed, or to be polled again after the interval.
Polled(c) ==
  /\ InLoop(c, {"image"}, "poll")
  /\ \/ Becomes(c, Enters(call[c], "download"))
     \/ /\ call[c].polls < MaxPolls
        /\ Becomes(c, [Enters(call[c], "poll") EXCEPT !.polls = @ + 1])
     \/ FailsQuoting(c)

DownloadFails(c) ==
  /\ InLoop(c, {"image"}, "download")
  /\ TransportFails(c) \/ StatusFails(c, BOOLEAN)

Downloaded(c) == InLoop(c, {"image"}, "download") /\ WriteImage(c)

ImageStep(c) ==
  \/ ImageSendFails(c) \/ ImageStatusFails(c) \/ ImageAccepted(c)
  \/ PollFails(c) \/ Polled(c) \/ DownloadFails(c) \/ Downloaded(c)

---------------------------------------------------------------------------

CallNext(c) ==
  \/ Acquire(c) \/ Granted(c) \/ PaceOver(c) \/ PaceGivesUp(c)
  \/ ChatStep(c) \/ MediaStep(c) \/ ImageStep(c)

Begins(c, r) ==
  /\ call[c].at \in {"idle", "done"}
  /\ Becomes(c, r)


\* Fault: a dropped future stays in the queue it waits in.
AbandonsInQueue(dropped) ==
  /\ call' = [c \in Calls |-> IF c \in dropped THEN NoCall ELSE call[c]]
  /\ UNCHANGED <<waiters, limited>>

\* A future that is dropped gives back its permit and its place in a queue.
Abandons(dropped) ==
  /\ call' = [c \in Calls |-> IF c \in dropped THEN NoCall ELSE call[c]]
  /\ waiters' = DroppedFrom(waiters, dropped)
  /\ limited' = DroppedFrom(limited, dropped)

---------------------------------------------------------------------------

CallTypeOK ==
  /\ \A c \in Calls :
       LET r == call[c]
       IN /\ r.client \in Media \cup {"chat", "image"}
          /\ r.provider \in Providers /\ r.first \in 0..r.provider
          /\ r.pools \in [Providers -> Owners \cup {NoOwner}]
          /\ r.using \subseteq r.features
          /\ r.features \subseteq {"stream", "thinking"}
          /\ r.loop \in {"fetch", "complete", "poll", "download"}
          /\ r.at \in {"idle", "acquire", "wait", "request", "paced", "done"}
          /\ r.key \in Keys \cup {NoKey}
          /\ r.attempt \in 1..MaxAttempts
          /\ r.polls \in 0..MaxPolls
          /\ r.result \in Errors \cup {"none", "ok"}
  /\ waiters \in Seq(Calls)
  /\ limited \in Seq(Calls)

LoopRank(loop) ==
  CASE loop = "fetch" -> 3 [] loop = "complete" -> 2
    [] loop = "poll" -> 1 [] OTHER -> 0

AtRank(at) ==
  CASE at = "acquire" -> 3 [] at = "wait" -> 2
    [] at = "request" -> 1 [] OTHER -> 0

\* s is nearer to the end of a call than r: the first of these that differs
\* decides.
Nearer(s, r) ==
  \/ s.at \in {"idle", "done"} /\ r.at \notin {"idle", "done"}
  \/ s.provider > r.provider
  \/ /\ s.provider = r.provider
     /\ \/ LoopRank(s.loop) < LoopRank(r.loop)
        \/ /\ s.loop = r.loop
           /\ \/ s.using \subseteq r.using /\ s.using # r.using
              \/ /\ s.using = r.using
                 /\ \/ s.polls > r.polls
                    \/ /\ s.polls = r.polls
                       /\ \/ s.attempt > r.attempt
                          \/ /\ s.attempt = r.attempt
                             /\ AtRank(s.at) < AtRank(r.at)

=============================================================================
