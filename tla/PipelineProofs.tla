---------------------------- MODULE PipelineProofs ----------------------------
(***************************************************************************)
(* What the tasks of Generation share and give back - the permits of the   *)
(* keys, the places in the two queues of the calls and the slots of the    *)
(* image pipeline - and what their texts cover.  Two inductive invariants: *)
(* PermitInv carries TypeOK, PermitsReturned and KeyCap, and HistoryInv    *)
(* carries CoversHistory.                                                  *)
(*                                                                         *)
(* KeyCap is not inductive: it counts the requests of a provider, and what *)
(* bounds them is the cap of every single pool (Capped) together with the  *)
(* fact that a chat under way uses a pool its own task holds (Owned),      *)
(* which needs every pool of the route to be there once the task has       *)
(* registered (Complete).  PermitsReturned needs, beside the queues, that  *)
(* a call is only under way in a stage that waits for it (Owned).          *)
(*                                                                         *)
(* CoversHistory only speaks of a finished text.  HistoryInv says what is  *)
(* true on the way: the parts a lane has yet to summarise, after those it  *)
(* has, are cuts of its chunk in reading order; no two lanes share a       *)
(* chunk; and a chunk that was taken is under way, summarised or lost.     *)
(***************************************************************************)
EXTENDS GenerationProofs, FunctionTheorems, WellFoundedInduction

---------------------------------------------------------------------------
(* The queues: what the members of a queue that stay see of a change.      *)

\* A place in a queue.
In(s, e) == \E i \in DOMAIN s : s[i] = e

\* The calls that wait in s, in a queue once each.
Line(s) == s \in Seq(Calls) /\ \A i, j \in DOMAIN s : s[i] = s[j] => i = j

\* A finite set of numbers, counted from below.
LEMMA Counted ==
  ASSUME NEW kept \in SUBSET Nat, IsFiniteSet(kept)
  PROVE  LET place(i) == Cardinality({j \in kept : j =< i}) IN
         /\ \A i \in kept : place(i) \in 1..Cardinality(kept)
         /\ \A i, j \in kept : place(i) = place(j) => i = j
         /\ \A n \in 1..Cardinality(kept) : \E i \in kept : place(i) = n
<1> DEFINE place(i) == Cardinality({j \in kept : j =< i})
           N == Cardinality(kept)
<1>1. N \in Nat
  BY FS_CardinalityType
<1>2. ASSUME NEW i \in kept
      PROVE  /\ IsFiniteSet({j \in kept : j =< i}) /\ place(i) \in Nat
             /\ place(i) \in 1..N
  <2>1. PICK S : S = {j \in kept : j =< i}
    OBVIOUS
  <2>2. S \subseteq kept /\ i \in S
    BY <2>1
  <2>3. IsFiniteSet(S) /\ Cardinality(S) <= N
    BY <2>2, FS_Subset
  <2>4. Cardinality(S) \in Nat /\ Cardinality(S) # 0
    BY <2>2, <2>3, FS_CardinalityType, FS_EmptySet
  <2> QED
    BY <1>1, <2>1, <2>3, <2>4
<1>3. ASSUME NEW i \in kept, NEW j \in kept, i < j PROVE place(i) < place(j)
  <2>1. PICK S : S = {k \in kept : k =< i}
    OBVIOUS
  <2>2. PICK T : T = {k \in kept : k =< j}
    OBVIOUS
  <2>3. S \subseteq T /\ j \in T /\ j \notin S
    <3>1. \A k \in kept : k \in Nat
      OBVIOUS
    <3>2. i \in Nat /\ j \in Nat
      BY <3>1
    <3>3. \A k \in kept : k =< i => k =< j
      BY <1>3, <3>1, <3>2
    <3>4. j =< j /\ ~(j =< i)
      BY <1>3, <3>2
    <3> QED
      BY <2>1, <2>2, <3>3, <3>4
  <2>4. IsFiniteSet(T) /\ IsFiniteSet(S)
    BY <1>2, <2>1, <2>2
  <2>5. Cardinality(S) <= Cardinality(T) /\ (Cardinality(S) = Cardinality(T) => S = T)
    BY <2>3, <2>4, FS_Subset
  <2>6. Cardinality(S) \in Nat /\ Cardinality(T) \in Nat
    BY <2>4, FS_CardinalityType
  <2>7. Cardinality(S) < Cardinality(T)
    BY <2>3, <2>5, <2>6
  <2> QED
    BY <2>1, <2>2, <2>7
<1>4. ASSUME NEW i \in kept, NEW j \in kept, place(i) = place(j) PROVE i = j
  BY <1>2, <1>3, <1>4
<1>5. PICK f : f = [i \in kept |-> place(i)]
  OBVIOUS
<1>6. f \in Injection(kept, 1..N)
  <2>1. f \in [kept -> 1..N]
    BY <1>2, <1>5
  <2>2. \A i, j \in kept : f[i] = f[j] => i = j
    BY <1>4, <1>5
  <2> QED
    BY <2>1, <2>2, Fun_IsInj
<1>7. IsFiniteSet(1..N) /\ Cardinality(1..N) = N
  BY <1>1, FS_Interval
<1>8. f \in Surjection(kept, 1..N)
  BY <1>6, <1>7, FS_Injection
<1>9. \A n \in 1..N : \E i \in kept : place(i) = n
  BY <1>5, <1>8 DEF Surjection
<1> QED
  BY <1>2, <1>4, <1>9

\* A queue without some members still holds each of the others once.
LEMMA Dropped ==
  ASSUME NEW s, Line(s), NEW dropped
  PROVE  /\ Line(DroppedFrom(s, dropped))
         /\ \A e : In(DroppedFrom(s, dropped), e) <=> In(s, e) /\ e \notin dropped
<1> DEFINE kept     == {i \in DOMAIN s : s[i] \notin dropped}
           place(i) == Cardinality({j \in kept : j =< i})
           N        == Cardinality(kept)
           at(n)    == CHOOSE i \in kept : place(i) = n
<1>1. s \in Seq(Calls) /\ Len(s) \in Nat /\ DOMAIN s = 1..Len(s)
  BY LenProperties DEF Line
<1>2. kept \in SUBSET Nat /\ IsFiniteSet(kept)
  <2>1. IsFiniteSet(1..Len(s))
    BY <1>1, FS_Interval
  <2>2. kept \subseteq 1..Len(s)
    BY <1>1
  <2>3. IsFiniteSet(kept)
    BY <2>1, <2>2, FS_Subset
  <2> QED
    BY <2>2, <2>3
<1>3. N \in Nat
  BY <1>2, FS_CardinalityType
<1>4. /\ \A i \in kept : place(i) \in 1..N
      /\ \A i, j \in kept : place(i) = place(j) => i = j
      /\ \A n \in 1..N : \E i \in kept : place(i) = n
  BY <1>2, Counted
<1> HIDE DEF place
<1>5. /\ \A n \in 1..N : at(n) \in kept /\ place(at(n)) = n
      /\ \A i \in kept : at(place(i)) = i
  BY <1>4
<1>6. DroppedFrom(s, dropped) = [n \in 1..N |-> s[at(n)]]
  BY DEF DroppedFrom, place
<1> HIDE DEF at, N
<1>7. PICK q : q = DroppedFrom(s, dropped)
  OBVIOUS
<1>8. /\ DOMAIN q = 1..N /\ q = [n \in 1..N |-> q[n]]
      /\ \A n \in 1..N : q[n] = s[at(n)]
  BY <1>6, <1>7
<1>9. \A n \in 1..N : q[n] \in Calls
  BY <1>1, <1>5, <1>8, ElementOfSeq
<1>10. q \in Seq(Calls)
  BY <1>3, <1>8, <1>9, SeqDef
<1>11. ASSUME NEW m \in DOMAIN q, NEW n \in DOMAIN q, q[m] = q[n] PROVE m = n
  <2>1. at(m) = at(n)
    BY <1>5, <1>8, <1>11 DEF Line
  <2> QED
    BY <1>5, <1>8, <2>1
<1>12. \A e : In(q, e) <=> In(s, e) /\ e \notin dropped
  <2>1. ASSUME NEW e, In(q, e) PROVE In(s, e) /\ e \notin dropped
    BY <1>5, <1>8, <2>1 DEF In
  <2>2. ASSUME NEW e, In(s, e), e \notin dropped PROVE In(q, e)
    <3>1. PICK i \in kept : s[i] = e
      BY <2>2 DEF In
    <3>2. place(i) \in DOMAIN q /\ q[place(i)] = s[i]
      BY <1>4, <1>5, <1>8
    <3> QED
      BY <3>1, <3>2 DEF In
  <2> QED
    BY <2>1, <2>2
<1> QED
  BY <1>7, <1>10, <1>11, <1>12 DEF Line

\* A call joins the end of a queue.
LEMMA JoinsLine ==
  ASSUME NEW s, Line(s), NEW c \in Calls, ~In(s, c)
  PROVE  /\ Line(Append(s, c))
         /\ \A e : In(Append(s, c), e) <=> In(s, e) \/ e = c
<1>1. s \in Seq(Calls) /\ Len(s) \in Nat /\ DOMAIN s = 1..Len(s)
  BY LenProperties DEF Line
<1>2. PICK q : q = Append(s, c)
  OBVIOUS
<1>3. /\ q \in Seq(Calls) /\ DOMAIN q = 1..(Len(s) + 1) /\ q[Len(s) + 1] = c
      /\ \A i \in 1..Len(s) : q[i] = s[i]
  BY <1>1, <1>2, AppendProperties, LenProperties
<1>4. \A i \in DOMAIN q : i \in DOMAIN s \/ i = Len(s) + 1
  BY <1>1, <1>3
<1>5. \A i, j \in DOMAIN q : q[i] = q[j] => i = j
  BY <1>1, <1>3, <1>4 DEF Line, In
<1>6. \A e : In(q, e) <=> In(s, e) \/ e = c
  <2>1. Len(s) + 1 \in DOMAIN q /\ DOMAIN s \subseteq DOMAIN q
    BY <1>1, <1>3
  <2> QED
    BY <1>1, <1>3, <1>4, <2>1 DEF In
<1> QED
  BY <1>2, <1>3, <1>5, <1>6 DEF Line

\* The head of a queue leaves it.
LEMMA HeadLeaves ==
  ASSUME NEW s, Line(s), s # <<>>
  PROVE  /\ Line(Tail(s))
         /\ \A e : In(Tail(s), e) <=> In(s, e) /\ e # Head(s)
<1>1. s \in Seq(Calls) /\ Len(s) \in Nat /\ DOMAIN s = 1..Len(s) /\ Len(s) # 0
  BY LenProperties, EmptySeq DEF Line
<1>2. PICK q : q = Tail(s)
  OBVIOUS
<1>3. /\ q \in Seq(Calls) /\ DOMAIN q = 1..(Len(s) - 1)
      /\ \A i \in 1..(Len(s) - 1) : q[i] = s[i + 1]
      /\ Head(s) = s[1]
  <2>1. q \in Seq(Calls) /\ Len(q) = Len(s) - 1 /\ \A i \in 1..Len(q) : q[i] = s[i + 1]
    BY <1>1, <1>2, HeadTailProperties
  <2> QED
    BY <1>1, <2>1, LenProperties
<1>4. \A i \in DOMAIN q : i + 1 \in DOMAIN s /\ i + 1 # 1 /\ q[i] = s[i + 1] /\ i \in Nat
  BY <1>1, <1>3
<1>5. \A i, j \in DOMAIN q : q[i] = q[j] => i = j
  BY <1>4 DEF Line
<1>6. 1 \in DOMAIN s
  BY <1>1
<1>7. \A e : In(q, e) <=> In(s, e) /\ e # Head(s)
  <2>1. ASSUME NEW e, In(q, e) PROVE In(s, e) /\ e # Head(s)
    BY <1>3, <1>4, <1>6, <2>1 DEF In, Line
  <2>2. ASSUME NEW e, In(s, e), e # Head(s) PROVE In(q, e)
    <3>1. PICK i \in DOMAIN s : s[i] = e /\ i # 1
      BY <1>3, <2>2 DEF In
    <3>2. i - 1 \in DOMAIN q /\ q[i - 1] = s[i]
      BY <1>1, <1>3, <3>1
    <3> QED
      BY <3>1, <3>2 DEF In
  <2> QED
    BY <2>1, <2>2
<1> QED
  BY <1>2, <1>3, <1>5, <1>7 DEF Line

---------------------------------------------------------------------------
(* The values of a call, and what a request of its loop may make of it.    *)

\* The values of a call: only a call under way has a key, and one that is paced
\* has an attempt left.
CallTyped(r) ==
  /\ r = [f \in CallFields |-> r[f]]
  /\ r.client \in Media \cup {"chat", "image"}
  /\ r.provider \in Providers /\ r.first \in 0..r.provider
  /\ r.pools \in [Providers -> Owners \cup {NoOwner}]
  /\ r.using \subseteq r.features /\ r.features \subseteq {"stream", "thinking"}
  /\ r.loop \in {"fetch", "complete", "poll", "download"}
  /\ r.at \in {"idle", "acquire", "wait", "request", "paced", "done"}
  /\ r.key \in Keys \cup {NoKey}
  /\ r.attempt \in 1..MaxAttempts
  /\ r.polls \in 0..MaxPolls
  /\ r.result \in Errors \cup {"none", "ok"}
  /\ Resolved(r) => r.key = NoKey
  /\ r.at = "paced" => r.attempt < MaxAttempts

\* A chat that goes on keeps its pools, and its permit as long as it stays
\* with its provider.
Succ(s, r) ==
  /\ CallTyped(s) /\ s.at \in {"acquire", "request", "done"}
  /\ s.client = "chat" /\ s.at # "done" =>
       /\ r.client = "chat" /\ s.pools = r.pools /\ s.provider >= r.provider
       /\ s.key # NoKey => s.key = r.key /\ s.provider = r.provider

\* The bounds are numbers that include the first value.
LEMMA CallBounds ==
  /\ MaxAttempts \in Nat \ {0} /\ MaxPolls \in Nat \ {0} /\ LastFallback \in Nat
  /\ 0 \in Providers
BY CallAssumption DEF Providers

\* A new call waits to acquire and has no key.
LEMMA NewTyped ==
  ASSUME NEW client \in Media \cup {"chat", "image"}, NEW provider \in Providers,
         NEW pools \in [Providers -> Owners \cup {NoOwner}],
         NEW features \in SUBSET {"stream", "thinking"}, NEW using \in SUBSET features,
         NEW r, r = NewCall(client, provider, pools, using, features)
  PROVE  /\ CallTyped(r) /\ r.client = client /\ r.provider = provider
         /\ r.first = provider /\ r.pools = pools /\ r.key = NoKey /\ r.at = "acquire"
<1>1. provider \in Nat /\ 1 \in 1..MaxAttempts /\ 0 \in 0..MaxPolls
  BY CallBounds DEF Providers
<1>2. provider \in 0..provider
  BY <1>1
<1>3. /\ r = [f \in CallFields |-> r[f]] /\ r.client = client /\ r.provider = provider
      /\ r.first = provider /\ r.pools = pools /\ r.using = using
      /\ r.features = features /\ r.loop = "complete" /\ r.at = "acquire"
      /\ r.key = NoKey /\ r.attempt = 1 /\ r.polls = 0 /\ r.result = "none"
  BY DEF NewCall, CallFields
<1> QED
  BY <1>1, <1>2, <1>3 DEF CallTyped, Resolved

LEMMA NoPoolsType == NoPools \in [Providers -> Owners \cup {NoOwner}]
BY DEF NoPools

\* Two calls that have no key: one not begun, one done.
LEMMA NoCallTyped ==
  /\ CallTyped(NoCall) /\ NoCall.at = "idle" /\ NoCall.key = NoKey
  /\ NoCall.client = "chat"
<1>1. PICK r : r = NewCall("chat", 0, NoPools, {}, {})
  OBVIOUS
<1>2. CallTyped(r) /\ r.key = NoKey /\ r.client = "chat"
  BY <1>1, CallBounds, NoPoolsType, NewTyped
<1>3. PICK s : s = [r EXCEPT !.at = "idle"]
  OBVIOUS
<1>4. CallTyped(s) /\ s.at = "idle" /\ s.key = NoKey /\ s.client = "chat"
  BY <1>2, <1>3 DEF CallTyped, CallFields, Resolved
<1> QED
  BY <1>1, <1>3, <1>4 DEF NoCall

\* A call that is over has no key.
LEMMA ClosedTyped ==
  ASSUME NEW e \in Errors \cup {"ok"}
  PROVE  /\ CallTyped(Closed(e)) /\ Closed(e).at = "done" /\ Closed(e).key = NoKey
         /\ Closed(e).client = "chat"
<1>1. PICK r : r = NoCall
  OBVIOUS
<1>2. CallTyped(r) /\ r.key = NoKey /\ r.client = "chat"
  BY <1>1, NoCallTyped
<1>3. PICK s : s = [r EXCEPT !.at = "done", !.result = e]
  OBVIOUS
<1>4. CallTyped(s) /\ s.at = "done" /\ s.key = NoKey /\ s.client = "chat"
  BY <1>2, <1>3 DEF CallTyped, CallFields, Resolved
<1> QED
  BY <1>1, <1>3, <1>4 DEF Closed

\* What becomes of a call: its end, the next provider or attempt, another
\* variant, loop or place.
LEMMA ClosesSucc ==
  ASSUME NEW r, NEW e \in Errors \cup {"ok"} PROVE Succ(Closed(e), r)
BY ClosedTyped DEF Succ

\* What the retry policy makes of a call.
LEMMA FailedSucc ==
  ASSUME NEW r, CallTyped(r), NEW e \in Errors PROVE Succ(Failed(r, e), r)
<1>1. CASE TriesNext(r, e)
  <2>1. PICK next : next = r.provider + 1
    OBVIOUS
  <2>2. /\ r.provider \in Nat /\ r.first \in 0..r.provider
        /\ next \in Providers /\ next > r.provider /\ r.first \in 0..next
    <3>1. r.provider \in 0..LastFallback /\ r.first \in 0..r.provider
          /\ r.provider < LastFallback /\ LastFallback \in Nat
      BY <1>1, CallBounds DEF TriesNext, CallTyped, Providers
    <3>2. next \in 0..LastFallback /\ next > r.provider
      BY <2>1, <3>1
    <3>3. r.first \in 0..next
      BY <3>1, <3>2
    <3> QED
      BY <3>1, <3>2, <3>3 DEF Providers
  <2>3. PICK n : n = NewCall(r.client, next, r.pools, r.features, r.features)
    OBVIOUS
  <2>4. /\ CallTyped(n) /\ n.client = r.client /\ n.provider = next
        /\ n.pools = r.pools /\ n.key = NoKey /\ n.at = "acquire"
    <3>1. /\ r.client \in Media \cup {"chat", "image"}
          /\ r.pools \in [Providers -> Owners \cup {NoOwner}]
          /\ r.features \subseteq {"stream", "thinking"}
          /\ r.features \subseteq r.features /\ next \in Providers
      BY <2>2 DEF CallTyped
    <3>2. PICK client \in Media \cup {"chat", "image"} : client = r.client
      BY <3>1
    <3>3. PICK pools \in [Providers -> Owners \cup {NoOwner}] : pools = r.pools
      BY <3>1
    <3>4. PICK features : features = r.features
      OBVIOUS
    <3>5. PICK using : using = features
      OBVIOUS
    <3>6. /\ features \in SUBSET {"stream", "thinking"} /\ using \in SUBSET features
          /\ next \in Providers /\ n = NewCall(client, next, pools, using, features)
      BY <2>3, <3>1, <3>2, <3>3, <3>4, <3>5
    <3>7. /\ CallTyped(n) /\ n.client = client /\ n.provider = next
          /\ n.first = next /\ n.pools = pools /\ n.key = NoKey /\ n.at = "acquire"
      BY <3>6, NewTyped
    <3> QED
      BY <3>2, <3>3, <3>7
  <2>5. PICK s : s = [n EXCEPT !.first = r.first]
    OBVIOUS
  <2>6. /\ s = [f \in CallFields |-> s[f]] /\ s.client = n.client
        /\ s.provider = n.provider /\ s.first = r.first /\ s.pools = n.pools
        /\ s.using = n.using /\ s.features = n.features /\ s.loop = n.loop
        /\ s.at = n.at /\ s.key = n.key /\ s.attempt = n.attempt
        /\ s.polls = n.polls /\ s.result = n.result
    <3>1. n = [f \in CallFields |-> n[f]]
      BY <2>4 DEF CallTyped
    <3> QED
      BY <2>5, <3>1 DEF CallFields
  <2>9. CallTyped(s)
    BY <2>2, <2>4, <2>6 DEF CallTyped, Resolved
  <2>7. Failed(r, e) = s
    BY <1>1, <2>1, <2>3, <2>5 DEF Failed, NextProvider
  <2>8. s.provider >= r.provider
    <3>1. r.provider \in Nat /\ next \in Nat /\ s.provider = next
      BY <2>2, <2>4, <2>6, CallBounds DEF Providers
    <3> QED
      BY <2>2, <3>1
  <2>10. s.client = r.client /\ s.pools = r.pools /\ s.key = NoKey /\ s.at = "acquire"
    BY <2>4, <2>6
  <2> QED
    BY <2>7, <2>8, <2>9, <2>10 DEF Succ
<1>2. CASE ~TriesNext(r, e)
  <2>1. Told(r.client, e) \in Errors
    BY DEF Told, Errors
  <2> QED
    BY <1>2, <2>1, ClosesSucc DEF Failed
<1> QED
  BY <1>1, <1>2

LEMMA AttemptSucc ==
  ASSUME NEW r, CallTyped(r), r.attempt < MaxAttempts, ~Resolved(r)
  PROVE  Succ(NextAttempt(r), r) /\ NextAttempt(r).at = "request"
<1>1. PICK m : m = r.attempt + 1
  OBVIOUS
<1>2. m \in 1..MaxAttempts /\ r.provider \in Nat
  BY <1>1, CallBounds DEF CallTyped, Providers
<1>3. PICK s : s = [r EXCEPT !.at = "request", !.attempt = m]
  OBVIOUS
<1>4. /\ s = [f \in CallFields |-> s[f]] /\ s.client = r.client
      /\ s.provider = r.provider /\ s.first = r.first /\ s.pools = r.pools
      /\ s.using = r.using /\ s.features = r.features /\ s.loop = r.loop
      /\ s.at = "request" /\ s.key = r.key /\ s.attempt = m /\ s.polls = r.polls
      /\ s.result = r.result
  BY <1>3 DEF CallTyped, CallFields
<1>5. CallTyped(s)
  BY <1>2, <1>4 DEF CallTyped, Resolved
<1>6. s = NextAttempt(r)
  BY <1>1, <1>3 DEF NextAttempt
<1>7. s.provider >= r.provider
  BY <1>2, <1>4
<1> QED
  BY <1>4, <1>5, <1>6, <1>7 DEF Succ

LEMMA AgainSucc ==
  ASSUME NEW r, CallTyped(r), r.at = "request", NEW feature
  PROVE  Succ(Again(r, feature), r)
<1>1. PICK u : u = r.using \ {feature}
  OBVIOUS
<1>2. u \subseteq r.features /\ 1 \in 1..MaxAttempts /\ r.provider \in Nat
  BY <1>1, CallBounds DEF CallTyped, Providers
<1>3. PICK s : s = [r EXCEPT !.attempt = 1, !.using = u]
  OBVIOUS
<1>4. /\ s = [f \in CallFields |-> s[f]] /\ s.client = r.client
      /\ s.provider = r.provider /\ s.first = r.first /\ s.pools = r.pools
      /\ s.using = u /\ s.features = r.features /\ s.loop = r.loop
      /\ s.at = "request" /\ s.key = r.key /\ s.attempt = 1 /\ s.polls = r.polls
      /\ s.result = r.result
  BY <1>3 DEF CallTyped, CallFields
<1>5. CallTyped(s)
  BY <1>2, <1>4 DEF CallTyped, Resolved
<1>6. s = Again(r, feature)
  BY <1>1, <1>3 DEF Again
<1>7. s.provider >= r.provider
  BY <1>2, <1>4
<1> QED
  BY <1>4, <1>5, <1>6, <1>7 DEF Succ

LEMMA EntersSucc ==
  ASSUME NEW r, CallTyped(r), r.client = "image",
         NEW loop \in {"poll", "download"}, NEW polls \in 0..MaxPolls,
         NEW s, s = [Enters(r, loop) EXCEPT !.polls = polls] \/ s = Enters(r, loop)
  PROVE  Succ(s, r)
<1>1. PICK n : n = [r EXCEPT !.loop = loop, !.attempt = 1, !.at = "request"]
  OBVIOUS
<1>2. 1 \in 1..MaxAttempts
  BY CallBounds
<1>3. /\ n = [f \in CallFields |-> n[f]] /\ n.client = r.client
      /\ n.provider = r.provider /\ n.first = r.first /\ n.pools = r.pools
      /\ n.using = r.using /\ n.features = r.features /\ n.loop = loop
      /\ n.at = "request" /\ n.key = r.key /\ n.attempt = 1 /\ n.polls = r.polls
      /\ n.result = r.result
  BY <1>1 DEF CallTyped, CallFields
<1>4. CallTyped(n)
  BY <1>2, <1>3 DEF CallTyped, Resolved
<1>5. PICK m : m = [n EXCEPT !.polls = polls]
  OBVIOUS
<1>6. CallTyped(m) /\ m.client = r.client /\ m.at = "request"
  BY <1>3, <1>4, <1>5 DEF CallTyped, CallFields, Resolved
<1>7. s = n \/ s = m
  BY <1>1, <1>5 DEF Enters
<1> QED
  BY <1>3, <1>4, <1>6, <1>7 DEF Succ

\* A call of a media client is no chat.
LEMMA MediaTyped ==
  ASSUME NEW client \in Media, NEW loop \in {"fetch", "complete"},
         NEW at \in {"acquire", "request"}, NEW s, s = MediaCall(client, loop, at)
  PROVE  /\ CallTyped(s) /\ s.client = client /\ s.at = at /\ s.key = NoKey
         /\ s.client # "chat"
<1>1. PICK n : n = NewCall(client, 0, NoPools, {}, {})
  OBVIOUS
<1>2. CallTyped(n) /\ n.client = client /\ n.key = NoKey
  BY <1>1, CallBounds, NoPoolsType, NewTyped
<1>3. s = [n EXCEPT !.loop = loop, !.at = at]
  BY <1>1 DEF MediaCall
<1>4. CallTyped(s) /\ s.client = client /\ s.at = at /\ s.key = NoKey
  BY <1>2, <1>3 DEF CallTyped, CallFields, Resolved
<1> QED
  BY <1>4 DEF Media

---------------------------------------------------------------------------
(* The answer to a request.                                                *)

\* Every call has such values.
CallsTyped == call = [c \in Calls |-> call[c]] /\ \A c \in Calls : CallTyped(call[c])

\* A request is answered, and its call goes on or is over.
Succeeds(c) == call[c].at = "request" /\ \E s : Succ(s, call[c]) /\ Becomes(c, s)

\* A rate limit puts a request in the queue for its retry.
Paces(c) ==
  /\ call[c].at = "request" /\ MayRetry(c)
  /\ call' = [call EXCEPT ![c].at = "paced"]
  /\ limited' = Append(limited, c)
  /\ UNCHANGED waiters

\* The steps of the retry policy lead to such a call.
LEMMA FailsSucceeds ==
  ASSUME CallsTyped, NEW c \in Calls, call[c].at = "request",
         FailsQuoting(c) \/ \E e \in Errors : Fails(c, e)
  PROVE  Succeeds(c)
<1>1. PICK e \in Errors : Fails(c, e)
  BY DEF FailsQuoting, Errors
<1>2. Succ(Failed(call[c], e), call[c])
  BY FailedSucc DEF CallsTyped
<1> QED
  BY <1>1, <1>2 DEF Fails, Succeeds

LEMMA BackoffSucceeds ==
  ASSUME CallsTyped, NEW c \in Calls, call[c].at = "request", MayRetry(c), Backoff(c)
  PROVE  Succeeds(c)
BY AttemptSucc DEF CallsTyped, MayRetry, Backoff, Succeeds, Resolved

LEMMA TransportSucceeds ==
  ASSUME CallsTyped, NEW c \in Calls, call[c].at = "request", TransportFails(c)
  PROVE  Succeeds(c)
<1>1. (MayRetry(c) /\ Backoff(c)) \/ Fails(c, "failed")
  BY DEF TransportFails
<1>2. "failed" \in Errors
  BY DEF Errors
<1> QED
  BY <1>1, <1>2, BackoffSucceeds, FailsSucceeds

LEMMA StatusSucceeds ==
  ASSUME CallsTyped, NEW c \in Calls, call[c].at = "request", NEW spent,
         StatusFails(c, spent)
  PROVE  Succeeds(c) \/ Paces(c)
<1>1. CASE MayRetry(c) /\ Backoff(c)
  BY <1>1, BackoffSucceeds
<1>2. CASE FailsQuoting(c) \/ Fails(c, "failed") \/ Fails(c, "context")
  <2>1. {"failed", "context"} \subseteq Errors
    BY DEF Errors
  <2> QED
    BY <1>2, <2>1, FailsSucceeds
<1>3. CASE /\ MayRetry(c) /\ call' = [call EXCEPT ![c].at = "paced"]
           /\ limited' = Append(limited, c) /\ UNCHANGED waiters
  BY <1>3 DEF Paces
<1> QED
  BY <1>1, <1>2, <1>3 DEF StatusFails, ServerFails, RateLimited

\* And so does every request, of a chat, of media and of an image, unless it
\* queues for its next attempt.
LEMMA ChatSucceeds ==
  ASSUME CallsTyped, NEW c \in Calls, ChatStep(c)
  PROVE  Succeeds(c) \/ Paces(c)
<1>1. call[c].at = "request"
  BY DEF ChatStep, ChatSendFails, ChatStatusFails, ChatStreamFails, ChatBadBody,
    ChatEmpty, ChatAnswered, InLoop
<1>2. CallTyped(call[c])
  BY DEF CallsTyped
<1>3. CASE TransportFails(c)
  BY <1>1, <1>3, TransportSucceeds
<1>4. CASE StatusFails(c, {FALSE})
  BY <1>1, <1>4, StatusSucceeds
<1>5. CASE FailsQuoting(c)
  BY <1>1, <1>5, FailsSucceeds
<1>6. CASE \E feature : Becomes(c, Again(call[c], feature))
  BY <1>1, <1>2, <1>6, AgainSucc DEF Succeeds
<1>7. CASE Becomes(c, Closed("ok"))
  BY <1>1, <1>7, ClosesSucc DEF Succeeds
<1> QED
  BY <1>3, <1>4, <1>5, <1>6, <1>7 DEF ChatStep, ChatSendFails, ChatStatusFails,
    ChatStreamFails, ChatBadBody, ChatEmpty, ChatAnswered

LEMMA MediaSucceeds ==
  ASSUME CallsTyped, NEW c \in Calls, MediaStep(c)
  PROVE  Succeeds(c) \/ Paces(c)
<1>1. call[c].at = "request"
  BY DEF MediaStep, CaptionFetchFails, CaptionFetched, CaptionSendFails,
    CaptionStatusFails, CaptionAnswered, VideoFetchFails, VideoFetched, VideoSendFails,
    VideoStatusFails, VideoAnswered, VoiceSendFails, VoiceStatusFails, VoiceAnswered,
    StepfunSendFails, StepfunStatusFails, StepfunAnswered, InLoop
<1>3. CASE TransportFails(c)
  BY <1>1, <1>3, TransportSucceeds
<1>4. CASE StatusFails(c, BOOLEAN)
  BY <1>1, <1>4, StatusSucceeds
<1>5. CASE Answered(c)
  BY <1>1, <1>5, FailsSucceeds, ClosesSucc DEF Answered, Succeeds
<1>6. CASE Fetched(c) /\ call[c].client \in Media
  <2>1. CASE Fails(c, "failed")
    BY <1>1, <2>1, FailsSucceeds DEF Errors
  <2>2. CASE Becomes(c, MediaCall(call[c].client, "complete", "acquire"))
    <3>1. Succ(MediaCall(call[c].client, "complete", "acquire"), call[c])
      BY <1>6, MediaTyped DEF Succ
    <3> QED
      BY <1>1, <2>2, <3>1 DEF Succeeds
  <2> QED
    BY <1>6, <2>1, <2>2 DEF Fetched
<1> QED
  BY <1>3, <1>4, <1>5, <1>6 DEF MediaStep, CaptionFetchFails, CaptionFetched,
    CaptionSendFails, CaptionStatusFails, CaptionAnswered, VideoFetchFails,
    VideoFetched, VideoSendFails, VideoStatusFails, VideoAnswered, VoiceSendFails,
    VoiceStatusFails, VoiceAnswered, StepfunSendFails, StepfunStatusFails,
    StepfunAnswered, InLoop, Media

LEMMA ImageSucceeds ==
  ASSUME CallsTyped, NEW c \in Calls, ImageStep(c)
  PROVE  Succeeds(c) \/ Paces(c)
<1>1. call[c].at = "request" /\ call[c].client = "image"
  BY DEF ImageStep, ImageSendFails, ImageStatusFails, ImageAccepted, PollFails, Polled,
    DownloadFails, Downloaded, InLoop
<1>2. CallTyped(call[c])
  BY DEF CallsTyped
<1>3. CASE TransportFails(c)
  BY <1>1, <1>3, TransportSucceeds
<1>4. CASE StatusFails(c, BOOLEAN)
  BY <1>1, <1>4, StatusSucceeds
<1>5. CASE FailsQuoting(c) \/ WriteImage(c)
  BY <1>1, <1>5, FailsSucceeds, ClosesSucc DEF WriteImage, Errors, Succeeds
<1>6. CASE \E loop \in {"poll", "download"} : Becomes(c, Enters(call[c], loop))
  <2>1. 0 \in 0..MaxPolls
    BY CallBounds
  <2> QED
    BY <1>1, <1>2, <1>6, <2>1, EntersSucc DEF Succeeds
<1>7. CASE \E polls \in 0..MaxPolls :
             Becomes(c, [Enters(call[c], "poll") EXCEPT !.polls = polls])
  BY <1>1, <1>2, <1>7, EntersSucc DEF Succeeds
<1>8. CASE ImageAccepted(c)
  <2>1. 1 \in 0..MaxPolls
    BY CallBounds
  <2> QED
    BY <1>5, <1>6, <1>7, <1>8, <2>1 DEF ImageAccepted
<1>9. CASE Polled(c)
  <2>1. ASSUME call[c].polls < MaxPolls,
               Becomes(c, [Enters(call[c], "poll") EXCEPT !.polls = @ + 1])
        PROVE  Succeeds(c)
    <3>1. PICK polls : polls = call[c].polls + 1
      OBVIOUS
    <3>2. polls \in 0..MaxPolls
      BY <1>2, <2>1, <3>1, CallBounds DEF CallTyped
    <3>3. PICK n : n = Enters(call[c], "poll")
      OBVIOUS
    <3>4. n.polls = call[c].polls
      BY <1>2, <3>3 DEF CallTyped, CallFields, Enters
    <3>5. Becomes(c, [Enters(call[c], "poll") EXCEPT !.polls = polls])
      BY <2>1, <3>1, <3>3, <3>4
    <3> QED
      BY <1>1, <1>2, <3>2, <3>5, EntersSucc DEF Succeeds
  <2> QED
    BY <1>5, <1>6, <1>9, <2>1 DEF Polled
<1> QED
  BY <1>3, <1>4, <1>5, <1>8, <1>9 DEF ImageStep, ImageSendFails, ImageStatusFails,
    PollFails, DownloadFails, Downloaded

\* What a call does: its permit and its turn in a queue, or one request.
LEMMA CallDoes ==
  ASSUME CallsTyped, NEW c \in Calls, CallNext(c)
  PROVE  \/ Acquire(c) \/ Granted(c) \/ PaceOver(c) \/ PaceGivesUp(c)
         \/ Succeeds(c) \/ Paces(c)
BY ChatSucceeds, MediaSucceeds, ImageSucceeds DEF CallNext

---------------------------------------------------------------------------
(* The permits of a key and the calls that wait: what a change leaves.     *)

\* A call that has a permit of key k in the pool of o for provider p.
Uses(r, p, o, k) ==
  /\ r.client = "chat" /\ r.provider = p /\ r.pools[p] = o
  /\ r.key = k /\ Holds(r)

\* The calls that do.
Users(p, o, k) == {c \in Calls : Uses(call[c], p, o, k)}

\* No key of any single pool serves more than its cap.
Capped ==
  \A p \in Providers, o \in Owners \cup {NoOwner}, k \in Keys :
    Cardinality(Users(p, o, k)) =< PerKey

\* The two queues hold exactly the calls that wait in them, once each.
InLine ==
  /\ Line(waiters) /\ Line(limited)
  /\ \A c \in Calls :
       /\ call[c].at = "wait" <=> In(waiters, c)
       /\ call[c].at = "paced" <=> In(limited, c)

\* What the steps of the calls keep.
CallsInv == CallsTyped /\ InLine /\ Capped

\* Finitely many lanes, so finitely many calls that can use a key.
LEMMA LanesAre ==
  /\ IsFiniteSet(Lanes) /\ 1 \in Lanes
  /\ \E n \in Nat \ {0} : Lanes = 1..n
<1>1. PICK n \in Nat \ {0} : n = Cardinality(Lanes)
  BY GenerationAssumption
<1>2. Lanes = 1..n
  BY <1>1, GenerationAssumption
<1>3. IsFiniteSet(1..n) /\ 1 \in 1..n
  BY <1>1, FS_Interval
<1> QED
  BY <1>2, <1>3

LEMMA CallsFinite == IsFiniteSet(Calls)
BY LanesAre, GenerationAssumption, FS_Product

\* So those that use one are finitely many.
LEMMA UsersFinite ==
  ASSUME NEW p, NEW o, NEW k
  PROVE  IsFiniteSet(Users(p, o, k)) /\ Cardinality(Users(p, o, k)) \in Nat
<1>1. Users(p, o, k) \subseteq Calls
  BY DEF Users
<1> QED
  BY <1>1, CallsFinite, FS_Subset, FS_CardinalityType

\* No call gets a permit.
LEMMA CapKept ==
  ASSUME Capped,
         \A p, o, k : \A c \in Calls : Uses(call'[c], p, o, k) => Uses(call[c], p, o, k)
  PROVE  Capped'
<1> SUFFICES ASSUME NEW p \in Providers, NEW o \in Owners \cup {NoOwner}, NEW k \in Keys
             PROVE  Cardinality(Users(p, o, k)') =< PerKey
  BY DEF Capped
<1>1. PICK U : U = Users(p, o, k)
  OBVIOUS
<1>2. PICK V : V = Users(p, o, k)'
  OBVIOUS
<1>3. V \subseteq U
  BY <1>1, <1>2 DEF Users
<1>4. IsFiniteSet(U) /\ Cardinality(U) \in Nat /\ Cardinality(U) =< PerKey
  BY <1>1, UsersFinite DEF Capped
<1>5. Cardinality(V) =< Cardinality(U) /\ Cardinality(V) \in Nat
  BY <1>3, <1>4, FS_Subset, FS_CardinalityType
<1>6. PerKey \in Nat
  BY CallAssumption
<1> QED
  BY <1>2, <1>4, <1>5, <1>6

\* One call gets a permit that was free.
LEMMA CapOneMore ==
  ASSUME Capped, NEW c \in Calls, NEW q, NEW w, NEW h,
         Cardinality(Users(q, w, h)) < PerKey,
         \A p, o, k : \A d \in Calls :
           Uses(call'[d], p, o, k) =>
             \/ Uses(call[d], p, o, k)
             \/ d = c /\ p = q /\ o = w /\ k = h
  PROVE  Capped'
<1> SUFFICES ASSUME NEW p \in Providers, NEW o \in Owners \cup {NoOwner}, NEW k \in Keys
             PROVE  Cardinality(Users(p, o, k)') =< PerKey
  BY DEF Capped
<1>1. PICK U : U = Users(p, o, k)
  OBVIOUS
<1>2. PICK V : V = Users(p, o, k)'
  OBVIOUS
<1>3. IsFiniteSet(U) /\ Cardinality(U) \in Nat /\ Cardinality(U) =< PerKey
  BY <1>1, UsersFinite DEF Capped
<1>4. PerKey \in Nat
  BY CallAssumption
<1>5. CASE p = q /\ o = w /\ k = h
  <2>1. V \subseteq U \cup {c}
    BY <1>1, <1>2 DEF Users
  <2>2. Cardinality(U) < PerKey
    BY <1>1, <1>5
  <2>3. IsFiniteSet(U \cup {c}) /\ Cardinality(U \cup {c}) =< Cardinality(U) + 1
    <3>1. PICK W : W = U \cup {c}
      OBVIOUS
    <3>2. IsFiniteSet(W) /\ Cardinality(W) = IF c \in U THEN Cardinality(U)
                                             ELSE Cardinality(U) + 1
      BY <1>3, <3>1, FS_AddElement
    <3>3. Cardinality(W) =< Cardinality(U) + 1
      BY <1>3, <3>2
    <3> QED
      BY <3>1, <3>2, <3>3
  <2>4. Cardinality(V) =< Cardinality(U \cup {c}) /\ Cardinality(V) \in Nat
    BY <2>1, <2>3, FS_Subset, FS_CardinalityType
  <2>5. Cardinality(U \cup {c}) \in Nat
    BY <2>3, FS_CardinalityType
  <2> QED
    BY <1>2, <1>3, <1>4, <2>2, <2>3, <2>4, <2>5
<1>6. CASE ~(p = q /\ o = w /\ k = h)
  <2>1. V \subseteq U
    BY <1>1, <1>2, <1>6 DEF Users
  <2>2. Cardinality(V) =< Cardinality(U) /\ Cardinality(V) \in Nat
    BY <1>3, <2>1, FS_Subset, FS_CardinalityType
  <2> QED
    BY <1>2, <1>3, <1>4, <2>2
<1> QED
  BY <1>5, <1>6

\* One call changes.
LEMMA OneCall ==
  ASSUME CallsTyped, NEW c \in Calls, NEW s, call' = [call EXCEPT ![c] = s]
  PROVE  /\ \A d \in Calls : call'[d] = IF d = c THEN s ELSE call[d]
         /\ CallTyped(s) => CallsTyped'
BY DEF CallsTyped

\* s has no permit that r has not.
NoMore(s, r) ==
  s.client = "chat" /\ Holds(s) =>
    /\ r.client = "chat" /\ Holds(r)
    /\ s.key = r.key /\ s.provider = r.provider /\ s.pools = r.pools

\* A call changes outside the queues.
LEMMA Changes ==
  ASSUME CallsInv, NEW c \in Calls, NEW s, Becomes(c, s), CallTyped(s),
         s.at \notin {"wait", "paced"}, call[c].at \notin {"wait", "paced"},
         NoMore(s, call[c])
  PROVE  CallsInv'
<1>1. /\ \A d \in Calls : call'[d] = IF d = c THEN s ELSE call[d]
      /\ CallsTyped' /\ UNCHANGED <<waiters, limited>>
  BY OneCall DEF CallsInv, Becomes
<1>2. InLine'
  BY <1>1 DEF CallsInv, InLine
<1>3. \A p, o, k : Uses(s, p, o, k) => Uses(call[c], p, o, k)
  BY DEF NoMore, Uses
<1>4. \A p, o, k : \A d \in Calls : Uses(call'[d], p, o, k) => Uses(call[d], p, o, k)
  BY <1>1, <1>3
<1>5. Capped'
  BY <1>4, CapKept DEF CallsInv
<1> QED
  BY <1>1, <1>2, <1>5 DEF CallsInv

\* A step of a call under way gets no permit, and neither does a new call.
LEMMA SuccNoMore ==
  ASSUME NEW s, NEW r, CallTyped(s), Succ(s, r), Holds(r) \/ r.key = NoKey
  PROVE  NoMore(s, r) /\ s.at \notin {"wait", "paced"}
BY DEF NoMore, Succ, CallTyped, Holds, Resolved

LEMMA BeginsNoMore ==
  ASSUME NEW s, s.key = NoKey, NEW r PROVE NoMore(s, r)
BY DEF NoMore, Holds

---------------------------------------------------------------------------
(* Every step of a call keeps the queues and the cap.                      *)

\* A call in another place, perhaps with another key.
PlacedAt(r, k, at) == [r EXCEPT !.key = k, !.at = at]

\* A call moves to another place and has the values it had.
LEMMA Placed ==
  ASSUME NEW r, CallTyped(r), NEW k \in Keys \cup {NoKey},
         NEW at \in {"request", "wait", "paced"}, at = "paced" => r.attempt < MaxAttempts,
         NEW s, s = PlacedAt(r, k, at)
  PROVE  /\ CallTyped(s) /\ s.at = at /\ s.key = k /\ s.client = r.client
         /\ s.provider = r.provider /\ s.pools = r.pools
<1>1. r = [f \in CallFields |-> r[f]]
  BY DEF CallTyped
<1>2. /\ s = [f \in CallFields |-> s[f]] /\ s.client = r.client
      /\ s.provider = r.provider /\ s.first = r.first /\ s.pools = r.pools
      /\ s.using = r.using /\ s.features = r.features /\ s.loop = r.loop
      /\ s.at = at /\ s.key = k /\ s.attempt = r.attempt /\ s.polls = r.polls
      /\ s.result = r.result
  BY <1>1 DEF CallFields, PlacedAt
<1> QED
  BY <1>2 DEF CallTyped, Resolved

LEMMA PlacedWithKey ==
  ASSUME NEW r, CallTyped(r), NEW at \in {"request", "wait", "paced"},
         at = "paced" => r.attempt < MaxAttempts, NEW s, s = [r EXCEPT !.at = at]
  PROVE  /\ CallTyped(s) /\ s.at = at /\ s.key = r.key /\ s.client = r.client
         /\ s.provider = r.provider /\ s.pools = r.pools
<1>1. PICK k : k = r.key
  OBVIOUS
<1>2. r = [f \in CallFields |-> r[f]] /\ k \in Keys \cup {NoKey}
  BY <1>1 DEF CallTyped
<1>3. s = PlacedAt(r, k, at)
  BY <1>1, <1>2 DEF CallFields, PlacedAt
<1> QED
  BY <1>1, <1>2, <1>3, Placed

\* What a step of a call leaves: it is still under way or done, and a chat
\* that goes on has the pools it had.
Stays(s, r) ==
  /\ r.at # "idle" /\ s.at # "idle"
  /\ s.client = "chat" /\ ~Resolved(s) =>
       /\ r.client = "chat" /\ ~Resolved(r)
       /\ s.pools = r.pools /\ s.provider >= r.provider

\* A step that leaves such a call, and every other as it was.
Goes(c) == \E s : Stays(s, call[c]) /\ call' = [call EXCEPT ![c] = s]

\* The steps of a call under way leave such a call.
LEMMA PlacedStays ==
  ASSUME NEW r, CallTyped(r), NEW s, r.at # "idle", ~Resolved(r), s.at # "idle",
         s.pools = r.pools, s.provider = r.provider, s.client = r.client
  PROVE  Stays(s, r)
<1>1. r.provider \in Nat
  BY CallBounds DEF CallTyped, Providers
<1>2. s.provider >= r.provider
  BY <1>1
<1> QED
  BY <1>2 DEF Stays

LEMMA SuccStays ==
  ASSUME NEW r, NEW s, Succ(s, r), r.at # "idle", ~Resolved(r) PROVE Stays(s, r)
BY DEF Succ, Stays, Resolved

\* The requests that FreeKeys counts are the uses of the key.
LEMMA FlightUses ==
  ASSUME NEW r, r.client = "chat", NEW k
  PROVE  InFlight(r, k) = Users(r.provider, r.pools[r.provider], k)
BY DEF InFlight, SamePool, Users, Uses

\* A chat gets a free permit.
LEMMA Admitted ==
  ASSUME CallsInv, NEW c \in Calls, NEW k \in Keys, NEW s, CallTyped(s),
         call' = [call EXCEPT ![c] = s],
         s.client = call[c].client, s.provider = call[c].provider,
         s.pools = call[c].pools, s.key = k,
         s.client = "chat" => Cardinality(InFlight(call[c], k)) < PerKey
  PROVE  Capped'
<1>1. \A d \in Calls : call'[d] = IF d = c THEN s ELSE call[d]
  BY OneCall DEF CallsInv
<1>2. CASE s.client = "chat"
  <2>1. PICK p, o : p = call[c].provider /\ o = call[c].pools[p]
    OBVIOUS
  <2>2. Cardinality(Users(p, o, k)) < PerKey
    BY <1>2, <2>1, FlightUses
  <2>3. \A q, w, h : Uses(s, q, w, h) => q = p /\ w = o /\ h = k
    BY <2>1 DEF Uses
  <2>4. \A q, w, h : \A d \in Calls :
          Uses(call'[d], q, w, h) =>
            Uses(call[d], q, w, h) \/ (d = c /\ q = p /\ w = o /\ h = k)
    BY <1>1, <2>3
  <2> QED
    BY <2>2, <2>4, CapOneMore DEF CallsInv
<1>3. CASE s.client # "chat"
  <2>1. \A q, w, h : ~Uses(s, q, w, h)
    BY <1>3 DEF Uses
  <2>2. \A q, w, h : \A d \in Calls : Uses(call'[d], q, w, h) => Uses(call[d], q, w, h)
    BY <1>1, <2>1
  <2> QED
    BY <2>2, CapKept DEF CallsInv
<1> QED
  BY <1>2, <1>3

\* A permit is only taken when one is free and nobody waits; else the call
\* waits in line.
LEMMA AcquireKeeps ==
  ASSUME CallsInv, NEW c \in Calls, Acquire(c) PROVE CallsInv' /\ Goes(c)
<1>1. PICK r : r = call[c]
  OBVIOUS
<1>2. CallTyped(r) /\ r.at = "acquire" /\ UNCHANGED limited
  BY <1>1 DEF CallsInv, CallsTyped, Acquire
<1>3. r.at # "idle" /\ ~Resolved(r)
  BY <1>2 DEF Resolved
<1>4. ASSUME NEW k \in Keys, NEW at \in {"request", "wait"},
             call' = [call EXCEPT ![c].key = k, ![c].at = at]
      PROVE  \E s : /\ CallTyped(s) /\ call' = [call EXCEPT ![c] = s]
                    /\ s.at = at /\ s.key = k /\ s.client = r.client
                    /\ s.provider = r.provider /\ s.pools = r.pools
  <2>1. PICK s : s = PlacedAt(r, k, at)
    OBVIOUS
  <2>2. /\ at \in {"request", "wait", "paced"}
        /\ at = "paced" => r.attempt < MaxAttempts
        /\ k \in Keys \cup {NoKey}
    OBVIOUS
  <2>3. /\ CallTyped(s) /\ s.at = at /\ s.key = k /\ s.client = r.client
        /\ s.provider = r.provider /\ s.pools = r.pools
    BY <1>2, <2>1, <2>2, Placed
  <2>4. call' = [call EXCEPT ![c] = s]
    BY <1>1, <1>4, <2>1 DEF PlacedAt
  <2> QED
    BY <2>3, <2>4
<1>5. ASSUME NEW k \in Keys, r.client = "chat" => k \in FreeKeys(r),
             call' = [call EXCEPT ![c].key = k, ![c].at = "request"], UNCHANGED waiters
      PROVE  CallsInv' /\ Goes(c)
  <2>1. PICK s : /\ CallTyped(s) /\ call' = [call EXCEPT ![c] = s]
                 /\ s.at = "request" /\ s.key = k /\ s.client = r.client
                 /\ s.provider = r.provider /\ s.pools = r.pools
    BY <1>4, <1>5
  <2>2. /\ \A d \in Calls : call'[d] = IF d = c THEN s ELSE call[d]
        /\ CallsTyped'
    BY <2>1, OneCall DEF CallsInv
  <2>3. InLine'
    BY <1>1, <1>2, <1>5, <2>1, <2>2 DEF CallsInv, InLine
  <2>4. Capped'
    BY <1>1, <1>5, <2>1, Admitted DEF FreeKeys
  <2>5. Goes(c)
    BY <1>1, <1>2, <1>3, <2>1, PlacedStays DEF Goes
  <2> QED
    BY <2>2, <2>3, <2>4, <2>5 DEF CallsInv
<1>6. ASSUME NEW k \in Keys, waiters' = Append(waiters, c),
             call' = [call EXCEPT ![c].key = k, ![c].at = "wait"]
      PROVE  CallsInv' /\ Goes(c)
  <2>1. PICK s : /\ CallTyped(s) /\ call' = [call EXCEPT ![c] = s]
                 /\ s.at = "wait" /\ s.key = k /\ s.client = r.client
                 /\ s.provider = r.provider /\ s.pools = r.pools
    BY <1>4, <1>6
  <2>2. /\ \A d \in Calls : call'[d] = IF d = c THEN s ELSE call[d]
        /\ CallsTyped'
    BY <2>1, OneCall DEF CallsInv
  <2>3. /\ Line(waiters') /\ Line(limited')
        /\ \A e : In(waiters', e) <=> In(waiters, e) \/ e = c
        /\ ~In(limited, c)
    BY <1>1, <1>2, <1>6, JoinsLine DEF CallsInv, InLine
  <2>4. InLine'
    BY <1>2, <2>1, <2>2, <2>3 DEF CallsInv, InLine
  <2>5. \A p, o, h : ~Uses(s, p, o, h)
    BY <2>1 DEF Uses, Holds
  <2>6. Capped'
    BY <2>2, <2>5, CapKept DEF CallsInv
  <2>7. Goes(c)
    BY <1>1, <1>2, <1>3, <2>1, PlacedStays DEF Goes
  <2> QED
    BY <2>2, <2>4, <2>6, <2>7 DEF CallsInv
<1>7. \/ \E k \in Keys :
           /\ r.client = "chat" => k \in FreeKeys(r)
           /\ call' = [call EXCEPT ![c].key = k, ![c].at = "request"]
           /\ UNCHANGED waiters
      \/ \E k \in Keys :
           /\ call' = [call EXCEPT ![c].key = k, ![c].at = "wait"]
           /\ waiters' = Append(waiters, c)
  <2>1. PICK free : free = IF r.client = "chat" THEN FreeKeys(r) ELSE Keys
    OBVIOUS
  <2>2. free \subseteq Keys /\ \A k \in free : r.client = "chat" => k \in FreeKeys(r)
    BY <2>1 DEF FreeKeys
  <2>3. \/ /\ \E k \in free : call' = [call EXCEPT ![c].key = k, ![c].at = "request"]
           /\ UNCHANGED waiters
        \/ /\ \E k \in Keys : call' = [call EXCEPT ![c].key = k, ![c].at = "wait"]
           /\ waiters' = Append(waiters, c)
    BY <1>1, <2>1 DEF Acquire
  <2> QED
    BY <2>2, <2>3
<1> QED
  BY <1>5, <1>6, <1>7

\* The first in line gets the permit that came free.
LEMMA GrantedKeeps ==
  ASSUME CallsInv, NEW c \in Calls, Granted(c) PROVE CallsInv' /\ Goes(c)
<1>1. PICK r : r = call[c]
  OBVIOUS
<1>2. /\ CallTyped(r) /\ r.at = "wait" /\ UNCHANGED limited
      /\ Cardinality(InFlight(r, r.key)) < PerKey
      /\ call' = [call EXCEPT ![c].at = "request"]
      /\ waiters' = DroppedFrom(waiters, {c})
  BY <1>1 DEF CallsInv, CallsTyped, Granted
<1>3. r.at # "idle" /\ ~Resolved(r)
  BY <1>2 DEF Resolved
<1>4. PICK at, s :
        /\ at \in {"request", "wait", "paced"} /\ at = "request"
        /\ s = [r EXCEPT !.at = at]
  OBVIOUS
<1>5. PICK k : k = r.key
  OBVIOUS
<1>6. k \in Keys \cup {NoKey}
  BY <1>2, <1>5 DEF CallTyped
<1>7. /\ CallTyped(s) /\ s.at = "request" /\ s.key = r.key /\ s.client = r.client
      /\ s.provider = r.provider /\ s.pools = r.pools
  BY <1>2, <1>4, PlacedWithKey
<1>8. call' = [call EXCEPT ![c] = s]
  BY <1>1, <1>2, <1>4
<1>9. /\ \A d \in Calls : call'[d] = IF d = c THEN s ELSE call[d]
      /\ CallsTyped'
  BY <1>7, <1>8, OneCall DEF CallsInv
<1>10. /\ Line(waiters') /\ Line(limited') /\ ~In(limited, c)
       /\ \A e : In(waiters', e) <=> In(waiters, e) /\ e # c
  BY <1>1, <1>2, Dropped DEF CallsInv, InLine
<1>11. InLine'
  BY <1>2, <1>7, <1>9, <1>10 DEF CallsInv, InLine
<1>12. Capped'
  <2>1. CASE k \in Keys
    BY <1>1, <1>2, <1>5, <1>7, <1>8, <2>1, Admitted
  <2>2. CASE k = NoKey
    <3>1. \A p, o, h : ~Uses(s, p, o, h)
      BY <1>5, <1>7, <2>2 DEF Uses, Holds
    <3> QED
      BY <1>9, <3>1, CapKept DEF CallsInv
  <2> QED
    BY <1>6, <2>1, <2>2
<1>13. Goes(c)
  BY <1>1, <1>2, <1>3, <1>7, <1>8, PlacedStays DEF Goes
<1> QED
  BY <1>9, <1>11, <1>12, <1>13 DEF CallsInv

\* A call leaves the queue for the next attempt.
LEMMA LeavesPace ==
  ASSUME CallsInv, NEW c \in Calls, call[c].at = "paced", NEW s, Succ(s, call[c]),
         call' = [call EXCEPT ![c] = s], UNCHANGED waiters, Line(limited'),
         \A e : In(limited', e) <=> In(limited, e) /\ e # c
  PROVE  CallsInv' /\ Goes(c)
<1>1. PICK r : r = call[c]
  OBVIOUS
<1>2. CallTyped(r) /\ r.at = "paced" /\ CallTyped(s) /\ Succ(s, r)
  BY <1>1 DEF CallsInv, CallsTyped, Succ
<1>3. r.at # "idle" /\ ~Resolved(r) /\ (Holds(r) \/ r.key = NoKey)
  BY <1>2 DEF Resolved, Holds
<1>4. NoMore(s, r) /\ s.at \notin {"wait", "paced"}
  BY <1>2, <1>3, SuccNoMore
<1>5. /\ \A d \in Calls : call'[d] = IF d = c THEN s ELSE call[d]
      /\ CallsTyped'
  BY <1>2, OneCall DEF CallsInv
<1>6. InLine'
  BY <1>1, <1>2, <1>4, <1>5 DEF CallsInv, InLine
<1>7. \A p, o, k : Uses(s, p, o, k) => Uses(call[c], p, o, k)
  BY <1>1, <1>4 DEF NoMore, Uses
<1>8. Capped'
  BY <1>5, <1>7, CapKept DEF CallsInv
<1>9. Goes(c)
  BY <1>1, <1>2, <1>3, SuccStays DEF Goes
<1> QED
  BY <1>5, <1>6, <1>8, <1>9 DEF CallsInv

\* The head of the retry queue goes on, or a call leaves it for good.
LEMMA PaceKeeps ==
  ASSUME CallsInv, NEW c \in Calls, PaceOver(c) \/ PaceGivesUp(c)
  PROVE  CallsInv' /\ Goes(c)
<1>1. /\ CallTyped(call[c]) /\ call[c].at = "paced" /\ In(limited, c) /\ Line(limited)
      /\ call[c].attempt < MaxAttempts /\ UNCHANGED waiters
  BY DEF CallsInv, CallsTyped, InLine, CallTyped, PaceOver, PaceGivesUp
<1>2. ~Resolved(call[c])
  BY <1>1 DEF Resolved
<1>3. CASE PaceOver(c)
  <2>1. Succ(NextAttempt(call[c]), call[c])
    BY <1>1, <1>2, AttemptSucc
  <2>2. call' = [call EXCEPT ![c] = NextAttempt(call[c])]
    BY <1>3 DEF PaceOver
  <2>3. limited # <<>>
    BY <1>1 DEF In
  <2>4. Line(limited') /\ \A e : In(limited', e) <=> In(limited, e) /\ e # c
    BY <1>1, <1>3, <2>3, HeadLeaves DEF PaceOver
  <2> QED
    BY <1>1, <2>1, <2>2, <2>4, LeavesPace
<1>4. CASE PaceGivesUp(c)
  <2>1. Succ(Failed(call[c], "failed"), call[c])
    BY <1>1, FailedSucc DEF Errors
  <2>2. call' = [call EXCEPT ![c] = Failed(call[c], "failed")]
    BY <1>4 DEF PaceGivesUp
  <2>3. Line(limited') /\ \A e : In(limited', e) <=> In(limited, e) /\ e \notin {c}
    BY <1>1, <1>4, Dropped DEF PaceGivesUp
  <2> QED
    BY <1>1, <2>1, <2>2, <2>3, LeavesPace
<1> QED
  BY <1>3, <1>4

\* A rate-limited call joins the retry queue with its permit.
LEMMA PacesKeeps ==
  ASSUME CallsInv, NEW c \in Calls, Paces(c) PROVE CallsInv' /\ Goes(c)
<1>1. PICK r : r = call[c]
  OBVIOUS
<1>2. /\ CallTyped(r) /\ r.at = "request" /\ UNCHANGED waiters /\ r.attempt < MaxAttempts
      /\ call' = [call EXCEPT ![c].at = "paced"] /\ limited' = Append(limited, c)
  BY <1>1 DEF CallsInv, CallsTyped, Paces, MayRetry
<1>3. r.at # "idle" /\ ~Resolved(r) /\ (Holds(r) \/ r.key = NoKey)
  BY <1>2 DEF Resolved, Holds
<1>4. PICK at, s :
        /\ at \in {"request", "wait", "paced"} /\ at = "paced"
        /\ s = [r EXCEPT !.at = at]
  OBVIOUS
<1>5. PICK k : k = r.key
  OBVIOUS
<1>6. k \in Keys \cup {NoKey}
  BY <1>2, <1>5 DEF CallTyped
<1>7. /\ CallTyped(s) /\ s.at = "paced" /\ s.key = r.key /\ s.client = r.client
      /\ s.provider = r.provider /\ s.pools = r.pools
  BY <1>2, <1>4, PlacedWithKey
<1>8. call' = [call EXCEPT ![c] = s]
  BY <1>1, <1>2, <1>4
<1>9. /\ \A d \in Calls : call'[d] = IF d = c THEN s ELSE call[d]
      /\ CallsTyped'
  BY <1>7, <1>8, OneCall DEF CallsInv
<1>10. /\ Line(waiters') /\ Line(limited') /\ ~In(waiters, c)
       /\ \A e : In(limited', e) <=> In(limited, e) \/ e = c
  BY <1>1, <1>2, JoinsLine DEF CallsInv, InLine
<1>11. InLine'
  BY <1>2, <1>7, <1>9, <1>10 DEF CallsInv, InLine
<1>12. \A p, o, h : Uses(s, p, o, h) => Uses(call[c], p, o, h)
  BY <1>1, <1>2, <1>7 DEF Uses, Holds
<1>13. Capped'
  BY <1>9, <1>12, CapKept DEF CallsInv
<1>14. Goes(c)
  BY <1>1, <1>2, <1>3, <1>7, <1>8, PlacedStays DEF Goes
<1> QED
  BY <1>9, <1>11, <1>13, <1>14 DEF CallsInv

\* Every step of a call.
LEMMA CallKeeps ==
  ASSUME CallsInv, NEW c \in Calls, CallNext(c) PROVE CallsInv' /\ Goes(c)
<1>1. ASSUME Succeeds(c) PROVE CallsInv' /\ Goes(c)
  <2>1. PICK s : Succ(s, call[c]) /\ Becomes(c, s) /\ call[c].at = "request"
    BY <1>1 DEF Succeeds
  <2>2. /\ CallTyped(s) /\ ~Resolved(call[c]) /\ call[c].at # "idle"
        /\ Holds(call[c]) \/ call[c].key = NoKey
    BY <2>1 DEF Succ, Resolved, Holds
  <2>3. NoMore(s, call[c]) /\ s.at \notin {"wait", "paced"}
    BY <2>1, <2>2, SuccNoMore
  <2>4. CallsInv'
    BY <2>1, <2>2, <2>3, Changes
  <2>5. Goes(c)
    BY <2>1, <2>2, SuccStays DEF Goes, Becomes
  <2> QED
    BY <2>4, <2>5
<1> QED
  BY <1>1, CallDoes, AcquireKeeps, GrantedKeeps, PaceKeeps, PacesKeeps DEF CallsInv

\* Dropped futures give back what they hold.
LEMMA AbandonKeeps ==
  ASSUME CallsInv, NEW dropped, Abandons(dropped)
  PROVE  /\ CallsInv'
         /\ \A c \in Calls : call'[c] = IF c \in dropped THEN NoCall ELSE call[c]
<1>1. /\ \A c \in Calls : call'[c] = IF c \in dropped THEN NoCall ELSE call[c]
      /\ call' = [c \in Calls |-> call'[c]]
  BY DEF Abandons
<1>2. CallsTyped'
  BY <1>1, NoCallTyped DEF CallsInv, CallsTyped
<1>3. /\ Line(waiters') /\ Line(limited')
      /\ \A e : In(waiters', e) <=> In(waiters, e) /\ e \notin dropped
      /\ \A e : In(limited', e) <=> In(limited, e) /\ e \notin dropped
  BY Dropped DEF CallsInv, InLine, Abandons
<1>4. InLine'
  BY <1>1, <1>3, NoCallTyped DEF CallsInv, InLine
<1>5. \A p, o, k : ~Uses(NoCall, p, o, k)
  BY NoCallTyped DEF Uses, Holds
<1>6. Capped'
  BY <1>1, <1>5, CapKept DEF CallsInv
<1> QED
  BY <1>1, <1>2, <1>4, <1>6 DEF CallsInv

\* A step of something else.
LEMMA NoneKeeps ==
  ASSUME CallsInv, UNCHANGED callVars PROVE CallsInv'
BY DEF CallsInv, CallsTyped, InLine, Capped, Users, callVars

\* A lane without a call under way takes another.
LEMMA BeginsKeeps ==
  ASSUME CallsInv, NEW c \in Calls, Resolved(call[c]), NEW s, Becomes(c, s),
         CallTyped(s), s.key = NoKey, s.at \notin {"wait", "paced"}
  PROVE  /\ CallsInv'
         /\ \A d \in Calls : call'[d] = IF d = c THEN s ELSE call[d]
<1>1. NoMore(s, call[c]) /\ call[c].at \notin {"wait", "paced"}
  BY BeginsNoMore DEF Resolved
<1>2. CallsInv'
  BY <1>1, Changes
<1> QED
  BY <1>2, OneCall DEF Becomes, CallsInv

---------------------------------------------------------------------------
(* The values of the progress of a task.                                   *)

\* How a task may end.
Outcomes == {"none", "produced", "nothing", "failed"}

\* The stages from the registration of the pools to the last request.
Pooled ==
  {"text", "summary slot", "wait for summary", "summary", "prompt slot",
   "wait for prompt", "prompt"}

\* Every provider that may be asked has a pool.
Complete(p) == \A d \in Providers : d >= p.first => p.pools[d] # NoOwner

\* The values of a progress.
PipeTyped(p) ==
  /\ IsPipe(p)
  /\ p.stage \in Stages /\ p.next \in Nat
  /\ Len(p.opt.chunks) \in Nat \ {0}
  /\ p.opt.features \subseteq {"stream", "thinking"}
  /\ p.chunk \in [Lanes -> 0..Len(p.opt.chunks)]
  /\ p.first \in Providers
  /\ p.pools \in [Providers -> Tasks \cup {NoOwner}]
  /\ p.outcome \in Outcomes
  /\ p.stage \in Pooled => Complete(p)

\* The values of a progress at another stage, after a delivery, at its end.
LEMMA AtTyped ==
  ASSUME NEW p, PipeTyped(p), NEW stage \in Stages, stage \in Pooled => Complete(p),
         NEW a, a = At(p, stage)
  PROVE  /\ PipeTyped(a) /\ a.stage = stage /\ a.first = p.first /\ a.pools = p.pools
         /\ a.opt = p.opt
<1>1. p = [f \in PipeFields |-> p[f]]
  BY DEF PipeTyped, IsPipe
<1>2. /\ a = [f \in PipeFields |-> a[f]] /\ a.opt = p.opt /\ a.stage = stage
      /\ a.next = 1 /\ a.chunk = [l \in Lanes |-> 0] /\ a.first = p.first
      /\ a.pools = p.pools /\ a.outcome = p.outcome
  BY <1>1 DEF At, PipeFields
<1>3. Len(p.opt.chunks) \in Nat \ {0} /\ 0 \in 0..Len(p.opt.chunks)
  BY DEF PipeTyped
<1>4. a.chunk \in [Lanes -> 0..Len(p.opt.chunks)]
  BY <1>2, <1>3
<1>5. a.stage \in Pooled => Complete(a)
  BY <1>2 DEF Complete
<1>6. /\ p.opt.features \subseteq {"stream", "thinking"} /\ p.first \in Providers
      /\ p.pools \in [Providers -> Tasks \cup {NoOwner}] /\ p.outcome \in Outcomes
  BY DEF PipeTyped
<1>7. IsPipe(a) /\ a.stage \in Stages /\ a.next \in Nat
  BY <1>2 DEF IsPipe
<1>8. PipeTyped(a)
  BY <1>2, <1>3, <1>4, <1>5, <1>6, <1>7 DEF PipeTyped
<1> QED
  BY <1>2, <1>8

LEMMA SendsTyped ==
  ASSUME NEW p, PipeTyped(p), NEW what, NEW a, a = Sends(p, what)
  PROVE  PipeTyped(a) /\ a.stage = p.stage
<1>1. p = [f \in PipeFields |-> p[f]]
  BY DEF PipeTyped, IsPipe
<1>2. /\ a = [f \in PipeFields |-> a[f]] /\ a.opt = p.opt /\ a.stage = p.stage
      /\ a.next = p.next /\ a.chunk = p.chunk /\ a.first = p.first
      /\ a.pools = p.pools /\ a.outcome = p.outcome
  BY <1>1 DEF Sends, PipeFields
<1>3. a.stage \in Pooled => Complete(a)
  <2>1. p.stage \in Pooled => Complete(p)
    BY DEF PipeTyped
  <2>2. Complete(p) => Complete(a)
    BY <1>2 DEF Complete
  <2> QED
    BY <1>2, <2>1, <2>2
<1> QED
  BY <1>2, <1>3 DEF PipeTyped, IsPipe

LEMMA EndsTyped ==
  ASSUME NEW p, PipeTyped(p), NEW o \in Outcomes, NEW a, a = Ends(p, o)
  PROVE  PipeTyped(a) /\ a.stage = "read health"
<1>1. PICK b : b = At(p, "read health")
  OBVIOUS
<1>2. "read health" \in Stages /\ "read health" \notin Pooled
  BY DEF Stages, Pooled
<1>3. PipeTyped(b) /\ b.stage = "read health"
  BY <1>1, <1>2, AtTyped
<1>4. a = [b EXCEPT !.outcome = o]
  BY <1>1 DEF Ends
<1>5. b = [f \in PipeFields |-> b[f]]
  BY <1>3 DEF PipeTyped, IsPipe
<1>6. /\ a = [f \in PipeFields |-> a[f]] /\ a.opt = b.opt /\ a.stage = b.stage
      /\ a.next = b.next /\ a.chunk = b.chunk /\ a.first = b.first
      /\ a.pools = b.pools /\ a.outcome = o
  BY <1>4, <1>5 DEF PipeFields
<1> QED
  BY <1>2, <1>3, <1>6 DEF PipeTyped, IsPipe

\* What is left when the text is over, and when the image is.
LEMMA TextOverTyped ==
  ASSUME NEW p, PipeTyped(p), p.stage = "text", NEW q \in TextOver(p)
  PROVE  PipeTyped(q) /\ q.stage \in {"read health", "open image", "summary slot"}
<1>1. PICK out : out = FlattenSeq(p.out)
  OBVIOUS
<1>2. PICK written : written = [p EXCEPT !.text = out]
  OBVIOUS
<1>3. PICK sent : sent = Sends(written, "text")
  OBVIOUS
<1>4. p = [f \in PipeFields |-> p[f]]
  BY DEF PipeTyped, IsPipe
<1>5. /\ written = [f \in PipeFields |-> written[f]] /\ written.opt = p.opt
      /\ written.stage = p.stage /\ written.next = p.next /\ written.chunk = p.chunk
      /\ written.first = p.first /\ written.pools = p.pools
      /\ written.outcome = p.outcome
  BY <1>2, <1>4 DEF PipeFields
<1>6. Complete(p)
  BY DEF PipeTyped, Pooled
<1>7. Complete(written)
  BY <1>5, <1>6 DEF Complete
<1>8. PipeTyped(written)
  BY <1>5, <1>7 DEF PipeTyped, IsPipe
<1>9. PipeTyped(sent) /\ sent.stage = "text"
  BY <1>3, <1>5, <1>8, SendsTyped
<1>10. q \in {Ends(written, "produced"), Ends(sent, "failed"), Ends(sent, "produced"),
             At(sent, "open image"), At(written, "summary slot")}
  BY <1>1, <1>2, <1>3 DEF TextOver
<1>11. /\ "produced" \in Outcomes /\ "failed" \in Outcomes
       /\ "open image" \in Stages \ Pooled /\ "summary slot" \in Stages
  BY DEF Outcomes, Stages, Pooled
<1>12. CASE q = Ends(written, "produced") \/ q = Ends(sent, "failed")
            \/ q = Ends(sent, "produced")
  BY <1>8, <1>9, <1>11, <1>12, EndsTyped
<1>13. CASE q = At(sent, "open image")
  <2>1. PICK stage \in Stages : stage = "open image" /\ stage \notin Pooled
    BY <1>11
  <2>2. q = At(sent, stage)
    BY <1>13, <2>1
  <2>3. PipeTyped(sent) /\ (stage \in Pooled => Complete(sent))
    BY <1>9, <2>1
  <2>4. PipeTyped(q) /\ q.stage = stage
    BY <2>2, <2>3, AtTyped
  <2> QED
    BY <2>1, <2>4
<1>14. CASE q = At(written, "summary slot")
  <2>1. PICK stage \in Stages : stage = "summary slot"
    BY <1>11
  <2>2. q = At(written, stage)
    BY <1>14, <2>1
  <2>3. stage \in Pooled => Complete(written)
    BY <1>7
  <2>4. PipeTyped(q) /\ q.stage = stage
    BY <1>8, <2>2, <2>3, AtTyped
  <2> QED
    BY <2>1, <2>4
<1> QED
  BY <1>10, <1>12, <1>13, <1>14

LEMMA ImageOverTyped ==
  ASSUME NEW p, PipeTyped(p), NEW untold, untold \subseteq Outcomes, NEW drawn,
         NEW q \in WithImage(p) \cup WithoutImage(p, untold) \cup WeeklyOver(p, drawn)
  PROVE  PipeTyped(q) /\ q.stage = "read health"
<1>1. \A r, what : PipeTyped(r) => PipeTyped(Sends(r, what))
  BY SendsTyped
<1>2. ASSUME NEW r, PipeTyped(r), NEW o \in Outcomes, q = Ends(r, o)
      PROVE  PipeTyped(q) /\ q.stage = "read health"
  BY <1>2, EndsTyped
<1>3. {"produced", "nothing", "failed"} \subseteq Outcomes
  BY DEF Outcomes
<1>4. CASE q \in WithoutImage(p, untold)
  <2>1. \E o \in Outcomes : q = Ends(p, o) \/ q = Ends(Sends(p, "text"), o)
    BY <1>3, <1>4 DEF WithoutImage
  <2> QED
    BY <1>1, <1>2, <2>1
<1>5. CASE q \in WeeklyOver(p, drawn)
  <2>1. PICK image : image = Sends(p, "image")
    OBVIOUS
  <2>2. PICK caption : caption = Sends(image, "text")
    OBVIOUS
  <2>3. PICK figures : figures = Sends(caption, "text")
    OBVIOUS
  <2>4. PICK plain : plain = Sends(p, "text")
    OBVIOUS
  <2>5. PipeTyped(image) /\ PipeTyped(plain)
    BY <1>1, <2>1, <2>4
  <2>6. PipeTyped(caption)
    BY <1>1, <2>2, <2>5
  <2>7. PipeTyped(figures)
    BY <1>1, <2>3, <2>6
  <2>8. q \in {Ends(caption, "nothing"), Ends(figures, "nothing"), Ends(plain, "nothing")}
    BY <1>5, <2>1, <2>2, <2>3, <2>4 DEF WeeklyOver
  <2> QED
    BY <1>2, <1>3, <2>5, <2>6, <2>7, <2>8
<1>6. CASE q \in WithImage(p)
  <2>1. PICK after : after = IF Deferred(p) THEN Sends(p, "text") ELSE p
    OBVIOUS
  <2>2. PICK image : image = Sends(after, "image")
    OBVIOUS
  <2>3. PICK cooled : cooled = Sends(image, "cooldown")
    OBVIOUS
  <2>4. PipeTyped(after)
    BY <1>1, <2>1
  <2>5. PipeTyped(image)
    BY <1>1, <2>2, <2>4
  <2>6. PipeTyped(cooled)
    BY <1>1, <2>3, <2>5
  <2>7. \E o \in Outcomes :
          q = Ends(cooled, o) \/ q = Ends(image, o) \/ q = Ends(after, o)
    BY <1>3, <1>6, <2>1, <2>2, <2>3 DEF WithImage
  <2> QED
    BY <1>2, <2>4, <2>5, <2>6, <2>7
<1> QED
  BY <1>4, <1>5, <1>6

\* A new task.
LEMMA NewPipeTyped ==
  ASSUME Init, NEW t \in Tasks
  PROVE  /\ PipeTyped(pipe[t]) /\ pipe[t].stage \in {"caption", "draw"}
         /\ pipe[t].pools = NoPools
<1>1. PICK s \in Scenarios : pipe = [u \in Tasks |-> NewPipe(s[u])]
  BY DEF Init
<1>2. PICK opt : opt = s[t]
  OBVIOUS
<1>3. opt.features \subseteq {"stream", "thinking"} /\ Len(opt.chunks) \in Nat \ {0}
  BY <1>2, GenerationAssumption
<1>4. PICK p : p = NewPipe(opt)
  OBVIOUS
<1>5. /\ p = [f \in PipeFields |-> p[f]] /\ p.opt = opt /\ p.next = 1
      /\ p.stage = (IF opt.kind = "weekly" THEN "draw" ELSE "caption")
      /\ p.chunk = [l \in Lanes |-> 0] /\ p.first = 0 /\ p.pools = NoPools
      /\ p.outcome = "none"
  BY <1>4 DEF NewPipe, PipeFields
<1>6. p.stage \in {"caption", "draw"}
  BY <1>5
<1>7. p.stage \in Stages \ Pooled
  BY <1>6 DEF Stages, Pooled, MediaStages
<1>8. p.chunk \in [Lanes -> 0..Len(opt.chunks)]
  BY <1>3, <1>5
<1>9. p.pools \in [Providers -> Tasks \cup {NoOwner}] /\ p.first \in Providers
  BY <1>5, CallBounds, NoPoolsType, GenerationAssumption
<1>10. PipeTyped(p)
  BY <1>3, <1>5, <1>7, <1>8, <1>9 DEF PipeTyped, IsPipe, Outcomes
<1>11. pipe[t] = p
  BY <1>1, <1>2, <1>4
<1> QED
  BY <1>5, <1>6, <1>10, <1>11

---------------------------------------------------------------------------
(* What ties a task to its calls and to its slot.                          *)

\* The stages with calls under way.
Active == MediaStages \cup LlmStages \cup {"drawing"}

\* The call at lane l of a task with progress p is one of its stage; a chat has
\* the pools of the task.
Belongs(r, p, l) ==
  /\ r.at # "idle" => p.stage \in Active /\ (p.stage = "drawing" => l = 1)
  /\ r.client = "chat" /\ ~Resolved(r) =>
       /\ p.stage \in LlmStages
       /\ r.pools = p.pools /\ r.provider >= p.first

\* A slot is held in a slotted stage; who waits for one is in its queue.
SlotsHeld ==
  /\ leases \in SUBSET Tasks
  /\ Cardinality(leases) =< Capacity
  /\ \A t \in Tasks :
       /\ t \in leases <=> Slotted(t)
       /\ Stage(t) = "wait for summary" => In(summaries, t)
       /\ Stage(t) = "wait for prompt" => In(prompts, t)

\* The parts of the invariant, and the invariant.
PipesTyped == \A t \in Tasks : PipeTyped(pipe[t])
Owned == \A t \in Tasks, l \in Lanes : Belongs(call[<<t, l>>], pipe[t], l)
RegistryTyped == registry \in [Providers -> Tasks \cup {NoOwner}]

PermitInv == CallsInv /\ PipesTyped /\ Owned /\ SlotsHeld /\ RegistryTyped

\* One task goes on, the others stay where they are.
LEMMA OneTask ==
  ASSUME PipeInv, PipesTyped, NEW t \in Tasks, NEW q, PipeTyped(q),
         pipe' = [pipe EXCEPT ![t] = q]
  PROVE  /\ \A u \in Tasks : pipe'[u] = IF u = t THEN q ELSE pipe[u]
         /\ PipesTyped'
<1>1. \A u \in Tasks : pipe'[u] = IF u = t THEN q ELSE pipe[u]
  BY DEF PipeInv
<1> QED
  BY <1>1 DEF PipesTyped

\* A task goes on with its calls at rest.
LEMMA RestsOwned ==
  ASSUME PipeInv, PipesTyped, Owned, NEW t \in Tasks, NEW q, PipeTyped(q),
         pipe' = [pipe EXCEPT ![t] = q],
         \A l \in Lanes : call'[<<t, l>>].at = "idle",
         \A c \in Calls \ CallsOf(t) : call'[c] = call[c]
  PROVE  Owned'
<1>1. \A u \in Tasks : pipe'[u] = IF u = t THEN q ELSE pipe[u]
  BY DEF PipeInv
<1> SUFFICES ASSUME NEW u \in Tasks, NEW l \in Lanes
             PROVE  Belongs(call'[<<u, l>>], pipe'[u], l)
  BY DEF Owned
<1>2. Belongs(call'[<<u, l>>], pipe'[u], l)
  <2>1. CASE u = t
    BY <2>1 DEF Belongs, Resolved
  <2>2. CASE u # t
    <3>1. <<u, l>> \in Calls \ CallsOf(t)
      BY <2>2, GenerationAssumption DEF CallsOf
    <3>2. call'[<<u, l>>] = call[<<u, l>>] /\ pipe'[u] = pipe[u]
      BY <1>1, <2>2, <3>1
    <3> QED
      BY <3>2 DEF Owned
  <2> QED
    BY <2>1, <2>2
<1> QED
  BY <1>2

\* A task works on in its stage, with one call that changes.
LEMMA WorksOwned ==
  ASSUME PipeInv, PipesTyped, Owned, NEW t \in Tasks, NEW q, PipeTyped(q),
         pipe' = [pipe EXCEPT ![t] = q],
         q.stage = pipe[t].stage, q.first = pipe[t].first, q.pools = pipe[t].pools,
         NEW l \in Lanes, NEW s, Belongs(s, q, l),
         \A c \in Calls : call'[c] = IF c = <<t, l>> THEN s ELSE call[c]
  PROVE  Owned'
<1>1. \A u \in Tasks : pipe'[u] = IF u = t THEN q ELSE pipe[u]
  BY DEF PipeInv
<1> SUFFICES ASSUME NEW u \in Tasks, NEW k \in Lanes
             PROVE  Belongs(call'[<<u, k>>], pipe'[u], k)
  BY DEF Owned
<1>2. Belongs(call'[<<u, k>>], pipe'[u], k)
  <2>1. <<u, k>> \in Calls
    BY GenerationAssumption
  <2>2. CASE u = t /\ k = l
    BY <1>1, <2>1, <2>2
  <2>3. CASE u = t /\ k # l
    <3>1. call'[<<u, k>>] = call[<<u, k>>] /\ pipe'[u] = q
      BY <1>1, <2>1, <2>3
    <3>2. Belongs(call[<<u, k>>], pipe[u], k)
      BY DEF Owned
    <3> QED
      BY <2>3, <3>1, <3>2 DEF Belongs
  <2>4. CASE u # t
    <3>1. call'[<<u, k>>] = call[<<u, k>>] /\ pipe'[u] = pipe[u]
      BY <1>1, <2>1, <2>4
    <3> QED
      BY <3>1 DEF Owned
  <2> QED
    BY <2>2, <2>3, <2>4
<1> QED
  BY <1>2

\* The stages of a task that holds or waits for a slot.
SlotStages == {"summary", "prompt", "wait for summary", "wait for prompt"}

\* A task that is at no slot, before and after.
LEMMA SlotsKept ==
  ASSUME PipeInv, PipesTyped, SlotsHeld, NEW t \in Tasks, NEW q, PipeTyped(q),
         pipe' = [pipe EXCEPT ![t] = q], UNCHANGED slots,
         \/ q.stage = pipe[t].stage
         \/ q.stage \notin SlotStages /\ pipe[t].stage \notin SlotStages
  PROVE  SlotsHeld'
<1>1. \A u \in Tasks : pipe'[u] = IF u = t THEN q ELSE pipe[u]
  BY DEF PipeInv
<1>2. /\ leases' = leases
      /\ \A u : In(summaries, u)' <=> In(summaries, u)
      /\ \A u : In(prompts, u)' <=> In(prompts, u)
  BY DEF slots, In
<1>3. ASSUME NEW u \in Tasks
      PROVE  \/ pipe'[u].stage = pipe[u].stage
             \/ pipe'[u].stage \notin SlotStages /\ pipe[u].stage \notin SlotStages
  BY <1>1
<1>4. ASSUME NEW u \in Tasks
      PROVE  /\ u \in leases' <=> Slotted(u)'
             /\ Stage(u)' = "wait for summary" => In(summaries, u)'
             /\ Stage(u)' = "wait for prompt" => In(prompts, u)'
  BY <1>2, <1>3 DEF SlotsHeld, Slotted, Stage, SlotStages
<1> QED
  BY <1>2, <1>4 DEF SlotsHeld

\* A task leaves its slot.
LEMMA SlotLeft ==
  ASSUME PipeInv, PipesTyped, SlotsHeld, NEW t \in Tasks, NEW q, PipeTyped(q),
         pipe' = [pipe EXCEPT ![t] = q], q.stage \notin SlotStages,
         leases' = leases \ {t}, UNCHANGED <<prompts, summaries>>
  PROVE  SlotsHeld'
<1>1. \A u \in Tasks : pipe'[u] = IF u = t THEN q ELSE pipe[u]
  BY DEF PipeInv
<1>2. ASSUME NEW u \in Tasks
      PROVE  /\ u \in leases' <=> Slotted(u)'
             /\ Stage(u)' = "wait for summary" => In(summaries, u)'
             /\ Stage(u)' = "wait for prompt" => In(prompts, u)'
  BY <1>1 DEF SlotsHeld, Slotted, Stage, SlotStages, In
<1>3. leases' \subseteq leases /\ IsFiniteSet(leases)
  BY GenerationAssumption, FS_Subset DEF SlotsHeld
<1>4. PICK S, T : S = leases /\ T = leases'
  OBVIOUS
<1>5. T \subseteq S /\ IsFiniteSet(S) /\ Cardinality(S) =< Capacity
  BY <1>3, <1>4 DEF SlotsHeld
<1>6. IsFiniteSet(T) /\ Cardinality(T) =< Cardinality(S)
  BY <1>5, FS_Subset
<1>7. Cardinality(T) \in Nat /\ Cardinality(S) \in Nat /\ Capacity \in Nat
  BY <1>5, <1>6, FS_CardinalityType, GenerationAssumption
<1>8. Cardinality(T) =< Capacity
  BY <1>5, <1>6, <1>7
<1>9. Cardinality(leases') =< Capacity
  BY <1>4, <1>8
<1> QED
  BY <1>2, <1>3, <1>9 DEF SlotsHeld

---------------------------------------------------------------------------
(* The steps of the calls, and of the media of a task.                     *)

\* A task between two stages has nothing under way.
LEMMA AtRest ==
  ASSUME PermitInv, NEW t \in Tasks, Stage(t) \notin Active PROVE Resting(t)
<1>1. ASSUME NEW l \in Lanes PROVE call[<<t, l>>].at = "idle"
  <2>1. Belongs(call[<<t, l>>], pipe[t], l)
    BY DEF PermitInv, Owned
  <2> QED
    BY <2>1 DEF Belongs, Stage
<1> QED
  BY <1>1 DEF Resting, CallsOf

\* A step of a call keeps the invariant: it is still one of its stage.
LEMMA CallStepKeeps ==
  ASSUME PermitInv, NEW c \in Calls, CallSteps(c) PROVE PermitInv'
<1>1. /\ CallsInv' /\ Goes(c) /\ UNCHANGED <<pipe, registry, prompts, summaries, leases>>
  BY CallKeeps DEF PermitInv, CallSteps, slots
<1>2. PICK s : Stays(s, call[c]) /\ call' = [call EXCEPT ![c] = s]
  BY <1>1 DEF Goes
<1>3. \A d \in Calls : call'[d] = IF d = c THEN s ELSE call[d]
  BY <1>2, OneCall DEF PermitInv, CallsInv
<1>4. Owned'
  <2> SUFFICES ASSUME NEW u \in Tasks, NEW l \in Lanes
               PROVE  Belongs(call'[<<u, l>>], pipe'[u], l)
    BY DEF Owned
  <2>1. <<u, l>> \in Calls /\ pipe'[u] = pipe[u]
    BY <1>1, GenerationAssumption
  <2>2. Belongs(call[<<u, l>>], pipe[u], l)
    BY DEF PermitInv, Owned
  <2>3. CASE <<u, l>> = c
    <3>1. Belongs(call[c], pipe[u], l)
      BY <2>2, <2>3
    <3>2. call[c].provider \in Nat /\ pipe[u].first \in Nat
      BY CallBounds DEF PermitInv, CallsInv, CallsTyped, CallTyped, PipesTyped, PipeTyped,
        Providers
    <3>3. PICK r, p : r = call[c] /\ p = pipe[u]
      OBVIOUS
    <3>4. Belongs(r, p, l) /\ Stays(s, r)
      BY <1>2, <3>1, <3>3
    <3>5. s.client = "chat" /\ ~Resolved(s) => s.provider >= p.first
      <4> SUFFICES ASSUME s.client = "chat", ~Resolved(s) PROVE s.provider >= p.first
        OBVIOUS
      <4>1. s.provider >= r.provider /\ r.provider >= p.first
        BY <3>4 DEF Belongs, Stays
      <4>2. CallTyped(s)
        BY <1>1, <1>3 DEF CallsInv, CallsTyped
      <4>3. s.provider \in Nat
        BY <4>2, CallBounds DEF CallTyped, Providers
      <4> QED
        BY <3>2, <3>3, <4>1, <4>3
    <3>6. Belongs(s, p, l)
      BY <3>4, <3>5 DEF Belongs, Stays
    <3> QED
      BY <1>3, <2>1, <2>3, <3>3, <3>6
  <2>4. CASE <<u, l>> # c
    BY <1>3, <2>1, <2>2, <2>4
  <2> QED
    BY <2>3, <2>4
<1>5. PipesTyped' /\ SlotsHeld' /\ RegistryTyped'
  BY <1>1 DEF PermitInv, PipesTyped, SlotsHeld, RegistryTyped, Slotted, Stage, In
<1> QED
  BY <1>1, <1>4, <1>5 DEF PermitInv

\* A task goes on, with its calls at rest.
LEMMA Rests ==
  ASSUME PipeInv, PermitInv, NEW t \in Tasks, NEW q, PipeTyped(q),
         pipe' = [pipe EXCEPT ![t] = q], CallsInv',
         \A l \in Lanes : call'[<<t, l>>].at = "idle",
         \A c \in Calls \ CallsOf(t) : call'[c] = call[c],
         SlotsHeld', RegistryTyped'
  PROVE  PermitInv'
<1>1. Owned'
  BY RestsOwned DEF PermitInv
<1>2. PipesTyped'
  BY OneTask DEF PermitInv
<1> QED
  BY <1>1, <1>2 DEF PermitInv

\* A task goes on, none of its calls is under way and none begins.
LEMMA Quiet ==
  ASSUME PipeInv, PermitInv, NEW t \in Tasks, NEW q, PipeTyped(q),
         pipe' = [pipe EXCEPT ![t] = q], UNCHANGED callVars,
         Resting(t) \/ Stage(t) \notin Active, SlotsHeld', RegistryTyped'
  PROVE  PermitInv'
<1>1. Resting(t)
  BY AtRest
<1>2. \A l \in Lanes : call'[<<t, l>>].at = "idle"
  BY <1>1 DEF Resting, CallsOf, callVars
<1>3. \A c \in Calls \ CallsOf(t) : call'[c] = call[c]
  BY DEF callVars
<1>4. CallsInv'
  BY NoneKeeps DEF PermitInv
<1> QED
  BY <1>2, <1>3, <1>4, Rests

\* A task drops what it has under way.
LEMMA Drops ==
  ASSUME PipeInv, PermitInv, NEW t \in Tasks, NEW q, PipeTyped(q),
         pipe' = [pipe EXCEPT ![t] = q], Abandons(CallsOf(t)),
         SlotsHeld', RegistryTyped'
  PROVE  PermitInv'
<1>1. /\ CallsInv'
      /\ \A c \in Calls : call'[c] = IF c \in CallsOf(t) THEN NoCall ELSE call[c]
  BY AbandonKeeps DEF PermitInv
<1>2. \A l \in Lanes : <<t, l>> \in CallsOf(t) /\ <<t, l>> \in Calls
  BY GenerationAssumption DEF CallsOf
<1>3. \A l \in Lanes : call'[<<t, l>>].at = "idle"
  BY <1>1, <1>2, NoCallTyped
<1>4. \A c \in Calls \ CallsOf(t) : call'[c] = call[c]
  BY <1>1
<1> QED
  BY <1>1, <1>3, <1>4, Rests

\* A lane of a task begins a call, or puts one away.
LEMMA LaneWorks ==
  ASSUME PipeInv, PermitInv, NEW t \in Tasks, NEW l \in Lanes, NEW q, PipeTyped(q),
         q.stage = pipe[t].stage, q.first = pipe[t].first, q.pools = pipe[t].pools,
         pipe' = [pipe EXCEPT ![t] = q], UNCHANGED <<registry, slots>>,
         Resolved(call[<<t, l>>]), NEW s, Becomes(<<t, l>>, s),
         CallTyped(s), s.key = NoKey, s.at \notin {"wait", "paced"}, Belongs(s, q, l)
  PROVE  PermitInv'
<1>1. <<t, l>> \in Calls
  BY GenerationAssumption
<1>2. /\ CallsInv'
      /\ \A d \in Calls : call'[d] = IF d = <<t, l>> THEN s ELSE call[d]
  BY <1>1, BeginsKeeps DEF PermitInv
<1>3. Owned'
  BY <1>2, WorksOwned DEF PermitInv
<1>4. PipesTyped'
  BY OneTask DEF PermitInv
<1>5. SlotsHeld'
  BY SlotsKept DEF PermitInv
<1>6. RegistryTyped'
  BY DEF PermitInv, RegistryTyped
<1> QED
  BY <1>2, <1>3, <1>4, <1>5, <1>6 DEF PermitInv

\* The calls a media stage begins.
LEMMA NoCallBelongs ==
  ASSUME NEW p, NEW l PROVE Belongs(NoCall, p, l)
BY NoCallTyped DEF Belongs, Resolved

LEMMA SourcesTyped ==
  ASSUME NEW r \in CaptionSource \cup VideoSource \cup VoiceSource
  PROVE  /\ CallTyped(r) /\ r.key = NoKey /\ r.at \in {"acquire", "request", "done"}
         /\ r.client = "chat" => Resolved(r)
<1>1. \/ \E client \in Media : \E loop \in {"fetch", "complete"} :
           \E at \in {"acquire", "request"} : r = MediaCall(client, loop, at)
      \/ r = Closed("failed")
  BY DEF CaptionSource, VideoSource, VoiceSource, Media
<1>2. CASE r = Closed("failed")
  BY <1>2, ClosedTyped DEF Errors, Resolved
<1>3. ASSUME NEW client \in Media, NEW loop \in {"fetch", "complete"},
             NEW at \in {"acquire", "request"}, r = MediaCall(client, loop, at)
      PROVE  CallTyped(r) /\ r.key = NoKey /\ r.at = at /\ r.client # "chat"
  BY <1>3, MediaTyped
<1> QED
  BY <1>1, <1>2, <1>3

\* Captions, videos and voices.
LEMMA MediaKeeps ==
  ASSUME PipeInv, PermitInv, NEW t \in Tasks, Captions(t) \/ Videos(t) \/ Voices(t)
  PROVE  PermitInv'
<1>1. /\ Stage(t) \in MediaStages /\ UNCHANGED <<registry, slots>>
      /\ Stage(t) \notin SlotStages
  BY DEF Captions, Videos, Voices, MediaStages, SlotStages
<1>2. PICK p : p = pipe[t] /\ PipeTyped(p)
  BY DEF PermitInv, PipesTyped
<1>3. PICK sources : /\ sources \subseteq CaptionSource \cup VideoSource \cup VoiceSource
                     /\ \/ \E l \in Lanes : MediaSpawn(t, l, sources) \/ MediaJoined(t, l)
                        \/ MediaRefused(t) \/ MediaOver(t)
  BY DEF Captions, Videos, Voices
<1>4. p.stage \in MediaStages /\ p.stage \notin Pooled
  BY <1>1, <1>2 DEF Stage, MediaStages, Pooled
<1>5. ASSUME NEW l \in Lanes, MediaSpawn(t, l, sources) PROVE PermitInv'
  <2>1. PICK s \in sources : Begins(<<t, l>>, s)
    BY <1>5 DEF MediaSpawn
  <2>2. s \in CaptionSource \cup VideoSource \cup VoiceSource
    BY <1>3
  <2>3. /\ CallTyped(s) /\ s.key = NoKey /\ s.at \in {"acquire", "request", "done"}
        /\ s.client = "chat" => Resolved(s)
    BY <2>2, SourcesTyped
  <2>4. PICK n : n = p.next + 1
    OBVIOUS
  <2>5. PICK q : q = [p EXCEPT !.next = n]
    OBVIOUS
  <2>6. n \in Nat /\ p = [f \in PipeFields |-> p[f]]
    BY <1>2, <2>4 DEF PipeTyped, IsPipe
  <2>7. /\ q = [f \in PipeFields |-> q[f]] /\ q.opt = p.opt /\ q.stage = p.stage
        /\ q.next = n /\ q.chunk = p.chunk /\ q.first = p.first /\ q.pools = p.pools
        /\ q.outcome = p.outcome
    BY <2>5, <2>6 DEF PipeFields
  <2>8. PipeTyped(q)
    BY <1>2, <1>4, <2>6, <2>7 DEF PipeTyped, IsPipe
  <2>9. pipe' = [pipe EXCEPT ![t] = q]
    BY <1>2, <1>5, <2>4, <2>5 DEF MediaSpawn
  <2>10. Belongs(s, q, l)
    <3>1. q.stage \in Active /\ q.stage # "drawing"
      BY <1>4, <2>7 DEF Active, MediaStages
    <3> QED
      BY <2>3, <3>1 DEF Belongs
  <2>11. Resolved(call[<<t, l>>]) /\ Becomes(<<t, l>>, s) /\ s.at \notin {"wait", "paced"}
    BY <2>1, <2>3 DEF Begins, Resolved
  <2> QED
    BY <1>1, <1>2, <2>3, <2>7, <2>8, <2>9, <2>10, <2>11, LaneWorks
<1>6. ASSUME NEW l \in Lanes, MediaJoined(t, l) PROVE PermitInv'
  <2>1. pipe' = [pipe EXCEPT ![t] = p] /\ Becomes(<<t, l>>, NoCall)
    BY <1>2, <1>6 DEF MediaJoined, PipeInv
  <2>2. Resolved(call[<<t, l>>])
    BY <1>6 DEF MediaJoined, Resolved
  <2>3. Belongs(NoCall, p, l) /\ NoCall.at \notin {"wait", "paced"}
    BY NoCallBelongs, NoCallTyped
  <2> QED
    BY <1>1, <1>2, <2>1, <2>2, <2>3, NoCallTyped, LaneWorks
<1>7. PICK stage : stage = NextStage[Stage(t)]
  OBVIOUS
<1>8. stage \in Stages /\ stage \notin Pooled /\ stage \notin SlotStages
  <2>1. stage \in {"video", "voice", "open"}
    BY <1>1, <1>7 DEF NextStage, MediaStages
  <2> QED
    BY <2>1 DEF Stages, Pooled, SlotStages, MediaStages
<1>9. PICK q : q = At(p, stage)
  OBVIOUS
<1>10. PipeTyped(q) /\ q.stage = stage
  BY <1>2, <1>8, <1>9, AtTyped
<1>11. ASSUME pipe' = [pipe EXCEPT ![t] = q] PROVE SlotsHeld' /\ RegistryTyped'
  <2>1. SlotsHeld'
    BY <1>1, <1>8, <1>10, <1>11, SlotsKept DEF PermitInv, Stage
  <2> QED
    BY <1>1, <2>1 DEF PermitInv, RegistryTyped
<1>12. CASE MediaRefused(t)
  <2>1. pipe' = [pipe EXCEPT ![t] = q] /\ Abandons(CallsOf(t))
    BY <1>2, <1>7, <1>9, <1>12 DEF MediaRefused
  <2> QED
    BY <1>10, <1>11, <2>1, Drops
<1>13. CASE MediaOver(t)
  <2>1. pipe' = [pipe EXCEPT ![t] = q] /\ Resting(t) /\ UNCHANGED callVars
    BY <1>2, <1>7, <1>9, <1>13 DEF MediaOver
  <2> QED
    BY <1>10, <1>11, <2>1, Quiet
<1> QED
  BY <1>3, <1>5, <1>6, <1>12, <1>13

---------------------------------------------------------------------------
(* The client of a task, its text and its health.                          *)

\* A progress with another client.
WithClient(a, first, pools) == [a EXCEPT !.first = first, !.pools = pools]

LEMMA ClientTyped ==
  ASSUME NEW a, PipeTyped(a), NEW first \in Providers,
         NEW pools \in [Providers -> Tasks \cup {NoOwner}],
         NEW q, q = WithClient(a, first, pools),
         a.stage \in Pooled => \A d \in Providers : d >= first => pools[d] # NoOwner
  PROVE  PipeTyped(q) /\ q.stage = a.stage
<1>1. a = [f \in PipeFields |-> a[f]]
  BY DEF PipeTyped, IsPipe
<1>2. /\ q = [f \in PipeFields |-> q[f]] /\ q.opt = a.opt /\ q.stage = a.stage
      /\ q.next = a.next /\ q.chunk = a.chunk /\ q.first = first
      /\ q.pools = pools /\ q.outcome = a.outcome
  BY <1>1 DEF PipeFields, WithClient
<1>3. q.stage \in Pooled => Complete(q)
  BY <1>2 DEF Complete
<1> QED
  BY <1>2, <1>3 DEF PipeTyped, IsPipe

\* A task that is at no slot changes its progress.
LEMMA QuietKeeps ==
  ASSUME PipeInv, PermitInv, NEW t \in Tasks, NEW q, PipeTyped(q),
         pipe' = [pipe EXCEPT ![t] = q], UNCHANGED <<callVars, slots>>, RegistryTyped',
         Resting(t) \/ Stage(t) \notin Active,
         \/ q.stage = pipe[t].stage
         \/ q.stage \notin SlotStages /\ pipe[t].stage \notin SlotStages
  PROVE  PermitInv'
<1>1. SlotsHeld'
  BY SlotsKept DEF PermitInv
<1> QED
  BY <1>1, Quiet

\* The pools that are there: those below the route are left out.
LEMMA OpenKeeps ==
  ASSUME PipeInv, PermitInv, NEW t \in Tasks, Open(t) PROVE PermitInv'
<1>1. PICK p : p = pipe[t] /\ PipeTyped(p)
  BY DEF PermitInv, PipesTyped
<1>2. PICK first \in Providers, stage \in {"register", "register image"} :
        Opens(t, first, stage)
  <2>1. Routed \in Providers
    BY CallBounds DEF Routed, Providers
  <2>2. pipe[t].first \in Providers
    BY DEF PermitInv, PipesTyped, PipeTyped
  <2> QED
    BY <2>1, <2>2 DEF Open
<1>3. p.stage \in {"open", "open image"}
  BY <1>1 DEF Open, Stage
<1>4. PICK pools :
        pools = [d \in Providers |-> IF d < first THEN NoOwner ELSE Registered(d)]
  OBVIOUS
<1>5. pools \in [Providers -> Tasks \cup {NoOwner}]
  BY <1>4 DEF Registered, PermitInv, RegistryTyped
<1>6. PICK a : a = At(p, stage)
  OBVIOUS
<1>7. stage \in Stages /\ stage \notin Pooled
  BY DEF Stages, Pooled
<1>8. PipeTyped(a) /\ a.stage = stage
  <2>1. PipeTyped(p) /\ (stage \in Pooled => Complete(p))
    BY <1>1, <1>7
  <2> QED
    BY <1>6, <1>7, <2>1, AtTyped
<1>9. PICK q : q = WithClient(a, first, pools)
  OBVIOUS
<1>10. PipeTyped(q) /\ q.stage = stage
  <2>1. a.stage \in Pooled => \A d \in Providers : d >= first => pools[d] # NoOwner
    BY <1>7, <1>8
  <2> QED
    BY <1>5, <1>8, <1>9, <2>1, ClientTyped
<1>11. pipe' = [pipe EXCEPT ![t] = q]
  BY <1>1, <1>2, <1>4, <1>6, <1>9 DEF Opens, WithClient
<1>12. /\ UNCHANGED <<callVars, slots>> /\ RegistryTyped' /\ Stage(t) \notin Active
       /\ q.stage \notin SlotStages /\ pipe[t].stage \notin SlotStages
  BY <1>1, <1>2, <1>3, <1>10 DEF Opens, PermitInv, RegistryTyped, Active, SlotStages,
    MediaStages, LlmStages, Stage
<1> QED
  BY <1>10, <1>11, <1>12, QuietKeeps

\* The pools that were not there: now every provider asked has one.
LEMMA RegisterKeeps ==
  ASSUME PipeInv, PermitInv, NEW t \in Tasks, Register(t) PROVE PermitInv'
<1>1. PICK p : p = pipe[t] /\ PipeTyped(p)
  BY DEF PermitInv, PipesTyped
<1>2. p.stage \in {"register", "register image"} /\ UNCHANGED <<callVars, slots>>
  BY <1>1 DEF Register, Stage
<1>3. PICK stage : stage = AfterOpening(p)
  OBVIOUS
<1>4. stage \in {"text", "open image", "summary slot"}
  BY <1>2, <1>3 DEF AfterOpening
<1>5. PICK pools :
        pools = [d \in Providers |-> IF d \in Creates(t) THEN t ELSE p.pools[d]]
  OBVIOUS
<1>6. pools \in [Providers -> Tasks \cup {NoOwner}]
  BY <1>1, <1>5 DEF PipeTyped
<1>7. \A d \in Providers : d >= p.first => pools[d] # NoOwner
  <2> SUFFICES ASSUME NEW d \in Providers, d >= p.first PROVE pools[d] # NoOwner
    OBVIOUS
  <2>1. CASE p.pools[d] # NoOwner
    <3>1. NoOwner \notin Tasks
      BY NamesAssumption, GenerationAssumption
    <3> QED
      BY <1>5, <2>1, <3>1
  <2>2. CASE p.pools[d] = NoOwner
    <3>1. p.first \in 0..LastFallback /\ d \in 0..LastFallback /\ LastFallback \in Nat
      BY <1>1, CallBounds DEF PipeTyped, Providers
    <3>2. d \in p.first..LastFallback
      BY <3>1
    <3>3. d \in Creates(t)
      BY <1>1, <2>2, <3>2 DEF Creates
    <3>4. NoOwner \notin Tasks
      BY NamesAssumption, GenerationAssumption
    <3> QED
      BY <1>5, <3>3, <3>4
  <2> QED
    BY <2>1, <2>2
<1>8. PICK first \in Providers : first = p.first
  BY <1>1 DEF PipeTyped
<1>9. PICK c : c = WithClient(p, first, pools)
  OBVIOUS
<1>10. PipeTyped(c) /\ c.stage = p.stage
  <2>1. p.stage \in Pooled => \A d \in Providers : d >= first => pools[d] # NoOwner
    BY <1>7, <1>8
  <2> QED
    BY <1>1, <1>6, <1>9, <2>1, ClientTyped
<1>11. PICK q : q = At(c, stage)
  OBVIOUS
<1>12. p = [f \in PipeFields |-> p[f]]
  BY <1>1 DEF PipeTyped, IsPipe
<1>13. c.first = first /\ c.pools = pools
  BY <1>9, <1>12 DEF PipeFields, WithClient
<1>14. stage \in Stages /\ (stage \in Pooled => Complete(c))
  <2>1. Complete(c)
    BY <1>7, <1>8, <1>13 DEF Complete
  <2> QED
    BY <1>4, <2>1 DEF Stages, LlmStages
<1>15. PipeTyped(q) /\ q.stage = stage
  BY <1>10, <1>11, <1>14, AtTyped
<1>16. [At(p, stage) EXCEPT !.pools = pools] = q
  <2>1. PICK a : a = At(p, stage)
    OBVIOUS
  <2>2. a = [p EXCEPT !.stage = stage, !.next = 1, !.work = NoWork,
                      !.chunk = [l \in Lanes |-> 0], !.out = <<>>, !.error = FALSE,
                      !.retried = FALSE]
    BY <2>1 DEF At
  <2>3. q = [c EXCEPT !.stage = stage, !.next = 1, !.work = NoWork,
                      !.chunk = [l \in Lanes |-> 0], !.out = <<>>, !.error = FALSE,
                      !.retried = FALSE]
    BY <1>11 DEF At
  <2>4. [a EXCEPT !.pools = pools] = q
    BY <1>8, <1>9, <1>12, <2>2, <2>3 DEF PipeFields, WithClient
  <2> QED
    BY <2>1, <2>4
<1>17. pipe' = [pipe EXCEPT ![t] = q]
  BY <1>1, <1>3, <1>5, <1>16 DEF Register
<1>18. RegistryTyped'
  BY DEF Register, PermitInv, RegistryTyped
<1>19. /\ Stage(t) \notin Active
       /\ q.stage \notin SlotStages /\ pipe[t].stage \notin SlotStages
  BY <1>1, <1>2, <1>4, <1>15 DEF Active, SlotStages, MediaStages, LlmStages, Stage
<1> QED
  BY <1>2, <1>15, <1>17, <1>18, <1>19, QuietKeeps

\* The retry after a refusal keeps the client.
LEMMA RefusedKeeps ==
  ASSUME PipeInv, PermitInv, NEW t \in Tasks, RefusedOnce(t) PROVE PermitInv'
<1>1. PICK p : p = pipe[t] /\ PipeTyped(p)
  BY DEF PermitInv, PipesTyped
<1>2. PICK stage : stage = p.stage
  OBVIOUS
<1>3. PICK a : a = At(p, stage)
  OBVIOUS
<1>4. stage \in Stages /\ (stage \in Pooled => Complete(p))
  BY <1>1, <1>2 DEF PipeTyped
<1>5. PipeTyped(a) /\ a.stage = stage
  BY <1>1, <1>3, <1>4, AtTyped
<1>6. PICK q : q = [a EXCEPT !.retried = TRUE]
  OBVIOUS
<1>7. a = [f \in PipeFields |-> a[f]]
  BY <1>5 DEF PipeTyped, IsPipe
<1>8. /\ q = [f \in PipeFields |-> q[f]] /\ q.opt = a.opt /\ q.stage = a.stage
      /\ q.next = a.next /\ q.chunk = a.chunk /\ q.first = a.first
      /\ q.pools = a.pools /\ q.outcome = a.outcome
  BY <1>6, <1>7 DEF PipeFields
<1>9. PipeTyped(q)
  <2>1. q.stage \in Pooled => Complete(q)
    BY <1>5, <1>8 DEF PipeTyped, Complete
  <2> QED
    BY <1>5, <1>8, <2>1 DEF PipeTyped, IsPipe
<1>10. /\ pipe' = [pipe EXCEPT ![t] = q] /\ Resting(t) /\ q.stage = pipe[t].stage
       /\ UNCHANGED <<callVars, registry, slots>>
  BY <1>1, <1>2, <1>3, <1>5, <1>6, <1>8 DEF RefusedOnce, Joined, Stage
<1>11. RegistryTyped'
  BY <1>10 DEF PermitInv, RegistryTyped
<1> QED
  BY <1>9, <1>10, <1>11, QuietKeeps

\* The text is over.
LEMMA TextKeeps ==
  ASSUME PipeInv, PermitInv, NEW t \in Tasks, TextSummarised(t) \/ TextFails(t)
  PROVE  PermitInv'
<1>1. PICK p : p = pipe[t] /\ PipeTyped(p)
  BY DEF PermitInv, PipesTyped
<1>2. /\ p.stage = "text" /\ Resting(t) /\ UNCHANGED <<callVars, registry, slots>>
      /\ \E q : /\ pipe' = [pipe EXCEPT ![t] = q]
                /\ q \in TextOver(p) \/ q = Ends(p, "failed")
  BY <1>1 DEF TextSummarised, TextFails, StageSucceeds, StageFails, Joined, Stage
<1>3. PICK q : /\ pipe' = [pipe EXCEPT ![t] = q]
               /\ q \in TextOver(p) \/ q = Ends(p, "failed")
  BY <1>2
<1>4. PipeTyped(q) /\ q.stage \in {"read health", "open image", "summary slot"}
  <2>1. CASE q \in TextOver(p)
    BY <1>1, <1>2, <2>1, TextOverTyped
  <2>2. CASE q = Ends(p, "failed")
    BY <1>1, <2>2, EndsTyped DEF Outcomes
  <2> QED
    BY <1>3, <2>1, <2>2
<1>5. q.stage \notin SlotStages /\ pipe[t].stage \notin SlotStages
  BY <1>1, <1>2, <1>4 DEF SlotStages
<1>6. RegistryTyped'
  BY <1>2 DEF PermitInv, RegistryTyped
<1> QED
  BY <1>2, <1>3, <1>4, <1>5, <1>6, QuietKeeps

\* The health row is read and written.
LEMMA HealthKeeps ==
  ASSUME PipeInv, PermitInv, NEW t \in Tasks, ReadHealth(t) \/ WriteHealth(t)
  PROVE  PermitInv'
<1>1. PICK p : p = pipe[t] /\ PipeTyped(p)
  BY DEF PermitInv, PipesTyped
<1>2. /\ p.stage \in {"read health", "write health"}
      /\ UNCHANGED <<callVars, registry, slots>>
  BY <1>1 DEF ReadHealth, WriteHealth, Stage
<1>3. PICK row : row = health
  OBVIOUS
<1>4. PICK q : /\ pipe' = [pipe EXCEPT ![t] = q]
               /\ \/ q = [At(p, "write health") EXCEPT !.seen = row]
                  \/ q = Finished(p)
  BY <1>1, <1>3 DEF ReadHealth, WriteHealth
<1>5. ASSUME NEW stage \in Stages, stage \notin Pooled, NEW first \in Providers,
             NEW pools \in [Providers -> Tasks \cup {NoOwner}], NEW seen, NEW a,
             a = At(p, stage),
             q = [a EXCEPT !.first = first, !.pools = pools, !.seen = seen]
      PROVE  PipeTyped(q) /\ q.stage = stage
  <2>2. PipeTyped(a) /\ a.stage = stage
    <3>1. PipeTyped(p) /\ (stage \in Pooled => Complete(p)) /\ a = At(p, stage)
      BY <1>1, <1>5
    <3> QED
      BY <3>1, AtTyped
  <2>3. a = [f \in PipeFields |-> a[f]]
    BY <2>2 DEF PipeTyped, IsPipe
  <2>4. /\ q = [f \in PipeFields |-> q[f]] /\ q.opt = a.opt /\ q.stage = a.stage
        /\ q.next = a.next /\ q.chunk = a.chunk /\ q.first = first
        /\ q.pools = pools /\ q.outcome = a.outcome
    BY <1>5, <2>3 DEF PipeFields
  <2> QED
    BY <1>5, <2>2, <2>4 DEF PipeTyped, IsPipe
<1>6. PipeTyped(q) /\ q.stage \in {"write health", "ended"}
  <2>1. CASE q = [At(p, "write health") EXCEPT !.seen = row]
    <3>1. PICK a : a = At(p, "write health")
      OBVIOUS
    <3>2. "write health" \in Stages /\ "write health" \notin Pooled
      BY DEF Stages, Pooled
    <3>3. PipeTyped(a)
      BY <1>1, <3>1, <3>2, AtTyped
    <3>4. PICK first, pools : first = a.first /\ pools = a.pools
      OBVIOUS
    <3>5. /\ first \in Providers /\ pools \in [Providers -> Tasks \cup {NoOwner}]
          /\ a = [f \in PipeFields |-> a[f]]
      BY <3>3, <3>4 DEF PipeTyped, IsPipe
    <3>6. q = [a EXCEPT !.first = first, !.pools = pools, !.seen = row]
      BY <2>1, <3>1, <3>4, <3>5 DEF PipeFields
    <3> QED
      BY <1>5, <3>1, <3>2, <3>5, <3>6
  <2>2. CASE q = Finished(p)
    <3>1. PICK a : a = At(p, "ended")
      OBVIOUS
    <3>2. q = [a EXCEPT !.first = 0, !.pools = NoPools,
                        !.seen = [failures |-> 0, open |-> FALSE]]
      BY <2>2, <3>1 DEF Finished
    <3>3. NoPools \in [Providers -> Tasks \cup {NoOwner}]
      BY NoPoolsType, GenerationAssumption
    <3>4. "ended" \in Stages /\ "ended" \notin Pooled
      BY DEF Stages, Pooled
    <3> QED
      BY <1>5, <3>1, <3>2, <3>3, <3>4, CallBounds
  <2> QED
    BY <1>4, <2>1, <2>2
<1>7. /\ q.stage \notin SlotStages /\ pipe[t].stage \notin SlotStages
      /\ Stage(t) \notin Active
  BY <1>1, <1>2, <1>6 DEF SlotStages, Active, MediaStages, LlmStages, Stage
<1>8. RegistryTyped'
  BY <1>2 DEF PermitInv, RegistryTyped
<1> QED
  BY <1>2, <1>4, <1>6, <1>7, <1>8, QuietKeeps

---------------------------------------------------------------------------
(* The slots and the image.                                                *)

\* A task joins a slot queue, or its head leaves.
LEMMA InAppend ==
  ASSUME NEW S, NEW s \in Seq(S), NEW e \in S, NEW d, In(s, d) \/ d = e
  PROVE  In(Append(s, e), d)
<1>1. Len(s) \in Nat /\ DOMAIN s = 1..Len(s)
  BY LenProperties
<1>2. PICK q : q = Append(s, e)
  OBVIOUS
<1>3. /\ DOMAIN q = 1..(Len(s) + 1) /\ q[Len(s) + 1] = e
      /\ \A i \in 1..Len(s) : q[i] = s[i]
  BY <1>1, <1>2, AppendProperties, LenProperties
<1>4. Len(s) + 1 \in DOMAIN q /\ DOMAIN s \subseteq DOMAIN q
  BY <1>1, <1>3
<1>5. In(q, d)
  BY <1>1, <1>3, <1>4 DEF In
<1> QED
  BY <1>2, <1>5

LEMMA InTail ==
  ASSUME NEW S, NEW s \in Seq(S), s # <<>>, NEW d, In(s, d), d # Head(s)
  PROVE  In(Tail(s), d)
<1>1. Len(s) \in Nat /\ DOMAIN s = 1..Len(s) /\ Len(s) # 0
  BY LenProperties, EmptySeq
<1>2. PICK q : q = Tail(s)
  OBVIOUS
<1>3. /\ DOMAIN q = 1..(Len(s) - 1) /\ Head(s) = s[1]
      /\ \A i \in 1..(Len(s) - 1) : q[i] = s[i + 1]
  <2>1. q \in Seq(S) /\ Len(q) = Len(s) - 1 /\ \A i \in 1..Len(q) : q[i] = s[i + 1]
    BY <1>1, <1>2, HeadTailProperties
  <2> QED
    BY <1>1, <2>1, LenProperties
<1>4. PICK i \in 1..Len(s) : s[i] = d /\ i # 1
  BY <1>1, <1>3 DEF In
<1>5. i - 1 \in 1..(Len(s) - 1) /\ q[i - 1] = s[i]
  BY <1>1, <1>3, <1>4
<1>6. In(q, d)
  BY <1>3, <1>4, <1>5 DEF In
<1> QED
  BY <1>2, <1>6

\* A task asks for a slot, and waits where it asked.
LEMMA RequestKeeps ==
  ASSUME PipeInv, Queues, PermitInv, NEW t \in Tasks, RequestSlot(t) PROVE PermitInv'
<1>1. PICK p : p = pipe[t] /\ PipeTyped(p)
  BY DEF PermitInv, PipesTyped
<1>2. PICK stage \in {"wait for summary", "wait for prompt"} :
        /\ pipe' = [pipe EXCEPT ![t] = At(p, stage)]
        /\ \/ /\ stage = "wait for summary" /\ summaries' = Append(summaries, t)
              /\ UNCHANGED prompts
           \/ /\ stage = "wait for prompt" /\ prompts' = Append(prompts, t)
              /\ UNCHANGED summaries
  BY <1>1 DEF RequestSlot
<1>3. /\ p.stage \in {"summary slot", "prompt slot"}
      /\ UNCHANGED callVars /\ registry' = registry /\ leases' = leases
  BY <1>1 DEF RequestSlot, Stage
<1>4. PICK q : q = At(p, stage)
  OBVIOUS
<1>5. stage \in Stages /\ Complete(p)
  BY <1>1, <1>3 DEF Stages, PipeTyped, Pooled
<1>6. PipeTyped(q) /\ q.stage = stage
  BY <1>1, <1>4, <1>5, AtTyped
<1>7. \A u \in Tasks : pipe'[u] = IF u = t THEN q ELSE pipe[u]
  BY <1>2, <1>4 DEF PipeInv
<1>8. summaries \in Seq(Tasks) /\ prompts \in Seq(Tasks)
  BY DEF Queues, Queue
<1>9. /\ \A u : In(summaries, u) => In(summaries', u)
      /\ \A u : In(prompts, u) => In(prompts', u)
      /\ stage = "wait for summary" => In(summaries', t)
      /\ stage = "wait for prompt" => In(prompts', t)
  BY <1>2, <1>8, InAppend
<1>10. ASSUME NEW u \in Tasks
       PROVE  /\ u \in leases' <=> Slotted(u)'
              /\ Stage(u)' = "wait for summary" => In(summaries', u)
              /\ Stage(u)' = "wait for prompt" => In(prompts', u)
  <2>1. CASE u = t
    BY <1>1, <1>2, <1>3, <1>6, <1>7, <1>9, <2>1 DEF PermitInv, SlotsHeld, Slotted, Stage
  <2>2. CASE u # t
    BY <1>3, <1>7, <1>9, <2>2 DEF PermitInv, SlotsHeld, Slotted, Stage
  <2> QED
    BY <2>1, <2>2
<1>11. SlotsHeld'
  BY <1>3, <1>10 DEF PermitInv, SlotsHeld
<1>12. RegistryTyped' /\ Stage(t) \notin Active
  BY <1>1, <1>3 DEF PermitInv, RegistryTyped, Active, MediaStages, LlmStages, Stage
<1> QED
  BY <1>2, <1>3, <1>4, <1>6, <1>11, <1>12, Quiet

\* A slot is only granted when one is free, to a task that waited.
LEMMA GrantKeeps ==
  ASSUME PipeInv, Queues, PermitInv, NEW t \in Tasks, GrantSlot(t) PROVE PermitInv'
<1>1. PICK p : p = pipe[t] /\ PipeTyped(p)
  BY DEF PermitInv, PipesTyped
<1>2. PICK stage \in {"summary", "prompt"} :
        /\ pipe' = [pipe EXCEPT ![t] = At(p, stage)]
        /\ \/ /\ stage = "summary" /\ summaries # <<>> /\ t = Head(summaries)
              /\ summaries' = Tail(summaries) /\ UNCHANGED prompts
           \/ /\ stage = "prompt" /\ prompts # <<>> /\ t = Head(prompts)
              /\ prompts' = Tail(prompts) /\ UNCHANGED summaries
  BY <1>1 DEF GrantSlot
<1>3. /\ Cardinality(leases) < Capacity /\ leases' = leases \cup {t}
      /\ UNCHANGED callVars /\ registry' = registry
  BY DEF GrantSlot
<1>4. p.stage \in {"wait for summary", "wait for prompt"}
  BY <1>1, <1>2, QueueHead DEF Queues
<1>5. PICK q : q = At(p, stage)
  OBVIOUS
<1>6. stage \in Stages /\ Complete(p)
  BY <1>1, <1>4 DEF Stages, LlmStages, PipeTyped, Pooled
<1>7. PipeTyped(q) /\ q.stage = stage
  BY <1>1, <1>5, <1>6, AtTyped
<1>8. \A u \in Tasks : pipe'[u] = IF u = t THEN q ELSE pipe[u]
  BY <1>2, <1>5 DEF PipeInv
<1>9. summaries \in Seq(Tasks) /\ prompts \in Seq(Tasks)
  BY DEF Queues, Queue
<1>10. /\ \A u : In(summaries, u) /\ u # t => In(summaries', u)
       /\ \A u : In(prompts, u) /\ u # t => In(prompts', u)
  BY <1>2, <1>9, InTail
<1>11. ASSUME NEW u \in Tasks
       PROVE  /\ u \in leases' <=> Slotted(u)'
              /\ Stage(u)' = "wait for summary" => In(summaries', u)
              /\ Stage(u)' = "wait for prompt" => In(prompts', u)
  <2>1. CASE u = t
    BY <1>2, <1>3, <1>7, <1>8, <2>1 DEF Slotted, Stage
  <2>2. CASE u # t
    BY <1>3, <1>8, <1>10, <2>2 DEF PermitInv, SlotsHeld, Slotted, Stage
  <2> QED
    BY <2>1, <2>2
<1>12. PICK S : S = leases
  OBVIOUS
<1>13. S \subseteq Tasks /\ IsFiniteSet(S)
  BY <1>12, GenerationAssumption, FS_Subset DEF PermitInv, SlotsHeld
<1>14. Cardinality(S \cup {t}) =< Cardinality(S) + 1
  <2>1. PICK T : T = S \cup {t}
    OBVIOUS
  <2>2. Cardinality(T) = IF t \in S THEN Cardinality(S) ELSE Cardinality(S) + 1
    BY <1>13, <2>1, FS_AddElement
  <2>3. Cardinality(S) \in Nat
    BY <1>13, FS_CardinalityType
  <2> QED
    BY <2>1, <2>2, <2>3
<1>15. /\ Cardinality(S) \in Nat /\ Capacity \in Nat
       /\ Cardinality(S) < Capacity
  BY <1>3, <1>12, <1>13, FS_CardinalityType, GenerationAssumption
<1>16. Cardinality(S \cup {t}) \in Nat
  BY <1>13, FS_AddElement, FS_CardinalityType
<1>17. Cardinality(S \cup {t}) =< Capacity
  BY <1>14, <1>15, <1>16
<1>18. SlotsHeld'
  BY <1>3, <1>11, <1>12, <1>13, <1>17 DEF SlotsHeld
<1>19. RegistryTyped' /\ Stage(t) \notin Active
  BY <1>1, <1>3, <1>4 DEF PermitInv, RegistryTyped, Active, MediaStages, LlmStages, Stage
<1> QED
  BY <1>2, <1>3, <1>5, <1>7, <1>18, <1>19, Quiet

\* A stage that is over, out of time or failed gives its slot back.
LEMMA SlotOverKeeps ==
  ASSUME PipeInv, PermitInv, NEW t \in Tasks,
         StageOver(t) \/ StageTimeout(t) \/ PreparationFails(t)
  PROVE  PermitInv'
<1>1. PICK p : p = pipe[t] /\ PipeTyped(p)
  BY DEF PermitInv, PipesTyped
<1>2. /\ p.stage \in {"summary", "prompt"} /\ registry' = registry
      /\ leases' = leases \ {t} /\ UNCHANGED <<prompts, summaries>>
      /\ Abandons(CallsOf(t)) \/ (Resting(t) /\ UNCHANGED callVars)
  BY <1>1 DEF StageOver, StageTimeout, PreparationFails, Slotted, Stage, StageSucceeds,
    StageFails, Joined
<1>3. PICK q : /\ pipe' = [pipe EXCEPT ![t] = q]
               /\ \/ q = At(p, IF p.stage = "summary" THEN "prompt slot" ELSE "draw")
                  \/ q \in WithoutImage(p, {"failed"})
  BY <1>1 DEF StageOver, StageTimeout, PreparationFails, Stage
<1>4. PipeTyped(q) /\ q.stage \in {"prompt slot", "draw", "read health"}
  <2>1. CASE q = At(p, IF p.stage = "summary" THEN "prompt slot" ELSE "draw")
    <3>1. PICK stage : stage = IF p.stage = "summary" THEN "prompt slot" ELSE "draw"
      OBVIOUS
    <3>2. stage \in {"prompt slot", "draw"} /\ Complete(p)
      BY <1>1, <1>2, <3>1 DEF PipeTyped, Pooled
    <3>3. stage \in Stages
      BY <3>2 DEF Stages
    <3>4. q = At(p, stage)
      BY <2>1, <3>1
    <3>5. PipeTyped(p) /\ (stage \in Pooled => Complete(p))
      BY <1>1, <3>2
    <3>6. PipeTyped(q) /\ q.stage = stage
      BY <3>3, <3>4, <3>5, AtTyped
    <3> QED
      BY <3>2, <3>6
  <2>2. CASE q \in WithoutImage(p, {"failed"})
    <3>1. {"failed"} \subseteq Outcomes
      BY DEF Outcomes
    <3> QED
      BY <1>1, <2>2, <3>1, ImageOverTyped
  <2> QED
    BY <1>3, <2>1, <2>2
<1>5. q.stage \notin SlotStages
  BY <1>4 DEF SlotStages
<1>6. SlotsHeld'
  BY <1>2, <1>3, <1>4, <1>5, SlotLeft DEF PermitInv
<1>7. RegistryTyped'
  BY <1>2 DEF PermitInv, RegistryTyped
<1>8. CASE Abandons(CallsOf(t))
  BY <1>3, <1>4, <1>6, <1>7, <1>8, Drops
<1>9. CASE Resting(t) /\ UNCHANGED callVars
  BY <1>3, <1>4, <1>6, <1>7, <1>9, Quiet
<1> QED
  BY <1>2, <1>8, <1>9

\* The image, drawn by lane 1 alone.
LEMMA DrawKeeps ==
  ASSUME PipeInv, PermitInv, NEW t \in Tasks, Draw(t) PROVE PermitInv'
<1>1. PICK p : p = pipe[t] /\ PipeTyped(p)
  BY DEF PermitInv, PipesTyped
<1>2. /\ p.stage = "draw" /\ Resting(t) /\ UNCHANGED <<registry, slots>>
      /\ Begins(<<t, 1>>, NewCall("image", 0, NoPools, {}, {}))
      /\ pipe' = [pipe EXCEPT ![t] = At(p, "drawing")]
  BY <1>1 DEF Draw, Stage
<1>3. PICK s : s = NewCall("image", 0, NoPools, {}, {})
  OBVIOUS
<1>4. CallTyped(s) /\ s.key = NoKey /\ s.at = "acquire" /\ s.client = "image"
  BY <1>3, CallBounds, NoPoolsType, NewTyped
<1>5. PICK q : q = At(p, "drawing")
  OBVIOUS
<1>6. "drawing" \in Stages /\ "drawing" \notin Pooled
  BY DEF Stages, Pooled
<1>7. PipeTyped(q) /\ q.stage = "drawing"
  BY <1>1, <1>5, <1>6, AtTyped
<1>8. <<t, 1>> \in Calls /\ Becomes(<<t, 1>>, s) /\ Resolved(call[<<t, 1>>])
  BY <1>2, <1>3, LanesAre, GenerationAssumption DEF Begins, Resolved
<1>9. /\ CallsInv'
      /\ \A d \in Calls : call'[d] = IF d = <<t, 1>> THEN s ELSE call[d]
  BY <1>4, <1>8, BeginsKeeps DEF PermitInv
<1>10. \A u \in Tasks : pipe'[u] = IF u = t THEN q ELSE pipe[u]
  BY <1>2, <1>5 DEF PipeInv
<1>11. Owned'
  <2> SUFFICES ASSUME NEW u \in Tasks, NEW l \in Lanes
               PROVE  Belongs(call'[<<u, l>>], pipe'[u], l)
    BY DEF Owned
  <2>1. <<u, l>> \in Calls
    BY GenerationAssumption
  <2>2. CASE u = t /\ l = 1
    <3>1. call'[<<u, l>>] = s /\ pipe'[u] = q
      BY <1>9, <1>10, <2>1, <2>2
    <3> QED
      BY <1>4, <1>7, <2>2, <3>1 DEF Belongs, Active
  <2>3. CASE u = t /\ l # 1
    <3>1. call'[<<u, l>>].at = "idle"
      BY <1>2, <1>9, <2>1, <2>3 DEF Resting, CallsOf
    <3> QED
      BY <3>1 DEF Belongs, Resolved
  <2>4. CASE u # t
    <3>1. call'[<<u, l>>] = call[<<u, l>>] /\ pipe'[u] = pipe[u]
      BY <1>9, <1>10, <2>1, <2>4
    <3> QED
      BY <3>1 DEF PermitInv, Owned
  <2> QED
    BY <2>2, <2>3, <2>4
<1>12. PipesTyped'
  BY <1>2, <1>5, <1>7, OneTask DEF PermitInv
<1>13. SlotsHeld'
  <2>1. q.stage \notin SlotStages /\ pipe[t].stage \notin SlotStages
    BY <1>1, <1>2, <1>7 DEF SlotStages
  <2> QED
    BY <1>2, <1>5, <1>7, <2>1, SlotsKept DEF PermitInv
<1>14. RegistryTyped'
  BY <1>2 DEF PermitInv, RegistryTyped
<1> QED
  BY <1>9, <1>11, <1>12, <1>13, <1>14 DEF PermitInv

\* The image is there, or failed: its call is put away.
LEMMA ImageKeeps ==
  ASSUME PipeInv, PermitInv, NEW t \in Tasks, ImageOver(t) PROVE PermitInv'
<1>1. PICK p : p = pipe[t] /\ PipeTyped(p)
  BY DEF PermitInv, PipesTyped
<1>2. /\ p.stage = "drawing" /\ call[<<t, 1>>].at = "done" /\ Becomes(<<t, 1>>, NoCall)
      /\ UNCHANGED <<registry, slots>>
  BY <1>1 DEF ImageOver, Stage
<1>3. PICK drawn, untold, q :
        /\ untold \subseteq Outcomes /\ pipe' = [pipe EXCEPT ![t] = q]
        /\ q \in WithImage(p) \cup WithoutImage(p, untold) \cup WeeklyOver(p, drawn)
  <2>1. {"nothing", "failed"} \subseteq Outcomes
    BY DEF Outcomes
  <2> QED
    BY <1>1, <2>1 DEF ImageOver
<1>4. PipeTyped(q) /\ q.stage = "read health"
  BY <1>1, <1>3, ImageOverTyped
<1>5. <<t, 1>> \in Calls /\ Resolved(call[<<t, 1>>])
  BY <1>2, LanesAre, GenerationAssumption DEF Resolved
<1>6. /\ CallsInv'
      /\ \A d \in Calls : call'[d] = IF d = <<t, 1>> THEN NoCall ELSE call[d]
  BY <1>2, <1>5, NoCallTyped, BeginsKeeps DEF PermitInv
<1>7. ASSUME NEW l \in Lanes PROVE call'[<<t, l>>].at = "idle"
  <2>1. <<t, l>> \in Calls
    BY GenerationAssumption
  <2>2. CASE l = 1
    BY <1>6, <2>1, <2>2, NoCallTyped
  <2>3. CASE l # 1
    <3>1. Belongs(call[<<t, l>>], p, l)
      BY <1>1 DEF PermitInv, Owned
    <3>2. call[<<t, l>>].at = "idle"
      BY <1>2, <2>3, <3>1 DEF Belongs
    <3> QED
      BY <1>6, <2>1, <2>3, <3>2
  <2> QED
    BY <2>2, <2>3
<1>8. \A c \in Calls \ CallsOf(t) : call'[c] = call[c]
  BY <1>6, LanesAre DEF CallsOf
<1>9. SlotsHeld'
  <2>1. q.stage \notin SlotStages /\ pipe[t].stage \notin SlotStages
    BY <1>1, <1>2, <1>4 DEF SlotStages
  <2> QED
    BY <1>2, <1>3, <1>4, <2>1, SlotsKept DEF PermitInv
<1>10. RegistryTyped'
  BY <1>2 DEF PermitInv, RegistryTyped
<1> QED
  BY <1>3, <1>4, <1>6, <1>7, <1>8, <1>9, <1>10, Rests

---------------------------------------------------------------------------
(* The lanes of a text stage, and the invariant of every behaviour.        *)

\* A lane changes nothing but its own part of the progress.
LEMMA WorkedTyped ==
  ASSUME NEW p, PipeTyped(p), NEW q, IsPipe(q), q.opt = p.opt, q.stage = p.stage,
         q.next \in Nat, q.chunk \in [Lanes -> 0..Len(p.opt.chunks)],
         q.first = p.first, q.pools = p.pools, q.outcome = p.outcome
  PROVE  PipeTyped(q)
<1>1. q.stage \in Pooled => Complete(q)
  BY DEF PipeTyped, Complete
<1> QED
  BY <1>1 DEF PipeTyped

\* A request of a stage takes a chunk, or all of them at once.
LEMMA RequestsFit ==
  ASSUME NEW t \in Tasks, PipeTyped(pipe[t])
  PROVE  Len(Requests(t)) \in Nat /\ Len(Requests(t)) =< Len(pipe[t].opt.chunks)
<1>1. PICK whole : whole = All(t)
  OBVIOUS
<1>2. Len(<<whole>>) = 1
  OBVIOUS
<1>3. PICK n \in Nat \ {0} : n = Len(pipe[t].opt.chunks)
  BY DEF PipeTyped
<1>4. Len(Requests(t)) = 1 \/ Len(Requests(t)) = n
  BY <1>1, <1>2, <1>3 DEF Requests
<1> QED
  BY <1>3, <1>4

\* Each step of a lane leaves a progress with its values.
LEMMA LaneTyped ==
  ASSUME PipeInv, PermitInv, NEW t \in Tasks, NEW l \in Lanes, LaneSteps(t, l)
  PROVE  \E q : /\ pipe' = [pipe EXCEPT ![t] = q] /\ PipeTyped(q)
                /\ q.stage = pipe[t].stage /\ q.first = pipe[t].first
                /\ q.pools = pipe[t].pools
<1>1. PICK p : p = pipe[t] /\ PipeTyped(p)
  BY DEF PermitInv, PipesTyped
<1>2. /\ p = [f \in PipeFields |-> p[f]] /\ p.next \in Nat
      /\ p.chunk \in [Lanes -> 0..Len(p.opt.chunks)]
  BY <1>1 DEF PipeTyped, IsPipe
<1>3. pipe = [u \in Tasks |-> pipe[u]]
  BY DEF PipeInv
<1>4. ASSUME NEW q, IsPipe(q), q.opt = p.opt, q.stage = p.stage,
             q.next \in Nat, q.chunk \in [Lanes -> 0..Len(p.opt.chunks)],
             q.first = p.first, q.pools = p.pools, q.outcome = p.outcome,
             pipe' = [pipe EXCEPT ![t] = q]
      PROVE  \E r : /\ pipe' = [pipe EXCEPT ![t] = r] /\ PipeTyped(r)
                    /\ r.stage = pipe[t].stage /\ r.first = pipe[t].first
                    /\ r.pools = pipe[t].pools
  <2>1. PipeTyped(q)
    BY <1>1, <1>4, WorkedTyped
  <2> QED
    BY <1>1, <1>4, <2>1
<1>5. CASE LlmSpawn(t, l)
  <2>1. PICK part, n, chunk, out :
          /\ part = <<Requests(t)[p.next]>> /\ n = p.next + 1
          /\ chunk = [p.chunk EXCEPT ![l] = p.next]
          /\ out = IF p.next = 1 THEN [i \in 1..Len(Requests(t)) |-> <<>>] ELSE p.out
    OBVIOUS
  <2>2. PICK work : work = [p.work EXCEPT ![l] = part]
    OBVIOUS
  <2>3. PICK q : q = [p EXCEPT !.work = work, !.chunk = chunk, !.next = n, !.out = out]
    OBVIOUS
  <2>4. /\ IsPipe(q) /\ q.opt = p.opt /\ q.stage = p.stage /\ q.next = n
        /\ q.chunk = chunk /\ q.first = p.first /\ q.pools = p.pools
        /\ q.outcome = p.outcome
    BY <1>2, <2>3 DEF IsPipe, PipeFields
  <2>5. p.next =< Len(p.opt.chunks)
    <3>1. p.next =< Len(Requests(t))
      BY <1>1, <1>5 DEF LlmSpawn
    <3>2. Len(Requests(t)) \in Nat /\ Len(Requests(t)) =< Len(p.opt.chunks)
      BY <1>1, RequestsFit
    <3>3. Len(p.opt.chunks) \in Nat
      BY <1>1 DEF PipeTyped
    <3> QED
      BY <1>2, <3>1, <3>2, <3>3
  <2>6. chunk \in [Lanes -> 0..Len(p.opt.chunks)] /\ n \in Nat
    <3>1. PICK m : m = Len(p.opt.chunks)
      OBVIOUS
    <3>2. m \in Nat /\ p.next \in 0..m
      BY <1>1, <1>2, <2>5, <3>1 DEF PipeTyped
    <3> QED
      BY <1>2, <2>1, <3>1, <3>2
  <2>7. pipe' = [pipe EXCEPT ![t] = q]
    BY <1>1, <1>2, <1>3, <1>5, <2>1, <2>2, <2>3 DEF LlmSpawn, PipeFields
  <2> QED
    BY <1>4, <2>4, <2>6, <2>7
<1>6. CASE PartSummarised(t, l)
  <2>1. PICK q : q = [p EXCEPT !.work[l] = Tail(@),
                               !.out[p.chunk[l]] = @ \o Head(p.work[l])]
    BY SMTT(30)
  <2>2. /\ IsPipe(q) /\ q.opt = p.opt /\ q.stage = p.stage /\ q.next = p.next
        /\ q.chunk = p.chunk /\ q.first = p.first /\ q.pools = p.pools
        /\ q.outcome = p.outcome
    BY <1>2, <2>1 DEF IsPipe, PipeFields
  <2>3. pipe' = [pipe EXCEPT ![t] = q]
    BY <1>1, <1>2, <1>3, <1>6, <2>1 DEF PartSummarised, PipeFields
  <2> QED
    BY <1>2, <1>4, <2>2, <2>3
<1>7. CASE ContextSplit(t, l)
  <2>1. PICK parts : pipe' = [pipe EXCEPT ![t].work[l] = parts]
    BY <1>7 DEF ContextSplit
  <2>2. PICK q : q = [p EXCEPT !.work[l] = parts]
    OBVIOUS
  <2>3. /\ IsPipe(q) /\ q.opt = p.opt /\ q.stage = p.stage /\ q.next = p.next
        /\ q.chunk = p.chunk /\ q.first = p.first /\ q.pools = p.pools
        /\ q.outcome = p.outcome
    BY <1>2, <2>2 DEF IsPipe, PipeFields
  <2>4. pipe' = [pipe EXCEPT ![t] = q]
    BY <1>1, <2>1, <2>2
  <2> QED
    BY <1>2, <1>4, <2>3, <2>4
<1>8. CASE PartFailed(t, l)
  <2>1. PICK q : q = [p EXCEPT !.work[l] = <<>>, !.error = TRUE]
    OBVIOUS
  <2>2. /\ IsPipe(q) /\ q.opt = p.opt /\ q.stage = p.stage /\ q.next = p.next
        /\ q.chunk = p.chunk /\ q.first = p.first /\ q.pools = p.pools
        /\ q.outcome = p.outcome
    BY <1>2, <2>1 DEF IsPipe, PipeFields
  <2>3. pipe' = [pipe EXCEPT ![t] = q]
    BY <1>1, <1>2, <1>3, <1>8, <2>1 DEF PartFailed, PipeFields
  <2> QED
    BY <1>2, <1>4, <2>2, <2>3
<1> QED
  BY <1>5, <1>6, <1>7, <1>8 DEF LaneSteps

\* A request of a text stage is one of the client the task opened.
LEMMA LlmTyped ==
  ASSUME NEW p, PipeTyped(p), p.stage \in LlmStages, NEW s, s = LlmCall(p)
  PROVE  /\ CallTyped(s) /\ s.key = NoKey /\ s.at = "acquire"
         /\ s.client = "chat" /\ s.pools = p.pools /\ s.provider = p.first
<1>1. PICK features : features = p.opt.features
  OBVIOUS
<1>2. PICK using : using = IF p.stage = "text" THEN features ELSE features \ {"stream"}
  OBVIOUS
<1>3. PICK first, pools : first = p.first /\ pools = p.pools
  OBVIOUS
<1>4. /\ features \in SUBSET {"stream", "thinking"} /\ using \in SUBSET features
      /\ first \in Providers /\ pools \in [Providers -> Owners \cup {NoOwner}]
  <2>1. /\ p.opt.features \subseteq {"stream", "thinking"} /\ p.first \in Providers
        /\ p.pools \in [Providers -> Tasks \cup {NoOwner}]
    BY DEF PipeTyped
  <2>2. Owners = Tasks
    BY GenerationAssumption
  <2>3. features \in SUBSET {"stream", "thinking"} /\ using \in SUBSET features
    BY <1>1, <1>2, <2>1
  <2> QED
    BY <1>3, <2>1, <2>2, <2>3
<1>5. s = NewCall("chat", first, pools, using, features)
  BY <1>1, <1>2, <1>3 DEF LlmCall
<1>6. PICK client : client \in Media \cup {"chat", "image"} /\ client = "chat"
  OBVIOUS
<1>7. s = NewCall(client, first, pools, using, features)
  BY <1>5, <1>6
<1>8. /\ CallTyped(s) /\ s.client = client /\ s.provider = first
      /\ s.pools = pools /\ s.key = NoKey /\ s.at = "acquire"
  BY <1>4, <1>6, <1>7, NewTyped
<1> QED
  BY <1>3, <1>6, <1>8

\* A lane asks for a part, or puts its call away.
LEMMA LaneKeeps ==
  ASSUME PipeInv, PermitInv, NEW t \in Tasks, NEW l \in Lanes, LaneSteps(t, l)
  PROVE  PermitInv'
<1>1. PICK q : /\ pipe' = [pipe EXCEPT ![t] = q] /\ PipeTyped(q)
               /\ q.stage = pipe[t].stage /\ q.first = pipe[t].first
               /\ q.pools = pipe[t].pools
  BY LaneTyped
<1>2. PICK p : p = pipe[t] /\ PipeTyped(p)
  BY DEF PermitInv, PipesTyped
<1>3. /\ p.stage \in LlmStages /\ UNCHANGED <<registry, slots>>
      /\ Resolved(call[<<t, l>>])
  BY <1>2 DEF LaneSteps, LlmSpawn, PartSummarised, ContextSplit, PartFailed, LaneDone,
    Free, Stage, Resolved
<1>4. PICK ask : ask = LlmCall(p)
  OBVIOUS
<1>5. /\ CallTyped(ask) /\ ask.key = NoKey /\ ask.at = "acquire"
      /\ ask.client = "chat" /\ ask.pools = p.pools /\ ask.provider = p.first
  BY <1>2, <1>3, <1>4, LlmTyped
<1>6. Becomes(<<t, l>>, ask) \/ Becomes(<<t, l>>, NoCall)
  BY <1>2, <1>4 DEF LaneSteps, LlmSpawn, PartSummarised, ContextSplit, PartFailed,
    LaneGoesOn, Begins, Becomes
<1>7. Belongs(ask, q, l)
  <2>1. q.stage \in Active /\ q.stage # "drawing"
    BY <1>1, <1>2, <1>3 DEF Active, LlmStages
  <2>2. p.first \in Nat
    BY <1>2, CallBounds DEF PipeTyped, Providers
  <2>3. ask.provider >= q.first
    BY <1>1, <1>2, <1>5, <2>2
  <2> QED
    BY <1>1, <1>2, <1>3, <1>5, <2>1, <2>3 DEF Belongs
<1>8. CASE Becomes(<<t, l>>, ask)
  <2>1. ask.at \notin {"wait", "paced"}
    BY <1>5
  <2> QED
    BY <1>1, <1>3, <1>5, <1>7, <1>8, <2>1, LaneWorks
<1>9. CASE Becomes(<<t, l>>, NoCall)
  <2>1. /\ CallTyped(NoCall) /\ NoCall.key = NoKey /\ NoCall.at \notin {"wait", "paced"}
        /\ Belongs(NoCall, q, l)
    BY NoCallTyped, NoCallBelongs
  <2> QED
    BY <1>1, <1>3, <1>9, <2>1, LaneWorks
<1> QED
  BY <1>6, <1>8, <1>9

\* Every step keeps the invariant, and it holds at first.
LEMMA NextPermit == PipeInv /\ PermitInv /\ Queues /\ [Next]_vars => PermitInv'
<1> SUFFICES ASSUME PipeInv, PermitInv, Queues, [Next]_vars PROVE PermitInv'
  OBVIOUS
<1>1. ASSUME NEW c \in Calls, CallSteps(c) PROVE PermitInv'
  BY <1>1, CallStepKeeps
<1>2. ASSUME NEW t \in Tasks, NEW l \in Lanes, LaneSteps(t, l) PROVE PermitInv'
  BY <1>2, LaneKeeps
<1>3. ASSUME NEW t \in Tasks, TaskSteps(t) PROVE PermitInv'
  <2>1. CASE Captions(t) \/ Videos(t) \/ Voices(t)
    BY <2>1, MediaKeeps
  <2>2. CASE Open(t) \/ Register(t) \/ RefusedOnce(t)
    BY <2>2, OpenKeeps, RegisterKeeps, RefusedKeeps
  <2>3. CASE TextSummarised(t) \/ TextFails(t)
    BY <2>3, TextKeeps
  <2>4. CASE RequestSlot(t) \/ GrantSlot(t)
    BY <2>4, RequestKeeps, GrantKeeps
  <2>5. CASE StageOver(t) \/ StageTimeout(t) \/ PreparationFails(t)
    BY <2>5, SlotOverKeeps
  <2>6. CASE Draw(t) \/ ImageOver(t)
    BY <2>6, DrawKeeps, ImageKeeps
  <2>7. CASE ReadHealth(t) \/ WriteHealth(t)
    BY <2>7, HealthKeeps
  <2> QED
    BY <1>3, <2>1, <2>2, <2>3, <2>4, <2>5, <2>6, <2>7 DEF TaskSteps
<1>4. ASSUME UNCHANGED <<callVars, pipe, registry, slots>> PROVE PermitInv'
  <2>1. CallsInv'
    BY <1>4, NoneKeeps DEF PermitInv
  <2>2. PipesTyped' /\ Owned' /\ SlotsHeld' /\ RegistryTyped'
    BY <1>4 DEF callVars, slots, PermitInv, PipesTyped, Owned, SlotsHeld, Slotted, Stage,
      RegistryTyped, In
  <2> QED
    BY <2>1, <2>2 DEF PermitInv
<1>5. CASE CircuitExpires \/ Done \/ UNCHANGED vars
  <2>1. UNCHANGED <<callVars, pipe, registry, slots>>
    BY <1>5 DEF CircuitExpires, Done, vars, callVars, slots
  <2> QED
    BY <1>4, <2>1
<1> QED
  BY <1>1, <1>2, <1>3, <1>5 DEF Next

LEMMA InitPermit == Init => PermitInv
<1> SUFFICES ASSUME Init PROVE PermitInv
  OBVIOUS
<1>1. \A c \in Calls : call[c] = NoCall
  BY DEF Init
<1>2. /\ call = [c \in Calls |-> NoCall] /\ waiters = <<>> /\ limited = <<>>
      /\ registry = [d \in Providers |-> NoOwner]
      /\ prompts = <<>> /\ summaries = <<>> /\ leases = {}
  BY DEF Init
<1>3. CallsTyped
  BY <1>1, <1>2, NoCallTyped DEF CallsTyped
<1>4. InLine
  <2>1. Line(<<>>) /\ \A c : ~In(<<>>, c)
    BY DEF Line, In
  <2> QED
    BY <1>1, <1>2, <2>1, NoCallTyped DEF InLine
<1>5. Capped
  <2>1. ASSUME NEW p, NEW o, NEW k PROVE Users(p, o, k) = {}
    BY <1>1, NoCallTyped DEF Users, Uses, Holds
  <2>2. Cardinality({}) = 0 /\ PerKey \in Nat
    BY FS_EmptySet, CallAssumption
  <2> QED
    BY <2>1, <2>2 DEF Capped
<1>6. PipesTyped
  BY NewPipeTyped DEF PipesTyped
<1>7. Owned
  <2>1. \A t \in Tasks, l \in Lanes : call[<<t, l>>] = NoCall
    BY <1>1, GenerationAssumption
  <2> QED
    BY <2>1, NoCallBelongs DEF Owned
<1>8. SlotsHeld
  <2>1. Cardinality({}) = 0 /\ Capacity \in Nat
    BY FS_EmptySet, GenerationAssumption
  <2>2. \A t \in Tasks : pipe[t].stage \in {"caption", "draw"}
    BY NewPipeTyped
  <2>3. Cardinality(leases) =< Capacity
    BY <1>2, <2>1
  <2> QED
    BY <1>2, <2>2, <2>3 DEF SlotsHeld, Slotted, Stage
<1>9. RegistryTyped
  BY <1>2 DEF RegistryTyped
<1> QED
  BY <1>3, <1>4, <1>5, <1>6, <1>7, <1>8, <1>9 DEF PermitInv, CallsInv

\* The invariant of every behaviour.
LEMMA AlwaysPermit == Spec => [](Inv /\ PermitInv)
<1>1. Init => Inv /\ PermitInv
  BY InitInv, InitPermit
<1>2. Inv /\ PermitInv /\ [Next]_vars => (Inv /\ PermitInv)'
  BY NextInv, NextPermit DEF Inv
<1> QED
  BY <1>1, <1>2, PTL DEF Spec

---------------------------------------------------------------------------
(* The theorems.                                                           *)

\* A family of small sets.
LEMMA Covered ==
  ASSUME NEW O, IsFiniteSet(O), NEW n \in Nat, NEW F,
         \A o \in O : IsFiniteSet(F[o]) /\ Cardinality(F[o]) =< n
  PROVE  /\ IsFiniteSet(UNION {F[o] : o \in O})
         /\ Cardinality(UNION {F[o] : o \in O}) =< n * Cardinality(O)
<1> DEFINE Whole(P) == UNION {F[o] : o \in P}
           Fits(P) == IsFiniteSet(Whole(P)) /\ Cardinality(Whole(P)) =< n * Cardinality(P)
<1>1. PICK Bad : Bad = {P \in SUBSET O : ~Fits(P)}
  OBVIOUS
<1>2. ASSUME Bad # {} PROVE FALSE
  <2>1. IsWellFoundedOn(StrictSubsetOrdering(O), SUBSET O)
    BY FS_StrictSubsetOrderingWellFounded, FS_FiniteSubsetsOfFinite
  <2>2. Bad \subseteq SUBSET O
    BY <1>1
  <2>3. PICK P \in Bad : \A R \in Bad : <<R, P>> \notin StrictSubsetOrdering(O)
    BY <1>2, <2>1, <2>2, WFMin
  <2>4. P \in SUBSET O /\ ~Fits(P) /\ IsFiniteSet(P)
    BY <1>1, FS_Subset
  <2>5. P # {}
    <3>1. Whole({}) = {}
      OBVIOUS
    <3>2. IsFiniteSet({}) /\ Cardinality({}) = 0
      BY FS_EmptySet
    <3>3. n * 0 = 0 /\ 0 =< 0
      OBVIOUS
    <3>4. Fits({})
      BY <3>1, <3>2, <3>3
    <3> QED
      BY <2>4, <3>4
  <2>6. PICK o \in P : TRUE
    BY <2>5
  <2>7. PICK R : R = P \ {o}
    OBVIOUS
  <2>8. R \in SUBSET O /\ <<R, P>> \in StrictSubsetOrdering(O)
    BY <2>4, <2>7 DEF StrictSubsetOrdering
  <2>9. Fits(R)
    BY <1>1, <2>3, <2>8
  <2>10. PICK r, s, u : r = Cardinality(R) /\ s = Cardinality(Whole(R))
                        /\ u = Cardinality(F[o])
    OBVIOUS
  <2>11. Cardinality(P) = r + 1 /\ r \in Nat
    <3>1. IsFiniteSet(R) /\ Cardinality(R) = Cardinality(P) - 1
      BY <2>4, <2>7, FS_RemoveElement
    <3>2. Cardinality(R) \in Nat /\ Cardinality(P) \in Nat
      BY <2>4, <3>1, FS_CardinalityType
    <3> QED
      BY <2>10, <3>1, <3>2
  <2>12. IsFiniteSet(F[o]) /\ u =< n /\ u \in Nat /\ s \in Nat /\ s =< n * r
    BY <2>4, <2>9, <2>10, FS_CardinalityType
  <2>13. PICK A, B : A = Whole(R) /\ B = F[o]
    OBVIOUS
  <2>14. Whole(P) = A \cup B
    BY <2>7, <2>13
  <2>15. IsFiniteSet(A) /\ IsFiniteSet(B) /\ Cardinality(A) = s /\ Cardinality(B) = u
    BY <2>9, <2>10, <2>12, <2>13
  <2>16. /\ IsFiniteSet(A \cup B)
         /\ Cardinality(A \cup B) = s + u - Cardinality(A \cap B)
         /\ Cardinality(A \cap B) \in Nat
    <3>1. IsFiniteSet(A \cap B)
      BY <2>15, FS_Subset
    <3> QED
      BY <2>15, <3>1, FS_Union, FS_CardinalityType
  <2>17. Cardinality(A \cup B) =< n * (r + 1)
    <3>1. PICK k \in Nat : k = Cardinality(A \cap B)
      BY <2>16
    <3>2. PICK m \in Nat : m = n * r
      BY <2>11
    <3>3. n * (r + 1) = m + n
      BY <2>11, <3>2
    <3>4. s + u - k =< m + n
      BY <2>12, <3>2
    <3> QED
      BY <2>16, <3>1, <3>3, <3>4
  <2>18. Fits(P)
    BY <2>11, <2>14, <2>16, <2>17
  <2> QED
    BY <2>4, <2>18
<1>3. Fits(O)
  BY <1>1, <1>2
<1> QED
  BY <1>3

\* In every state the calls, the progress of the tasks, the registry, the slot
\* queues, the leases and the health row have the values of TypeOK: a call never
\* counts past its attempts or polls, and a task asks a provider there is.
THEOREM GenerationTypes == Spec => []TypeOK
<1>1. Inv /\ PermitInv => TypeOK
  <2> SUFFICES ASSUME Inv, PermitInv PROVE TypeOK
    OBVIOUS
  <2>1. CallTypeOK
    <3>1. ASSUME NEW c \in Calls
          PROVE  LET r == call[c]
                 IN /\ r.client \in Media \cup {"chat", "image"}
                    /\ r.provider \in Providers /\ r.first \in 0..r.provider
                    /\ r.pools \in [Providers -> Owners \cup {NoOwner}]
                    /\ r.using \subseteq r.features
                    /\ r.features \subseteq {"stream", "thinking"}
                    /\ r.loop \in {"fetch", "complete", "poll", "download"}
                    /\ r.at \in {"idle", "acquire", "wait", "request", "paced", "done"}
                    /\ r.key \in Keys \cup {NoKey}
                    /\ r.attempt \in 1..MaxAttempts
                    /\ r.polls \in 0..MaxPolls
                    /\ r.result \in Errors \cup {"none", "ok"}
      <4>1. CallTyped(call[c])
        BY DEF PermitInv, CallsInv, CallsTyped
      <4> QED
        BY <4>1 DEF CallTyped
    <3>2. waiters \in Seq(Calls) /\ limited \in Seq(Calls)
      BY DEF PermitInv, CallsInv, InLine, Line
    <3> QED
      BY <3>1, <3>2 DEF CallTypeOK
  <2>2. ASSUME NEW t \in Tasks
        PROVE  /\ pipe[t].stage \in Stages /\ pipe[t].next \in Nat
               /\ \A l \in Lanes : pipe[t].chunk[l] \in 0..Len(pipe[t].opt.chunks)
               /\ pipe[t].first \in Providers
               /\ pipe[t].pools \in [Providers -> Tasks \cup {NoOwner}]
               /\ pipe[t].outcome \in {"none", "produced", "nothing", "failed"}
    <3>1. PipeTyped(pipe[t])
      BY DEF PermitInv, PipesTyped
    <3> QED
      BY <3>1 DEF PipeTyped, Outcomes
  <2>3. prompts \in Seq(Tasks) /\ summaries \in Seq(Tasks)
    BY DEF Inv, Queues, Queue
  <2>4. health \in [failures : Nat, open : BOOLEAN]
    BY DEF Inv, PipeInv, HealthRow
  <2>5. /\ registry \in [Providers -> Tasks \cup {NoOwner}]
        /\ leases \in SUBSET Tasks
    BY DEF PermitInv, RegistryTyped, SlotsHeld
  <2> QED
    BY <2>1, <2>2, <2>3, <2>4, <2>5 DEF TypeOK
<1> QED
  BY <1>1, AlwaysPermit, PTL

\* Nothing is kept by what is over (PermitsReturned), for every number of tasks,
\* lanes, keys and slots: a dropped future is in no queue, every call that waits
\* is in its queue once, and a slot is held exactly by a task in a slotted stage.
THEOREM PermitsComeBack == Spec => []PermitsReturned
<1>1. Inv /\ PermitInv => PermitsReturned
  <2> SUFFICES ASSUME Inv, PermitInv PROVE PermitsReturned
    OBVIOUS
  <2>1. ASSUME NEW s, Line(s) PROVE IsInjective(s)
    BY <2>1 DEF Line, IsInjective
  <2>2. IsInjective(waiters) /\ IsInjective(limited)
    BY <2>1 DEF PermitInv, CallsInv, InLine
  <2>3. \A c \in Calls :
          /\ call[c].at = "wait" <=> \E i \in DOMAIN waiters : waiters[i] = c
          /\ call[c].at = "paced" <=> \E i \in DOMAIN limited : limited[i] = c
    BY DEF PermitInv, CallsInv, InLine, In
  <2>4. ASSUME NEW t \in Tasks
        PROVE  /\ t \in leases <=> Slotted(t)
               /\ Stage(t) = "wait for summary" <=> In(summaries, t)
               /\ Stage(t) = "wait for prompt" <=> In(prompts, t)
               /\ Resting(t) \/ Stage(t) \in MediaStages \cup LlmStages \cup {"drawing"}
    <3>1. ASSUME NEW q, NEW stage, Queue(q, stage, pipe)
          PROVE  In(q, t) => pipe[t].stage = stage
      <4>1. q \in Seq(Tasks) /\ \A i \in 1..Len(q) : pipe[q[i]].stage = stage
        BY <3>1 DEF Queue
      <4>2. DOMAIN q = 1..Len(q)
        BY <4>1
      <4> QED
        BY <4>1, <4>2, Zenon DEF In
    <3>2. In(summaries, t) => Stage(t) = "wait for summary"
      BY <3>1 DEF Inv, Queues, Stage
    <3>3. In(prompts, t) => Stage(t) = "wait for prompt"
      BY <3>1 DEF Inv, Queues, Stage
    <3>4. Resting(t) \/ Stage(t) \in Active
      BY AtRest
    <3> QED
      BY <3>2, <3>3, <3>4 DEF PermitInv, SlotsHeld, Active
  <2>5. Cardinality(leases) =< Capacity
    BY DEF PermitInv, SlotsHeld
  <2> QED
    BY <2>2, <2>3, <2>4, <2>5 DEF PermitsReturned, In
<1> QED
  BY <1>1, AlwaysPermit, PTL

\* The per-key cap (KeyCap), for every number of tasks, lanes, providers and keys:
\* a key serves at most PerKey requests for each live pool of its provider.
THEOREM KeysAreCapped == Spec => []KeyCap
<1>1. PermitInv => KeyCap
  <2> SUFFICES ASSUME PermitInv, NEW p \in Providers, NEW k \in Keys
               PROVE  Cardinality({c \in Calls :
                         /\ call[c].client = "chat" /\ call[c].provider = p
                         /\ call[c].key = k /\ Holds(call[c])})
                        =< PerKey * Cardinality(PoolsOf(p))
    BY DEF KeyCap
  <2>1. PICK S : S = {c \in Calls : /\ call[c].client = "chat" /\ call[c].provider = p
                                    /\ call[c].key = k /\ Holds(call[c])}
    OBVIOUS
  <2>2. PICK O : O = PoolsOf(p)
    OBVIOUS
  <2>3. PICK F : F = [o \in O |-> Users(p, o, k)]
    OBVIOUS
  <2>4. S \subseteq UNION {F[o] : o \in O}
    <3> SUFFICES ASSUME NEW c \in S PROVE \E o \in O : c \in F[o]
      OBVIOUS
    <3>1. /\ c \in Calls /\ call[c].client = "chat" /\ call[c].provider = p
          /\ call[c].key = k /\ Holds(call[c])
      BY <2>1
    <3>2. PICK t \in Tasks, l \in Lanes : c = <<t, l>>
      BY <3>1, GenerationAssumption
    <3>3. CallTyped(call[c]) /\ ~Resolved(call[c])
      <4>1. CallTyped(call[c])
        BY <3>1 DEF PermitInv, CallsInv, CallsTyped
      <4> QED
        BY <3>1, <4>1 DEF CallTyped, Holds
    <3>4. /\ pipe[t].stage \in LlmStages /\ call[c].pools = pipe[t].pools
          /\ p >= pipe[t].first
      BY <3>1, <3>2, <3>3 DEF PermitInv, Owned, Belongs
    <3>5. pipe[t].pools[p] # NoOwner
      <4>1. Complete(pipe[t])
        BY <3>4 DEF PermitInv, PipesTyped, PipeTyped, Pooled, LlmStages
      <4> QED
        BY <3>4, <4>1 DEF Complete
    <3>6. pipe[t].pools[p] \in O
      BY <2>2, <3>5 DEF PoolsOf
    <3>7. c \in Users(p, pipe[t].pools[p], k)
      BY <3>1, <3>4 DEF Users, Uses
    <3> QED
      BY <2>3, <3>6, <3>7
  <2>5. IsFiniteSet(O) /\ O \subseteq Owners
    <3>1. PICK G : G = [t \in Tasks |-> pipe[t].pools[p]]
      OBVIOUS
    <3>2. \A t \in Tasks : pipe[t].pools[p] \in Tasks \cup {NoOwner}
      BY DEF PermitInv, PipesTyped, PipeTyped
    <3>3. O \subseteq Tasks
      BY <2>2, <3>2 DEF PoolsOf
    <3> QED
      BY <3>3, GenerationAssumption, FS_Subset
  <2>6. \A o \in O : IsFiniteSet(F[o]) /\ Cardinality(F[o]) =< PerKey
    BY <2>3, <2>5, UsersFinite DEF PermitInv, CallsInv, Capped
  <2>7. PICK n \in Nat : n = PerKey
    BY CallAssumption
  <2>8. PICK U : U = UNION {F[o] : o \in O}
    OBVIOUS
  <2>9. IsFiniteSet(U) /\ Cardinality(U) =< n * Cardinality(O)
    BY <2>5, <2>6, <2>7, <2>8, Covered
  <2>10. S \subseteq U
    BY <2>4, <2>8
  <2>11. Cardinality(S) =< Cardinality(U) /\ Cardinality(S) \in Nat
    BY <2>9, <2>10, FS_Subset, FS_CardinalityType
  <2>12. PICK w \in Nat : w = Cardinality(O)
    BY <2>5, FS_CardinalityType
  <2>13. PICK u \in Nat, m \in Nat : u = Cardinality(U) /\ m = n * w
    BY <2>9, FS_CardinalityType
  <2>14. Cardinality(S) =< m
    BY <2>9, <2>11, <2>12, <2>13
  <2> QED
    BY <2>1, <2>2, <2>7, <2>12, <2>13, <2>14
<1> QED
  BY <1>1, AlwaysPermit, PTL

---------------------------------------------------------------------------
(* The parts of a chunk: how they cover it.                                *)

\* The parts a lane has yet to summarise follow what it has summarised: the
\* chunk is cut at k[0], k[1], ... up to its end.
Cuts(k, work, out, chunk) ==
  /\ k \in [0..Len(work) -> 0..Len(chunk)]
  /\ out = SubSeq(chunk, 1, k[0])
  /\ k[Len(work)] = Len(chunk)
  /\ \A j \in 1..Len(work) :
       k[j - 1] =< k[j] /\ work[j] = SubSeq(chunk, k[j - 1] + 1, k[j])

\* A lane has parts left, and with what it has they make up its chunk.
Covers(work, out, chunk) ==
  /\ work \in Seq(Seq(Nat)) /\ work # <<>>
  /\ \E k : Cuts(k, work, out, chunk)

\* A lane begins with the whole chunk.
LEMMA BeginsCovering ==
  ASSUME NEW chunk \in Seq(Nat) PROVE Covers(<<chunk>>, <<>>, chunk)
<1>1. PICK n \in Nat : n = Len(chunk)
  BY LenProperties
<1>2. PICK work : work = <<chunk>>
  OBVIOUS
<1>3. work \in Seq(Seq(Nat)) /\ work # <<>> /\ Len(work) = 1 /\ work[1] = chunk
  BY <1>2
<1>4. PICK k : k = [j \in 0..1 |-> IF j = 0 THEN 0 ELSE n]
  OBVIOUS
<1>5. k \in [0..1 -> 0..n] /\ k[0] = 0 /\ k[1] = n
  BY <1>1, <1>4
<1>6. SubSeq(chunk, 1, 0) = <<>> /\ SubSeq(chunk, 1, n) = chunk
  BY <1>1, SubSeqEmpty, SubSeqFull
<1>7. ASSUME NEW j \in 1..1
      PROVE  k[j - 1] =< k[j] /\ work[j] = SubSeq(chunk, k[j - 1] + 1, k[j])
  <2>1. j = 1 /\ j - 1 = 0 /\ 0 + 1 = 1
    OBVIOUS
  <2>2. k[j - 1] = 0 /\ k[j] = n /\ work[j] = chunk
    BY <1>3, <1>5, <2>1
  <2> QED
    BY <1>1, <1>6, <2>1, <2>2
<1>8. Cuts(k, work, <<>>, chunk)
  BY <1>1, <1>3, <1>5, <1>6, <1>7 DEF Cuts
<1> QED
  BY <1>2, <1>3, <1>8 DEF Covers

\* A part is summarised.
LEMMA PartCovered ==
  ASSUME NEW chunk \in Seq(Nat), NEW work, NEW out, Covers(work, out, chunk),
         NEW new, new = out \o Head(work)
  PROVE  IF Tail(work) = <<>> THEN new = chunk ELSE Covers(Tail(work), new, chunk)
<1>1. work \in Seq(Seq(Nat)) /\ work # <<>>
  BY DEF Covers
<1>2. PICK k : Cuts(k, work, out, chunk)
  BY DEF Covers
<1>3. PICK w \in Nat \ {0}, n \in Nat : w = Len(work) /\ n = Len(chunk)
  BY <1>1, LenProperties, EmptySeq
<1>4. \A j \in 0..w : k[j] \in 0..n
  BY <1>2, <1>3 DEF Cuts
<1>5. Head(work) = work[1]
  BY <1>1
<1>6. k[0] \in 0..n /\ k[1] \in 0..n /\ k[0] =< k[1]
  <2>1. 0 \in 0..w /\ 1 \in 0..w /\ 1 \in 1..w /\ 1 - 1 = 0
    BY <1>3
  <2> QED
    BY <1>2, <1>3, <1>4, <2>1 DEF Cuts
<1>7. out = SubSeq(chunk, 1, k[0]) /\ Head(work) = SubSeq(chunk, k[0] + 1, k[1])
  <2>1. 1 \in 1..w /\ 1 - 1 = 0
    BY <1>3
  <2> QED
    BY <1>2, <1>3, <1>5, <2>1 DEF Cuts
<1>8. new = SubSeq(chunk, 1, k[1])
  <2>1. PICK a, b : a = k[0] /\ b = k[1]
    OBVIOUS
  <2>2. 1 \in 1..(Len(chunk) + 1) /\ a \in (1 - 1)..Len(chunk) /\ b \in a..Len(chunk)
    BY <1>3, <1>6, <2>1
  <2>3. SubSeq(chunk, 1, a) \o SubSeq(chunk, a + 1, b) = SubSeq(chunk, 1, b)
    BY <2>2, ConcatAdjacentSubSeq
  <2> QED
    BY <1>7, <2>1, <2>3
<1>9. PICK rest : rest = Tail(work)
  OBVIOUS
<1>10. /\ rest \in Seq(Seq(Nat)) /\ Len(rest) = w - 1
       /\ \A i \in 1..(w - 1) : rest[i] = work[i + 1]
  BY <1>1, <1>3, <1>9, HeadTailProperties
<1>11. CASE rest = <<>>
  <2>1. w = 1
    <3>1. Len(rest) = 0
      BY <1>11
    <3>2. w - 1 = 0
      BY <1>10, <3>1
    <3>3. w \in Nat
      OBVIOUS
    <3> QED
      BY <3>2, <3>3
  <2>2. k[1] = n
    BY <1>2, <1>3, <2>1 DEF Cuts
  <2> QED
    BY <1>3, <1>8, <1>9, <1>11, <2>2, SubSeqFull
<1>12. CASE rest # <<>>
  <2>1. PICK m \in Nat : m = w - 1
    BY <1>3
  <2>2. PICK h : h = [j \in 0..m |-> k[j + 1]]
    OBVIOUS
  <2>3. \A j \in 0..m : j + 1 \in 0..w
    BY <2>1
  <2>4. h \in [0..m -> 0..n]
    BY <1>4, <2>2, <2>3
  <2>5. h[0] = k[1] /\ h[m] = n
    <3>1. 0 \in 0..m /\ m \in 0..m /\ m + 1 = w /\ 0 + 1 = 1
      BY <2>1
    <3> QED
      BY <1>2, <1>3, <2>2, <3>1 DEF Cuts
  <2>6. ASSUME NEW j \in 1..m
        PROVE  h[j - 1] =< h[j] /\ rest[j] = SubSeq(chunk, h[j - 1] + 1, h[j])
    <3>1. PICK i \in 1..w : i = j + 1
      BY <2>1
    <3>2. j - 1 \in 0..m /\ j \in 0..m /\ (j - 1) + 1 = i - 1 /\ j \in 1..(w - 1)
      BY <2>1, <3>1
    <3>3. h[j - 1] = k[i - 1] /\ h[j] = k[i] /\ rest[j] = work[i]
      BY <1>10, <2>2, <3>1, <3>2
    <3>4. k[i - 1] =< k[i] /\ work[i] = SubSeq(chunk, k[i - 1] + 1, k[i])
      BY <1>2, <1>3, <3>1 DEF Cuts
    <3> QED
      BY <3>3, <3>4
  <2>7. Cuts(h, rest, new, chunk)
    BY <1>3, <1>8, <1>10, <2>1, <2>4, <2>5, <2>6 DEF Cuts
  <2> QED
    BY <1>9, <1>10, <1>12, <2>7 DEF Covers
<1> QED
  BY <1>9, <1>11, <1>12

\* A part is split in halves, and the left half comes first.
LEMMA HalvesCovered ==
  ASSUME NEW chunk \in Seq(Nat), NEW work, NEW out, Covers(work, out, chunk),
         Len(Head(work)) > 1, NEW parts, parts = Halves(Head(work)) \o Tail(work)
  PROVE  Covers(parts, out, chunk)
<1>1. work \in Seq(Seq(Nat)) /\ work # <<>>
  BY DEF Covers
<1>2. PICK k : Cuts(k, work, out, chunk)
  BY DEF Covers
<1>3. PICK w \in Nat \ {0}, n \in Nat : w = Len(work) /\ n = Len(chunk)
  BY <1>1, LenProperties, EmptySeq
<1>4. \A j \in 0..w : k[j] \in 0..n
  BY <1>2, <1>3 DEF Cuts
<1>5. PICK a \in 0..n, b \in 0..n : a = k[0] /\ b = k[1]
  <2>1. 0 \in 0..w /\ 1 \in 0..w
    BY <1>3
  <2> QED
    BY <1>4, <2>1
<1>6. PICK part : part = Head(work)
  OBVIOUS
<1>7. a =< b /\ part = SubSeq(chunk, a + 1, b)
  <2>1. 1 \in 1..w /\ 1 - 1 = 0 /\ Head(work) = work[1]
    BY <1>1, <1>3
  <2> QED
    BY <1>2, <1>3, <1>5, <1>6, <2>1 DEF Cuts
<1>8. part \in Seq(Nat) /\ Len(part) = b - a /\ b - a > 1
  <2>1. \A i \in (a + 1)..b : chunk[i] \in Nat
    BY <1>3, <1>5, ElementOfSeq
  <2>2. Len(part) = IF a + 1 <= b THEN b - (a + 1) + 1 ELSE 0
    BY <1>5, <1>7, <2>1, SubSeqProperties
  <2>3. part \in Seq(Nat)
    BY <1>5, <1>7, <2>1, SubSeqProperties
  <2>4. PICK d : d = Len(part)
    OBVIOUS
  <2>5. d > 1 /\ d = IF a + 1 <= b THEN b - (a + 1) + 1 ELSE 0
    BY <1>6, <2>2, <2>4
  <2>6. a \in Nat /\ b \in Nat /\ a =< b
    BY <1>7
  <2>7. d = b - a
    BY <2>5, <2>6
  <2> QED
    BY <2>3, <2>4, <2>5, <2>7
<1>9. PICK m : m = Len(part) \div 2
  OBVIOUS
<1>10. m \in Nat /\ 1 =< m /\ m < b - a
  <2>1. PICK d \in Nat : d = b - a
    BY <1>5, <1>7
  <2>2. m = d \div 2 /\ d > 1
    BY <1>8, <1>9, <2>1
  <2>3. m \in Nat /\ 1 =< m /\ m < d
    BY <2>2
  <2> QED
    BY <2>1, <2>3
<1>11. PICK left, right :
         /\ left = SubSeq(part, 1, m) /\ right = SubSeq(part, m + 1, Len(part))
  OBVIOUS
<1>12. PICK c \in 0..n : c = a + m
  BY <1>5, <1>10
<1>13. /\ left = SubSeq(chunk, a + 1, c) /\ right = SubSeq(chunk, c + 1, b)
       /\ a =< c /\ c =< b
  <2>1. /\ a + 1 \in 1..Len(chunk) /\ b \in 1..Len(chunk)
        /\ 1 \in 1..(b - (a + 1) + 1) /\ m \in 1..(b - (a + 1) + 1)
        /\ m + 1 \in 1..(b - (a + 1) + 1) /\ b - a \in 1..(b - (a + 1) + 1)
    <3>1. /\ a \in Nat /\ b \in Nat /\ n \in Nat /\ b =< n
          /\ m \in Nat /\ 1 =< m /\ m < b - a
      BY <1>10
    <3>2. /\ a + 1 \in 1..n /\ b \in 1..n /\ b - (a + 1) + 1 = b - a
          /\ 1 \in 1..(b - a) /\ m \in 1..(b - a)
          /\ m + 1 \in 1..(b - a) /\ b - a \in 1..(b - a)
      BY <3>1
    <3> QED
      BY <1>3, <3>2
  <2>2. /\ SubSeq(part, 1, m) = SubSeq(chunk, (a + 1) + 1 - 1, (a + 1) + m - 1)
        /\ SubSeq(part, m + 1, b - a)
             = SubSeq(chunk, (a + 1) + (m + 1) - 1, (a + 1) + (b - a) - 1)
    BY <1>7, <2>1, SubSeqOfSubSeq
  <2>3. /\ (a + 1) + 1 - 1 = a + 1 /\ (a + 1) + m - 1 = c
        /\ (a + 1) + (m + 1) - 1 = c + 1 /\ (a + 1) + (b - a) - 1 = b
        /\ a =< c /\ c =< b
    <3>1. a \in Nat /\ b \in Nat /\ m \in Nat /\ c = a + m /\ m < b - a
      BY <1>10, <1>12
    <3> QED
      BY <3>1
  <2> QED
    BY <1>8, <1>11, <2>2, <2>3
<1>14. PICK rest : rest = Tail(work)
  OBVIOUS
<1>15. /\ rest \in Seq(Seq(Nat)) /\ Len(rest) = w - 1
       /\ \A i \in 1..(w - 1) : rest[i] = work[i + 1]
  BY <1>1, <1>3, <1>14, HeadTailProperties
<1>16. left \in Seq(Nat) /\ right \in Seq(Nat)
  <2>1. PICK d \in Nat : d = Len(part) /\ m < d
    BY <1>8, <1>10, LenProperties
  <2>2. \A i \in 1..d : part[i] \in Nat
    BY <1>8, <2>1, ElementOfSeq
  <2>3. (\A i \in 1..m : i \in 1..d) /\ (\A i \in (m + 1)..d : i \in 1..d)
    BY <1>10, <2>1
  <2>4. (\A i \in 1..m : part[i] \in Nat) /\ (\A i \in (m + 1)..d : part[i] \in Nat)
    BY <2>2, <2>3
  <2>5. 1 \in Int /\ m \in Int /\ m + 1 \in Int /\ d \in Int
    BY <1>10
  <2> QED
    BY <1>11, <2>1, <2>4, <2>5, SubSeqProperties
<1>17. PICK halves : halves = <<left, right>>
  OBVIOUS
<1>18. /\ halves \in Seq(Seq(Nat)) /\ Len(halves) = 2
       /\ halves[1] = left /\ halves[2] = right
  BY <1>16, <1>17
<1>19. parts = halves \o rest
  BY <1>6, <1>9, <1>11, <1>14, <1>17 DEF Halves
<1>20. /\ parts \in Seq(Seq(Nat)) /\ Len(parts) = w + 1
       /\ \A i \in 1..(w + 1) : parts[i] = IF i <= 2 THEN halves[i] ELSE rest[i - 2]
  <2>1. /\ parts \in Seq(Seq(Nat)) /\ Len(parts) = Len(halves) + Len(rest)
        /\ \A i \in 1..(Len(halves) + Len(rest)) :
             parts[i] = IF i <= Len(halves) THEN halves[i] ELSE rest[i - Len(halves)]
    <3>1. halves \in Seq(Seq(Nat)) /\ rest \in Seq(Seq(Nat))
      BY <1>15, <1>18
    <3>2. PICK S : S = Seq(Nat)
      OBVIOUS
    <3>3. halves \in Seq(S) /\ rest \in Seq(S)
      BY <3>1, <3>2
    <3>4. /\ halves \o rest \in Seq(S)
          /\ Len(halves \o rest) = Len(halves) + Len(rest)
          /\ \A i \in 1..(Len(halves) + Len(rest)) :
               (halves \o rest)[i] =
                 IF i <= Len(halves) THEN halves[i] ELSE rest[i - Len(halves)]
      BY <3>3, ConcatProperties
    <3> QED
      BY <1>19, <3>2, <3>4
  <2>2. Len(halves) + Len(rest) = w + 1
    BY <1>3, <1>15, <1>18
  <2> QED
    BY <1>18, <2>1, <2>2
<1>21. parts # <<>>
  <2>1. Len(parts) # 0
    BY <1>3, <1>20
  <2> QED
    BY <2>1
<1>22. PICK h :
         h = [j \in 0..(w + 1) |-> IF j = 0 THEN a ELSE IF j = 1 THEN c ELSE k[j - 1]]
  OBVIOUS
<1>23. h \in [0..(w + 1) -> 0..n]
  <2>1. \A j \in 0..(w + 1) : j # 0 => j - 1 \in 0..w
    BY <1>3
  <2> QED
    BY <1>4, <1>22, <2>1
<1>24. h[0] = k[0] /\ h[w + 1] = n
  <2>1. /\ 0 \in 0..(w + 1) /\ w + 1 \in 0..(w + 1)
        /\ w + 1 # 0 /\ w + 1 # 1 /\ (w + 1) - 1 = w
    BY <1>3
  <2>2. k[w] = n
    BY <1>2, <1>3 DEF Cuts
  <2> QED
    BY <1>5, <1>22, <2>1, <2>2
<1>25. ASSUME NEW j \in 1..(w + 1)
       PROVE  h[j - 1] =< h[j] /\ parts[j] = SubSeq(chunk, h[j - 1] + 1, h[j])
  <2>1. CASE j = 1
    <3>1. j - 1 = 0 /\ 0 \in 0..(w + 1) /\ 1 \in 0..(w + 1) /\ 1 <= 2
      BY <1>3, <2>1
    <3>2. h[0] = a /\ h[1] = c
      BY <1>22, <3>1
    <3>3. parts[1] = left
      <4>1. 1 \in 1..(w + 1)
        BY <1>3
      <4>2. parts[1] = halves[1]
        BY <1>20, <3>1, <4>1
      <4> QED
        BY <1>18, <4>2
    <3>4. h[j - 1] = a /\ h[j] = c /\ parts[j] = left
      BY <2>1, <3>1, <3>2, <3>3
    <3> QED
      BY <1>13, <3>4
  <2>2. CASE j = 2
    <3>1. j - 1 = 1 /\ 1 \in 0..(w + 1) /\ 2 \in 0..(w + 1) /\ 2 <= 2 /\ 2 - 1 = 1
      BY <1>3, <2>2
    <3>2. h[1] = c /\ h[2] = b
      BY <1>5, <1>22, <3>1
    <3>3. parts[2] = right
      <4>1. 2 \in 1..(w + 1)
        BY <1>3
      <4>2. parts[2] = halves[2]
        BY <1>20, <3>1, <4>1
      <4> QED
        BY <1>18, <4>2
    <3>4. h[j - 1] = c /\ h[j] = b /\ parts[j] = right
      BY <2>2, <3>1, <3>2, <3>3
    <3> QED
      BY <1>13, <3>4
  <2>3. CASE j > 2
    <3>1. PICK i \in 1..w : i = j - 1
      BY <1>3, <2>3
    <3>2. /\ j - 1 \in 0..(w + 1) /\ j \in 0..(w + 1) /\ j - 1 # 0 /\ j - 1 # 1
          /\ j # 0 /\ j # 1 /\ (j - 1) - 1 = i - 1 /\ ~(j <= 2)
          /\ j - 2 \in 1..(w - 1) /\ (j - 2) + 1 = i
      BY <1>3, <2>3, <3>1
    <3>3. h[j - 1] = k[i - 1] /\ h[j] = k[i]
      BY <1>22, <3>1, <3>2
    <3>4. parts[j] = work[i]
      BY <1>15, <1>20, <3>2
    <3>5. k[i - 1] =< k[i] /\ work[i] = SubSeq(chunk, k[i - 1] + 1, k[i])
      BY <1>2, <1>3, <3>1 DEF Cuts
    <3> QED
      BY <3>3, <3>4, <3>5
  <2>4. j = 1 \/ j = 2 \/ j > 2
    OBVIOUS
  <2> QED
    BY <2>1, <2>2, <2>3, <2>4
<1>26. Cuts(h, parts, out, chunk)
  <2>1. out = SubSeq(chunk, 1, h[0])
    BY <1>2, <1>24 DEF Cuts
  <2> QED
    BY <1>3, <1>20, <1>23, <1>24, <1>25, <2>1 DEF Cuts
<1> QED
  BY <1>20, <1>21, <1>26 DEF Covers

---------------------------------------------------------------------------
(* The lanes of a text: what they have and what they have summarised.      *)

\* A text under way: the busy lanes have a chunk each, among those taken, and
\* cover the rest of it; no other chunk is begun; and unless a chunk was lost,
\* every other chunk that was taken is summarised.
Summarising(cs, work, chunk, next, out, error, busy) ==
  /\ next \in 1..(Len(cs) + 1)
  /\ next > 1 => /\ out = [i \in 1..Len(cs) |-> out[i]]
                 /\ \A i \in next..Len(cs) : out[i] = <<>>
  /\ \A l \in busy : /\ chunk[l] \in 1..(next - 1)
                     /\ Covers(work[l], out[chunk[l]], cs[chunk[l]])
  /\ \A l, m \in busy : chunk[l] = chunk[m] => l = m
  /\ ~error => \A i \in 1..(next - 1) :
                 out[i] = cs[i] \/ \E l \in busy : chunk[l] = i

\* A stage starts with nothing done.
LEMMA NoneTaken ==
  ASSUME NEW cs \in Seq(Seq(Nat)), NEW work, NEW chunk, NEW out, NEW error
  PROVE  Summarising(cs, work, chunk, 1, out, error, {})
<1>1. PICK n \in Nat : n = Len(cs)
  BY LenProperties
<1>2. 1 \in 1..(Len(cs) + 1) /\ ~(1 > 1) /\ 1..(1 - 1) = {}
  BY <1>1
<1> QED
  BY <1>2 DEF Summarising

\* A lane takes the next chunk.
Takes(l, cs, work, chunk, next, out, busy, works, chunks, outs) ==
  /\ next =< Len(cs) /\ l \notin busy
  /\ works[l] = <<cs[next]>> /\ chunks[l] = next
  /\ \A m \in busy : works[m] = work[m] /\ chunks[m] = chunk[m]
  /\ outs = IF next = 1 THEN [i \in 1..Len(cs) |-> <<>>] ELSE out

LEMMA ChunkTaken ==
  ASSUME NEW cs \in Seq(Seq(Nat)), NEW work, NEW chunk, NEW next, NEW out, NEW error,
         NEW busy, Summarising(cs, work, chunk, next, out, error, busy),
         NEW l, NEW works, NEW chunks, NEW outs,
         Takes(l, cs, work, chunk, next, out, busy, works, chunks, outs)
  PROVE  Summarising(cs, works, chunks, next + 1, outs, error, busy \cup {l})
<1>1. PICK n \in Nat : n = Len(cs)
  BY LenProperties
<1> /\ next =< Len(cs) /\ l \notin busy
    /\ works[l] = <<cs[next]>> /\ chunks[l] = next
    /\ \A m \in busy : works[m] = work[m] /\ chunks[m] = chunk[m]
    /\ outs = IF next = 1 THEN [i \in 1..Len(cs) |-> <<>>] ELSE out
  BY DEF Takes
<1>2. next \in 1..n
  BY <1>1 DEF Summarising
<1>3. outs = [i \in 1..n |-> outs[i]] /\ \A i \in next..n : outs[i] = <<>>
  <2>1. CASE next = 1
    BY <1>1, <2>1
  <2>2. CASE next # 1
    BY <1>1, <1>2, <2>2 DEF Summarising
  <2> QED
    BY <2>1, <2>2
<1>4. \A i \in 1..(next - 1) : outs[i] = out[i]
  BY <1>2
<1>5. /\ next + 1 \in 1..(n + 1) /\ next \in 1..n /\ next \in next..n
      /\ (next + 1) - 1 = next /\ next \in 1..next
      /\ \A i \in 1..(next - 1) : i \in 1..next /\ i # next
      /\ \A i \in 1..next : i = next \/ i \in 1..(next - 1)
      /\ \A i \in (next + 1)..n : i \in next..n
  BY <1>2
<1>6. Covers(works[l], outs[chunks[l]], cs[chunks[l]])
  <2>1. cs[next] \in Seq(Nat)
    BY <1>1, <1>2, ElementOfSeq
  <2>2. Covers(<<cs[next]>>, <<>>, cs[next])
    BY <2>1, BeginsCovering
  <2>3. outs[next] = <<>>
    BY <1>3, <1>5
  <2> QED
    BY <2>2, <2>3
<1>7. ASSUME NEW m \in busy
      PROVE  /\ chunks[m] = chunk[m] /\ chunks[m] \in 1..(next - 1) /\ chunks[m] # next
             /\ Covers(works[m], outs[chunks[m]], cs[chunks[m]])
  <2>1. chunk[m] \in 1..(next - 1) /\ Covers(work[m], out[chunk[m]], cs[chunk[m]])
    BY DEF Summarising
  <2>2. works[m] = work[m] /\ chunks[m] = chunk[m]
    OBVIOUS
  <2> QED
    BY <1>4, <1>5, <2>1, <2>2
<1>8. ASSUME NEW m \in busy \cup {l}
      PROVE  /\ chunks[m] \in 1..((next + 1) - 1)
             /\ Covers(works[m], outs[chunks[m]], cs[chunks[m]])
  BY <1>5, <1>6, <1>7
<1>9. ASSUME NEW k \in busy \cup {l}, NEW m \in busy \cup {l}, chunks[k] = chunks[m]
      PROVE  k = m
  <2>1. CASE k \in busy /\ m \in busy
    <3>1. chunk[k] = chunk[m]
      BY <1>7, <1>9, <2>1
    <3> QED
      BY <2>1, <3>1 DEF Summarising
  <2> QED
    BY <1>7, <1>9, <2>1
<1>10. ASSUME ~error, NEW i \in 1..((next + 1) - 1)
       PROVE  outs[i] = cs[i] \/ \E m \in busy \cup {l} : chunks[m] = i
  <2>1. CASE i = next
    BY <2>1
  <2>2. CASE i \in 1..(next - 1)
    <3>1. out[i] = cs[i] \/ \E m \in busy : chunk[m] = i
      BY <1>10, <2>2 DEF Summarising
    <3> QED
      BY <1>4, <1>7, <2>2, <3>1
  <2> QED
    BY <1>5, <2>1, <2>2
<1>11. \A i \in (next + 1)..n : outs[i] = <<>>
  BY <1>3, <1>5
<1> QED
  BY <1>1, <1>3, <1>5, <1>8, <1>9, <1>10, <1>11 DEF Summarising

\* A lane has the answer to its part, and goes on or is free.
Answers(l, work, chunk, out, busy, works, outs, still) ==
  /\ l \in busy /\ works[l] = Tail(work[l])
  /\ \A m \in busy \ {l} : works[m] = work[m]
  /\ outs = [out EXCEPT ![chunk[l]] = out[chunk[l]] \o Head(work[l])]
  /\ still = IF Tail(work[l]) = <<>> THEN busy \ {l} ELSE busy

LEMMA PartAnswered ==
  ASSUME NEW cs \in Seq(Seq(Nat)), NEW work, NEW chunk, NEW next, NEW out, NEW error,
         NEW busy, Summarising(cs, work, chunk, next, out, error, busy),
         NEW l, NEW works, NEW outs, NEW still,
         Answers(l, work, chunk, out, busy, works, outs, still)
  PROVE  Summarising(cs, works, chunk, next, outs, error, still)
<1>1. PICK n \in Nat : n = Len(cs)
  BY LenProperties
<1>2. PICK c : c = chunk[l]
  OBVIOUS
<1>3. c \in 1..(next - 1) /\ next \in 1..(n + 1) /\ Covers(work[l], out[c], cs[c])
  BY <1>1, <1>2 DEF Summarising, Answers
<1>4. c \in 1..n /\ next > 1 /\ \A i \in next..n : i # c /\ i \in 1..n
  BY <1>3
<1> /\ l \in busy /\ works[l] = Tail(work[l])
    /\ \A m \in busy \ {l} : works[m] = work[m]
    /\ outs = [out EXCEPT ![chunk[l]] = out[chunk[l]] \o Head(work[l])]
    /\ still = IF Tail(work[l]) = <<>> THEN busy \ {l} ELSE busy
  BY DEF Answers
<1>5. out = [i \in 1..n |-> out[i]]
  BY <1>1, <1>4 DEF Summarising
<1>6. PICK new : new = out[c] \o Head(work[l])
  OBVIOUS
<1>7. outs = [i \in 1..n |-> IF i = c THEN new ELSE out[i]]
  BY <1>2, <1>4, <1>5, <1>6
<1>8. cs[c] \in Seq(Nat)
  BY <1>1, <1>4, ElementOfSeq
<1>9. IF Tail(work[l]) = <<>> THEN new = cs[c] ELSE Covers(Tail(work[l]), new, cs[c])
  <2>1. PICK w, o, whole : w = work[l] /\ o = out[c] /\ whole = cs[c]
    OBVIOUS
  <2>2. whole \in Seq(Nat) /\ Covers(w, o, whole) /\ new = o \o Head(w)
    BY <1>3, <1>6, <1>8, <2>1
  <2>3. IF Tail(w) = <<>> THEN new = whole ELSE Covers(Tail(w), new, whole)
    BY <2>2, PartCovered
  <2> QED
    BY <2>1, <2>3
<1>10. still \subseteq busy
  OBVIOUS
<1>11. ASSUME NEW m \in still
       PROVE  /\ chunk[m] \in 1..(next - 1)
              /\ Covers(works[m], outs[chunk[m]], cs[chunk[m]])
  <2>1. m \in busy /\ chunk[m] \in 1..(next - 1)
    BY <1>10 DEF Summarising
  <2>2. CASE m = l
    <3>1. Tail(work[l]) # <<>>
      BY <2>2
    <3>2. Covers(works[m], new, cs[c])
      BY <1>9, <2>2, <3>1
    <3>3. outs[c] = new
      BY <1>4, <1>7
    <3> QED
      BY <1>2, <2>1, <2>2, <3>2, <3>3
  <2>3. CASE m # l
    <3>1. chunk[m] # c
      BY <1>2, <2>1, <2>3 DEF Summarising
    <3>2. chunk[m] \in 1..n
      BY <1>3, <2>1
    <3>3. outs[chunk[m]] = out[chunk[m]]
      BY <1>7, <3>1, <3>2
    <3>4. works[m] = work[m] /\ Covers(work[m], out[chunk[m]], cs[chunk[m]])
      BY <2>1, <2>3 DEF Summarising
    <3> QED
      BY <2>1, <3>3, <3>4
  <2> QED
    BY <2>2, <2>3
<1>12. ASSUME NEW k \in still, NEW m \in still, chunk[k] = chunk[m] PROVE k = m
  BY <1>10, <1>12 DEF Summarising
<1>13. ASSUME ~error, NEW i \in 1..(next - 1)
       PROVE  outs[i] = cs[i] \/ \E m \in still : chunk[m] = i
  <2>1. out[i] = cs[i] \/ \E m \in busy : chunk[m] = i
    BY <1>13 DEF Summarising
  <2>2. i \in 1..n
    BY <1>3
  <2>3. CASE i = c
    <3>1. CASE Tail(work[l]) = <<>>
      BY <1>7, <1>9, <2>2, <2>3, <3>1
    <3>2. CASE Tail(work[l]) # <<>>
      BY <1>2, <2>3, <3>2
    <3> QED
      BY <3>1, <3>2
  <2>4. CASE i # c
    BY <1>2, <1>7, <2>1, <2>2, <2>4
  <2> QED
    BY <2>3, <2>4
<1>14. outs = [i \in 1..n |-> outs[i]] /\ \A i \in next..n : outs[i] = <<>>
  <2>1. \A i \in next..n : out[i] = <<>>
    BY <1>1, <1>4 DEF Summarising
  <2> QED
    BY <1>4, <1>7, <2>1
<1> QED
  BY <1>1, <1>3, <1>11, <1>12, <1>13, <1>14 DEF Summarising

\* A lane has its part in halves.
Halved(l, work, busy, works) ==
  /\ l \in busy /\ Len(Head(work[l])) > 1
  /\ works[l] = Halves(Head(work[l])) \o Tail(work[l])
  /\ \A m \in busy \ {l} : works[m] = work[m]

LEMMA PartHalved ==
  ASSUME NEW cs \in Seq(Seq(Nat)), NEW work, NEW chunk, NEW next, NEW out, NEW error,
         NEW busy, Summarising(cs, work, chunk, next, out, error, busy),
         NEW l, NEW works, Halved(l, work, busy, works)
  PROVE  Summarising(cs, works, chunk, next, out, error, busy) /\ works[l] # <<>>
<1> /\ l \in busy /\ Len(Head(work[l])) > 1
    /\ works[l] = Halves(Head(work[l])) \o Tail(work[l])
    /\ \A m \in busy \ {l} : works[m] = work[m]
  BY DEF Halved
<1>1. PICK n \in Nat : n = Len(cs)
  BY LenProperties
<1>2. ASSUME NEW m \in busy
      PROVE  /\ chunk[m] \in 1..(next - 1)
             /\ Covers(works[m], out[chunk[m]], cs[chunk[m]])
  <2>1. /\ chunk[m] \in 1..(next - 1) /\ next \in 1..(n + 1)
        /\ Covers(work[m], out[chunk[m]], cs[chunk[m]])
    BY <1>1 DEF Summarising
  <2>2. CASE m = l
    <3>1. chunk[m] \in 1..Len(cs)
      BY <1>1, <2>1
    <3>2. cs[chunk[m]] \in Seq(Nat)
      BY <3>1, ElementOfSeq
    <3>3. Covers(works[l], out[chunk[m]], cs[chunk[m]])
      BY <2>1, <2>2, <3>2, HalvesCovered
    <3> QED
      BY <2>1, <2>2, <3>3
  <2>3. CASE m # l
    BY <2>1, <2>3
  <2> QED
    BY <2>2, <2>3
<1>3. works[l] # <<>>
  BY <1>2 DEF Covers
<1> QED
  BY <1>2, <1>3 DEF Summarising

\* A lane has lost its chunk.
LEMMA ChunkLost ==
  ASSUME NEW cs, NEW work, NEW chunk, NEW next, NEW out, NEW error,
         NEW busy, Summarising(cs, work, chunk, next, out, error, busy),
         NEW l \in busy, NEW works, \A m \in busy \ {l} : works[m] = work[m]
  PROVE  Summarising(cs, works, chunk, next, out, TRUE, busy \ {l})
BY DEF Summarising

\* Every chunk was taken, no lane is busy and none was lost.
LEMMA AllSummarised ==
  ASSUME NEW cs \in Seq(Seq(Nat)), NEW work, NEW chunk, NEW next, NEW out, NEW error,
         Summarising(cs, work, chunk, next, out, error, {}), next > Len(cs),
         cs # <<>>, ~error
  PROVE  out = cs
<1>1. PICK n \in Nat \ {0} : n = Len(cs)
  BY LenProperties, EmptySeq
<1>2. next = n + 1 /\ next > 1 /\ next - 1 = n
  BY <1>1 DEF Summarising
<1>3. out = [i \in 1..n |-> out[i]]
  BY <1>1, <1>2 DEF Summarising
<1>4. \A i \in 1..n : out[i] = cs[i]
  BY <1>2 DEF Summarising
<1>5. cs = [i \in 1..n |-> cs[i]]
  BY <1>1, LenProperties
<1> QED
  BY <1>3, <1>4, <1>5

---------------------------------------------------------------------------
(* The progress of a task and the text it will hand over.                  *)

\* The lanes that have a chunk.
Busy(t) == {l \in Lanes : call[<<t, l>>].at # "idle"}

\* The text a task hands over is none or its history; a text under way is as
\* Summarising says.
HistoryOK(p, busy) ==
  /\ p.opt.chunks \in Seq(Seq(Nat)) /\ p.opt.chunks # <<>>
  /\ p.text \in {<<>>, FlattenSeq(p.opt.chunks)}
  /\ p.work = [l \in Lanes |-> p.work[l]]
  /\ p.stage = "text" =>
       Summarising(p.opt.chunks, p.work, p.chunk, p.next, p.out, p.error, busy)

\* So it is for every task.
HistoryInv == \A t \in Tasks : HistoryOK(pipe[t], Busy(t))

\* One task goes on.
LEMMA OneHistory ==
  ASSUME PipeInv, HistoryInv, NEW t \in Tasks, NEW q, pipe' = [pipe EXCEPT ![t] = q],
         HistoryOK(q, Busy(t)'), \A c \in Calls \ CallsOf(t) : call'[c] = call[c]
  PROVE  HistoryInv'
<1>1. \A u \in Tasks : pipe'[u] = IF u = t THEN q ELSE pipe[u]
  BY DEF PipeInv
<1> SUFFICES ASSUME NEW u \in Tasks PROVE HistoryOK(pipe'[u], Busy(u)')
  BY DEF HistoryInv
<1>2. CASE u = t
  BY <1>1, <1>2
<1>3. CASE u # t
  <2>1. \A l \in Lanes : <<u, l>> \in Calls \ CallsOf(t)
    BY <1>3, GenerationAssumption DEF CallsOf
  <2>2. Busy(u)' = Busy(u)
    BY <2>1 DEF Busy
  <2>3. pipe'[u] = pipe[u]
    BY <1>1, <1>3
  <2> QED
    BY <2>2, <2>3 DEF HistoryInv
<1> QED
  BY <1>2, <1>3

\* The progress q of a task is about the same history and text as p.
Same(q, p) ==
  /\ IsPipe(q) /\ q.opt = p.opt /\ q.text = p.text
  /\ q.work = NoWork \/ q.work = p.work

\* A stage that starts, a delivery and an end leave the text.
LEMMA AtSame ==
  ASSUME NEW p, IsPipe(p), NEW stage, NEW a, a = At(p, stage)
  PROVE  Same(a, p) /\ a.stage = stage /\ a.next = 1
<1>1. p = [f \in PipeFields |-> p[f]]
  BY DEF IsPipe
<1>2. /\ a = [f \in PipeFields |-> a[f]] /\ a.opt = p.opt /\ a.text = p.text
      /\ a.work = NoWork /\ a.stage = stage /\ a.next = 1
  BY <1>1 DEF At, PipeFields
<1> QED
  BY <1>2 DEF Same, IsPipe

LEMMA SendsSame ==
  ASSUME NEW p, IsPipe(p), NEW what, NEW a, a = Sends(p, what) PROVE Same(a, p)
<1>1. p = [f \in PipeFields |-> p[f]]
  BY DEF IsPipe
<1>2. /\ a = [f \in PipeFields |-> a[f]] /\ a.opt = p.opt /\ a.text = p.text
      /\ a.work = p.work
  BY <1>1 DEF Sends, PipeFields
<1> QED
  BY <1>2 DEF Same, IsPipe

LEMMA EndsSame ==
  ASSUME NEW p, IsPipe(p), NEW o, NEW a, a = Ends(p, o)
  PROVE  Same(a, p) /\ a.stage = "read health"
<1>1. PICK stage : stage = "read health"
  OBVIOUS
<1>2. PICK b : b = At(p, stage)
  OBVIOUS
<1>3. Same(b, p) /\ b.stage = stage
  BY <1>2, AtSame
<1>4. b = [f \in PipeFields |-> b[f]]
  BY <1>3 DEF Same, IsPipe
<1>5. a = [b EXCEPT !.outcome = o]
  BY <1>1, <1>2 DEF Ends
<1>6. /\ a = [f \in PipeFields |-> a[f]] /\ a.opt = b.opt /\ a.text = b.text
      /\ a.work = b.work /\ a.stage = b.stage
  BY <1>4, <1>5 DEF PipeFields
<1>7. a.stage = "read health"
  BY <1>1, <1>3, <1>6
<1> QED
  BY <1>3, <1>6, <1>7 DEF Same, IsPipe

LEMMA SameThrough ==
  ASSUME NEW p, NEW q, NEW r, Same(q, p), Same(r, q) PROVE Same(r, p)
BY DEF Same

\* However a delivery ends, the text is what it was.
LEMMA ImageOverSame ==
  ASSUME NEW p, IsPipe(p), NEW untold, NEW drawn,
         NEW q \in WithImage(p) \cup WithoutImage(p, untold) \cup WeeklyOver(p, drawn)
  PROVE  Same(q, p) /\ q.stage = "read health"
<1>1. \A r, what : IsPipe(r) => Same(Sends(r, what), r)
  BY SendsSame
<1>2. \A r : Same(r, p) => IsPipe(r)
  BY DEF Same
<1>3. Same(p, p)
  BY DEF Same
<1>4. ASSUME NEW r, Same(r, p), NEW o, q = Ends(r, o)
      PROVE  Same(q, p) /\ q.stage = "read health"
  <2>1. Same(q, r) /\ q.stage = "read health"
    BY <1>2, <1>4, EndsSame
  <2> QED
    BY <1>4, <2>1, SameThrough
<1>5. ASSUME NEW r, Same(r, p), NEW what, NEW s, s = Sends(r, what) PROVE Same(s, p)
  BY <1>1, <1>2, <1>5, SameThrough
<1>6. CASE q \in WithoutImage(p, untold)
  <2>1. PICK sent : sent = Sends(p, "text")
    OBVIOUS
  <2>2. \E o : q = Ends(p, o) \/ q = Ends(sent, o)
    BY <1>6, <2>1 DEF WithoutImage
  <2>3. Same(sent, p)
    BY <1>3, <1>5, <2>1
  <2> QED
    BY <1>3, <1>4, <2>2, <2>3
<1>7. CASE q \in WeeklyOver(p, drawn)
  <2>1. PICK image : image = Sends(p, "image")
    OBVIOUS
  <2>2. PICK caption : caption = Sends(image, "text")
    OBVIOUS
  <2>3. PICK figures : figures = Sends(caption, "text")
    OBVIOUS
  <2>4. PICK plain : plain = Sends(p, "text")
    OBVIOUS
  <2>5. Same(image, p) /\ Same(plain, p)
    BY <1>3, <1>5, <2>1, <2>4
  <2>6. Same(caption, p)
    BY <1>5, <2>2, <2>5
  <2>7. Same(figures, p)
    BY <1>5, <2>3, <2>6
  <2>8. q \in {Ends(caption, "nothing"), Ends(figures, "nothing"), Ends(plain, "nothing")}
    BY <1>7, <2>1, <2>2, <2>3, <2>4 DEF WeeklyOver
  <2> QED
    BY <1>4, <2>5, <2>6, <2>7, <2>8
<1>8. CASE q \in WithImage(p)
  <2>1. PICK after : after = IF Deferred(p) THEN Sends(p, "text") ELSE p
    OBVIOUS
  <2>2. PICK image : image = Sends(after, "image")
    OBVIOUS
  <2>3. PICK cooled : cooled = Sends(image, "cooldown")
    OBVIOUS
  <2>4. Same(after, p)
    BY <1>3, <1>5, <2>1
  <2>5. Same(image, p)
    BY <1>5, <2>2, <2>4
  <2>6. Same(cooled, p)
    BY <1>5, <2>3, <2>5
  <2>7. \E o : q = Ends(cooled, o) \/ q = Ends(image, o) \/ q = Ends(after, o)
    BY <1>8, <2>1, <2>2, <2>3 DEF WithImage
  <2> QED
    BY <1>4, <2>4, <2>5, <2>6, <2>7
<1> QED
  BY <1>6, <1>7, <1>8

\* The text of a task whose chunks are all summarised.
LEMMA TextOverCovers ==
  ASSUME NEW p, IsPipe(p), NEW q \in TextOver(p)
  PROVE  /\ q.opt = p.opt /\ q.text = FlattenSeq(p.out) /\ q.stage # "text"
         /\ q.work = NoWork \/ q.work = p.work
<1>1. PICK out : out = FlattenSeq(p.out)
  OBVIOUS
<1>2. PICK written : written = [p EXCEPT !.text = out]
  OBVIOUS
<1>3. p = [f \in PipeFields |-> p[f]]
  BY DEF IsPipe
<1>4. /\ written = [f \in PipeFields |-> written[f]] /\ written.opt = p.opt
      /\ written.work = p.work /\ written.text = out
  BY <1>2, <1>3 DEF PipeFields
<1>5. IsPipe(written)
  BY <1>4 DEF IsPipe
<1>6. PICK sent : sent = Sends(written, "text")
  OBVIOUS
<1>7. Same(sent, written) /\ IsPipe(sent) /\ Same(written, written)
  BY <1>5, <1>6, SendsSame DEF Same
<1>8. PICK w : /\ Same(w, written)
               /\ \/ \E o : q = Ends(w, o)
                  \/ q = At(w, "open image") \/ q = At(w, "summary slot")
  BY <1>1, <1>2, <1>6, <1>7 DEF TextOver
<1>9. Same(q, w) /\ q.stage # "text"
  <2>1. IsPipe(w)
    BY <1>8 DEF Same
  <2>2. ASSUME NEW o, q = Ends(w, o) PROVE Same(q, w) /\ q.stage = "read health"
    BY <2>1, <2>2, EndsSame
  <2>3. ASSUME NEW stage, q = At(w, stage) PROVE Same(q, w) /\ q.stage = stage
    BY <2>1, <2>3, AtSame
  <2>4. CASE \E o : q = Ends(w, o)
    <3>1. Same(q, w) /\ q.stage = "read health"
      BY <2>2, <2>4
    <3> QED
      BY <3>1
  <2>5. CASE q = At(w, "open image")
    <3>1. Same(q, w) /\ q.stage = "open image"
      BY <2>3, <2>5
    <3> QED
      BY <3>1
  <2>6. CASE q = At(w, "summary slot")
    <3>1. Same(q, w) /\ q.stage = "summary slot"
      BY <2>3, <2>6
    <3> QED
      BY <3>1
  <2> QED
    BY <1>8, <2>4, <2>5, <2>6
<1>10. Same(q, written)
  BY <1>8, <1>9, SameThrough
<1> QED
  BY <1>1, <1>4, <1>9, <1>10 DEF Same

---------------------------------------------------------------------------
(* Every step keeps what is summarised: media, client, retry.              *)

\* A task goes on: a text starts with nothing taken.
LEMMA GoesOn ==
  ASSUME PipeInv, HistoryInv, NEW t \in Tasks, NEW q, Same(q, pipe[t]),
         pipe' = [pipe EXCEPT ![t] = q],
         \A c \in Calls \ CallsOf(t) : call'[c] = call[c],
         q.stage = "text" =>
           q.next = 1 /\ \A l \in Lanes : call'[<<t, l>>].at = "idle"
  PROVE  HistoryInv'
<1>1. PICK p : p = pipe[t] /\ HistoryOK(p, Busy(t))
  BY DEF HistoryInv
<1>2. q.opt = p.opt /\ q.text = p.text /\ (q.work = NoWork \/ q.work = p.work)
  BY <1>1 DEF Same
<1>3. q.work = [l \in Lanes |-> q.work[l]]
  BY <1>1, <1>2 DEF HistoryOK, NoWork
<1>4. ASSUME q.stage = "text"
      PROVE  Summarising(q.opt.chunks, q.work, q.chunk, q.next, q.out, q.error, Busy(t)')
  <2>1. Busy(t)' = {} /\ q.next = 1
    BY <1>4 DEF Busy
  <2>2. PICK cs, work, chunk, out, error :
          /\ cs = q.opt.chunks /\ work = q.work /\ chunk = q.chunk
          /\ out = q.out /\ error = q.error
    OBVIOUS
  <2>3. cs \in Seq(Seq(Nat))
    BY <1>1, <1>2, <2>2 DEF HistoryOK
  <2>4. Summarising(cs, work, chunk, 1, out, error, {})
    BY <2>3, NoneTaken
  <2> QED
    BY <2>1, <2>2, <2>4
<1>5. HistoryOK(q, Busy(t)')
  BY <1>1, <1>2, <1>3, <1>4 DEF HistoryOK
<1> QED
  BY <1>5, OneHistory

\* What a task does to its calls leaves those of the others.
LEMMA Others ==
  ASSUME CallsInv, NEW t \in Tasks,
         \/ \E l \in Lanes : \E s : Becomes(<<t, l>>, s)
         \/ Abandons(CallsOf(t)) \/ UNCHANGED callVars
  PROVE  \A c \in Calls \ CallsOf(t) : call'[c] = call[c]
<1>1. ASSUME NEW l \in Lanes, NEW s, Becomes(<<t, l>>, s)
      PROVE  \A c \in Calls \ CallsOf(t) : call'[c] = call[c]
  <2>1. <<t, l>> \in Calls /\ <<t, l>> \in CallsOf(t)
    BY GenerationAssumption DEF CallsOf
  <2>2. \A c \in Calls : call'[c] = IF c = <<t, l>> THEN s ELSE call[c]
    BY <1>1, <2>1, OneCall DEF Becomes, CallsInv
  <2> QED
    BY <2>1, <2>2
<1>2. CASE Abandons(CallsOf(t))
  BY <1>2 DEF Abandons
<1>3. CASE UNCHANGED callVars
  BY <1>3 DEF callVars
<1> QED
  BY <1>1, <1>2, <1>3

\* Captions, videos and voices.
LEMMA MediaHistory ==
  ASSUME PipeInv, PermitInv, HistoryInv, NEW t \in Tasks,
         Captions(t) \/ Videos(t) \/ Voices(t)
  PROVE  HistoryInv'
<1>1. PICK p : p = pipe[t] /\ IsPipe(p) /\ CallsInv
  BY DEF PermitInv, PipesTyped, PipeTyped
<1>2. PICK sources : \/ \E l \in Lanes : MediaSpawn(t, l, sources) \/ MediaJoined(t, l)
                     \/ MediaRefused(t) \/ MediaOver(t)
  BY DEF Captions, Videos, Voices
<1>3. p.stage \in MediaStages
  BY <1>1 DEF Captions, Videos, Voices, MediaStages, Stage
<1>4. p.stage # "text"
  BY <1>3 DEF MediaStages
<1>5. ASSUME NEW l \in Lanes, MediaSpawn(t, l, sources) PROVE HistoryInv'
  <2>1. PICK n : n = p.next + 1
    OBVIOUS
  <2>2. PICK q : q = [p EXCEPT !.next = n]
    OBVIOUS
  <2>3. p = [f \in PipeFields |-> p[f]]
    BY <1>1 DEF IsPipe
  <2>4. /\ q = [f \in PipeFields |-> q[f]] /\ q.opt = p.opt /\ q.text = p.text
        /\ q.work = p.work /\ q.stage = p.stage
    BY <2>2, <2>3 DEF PipeFields
  <2>5. Same(q, p)
    BY <2>4 DEF Same, IsPipe
  <2>6. pipe' = [pipe EXCEPT ![t] = q]
    BY <1>1, <1>5, <2>1, <2>2 DEF MediaSpawn
  <2>7. \E s : Becomes(<<t, l>>, s)
    BY <1>5 DEF MediaSpawn, Begins
  <2>8. \A c \in Calls \ CallsOf(t) : call'[c] = call[c]
    BY <1>1, <2>7, Others
  <2> QED
    BY <1>1, <1>4, <2>4, <2>5, <2>6, <2>8, GoesOn
<1>6. ASSUME NEW l \in Lanes, MediaJoined(t, l) PROVE HistoryInv'
  <2>1. pipe' = [pipe EXCEPT ![t] = p] /\ Becomes(<<t, l>>, NoCall)
    BY <1>1, <1>6 DEF MediaJoined, PipeInv
  <2>2. \A c \in Calls \ CallsOf(t) : call'[c] = call[c]
    BY <1>1, <2>1, Others
  <2>3. Same(p, p)
    BY <1>1 DEF Same
  <2> QED
    BY <1>1, <1>4, <2>1, <2>2, <2>3, GoesOn
<1>7. CASE MediaRefused(t) \/ MediaOver(t)
  <2>1. PICK stage : stage = NextStage[Stage(t)]
    OBVIOUS
  <2>2. stage \in {"video", "voice", "open"}
    BY <1>1, <1>3, <2>1 DEF NextStage, MediaStages, Stage
  <2>3. stage # "text"
    BY <2>2
  <2>4. PICK q : q = At(p, stage)
    OBVIOUS
  <2>5. Same(q, p) /\ q.stage = stage
    BY <1>1, <2>4, AtSame
  <2>6. pipe' = [pipe EXCEPT ![t] = q] /\ (Abandons(CallsOf(t)) \/ UNCHANGED callVars)
    BY <1>1, <1>7, <2>1, <2>4 DEF MediaRefused, MediaOver
  <2>7. \A c \in Calls \ CallsOf(t) : call'[c] = call[c]
    BY <1>1, <2>6, Others
  <2>8. q.stage # "text"
    BY <2>3, <2>5
  <2> QED
    BY <1>1, <2>5, <2>6, <2>7, <2>8, GoesOn
<1> QED
  BY <1>2, <1>5, <1>6, <1>7

\* A client is opened: a text that follows starts with no call under way.
LEMMA ClientHistory ==
  ASSUME PipeInv, PermitInv, HistoryInv, NEW t \in Tasks, Open(t) \/ Register(t)
  PROVE  HistoryInv'
<1>1. PICK p : p = pipe[t] /\ IsPipe(p) /\ CallsInv
  BY DEF PermitInv, PipesTyped, PipeTyped
<1>2. /\ p.stage \in {"open", "open image", "register", "register image"}
      /\ UNCHANGED callVars
  BY <1>1 DEF Open, Opens, Register, Stage
<1>3. Stage(t) \notin Active
  BY <1>1, <1>2 DEF Active, MediaStages, LlmStages, Stage
<1>4. Resting(t)
  BY <1>3, AtRest
<1>5. \A l \in Lanes : call'[<<t, l>>].at = "idle"
  BY <1>2, <1>4 DEF Resting, CallsOf, callVars
<1>6. PICK stage, first, pools :
        pipe' = [pipe EXCEPT ![t] = [At(p, stage) EXCEPT !.first = first, !.pools = pools]]
  <2>1. CASE Open(t)
    <3>1. PICK first, stage : Opens(t, first, stage)
      BY <2>1 DEF Open
    <3>2. PICK pools :
            pools = [d \in Providers |-> IF d < first THEN NoOwner ELSE Registered(d)]
      OBVIOUS
    <3> QED
      BY <1>1, <3>1, <3>2 DEF Opens
  <2>2. CASE Register(t)
    <3>1. PICK stage, pools :
            pipe' = [pipe EXCEPT ![t] = [At(p, stage) EXCEPT !.pools = pools]]
      BY <1>1, <2>2 DEF Register
    <3>2. PICK a : a = At(p, stage)
      OBVIOUS
    <3>3. a = [f \in PipeFields |-> a[f]]
      BY <1>1, <3>2, AtSame DEF Same, IsPipe
    <3>4. [a EXCEPT !.pools = pools] = [a EXCEPT !.first = a.first, !.pools = pools]
      BY <3>3 DEF PipeFields
    <3> QED
      BY <3>1, <3>2, <3>4
  <2> QED
    BY <2>1, <2>2
<1>7. PICK a : a = At(p, stage)
  OBVIOUS
<1>8. Same(a, p) /\ a.next = 1
  BY <1>1, <1>7, AtSame
<1>9. PICK q : q = [a EXCEPT !.first = first, !.pools = pools]
  OBVIOUS
<1>10. a = [f \in PipeFields |-> a[f]]
  BY <1>8 DEF Same, IsPipe
<1>11. /\ q = [f \in PipeFields |-> q[f]] /\ q.opt = a.opt /\ q.text = a.text
       /\ q.work = a.work /\ q.next = a.next
  BY <1>9, <1>10 DEF PipeFields
<1>12. Same(q, p) /\ q.next = 1
  BY <1>8, <1>11 DEF Same, IsPipe
<1>13. pipe' = [pipe EXCEPT ![t] = q]
  BY <1>6, <1>7, <1>9
<1>14. \A c \in Calls \ CallsOf(t) : call'[c] = call[c]
  BY <1>1, <1>2, Others
<1> QED
  BY <1>1, <1>5, <1>12, <1>13, <1>14, GoesOn

\* The retry takes every chunk again.
LEMMA RefusedHistory ==
  ASSUME PipeInv, PermitInv, HistoryInv, NEW t \in Tasks, RefusedOnce(t)
  PROVE  HistoryInv'
<1>1. PICK p : p = pipe[t] /\ IsPipe(p) /\ CallsInv
  BY DEF PermitInv, PipesTyped, PipeTyped
<1>2. Resting(t) /\ UNCHANGED callVars
  BY DEF RefusedOnce, Joined
<1>3. \A l \in Lanes : call'[<<t, l>>].at = "idle"
  BY <1>2 DEF Resting, CallsOf, callVars
<1>4. PICK stage : stage = p.stage
  OBVIOUS
<1>5. PICK a : a = At(p, stage)
  OBVIOUS
<1>6. Same(a, p) /\ a.next = 1
  BY <1>1, <1>5, AtSame
<1>7. PICK q : q = [a EXCEPT !.retried = TRUE]
  OBVIOUS
<1>8. a = [f \in PipeFields |-> a[f]]
  BY <1>6 DEF Same, IsPipe
<1>9. /\ q = [f \in PipeFields |-> q[f]] /\ q.opt = a.opt /\ q.text = a.text
      /\ q.work = a.work /\ q.next = a.next
  BY <1>7, <1>8 DEF PipeFields
<1>10. Same(q, p) /\ q.next = 1
  BY <1>6, <1>9 DEF Same, IsPipe
<1>11. pipe' = [pipe EXCEPT ![t] = q]
  BY <1>1, <1>4, <1>5, <1>7 DEF RefusedOnce, Stage
<1>12. \A c \in Calls \ CallsOf(t) : call'[c] = call[c]
  BY <1>1, <1>2, Others
<1> QED
  BY <1>1, <1>3, <1>10, <1>11, <1>12, GoesOn

---------------------------------------------------------------------------
(* The text, the slots, the image and the end of a task.                   *)

\* The text of a task that lost no chunk is its whole history.
LEMMA TextHistory ==
  ASSUME PipeInv, PermitInv, HistoryInv, NEW t \in Tasks,
         TextSummarised(t) \/ TextFails(t)
  PROVE  HistoryInv'
<1>1. PICK p : p = pipe[t] /\ IsPipe(p) /\ CallsInv
  BY DEF PermitInv, PipesTyped, PipeTyped
<1>2. /\ p.stage = "text" /\ p.next > Len(p.opt.chunks)
      /\ Resting(t) /\ UNCHANGED callVars
  BY <1>1 DEF TextSummarised, TextFails, StageSucceeds, StageFails, Joined, Requests, Stage
<1>3. \A c \in Calls \ CallsOf(t) : call'[c] = call[c]
  BY <1>1, <1>2, Others
<1>4. HistoryOK(p, Busy(t))
  BY <1>1 DEF HistoryInv
<1>5. CASE TextFails(t)
  <2>1. PICK q : q = Ends(p, "failed")
    OBVIOUS
  <2>2. PICK o : o = "failed"
    OBVIOUS
  <2>3. q = Ends(p, o)
    BY <2>1, <2>2
  <2>4. Same(q, p) /\ q.stage = "read health"
    BY <1>1, <2>3, EndsSame
  <2>5. q.stage # "text"
    BY <2>4
  <2>6. pipe' = [pipe EXCEPT ![t] = q]
    BY <1>1, <1>5, <2>1 DEF TextFails
  <2> QED
    BY <1>1, <1>3, <2>4, <2>5, <2>6, GoesOn
<1>6. CASE TextSummarised(t)
  <2>1. PICK q \in TextOver(p) : pipe' = [pipe EXCEPT ![t] = q]
    BY <1>1, <1>6 DEF TextSummarised
  <2>2. ~p.error
    BY <1>1, <1>6 DEF TextSummarised, StageSucceeds
  <2>3. Busy(t) = {}
    BY <1>2 DEF Busy, Resting, CallsOf
  <2>4. PICK cs, work, chunk, next, out, error :
          /\ cs = p.opt.chunks /\ work = p.work /\ chunk = p.chunk /\ next = p.next
          /\ out = p.out /\ error = p.error
    OBVIOUS
  <2>5. /\ cs \in Seq(Seq(Nat)) /\ cs # <<>> /\ next > Len(cs) /\ ~error
        /\ Summarising(cs, work, chunk, next, out, error, {})
    BY <1>2, <1>4, <2>2, <2>3, <2>4 DEF HistoryOK
  <2>6. out = cs
    BY <2>5, AllSummarised
  <2>7. /\ q.opt = p.opt /\ q.text = FlattenSeq(p.out) /\ q.stage # "text"
        /\ q.work = NoWork \/ q.work = p.work
    BY <1>1, <2>1, TextOverCovers
  <2>8. q.text = FlattenSeq(q.opt.chunks)
    BY <2>4, <2>6, <2>7
  <2>9. q.work = [l \in Lanes |-> q.work[l]]
    BY <1>4, <2>7 DEF HistoryOK, NoWork
  <2>10. HistoryOK(q, Busy(t)')
    BY <1>4, <2>7, <2>8, <2>9 DEF HistoryOK
  <2> QED
    BY <1>3, <2>1, <2>10, OneHistory
<1> QED
  BY <1>5, <1>6

\* The slots: a summary that waits, begins, is over or runs out of time.
LEMMA SlotHistory ==
  ASSUME PipeInv, PermitInv, HistoryInv, NEW t \in Tasks,
         \/ RequestSlot(t) \/ GrantSlot(t) \/ StageOver(t)
         \/ StageTimeout(t) \/ PreparationFails(t)
  PROVE  HistoryInv'
<1>1. PICK p : p = pipe[t] /\ IsPipe(p) /\ CallsInv
  BY DEF PermitInv, PipesTyped, PipeTyped
<1>2. Abandons(CallsOf(t)) \/ UNCHANGED callVars
  BY DEF RequestSlot, GrantSlot, StageOver, StageTimeout, PreparationFails
<1>3. \A c \in Calls \ CallsOf(t) : call'[c] = call[c]
  BY <1>1, <1>2, Others
<1>4. ASSUME NEW stage, stage # "text", pipe' = [pipe EXCEPT ![t] = At(p, stage)]
      PROVE  HistoryInv'
  <2>1. PICK q : q = At(p, stage)
    OBVIOUS
  <2>2. Same(q, p) /\ q.stage = stage
    BY <1>1, <2>1, AtSame
  <2> QED
    BY <1>1, <1>3, <1>4, <2>1, <2>2, GoesOn
<1>5. ASSUME NEW q \in WithoutImage(p, {"failed"}), pipe' = [pipe EXCEPT ![t] = q]
      PROVE  HistoryInv'
  <2>1. PICK untold, drawn : untold = {"failed"} /\ drawn = TRUE
    OBVIOUS
  <2>2. q \in WithImage(p) \cup WithoutImage(p, untold) \cup WeeklyOver(p, drawn)
    BY <1>5, <2>1
  <2>3. Same(q, p) /\ q.stage = "read health"
    BY <1>1, <2>2, ImageOverSame
  <2>4. q.stage # "text"
    BY <2>3
  <2> QED
    BY <1>1, <1>3, <1>5, <2>3, <2>4, GoesOn
<1>6. CASE RequestSlot(t) \/ GrantSlot(t)
  <2>1. PICK stage \in {"wait for summary", "wait for prompt", "prompt", "summary"} :
          pipe' = [pipe EXCEPT ![t] = At(p, stage)]
    BY <1>1, <1>6 DEF RequestSlot, GrantSlot
  <2>2. stage # "text"
    OBVIOUS
  <2> QED
    BY <1>4, <2>1, <2>2
<1>7. CASE StageOver(t)
  <2>1. PICK stage : stage = IF p.stage = "summary" THEN "prompt slot" ELSE "draw"
    OBVIOUS
  <2>2. stage # "text"
    BY <2>1
  <2>3. pipe' = [pipe EXCEPT ![t] = At(p, stage)]
    BY <1>1, <1>7, <2>1 DEF StageOver, Stage
  <2> QED
    BY <1>4, <2>2, <2>3
<1>8. CASE StageTimeout(t) \/ PreparationFails(t)
  <2>1. \E q \in WithoutImage(p, {"failed"}) : pipe' = [pipe EXCEPT ![t] = q]
    BY <1>1, <1>8 DEF StageTimeout, PreparationFails
  <2> QED
    BY <1>5, <2>1
<1> QED
  BY <1>6, <1>7, <1>8

\* The image, and the health a finished task updates.
LEMMA EndHistory ==
  ASSUME PipeInv, PermitInv, HistoryInv, NEW t \in Tasks,
         Draw(t) \/ ImageOver(t) \/ ReadHealth(t) \/ WriteHealth(t)
  PROVE  HistoryInv'
<1>1. PICK p : p = pipe[t] /\ IsPipe(p) /\ CallsInv
  BY DEF PermitInv, PipesTyped, PipeTyped
<1>2. (\E l \in Lanes : \E s : Becomes(<<t, l>>, s)) \/ UNCHANGED callVars
  BY LanesAre DEF Draw, ImageOver, ReadHealth, WriteHealth, Begins
<1>3. \A c \in Calls \ CallsOf(t) : call'[c] = call[c]
  BY <1>1, <1>2, Others
<1>4. CASE Draw(t)
  <2>1. PICK stage : stage = "drawing"
    OBVIOUS
  <2>2. PICK q : q = At(p, stage)
    OBVIOUS
  <2>3. Same(q, p) /\ q.stage = stage
    BY <1>1, <2>2, AtSame
  <2>4. pipe' = [pipe EXCEPT ![t] = q] /\ stage # "text"
    BY <1>1, <1>4, <2>1, <2>2 DEF Draw
  <2> QED
    BY <1>1, <1>3, <2>3, <2>4, GoesOn
<1>5. CASE ImageOver(t)
  <2>1. PICK untold, drawn, q :
          /\ pipe' = [pipe EXCEPT ![t] = q]
          /\ q \in WithImage(p) \cup WithoutImage(p, untold) \cup WeeklyOver(p, drawn)
    BY <1>1, <1>5 DEF ImageOver
  <2>2. Same(q, p) /\ q.stage = "read health"
    BY <1>1, <2>1, ImageOverSame
  <2>3. q.stage # "text"
    BY <2>2
  <2> QED
    BY <1>1, <1>3, <2>1, <2>2, <2>3, GoesOn
<1>6. CASE ReadHealth(t) \/ WriteHealth(t)
  <2>1. PICK row : row = health
    OBVIOUS
  <2>2. PICK q : /\ pipe' = [pipe EXCEPT ![t] = q]
                 /\ \/ q = [At(p, "write health") EXCEPT !.seen = row]
                    \/ q = Finished(p)
    BY <1>1, <1>6, <2>1 DEF ReadHealth, WriteHealth
  <2>3. ASSUME NEW stage, stage # "text", NEW a, a = At(p, stage),
               a = [f \in PipeFields |-> a[f]] =>
                 /\ q = [f \in PipeFields |-> q[f]] /\ q.opt = a.opt /\ q.text = a.text
                 /\ q.work = a.work /\ q.stage = a.stage
        PROVE  HistoryInv'
    <3>1. Same(a, p) /\ a.stage = stage
      BY <1>1, <2>3, AtSame
    <3>2. a = [f \in PipeFields |-> a[f]]
      BY <3>1 DEF Same, IsPipe
    <3>3. Same(q, p) /\ q.stage # "text"
      BY <2>3, <3>1, <3>2 DEF Same, IsPipe
    <3> QED
      BY <1>1, <1>3, <2>2, <3>3, GoesOn
  <2>4. CASE q = [At(p, "write health") EXCEPT !.seen = row]
    <3>1. PICK stage : stage = "write health"
      OBVIOUS
    <3>2. PICK a : a = At(p, stage)
      OBVIOUS
    <3>3. q = [a EXCEPT !.seen = row]
      BY <2>4, <3>1, <3>2
    <3>4. a = [f \in PipeFields |-> a[f]] =>
            /\ q = [f \in PipeFields |-> q[f]] /\ q.opt = a.opt /\ q.text = a.text
            /\ q.work = a.work /\ q.stage = a.stage
      BY <3>3 DEF PipeFields
    <3> QED
      BY <2>3, <3>1, <3>2, <3>4
  <2>5. CASE q = Finished(p)
    <3>1. PICK stage : stage = "ended"
      OBVIOUS
    <3>2. PICK a : a = At(p, stage)
      OBVIOUS
    <3>3. q = [a EXCEPT !.pools = NoPools, !.first = 0,
                        !.seen = [failures |-> 0, open |-> FALSE]]
      BY <2>5, <3>1, <3>2 DEF Finished
    <3>4. a = [f \in PipeFields |-> a[f]] =>
            /\ q = [f \in PipeFields |-> q[f]] /\ q.opt = a.opt /\ q.text = a.text
            /\ q.work = a.work /\ q.stage = a.stage
      BY <3>3 DEF PipeFields
    <3> QED
      BY <2>3, <3>1, <3>2, <3>4
  <2> QED
    BY <2>2, <2>4, <2>5
<1> QED
  BY <1>4, <1>5, <1>6

\* A call under way goes on, and its lane stays with its chunk.
LEMMA CallHistory ==
  ASSUME PermitInv, HistoryInv, NEW c \in Calls, CallSteps(c) PROVE HistoryInv'
<1>1. Goes(c) /\ pipe' = pipe
  BY CallKeeps DEF PermitInv, CallSteps
<1>2. PICK s : Stays(s, call[c]) /\ call' = [call EXCEPT ![c] = s]
  BY <1>1 DEF Goes
<1>3. \A d \in Calls : call'[d] = IF d = c THEN s ELSE call[d]
  BY <1>2, OneCall DEF PermitInv, CallsInv
<1>4. ASSUME NEW t \in Tasks PROVE Busy(t)' = Busy(t)
  <2>1. \A l \in Lanes : <<t, l>> \in Calls
    BY GenerationAssumption
  <2>2. \A l \in Lanes : call'[<<t, l>>].at = "idle" <=> call[<<t, l>>].at = "idle"
    BY <1>2, <1>3, <2>1 DEF Stays
  <2> QED
    BY <2>2 DEF Busy
<1> QED
  BY <1>1, <1>4 DEF HistoryInv

---------------------------------------------------------------------------
(* The lanes, and the theorem.                                             *)

\* A lane that begins or ends a call is busy or not.
LEMMA LaneBusy ==
  ASSUME CallsInv, NEW t \in Tasks, NEW l \in Lanes, NEW s, Becomes(<<t, l>>, s)
  PROVE  Busy(t)' = IF s.at = "idle" THEN Busy(t) \ {l} ELSE Busy(t) \cup {l}
<1>1. \A k \in Lanes : <<t, k>> \in Calls
  BY GenerationAssumption
<1>2. \A k \in Lanes : call'[<<t, k>>] = IF k = l THEN s ELSE call[<<t, k>>]
  <2>1. \A d \in Calls : call'[d] = IF d = <<t, l>> THEN s ELSE call[d]
    BY <1>1, OneCall DEF Becomes, CallsInv
  <2> QED
    BY <1>1, <2>1
<1> QED
  BY <1>2 DEF Busy

\* A lane goes on with its stage.
Continues(q, p, busy) ==
  /\ q.opt = p.opt /\ q.text = p.text /\ q.stage = p.stage
  /\ q.work = [k \in Lanes |-> q.work[k]]
  /\ p.stage = "text" =>
       Summarising(p.opt.chunks, q.work, q.chunk, q.next, q.out, q.error, busy)

LEMMA LaneGoes ==
  ASSUME PipeInv, PermitInv, HistoryInv, NEW t \in Tasks, NEW l \in Lanes, NEW s,
         Becomes(<<t, l>>, s), NEW q, pipe' = [pipe EXCEPT ![t] = q],
         Continues(q, pipe[t], IF s.at = "idle" THEN Busy(t) \ {l} ELSE Busy(t) \cup {l})
  PROVE  HistoryInv'
<1> PICK p : p = pipe[t]
  OBVIOUS
<1>1. CallsInv /\ HistoryOK(p, Busy(t))
  BY DEF PermitInv, HistoryInv
<1>2. \A c \in Calls \ CallsOf(t) : call'[c] = call[c]
  BY <1>1, Others
<1>3. Busy(t)' = IF s.at = "idle" THEN Busy(t) \ {l} ELSE Busy(t) \cup {l}
  BY <1>1, LaneBusy
<1>4. Continues(q, p, Busy(t)')
  BY <1>3
<1>5. HistoryOK(q, Busy(t)')
  BY <1>1, <1>4 DEF HistoryOK, Continues
<1> QED
  BY <1>2, <1>5, OneHistory

\* A lane takes a chunk, has an answer, splits its part, loses its chunk.
LEMMA SpawnHistory ==
  ASSUME PipeInv, PermitInv, HistoryInv, NEW t \in Tasks, NEW l \in Lanes, LlmSpawn(t, l)
  PROVE  HistoryInv'
<1>1. PICK p : p = pipe[t] /\ PipeTyped(p) /\ HistoryOK(p, Busy(t))
  BY DEF PermitInv, PipesTyped, HistoryInv
<1>2. /\ p = [f \in PipeFields |-> p[f]] /\ pipe = [u \in Tasks |-> pipe[u]]
      /\ p.work = [k \in Lanes |-> p.work[k]]
      /\ p.chunk = [k \in Lanes |-> p.chunk[k]]
  BY <1>1 DEF PipeTyped, IsPipe, PipeInv, HistoryOK
<1>3. PICK part, n, chunk, out :
        /\ part = <<Requests(t)[p.next]>> /\ n = p.next + 1
        /\ chunk = [p.chunk EXCEPT ![l] = p.next]
        /\ out = IF p.next = 1 THEN [i \in 1..Len(Requests(t)) |-> <<>>] ELSE p.out
  OBVIOUS
<1>4. PICK work : work = [p.work EXCEPT ![l] = part]
  OBVIOUS
<1>5. PICK q : q = [p EXCEPT !.work = work, !.chunk = chunk, !.next = n, !.out = out]
  OBVIOUS
<1>6. /\ q.opt = p.opt /\ q.text = p.text /\ q.stage = p.stage
      /\ q.work = work /\ q.chunk = chunk /\ q.next = n /\ q.out = out
      /\ q.error = p.error
  BY <1>2, <1>5 DEF PipeFields
<1>7. pipe' = [pipe EXCEPT ![t] = q]
  BY <1>1, <1>2, <1>3, <1>4, <1>5 DEF LlmSpawn, PipeFields
<1>8. work = [k \in Lanes |-> work[k]]
  BY <1>2, <1>4
<1>9. PICK s : s = LlmCall(p)
  OBVIOUS
<1>10. Becomes(<<t, l>>, s) /\ p.stage \in LlmStages /\ l \notin Busy(t)
  BY <1>1, <1>9 DEF LlmSpawn, Begins, Free, Busy, Stage
<1>11. s.at # "idle"
  <2>1. s.at = "acquire"
    BY <1>1, <1>9, <1>10, LlmTyped
  <2> QED
    BY <2>1
<1>12. PICK still : still = Busy(t) \cup {l}
  OBVIOUS
<1>13. ASSUME p.stage = "text"
       PROVE  Summarising(p.opt.chunks, q.work, q.chunk, q.next, q.out, q.error, still)
  <2>1. PICK cs, next, busy, error, was, had, has :
          /\ cs = p.opt.chunks /\ next = p.next /\ busy = Busy(t) /\ error = p.error
          /\ was = p.out /\ had = p.chunk /\ has = p.work
    OBVIOUS
  <2>2. Requests(t) = cs
    BY <1>1, <1>13, <2>1 DEF Requests, Stage
  <2>3. /\ cs \in Seq(Seq(Nat)) /\ Summarising(cs, has, had, next, was, error, busy)
        /\ next =< Len(cs) /\ l \notin busy
    BY <1>1, <1>10, <1>13, <2>1, <2>2 DEF HistoryOK, LlmSpawn
  <2>4. work[l] = <<cs[next]>> /\ chunk[l] = next
    BY <1>2, <1>3, <1>4, <2>1, <2>2
  <2>5. \A m \in busy : work[m] = has[m] /\ chunk[m] = had[m]
    BY <1>2, <1>3, <1>4, <1>10, <2>1 DEF Busy
  <2>6. out = IF next = 1 THEN [i \in 1..Len(cs) |-> <<>>] ELSE was
    BY <1>3, <2>1, <2>2
  <2>7. Takes(l, cs, has, had, next, was, busy, work, chunk, out)
    BY <2>3, <2>4, <2>5, <2>6 DEF Takes
  <2>8. Summarising(cs, work, chunk, next + 1, out, error, busy \cup {l})
    BY <2>3, <2>7, ChunkTaken
  <2> QED
    BY <1>3, <1>6, <1>12, <2>1, <2>8
<1>14. Continues(q, p, still)
  BY <1>6, <1>8, <1>13 DEF Continues
<1>15. still = IF s.at = "idle" THEN Busy(t) \ {l} ELSE Busy(t) \cup {l}
  BY <1>11, <1>12
<1> QED
  BY <1>1, <1>7, <1>10, <1>14, <1>15, LaneGoes

LEMMA AnswerHistory ==
  ASSUME PipeInv, PermitInv, HistoryInv, NEW t \in Tasks, NEW l \in Lanes,
         PartSummarised(t, l)
  PROVE  HistoryInv'
<1>1. PICK p : p = pipe[t] /\ PipeTyped(p) /\ HistoryOK(p, Busy(t))
  BY DEF PermitInv, PipesTyped, HistoryInv
<1>2. /\ p = [f \in PipeFields |-> p[f]] /\ pipe = [u \in Tasks |-> pipe[u]]
      /\ p.work = [k \in Lanes |-> p.work[k]]
  BY <1>1 DEF PipeTyped, IsPipe, PipeInv, HistoryOK
<1>3. PICK parts, c : parts = p.work[l] /\ c = p.chunk[l]
  OBVIOUS
<1>4. PICK work : work = [p.work EXCEPT ![l] = Tail(parts)]
  OBVIOUS
<1>5. PICK new, out : new = p.out[c] \o Head(parts) /\ out = [p.out EXCEPT ![c] = new]
  OBVIOUS
<1>6. PICK q : q = [p EXCEPT !.work = work, !.out = out]
  OBVIOUS
<1>7. /\ q.opt = p.opt /\ q.text = p.text /\ q.stage = p.stage
      /\ q.work = work /\ q.chunk = p.chunk /\ q.next = p.next /\ q.out = out
      /\ q.error = p.error
  BY <1>2, <1>6 DEF PipeFields
<1>8. pipe' = [pipe EXCEPT ![t] = q]
  BY <1>1, <1>2, <1>3, <1>4, <1>5, <1>6 DEF PartSummarised, PipeFields
<1>9. work = [k \in Lanes |-> work[k]]
  BY <1>2, <1>4
<1>10. PICK s : s = IF Tail(parts) = <<>> THEN NoCall ELSE LlmCall(p)
  OBVIOUS
<1>11. Becomes(<<t, l>>, s) /\ p.stage \in LlmStages /\ l \in Busy(t)
  BY <1>1, <1>3, <1>10 DEF PartSummarised, LaneGoesOn, LaneDone, Becomes, Busy, Stage
<1>12. s.at = "idle" <=> Tail(parts) = <<>>
  <2>1. ASSUME NEW r, r = LlmCall(p) PROVE r.at # "idle"
    <3>1. r.at = "acquire"
      BY <1>1, <1>11, <2>1, LlmTyped
    <3> QED
      BY <3>1
  <2>2. NoCall.at = "idle"
    BY NoCallTyped
  <2> QED
    BY <1>10, <2>1, <2>2
<1>13. PICK still : still = IF Tail(parts) = <<>> THEN Busy(t) \ {l} ELSE Busy(t)
  OBVIOUS
<1>14. ASSUME p.stage = "text"
       PROVE  Summarising(p.opt.chunks, q.work, q.chunk, q.next, q.out, q.error, still)
  <2>1. PICK cs, next, busy, error, was, chunk, has :
          /\ cs = p.opt.chunks /\ next = p.next /\ busy = Busy(t) /\ error = p.error
          /\ was = p.out /\ chunk = p.chunk /\ has = p.work
    OBVIOUS
  <2>2. /\ cs \in Seq(Seq(Nat)) /\ Summarising(cs, has, chunk, next, was, error, busy)
        /\ l \in busy
    BY <1>1, <1>11, <1>14, <2>1 DEF HistoryOK
  <2>3. work[l] = Tail(has[l])
    BY <1>2, <1>3, <1>4, <2>1
  <2>4. \A m \in busy \ {l} : work[m] = has[m]
    BY <1>2, <1>4, <2>1 DEF Busy
  <2>5. out = [was EXCEPT ![chunk[l]] = was[chunk[l]] \o Head(has[l])]
    BY <1>3, <1>5, <2>1
  <2>6. still = IF Tail(has[l]) = <<>> THEN busy \ {l} ELSE busy
    BY <1>3, <1>13, <2>1
  <2>7. Answers(l, has, chunk, was, busy, work, out, still)
    BY <2>2, <2>3, <2>4, <2>5, <2>6 DEF Answers
  <2>8. Summarising(cs, work, chunk, next, out, error, still)
    BY <2>2, <2>7, PartAnswered
  <2> QED
    BY <1>7, <2>1, <2>8
<1>15. still = IF s.at = "idle" THEN Busy(t) \ {l} ELSE Busy(t) \cup {l}
  BY <1>11, <1>12, <1>13
<1>16. Continues(q, p, still)
  BY <1>7, <1>9, <1>14 DEF Continues
<1> QED
  BY <1>1, <1>8, <1>11, <1>15, <1>16, LaneGoes

LEMMA SplitHistory ==
  ASSUME PipeInv, PermitInv, HistoryInv, NEW t \in Tasks, NEW l \in Lanes,
         ContextSplit(t, l)
  PROVE  HistoryInv'
<1>1. PICK p : p = pipe[t] /\ PipeTyped(p) /\ HistoryOK(p, Busy(t))
  BY DEF PermitInv, PipesTyped, HistoryInv
<1>2. /\ p = [f \in PipeFields |-> p[f]] /\ pipe = [u \in Tasks |-> pipe[u]]
      /\ p.work = [k \in Lanes |-> p.work[k]]
  BY <1>1 DEF PipeTyped, IsPipe, PipeInv, HistoryOK
<1>3. PICK had : had = p.work[l]
  OBVIOUS
<1>4. PICK parts : parts = Halves(Head(had)) \o Tail(had)
  OBVIOUS
<1>5. PICK work : work = [p.work EXCEPT ![l] = parts]
  OBVIOUS
<1>6. PICK q : q = [p EXCEPT !.work = work]
  OBVIOUS
<1>7. /\ q.opt = p.opt /\ q.text = p.text /\ q.stage = p.stage
      /\ q.work = work /\ q.chunk = p.chunk /\ q.next = p.next /\ q.out = p.out
      /\ q.error = p.error
  BY <1>2, <1>6 DEF PipeFields
<1>8. /\ pipe' = [pipe EXCEPT ![t].work[l] = parts] /\ LaneGoesOn(t, l, parts)
      /\ UNCHANGED <<waiters, limited>> /\ Len(Head(had)) > 1 /\ LaneDone(t, l)
  BY <1>1, <1>3, <1>4 DEF ContextSplit, Splits
<1>9. pipe' = [pipe EXCEPT ![t] = q]
  BY <1>1, <1>2, <1>5, <1>6, <1>8 DEF PipeFields
<1>10. work = [k \in Lanes |-> work[k]]
  BY <1>2, <1>5
<1>11. PICK s : s = IF parts = <<>> THEN NoCall ELSE LlmCall(p)
  OBVIOUS
<1>12. Becomes(<<t, l>>, s)
  BY <1>1, <1>8, <1>11 DEF LaneGoesOn, Becomes
<1>13. p.stage \in LlmStages /\ l \in Busy(t)
  BY <1>1, <1>8 DEF LaneDone, Busy, Stage
<1>14. PICK still : still = IF s.at = "idle" THEN Busy(t) \ {l} ELSE Busy(t) \cup {l}
  OBVIOUS
<1>15. ASSUME p.stage = "text"
       PROVE  Summarising(p.opt.chunks, q.work, q.chunk, q.next, q.out, q.error, still)
  <2>1. PICK cs, next, busy, error, out, chunk, has :
          /\ cs = p.opt.chunks /\ next = p.next /\ busy = Busy(t) /\ error = p.error
          /\ out = p.out /\ chunk = p.chunk /\ has = p.work
    OBVIOUS
  <2>2. /\ cs \in Seq(Seq(Nat)) /\ Summarising(cs, has, chunk, next, out, error, busy)
        /\ l \in busy /\ Len(Head(has[l])) > 1
    BY <1>1, <1>3, <1>8, <1>13, <1>15, <2>1 DEF HistoryOK
  <2>3. work[l] = Halves(Head(has[l])) \o Tail(has[l])
    BY <1>2, <1>3, <1>4, <1>5, <2>1
  <2>4. \A m \in busy \ {l} : work[m] = has[m]
    BY <1>2, <1>5, <2>1 DEF Busy
  <2>5. Halved(l, has, busy, work)
    BY <2>2, <2>3, <2>4 DEF Halved
  <2>6. Summarising(cs, work, chunk, next, out, error, busy) /\ work[l] # <<>>
    BY <2>2, <2>5, PartHalved
  <2>7. s = LlmCall(p)
    BY <1>2, <1>5, <1>11, <2>6
  <2>8. s.at = "acquire"
    BY <1>1, <1>13, <2>7, LlmTyped
  <2>9. still = busy
    BY <1>13, <1>14, <2>1, <2>8
  <2> QED
    BY <1>7, <2>1, <2>6, <2>9
<1>16. Continues(q, p, still)
  BY <1>7, <1>10, <1>15 DEF Continues
<1> QED
  BY <1>1, <1>9, <1>12, <1>14, <1>16, LaneGoes

LEMMA LostHistory ==
  ASSUME PipeInv, PermitInv, HistoryInv, NEW t \in Tasks, NEW l \in Lanes,
         PartFailed(t, l)
  PROVE  HistoryInv'
<1>1. PICK p : p = pipe[t] /\ PipeTyped(p) /\ HistoryOK(p, Busy(t))
  BY DEF PermitInv, PipesTyped, HistoryInv
<1>2. /\ p = [f \in PipeFields |-> p[f]] /\ pipe = [u \in Tasks |-> pipe[u]]
      /\ p.work = [k \in Lanes |-> p.work[k]]
  BY <1>1 DEF PipeTyped, IsPipe, PipeInv, HistoryOK
<1>3. PICK work : work = [p.work EXCEPT ![l] = <<>>]
  OBVIOUS
<1>4. PICK q : q = [p EXCEPT !.work = work, !.error = TRUE]
  OBVIOUS
<1>5. /\ q.opt = p.opt /\ q.text = p.text /\ q.stage = p.stage
      /\ q.work = work /\ q.chunk = p.chunk /\ q.next = p.next /\ q.out = p.out
      /\ q.error = TRUE
  BY <1>2, <1>4 DEF PipeFields
<1>6. pipe' = [pipe EXCEPT ![t] = q]
  BY <1>1, <1>2, <1>3, <1>4 DEF PartFailed, PipeFields
<1>7. work = [k \in Lanes |-> work[k]]
  BY <1>2, <1>3
<1>8. PICK s : s = NoCall
  OBVIOUS
<1>9. Becomes(<<t, l>>, s) /\ l \in Busy(t) /\ s.at = "idle"
  BY <1>8, NoCallTyped DEF PartFailed, LaneDone, Busy
<1>10. PICK still : still = Busy(t) \ {l}
  OBVIOUS
<1>11. ASSUME p.stage = "text"
       PROVE  Summarising(p.opt.chunks, q.work, q.chunk, q.next, q.out, q.error, still)
  <2>1. PICK cs, next, busy, error, out, chunk, has :
          /\ cs = p.opt.chunks /\ next = p.next /\ busy = Busy(t) /\ error = p.error
          /\ out = p.out /\ chunk = p.chunk /\ has = p.work
    OBVIOUS
  <2>2. Summarising(cs, has, chunk, next, out, error, busy) /\ l \in busy
    BY <1>1, <1>9, <1>11, <2>1 DEF HistoryOK
  <2>3. \A m \in busy \ {l} : work[m] = has[m]
    BY <1>2, <1>3, <2>1 DEF Busy
  <2>4. Summarising(cs, work, chunk, next, out, TRUE, busy \ {l})
    BY <2>2, <2>3, ChunkLost
  <2> QED
    BY <1>5, <1>10, <2>1, <2>4
<1>12. Continues(q, p, still)
  BY <1>5, <1>7, <1>11 DEF Continues
<1>13. still = IF s.at = "idle" THEN Busy(t) \ {l} ELSE Busy(t) \cup {l}
  BY <1>9, <1>10
<1> QED
  BY <1>1, <1>6, <1>9, <1>12, <1>13, LaneGoes

\* Every step keeps the invariant, and it holds at first.
LEMMA NextHistory == Inv /\ PermitInv /\ HistoryInv /\ [Next]_vars => HistoryInv'
<1> SUFFICES ASSUME PipeInv, PermitInv, HistoryInv, [Next]_vars PROVE HistoryInv'
  BY DEF Inv
<1>1. ASSUME NEW c \in Calls, CallSteps(c) PROVE HistoryInv'
  BY <1>1, CallHistory
<1>2. ASSUME NEW t \in Tasks, NEW l \in Lanes, LaneSteps(t, l) PROVE HistoryInv'
  BY <1>2, SpawnHistory, AnswerHistory, SplitHistory, LostHistory DEF LaneSteps
<1>3. ASSUME NEW t \in Tasks, TaskSteps(t) PROVE HistoryInv'
  <2>1. CASE Captions(t) \/ Videos(t) \/ Voices(t)
    BY <2>1, MediaHistory
  <2>2. CASE Open(t) \/ Register(t) \/ RefusedOnce(t)
    BY <2>2, ClientHistory, RefusedHistory
  <2>3. CASE TextSummarised(t) \/ TextFails(t)
    BY <2>3, TextHistory
  <2>4. CASE \/ RequestSlot(t) \/ GrantSlot(t) \/ StageOver(t)
             \/ StageTimeout(t) \/ PreparationFails(t)
    BY <2>4, SlotHistory
  <2>5. CASE Draw(t) \/ ImageOver(t) \/ ReadHealth(t) \/ WriteHealth(t)
    BY <2>5, EndHistory
  <2> QED
    BY <1>3, <2>1, <2>2, <2>3, <2>4, <2>5 DEF TaskSteps
<1>4. CASE CircuitExpires \/ Done \/ UNCHANGED vars
  <2>1. UNCHANGED <<call, pipe>>
    BY <1>4 DEF CircuitExpires, Done, vars, callVars
  <2> QED
    BY <2>1 DEF HistoryInv, Busy
<1> QED
  BY <1>1, <1>2, <1>3, <1>4 DEF Next

LEMMA InitHistory == Init => HistoryInv
<1> SUFFICES ASSUME Init, NEW t \in Tasks PROVE HistoryOK(pipe[t], Busy(t))
  BY DEF HistoryInv
<1>1. PICK s \in Scenarios : pipe = [u \in Tasks |-> NewPipe(s[u])]
  BY DEF Init
<1>2. PICK opt : opt = s[t]
  OBVIOUS
<1>3. opt.chunks \in Seq(Seq(Nat)) /\ opt.chunks # <<>>
  BY <1>2, GenerationAssumption
<1>4. PICK p : p = NewPipe(opt)
  OBVIOUS
<1>5. p.opt = opt /\ p.text = <<>> /\ p.work = NoWork /\ p.stage # "text"
  BY <1>4 DEF NewPipe
<1>6. HistoryOK(p, Busy(t))
  BY <1>3, <1>5 DEF HistoryOK, NoWork
<1> QED
  BY <1>1, <1>2, <1>4, <1>6

\* A text covers every message of its history once and in order: however its
\* chunks were split at the context limit, and in whatever order the lanes
\* had their answers.
THEOREM HistoryCovered == Spec => []CoversHistory
<1>1. Inv /\ PermitInv /\ HistoryInv => CoversHistory
  BY DEF HistoryInv, HistoryOK, CoversHistory, All
<1>2. Inv /\ PermitInv /\ HistoryInv /\ [Next]_vars => HistoryInv'
  BY NextHistory
<1> QED
  BY <1>1, <1>2, InitHistory, AlwaysPermit, PTL DEF Spec

===============================================================================
