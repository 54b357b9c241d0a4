------------------------- MODULE ProviderStackProofs -------------------------
(***************************************************************************)
(* What the provider stack guarantees for every number of retries and every*)
(* stream: the number of requests, that they do not overlap, what may still*)
(* be sent after an abort, that the consumer reads one stream, and that an *)
(* answer it accepts is that stream's message, block by block.             *)
(*                                                                         *)
(* StackInv counts the requests, OrderInv relates what was delivered to    *)
(* the stream read, and BlocksInv relates the slots of the parser and the  *)
(* blocks delivered to the starts, deltas and stops of that stream.        *)
(***************************************************************************)
EXTENDS ProviderStack, FiniteSetTheorems, SequenceTheorems, WellFoundedInduction, TLAPS

\* Between attempts the last error is being decided, nothing was let through,
\* and it came from the API, which is done with the request.
Between == pc \in {"onRetry", "sleep", "onFallback"}

CountInv ==
  /\ attempt \in Nat /\ attempt <= MaxRetries
  /\ requests \in Nat /\ requests > 0
  /\ model \in {"primary", "fallback"}
  /\ model = "primary" => requests = attempt + 1
  /\ requests <= MaxRetries + 1 + (IF model = "primary" THEN 0 ELSE attempt + 1)
  /\ pc \in {"onRetry", "sleep"} => attempt < MaxRetries
  /\ pc = "onFallback" => model = "primary"

OpenInv ==
  /\ open \subseteq {requests}
  /\ Between => open = {}

LateInv ==
  /\ aborted \in BOOLEAN
  /\ late # <<>> => late = <<"fallback">> /\ aborted /\ model = "fallback" /\ ~Between

HeldInv ==
  /\ Between => ~passing /\ IsApiError(held)
  /\ passing \in BOOLEAN

StackInv == CountInv /\ OpenInv /\ LateInv /\ HeldInv

\* The parser never blames the API, and the watchdog's error is not retried.
LEMMA ParserErrors ==
  ASSUME NEW p, NEW e \in RawEvent, NEW n
  PROVE  ~IsApiError(Feed(p, e, n).out)
BY DEF Feed, OnStart, OnDelta, OnStop, RawEvent, BlockEvent, IsApiError, SseError, Nothing

\* Nor does it at the end of a stream.
LEMMA EndErrors == ASSUME NEW p PROVE ~IsApiError(AtEnd(p))
BY DEF AtEnd, IsApiError, SseError, Nothing

\* The watchdog's error is neither retried nor a reason to switch models.
LEMMA WatchdogIsFinal ==
  ~isRetryable(WatchdogError.cls) /\ ~shouldFallback(WatchdogError.cls)
BY DEF WatchdogError, isRetryable, shouldFallback

\* An event leaves the counters alone, whatever is made of it.  Only a retryable
\* error is held for a retry, and only while attempts are left.
LEMMA EmitEffect ==
  ASSUME NEW e, Emit(e), pc = "reading", passing \in BOOLEAN
  PROVE  /\ UNCHANGED <<model, attempt>>
         /\ pc' \in {"reading", "onRetry", "onFallback", "done"}
         /\ passing' \in BOOLEAN
         /\ pc' = "onRetry" => isRetryable(e.cls) /\ attempt < MaxRetries
         /\ pc' = "onFallback" => shouldFallback(e.cls) /\ model = "primary"
         /\ pc' \in {"onRetry", "onFallback"} => IsApiError(e) /\ ~passing' /\ held' = e
BY DEF Emit, Fall, Yield, Throw, Take, Decisions

\* The error held between two attempts goes to the fallback or to the consumer.
LEMMA FallEffect ==
  ASSUME NEW e, Fall(e), IsApiError(e), ~passing
  PROVE  /\ UNCHANGED <<model, attempt, passing, delivered>>
         /\ \/ /\ pc' = "onFallback" /\ model = "primary" /\ held' = e
               /\ shouldFallback(e.cls)
            \/ pc' = "done" /\ outcome' = "error"
BY DEF Fall, Yield, Throw, IsApiError

\* The first request is open and nothing has failed.
LEMMA StackInit == Init => StackInv
<1>1. Init => CountInv /\ OpenInv
  BY StackLimits DEF Init, CountInv, OpenInv, Between
<1>2. Init => LateInv /\ HeldInv
  BY DEF Init, LateInv, HeldInv, Between
<1> QED BY <1>1, <1>2 DEF StackInv

\* Every step keeps the counts, the open request, what is late and what is held.
LEMMA StackStepKeeps == StackInv /\ [Next]_vars => StackInv'
<1> SUFFICES ASSUME StackInv, [Next]_vars PROVE StackInv'
  OBVIOUS
<1> USE StackLimits DEF StackInv, CountInv, OpenInv, LateInv, HeldInv, Between
<1>1. ASSUME NEW e \in RawEvent, WireSends(e) PROVE StackInv'
  <2> DEFINE o == Feed(parser, e, Len(wire) + 1).out
  <2>1. CASE o = Nothing
    BY <1>1, <2>1 DEF WireSends, sent, result
  <2>2. CASE Emit(o)
    <3>1. ~IsApiError(o)
      BY ParserErrors
    <3> HIDE DEF o
    <3>2. /\ UNCHANGED <<model, attempt, aborted, requests, open, late>>
          /\ pc = "reading"
      BY <1>1, <2>2, EmitEffect DEF WireSends, sent
    <3>3. pc' \in {"reading", "done"} /\ passing' \in BOOLEAN
      BY <2>2, <3>1, <3>2, EmitEffect
    <3> QED BY <3>2, <3>3
  <2> QED BY <1>1, <2>1, <2>2 DEF WireSends
<1>2. ASSUME NEW cls \in ErrorClass, WireFails(cls) PROVE StackInv'
  <2> DEFINE e == ApiError(cls)
  <2>1. pc = "reading" /\ Emit(e) /\ open' = {} /\ UNCHANGED <<aborted, requests, late>>
    BY <1>2 DEF WireFails
  <2>2. e.cls = cls
    BY DEF ApiError
  <2>3. late # <<>> => ~isRetryable(cls) /\ ~shouldFallback(cls)
    BY <1>2 DEF WireFails, Rejected, isRetryable, shouldFallback
  <2> HIDE DEF e
  <2> QED BY <2>1, <2>2, <2>3, EmitEffect
<1>3. CASE WireEnds
  <2> DEFINE e == AtEnd(parser)
  <2>1. CASE e = Nothing
    BY <1>3, <2>1 DEF WireEnds
  <2>2. CASE Emit(e)
    <3>1. ~IsApiError(e)
      BY EndErrors
    <3>2. pc = "reading" /\ open' = open \ {requests} /\ UNCHANGED <<aborted, requests, late>>
      BY <1>3 DEF WireEnds
    <3> HIDE DEF e
    <3> QED BY <2>2, <3>1, <3>2, EmitEffect
  <2> QED BY <1>3, <2>1, <2>2 DEF WireEnds
<1>4. CASE IdleTimeout
  <2> DEFINE e == WatchdogError
  <2>1. pc = "reading" /\ Emit(e) /\ UNCHANGED <<aborted, requests, open, late>>
    BY <1>4 DEF IdleTimeout, sent
  <2>2. ~isRetryable(e.cls) /\ ~shouldFallback(e.cls)
    BY WatchdogIsFinal
  <2> HIDE DEF e
  <2> QED BY <2>1, <2>2, EmitEffect
<1>5. CASE RetryNoticed
  <2>1. CASE aborted
    <3>1. Fall(held) /\ UNCHANGED <<aborted, requests, open, late>>
      BY <1>5, <2>1 DEF RetryNoticed, sent
    <3> QED BY <1>5, <2>1, <3>1, FallEffect DEF RetryNoticed
  <2>2. CASE ~aborted
    BY <1>5, <2>2 DEF RetryNoticed, sent
  <2> QED BY <2>1, <2>2
<1>6. CASE SleepEnds
  <2>1. late = <<>> /\ open = {} /\ ~aborted /\ attempt < MaxRetries
    BY <1>6 DEF SleepEnds
  <2>2. late' = <<>> /\ UNCHANGED aborted
    BY <1>6, <2>1 DEF SleepEnds, Send
  <2>3. LateInv' /\ HeldInv'
    BY <1>6, <2>2 DEF SleepEnds, Send
  <2>4. CountInv' /\ OpenInv'
    BY <1>6, <2>1 DEF SleepEnds, Send
  <2> QED BY <2>3, <2>4
<1>7. CASE SleepAborted
  <2>1. Fall(held) /\ UNCHANGED <<aborted, requests, open, late>>
    BY <1>7 DEF SleepAborted, sent
  <2> QED BY <1>7, <2>1, FallEffect DEF SleepAborted
<1>8. CASE FallbackNoticed
  <2>1. late = <<>> /\ model = "primary" /\ open = {}
    BY <1>8 DEF FallbackNoticed
  <2>2. late' = IF aborted THEN Append(<<>>, "fallback") ELSE <<>>
    BY <1>8, <2>1 DEF FallbackNoticed, Send
  <2>3. Append(<<>>, "fallback") = <<"fallback">>
    OBVIOUS
  <2>4. LateInv' /\ HeldInv'
    BY <1>8, <2>2, <2>3 DEF FallbackNoticed, Send
  <2>5. CountInv' /\ OpenInv'
    BY <1>8, <2>1 DEF FallbackNoticed, Send
  <2> QED BY <2>4, <2>5
<1>9. CASE CallbackThrows
  BY <1>9 DEF CallbackThrows, sent
<1>10. CASE Abort
  BY <1>10 DEF Abort, sent
<1>11. CASE UNCHANGED vars
  BY <1>11 DEF vars
<1> QED BY <1>1, <1>2, <1>3, <1>4, <1>5, <1>6, <1>7, <1>8, <1>9, <1>10, <1>11
        DEF Next, StackStep

\* The stack's invariant holds of every reachable state.
LEMMA StackAlways == Spec => []StackInv
<1> QED BY StackInit, StackStepKeeps, PTL DEF Spec

\* However often the API fails, one answer costs at most MaxRetries + 1
\* requests of each model.
THEOREM RequestCount == Spec => []RequestsBounded
<1>1. StackInv => RequestsBounded
  BY StackLimits DEF StackInv, CountInv, RequestsBounded
<1> QED BY <1>1, StackAlways, PTL

\* No request of an answer is sent while another of it is in flight.
THEOREM NoOverlap == Spec => []RequestsDoNotOverlap
<1>1. StackInv => RequestsDoNotOverlap
  <2> SUFFICES ASSUME StackInv PROVE Cardinality(open) <= 1
    BY DEF RequestsDoNotOverlap
  <2>1. open \in {{}, {requests}}
    BY DEF StackInv, OpenInv
  <2>2. CASE open = {}
    BY <2>2, FS_EmptySet
  <2>3. CASE open = {requests}
    BY <2>3, FS_Singleton
  <2> QED BY <2>1, <2>2, <2>3
<1> QED BY <1>1, StackAlways, PTL

\* After an abort nothing is sent but, once, the switch to the fallback model.
THEOREM AbortHeard == Spec => []AbortStopsRetries
<1>1. StackInv => AbortStopsRetries
  BY DEF StackInv, LateInv, AbortStopsRetries
<1> QED BY <1>1, StackAlways, PTL

------------------------------------------------------------------------------
(* The consumer reads one stream.                                            *)

ParserState == [started : BOOLEAN,
                slots : UNION {[D -> Seq(Nat)] : D \in SUBSET Indices}]

Parsed == [type : {"message_start", "message_delta"}, at : Nat]
            \cup [type : {"content_block_complete"}, at : Nat,
                  index : Indices, block : Seq(Nat)]

Item == [req : Nat, event : Parsed]

\* The slots of a parser are under indices and hold places in the stream.
LEMMA SlotsTyped ==
  ASSUME NEW p \in ParserState
  PROVE  /\ DOMAIN p.slots \subseteq Indices
         /\ \A i \in DOMAIN p.slots : p.slots[i] \in Seq(Nat)
<1>1. PICK D \in SUBSET Indices : p.slots \in [D -> Seq(Nat)]
  BY DEF ParserState
<1> QED BY <1>1

\* A parser with a slot begun or extended is a parser.
LEMMA WithSlotTyped ==
  ASSUME NEW p \in ParserState, NEW i \in Indices, NEW c \in Seq(Nat)
  PROVE  [p EXCEPT !.slots = WithSlot(p.slots, i, c)] \in ParserState
<1> DEFINE D == DOMAIN p.slots \cup {i}
<1>1. D \in SUBSET Indices
  BY SlotsTyped
<1>2. WithSlot(p.slots, i, c) \in [D -> Seq(Nat)]
  BY SlotsTyped DEF WithSlot
<1>3. WithSlot(p.slots, i, c) \in UNION {[E -> Seq(Nat)] : E \in SUBSET Indices}
  BY <1>1, <1>2
<1> QED BY <1>3 DEF ParserState

\* A parser with a slot closed is a parser.
LEMMA WithoutSlotTyped ==
  ASSUME NEW p \in ParserState, NEW i \in Indices
  PROVE  [p EXCEPT !.slots = WithoutSlot(p.slots, i)] \in ParserState
<1> DEFINE D == DOMAIN p.slots \ {i}
<1>1. D \in SUBSET Indices
  BY SlotsTyped
<1>2. WithoutSlot(p.slots, i) \in [D -> Seq(Nat)]
  BY SlotsTyped DEF WithoutSlot
<1>3. WithoutSlot(p.slots, i) \in UNION {[E -> Seq(Nat)] : E \in SUBSET Indices}
  BY <1>1, <1>2
<1> QED BY <1>3 DEF ParserState

\* What one raw event does: the parser stays well formed, and what comes out is
\* nothing, an error, or an event that carries the place of the raw event.
LEMMA FeedTyped ==
  ASSUME NEW p \in ParserState, NEW e \in RawEvent, NEW n \in Nat
  PROVE  LET f == Feed(p, e, n)
         IN  /\ f.parser \in ParserState
             /\ f.out = Nothing \/ f.out.type = "error" \/ (f.out \in Parsed /\ f.out.at = n)
             /\ f.parser.started => p.started \/ f.out.type = "message_start"
<1> DEFINE f == Feed(p, e, n)
<1>1. CASE e.type = "message_start"
  <2>1. CASE p.started
    BY <1>1, <2>1 DEF Feed, SseError
  <2>2. CASE ~p.started
    <3>1. f = [parser |-> [p EXCEPT !.started = TRUE],
               out |-> [type |-> "message_start", at |-> n]]
      BY <1>1, <2>2 DEF Feed
    <3>2. [p EXCEPT !.started = TRUE] \in ParserState
      BY DEF ParserState
    <3> QED BY <3>1, <3>2 DEF Parsed
  <2> QED BY <2>1, <2>2
<1>2. CASE e.type = "content_block_start"
  <2>1. e.index \in Indices /\ f = OnStart(p, e)
    BY <1>2 DEF RawEvent, BlockEvent, Feed
  <2>2. <<>> \in Seq(Nat)
    OBVIOUS
  <2>3. [p EXCEPT !.slots = WithSlot(p.slots, e.index, <<>>)] \in ParserState
    BY <2>1, <2>2, WithSlotTyped
  <2>4. [p EXCEPT !.slots = WithSlot(p.slots, e.index, <<>>)].started = p.started
    BY DEF ParserState
  <2> QED BY <2>1, <2>3, <2>4 DEF OnStart, SseError, Nothing
<1>3. CASE e.type = "content_block_delta"
  <2>1. e.index \in Indices /\ f = OnDelta(p, e, n)
    BY <1>3 DEF RawEvent, BlockEvent, Feed
  <2>2. CASE Open(p, e.index) /\ e.fits
    <3>1. Append(p.slots[e.index], n) \in Seq(Nat)
      BY <2>2, SlotsTyped DEF Open
    <3> DEFINE q == [p EXCEPT !.slots = WithSlot(p.slots, e.index, Append(p.slots[e.index], n))]
    <3>2. q \in ParserState
      BY <2>1, <3>1, WithSlotTyped
    <3>3. q.started = p.started
      BY DEF ParserState
    <3>4. f = [parser |-> q, out |-> Nothing]
      BY <2>1, <2>2 DEF OnDelta
    <3> HIDE DEF f, q
    <3>5. f.parser = q /\ f.out = Nothing
      BY <3>4
    <3>6. f.parser \in ParserState /\ f.out = Nothing /\ f.parser.started = p.started
      BY <3>2, <3>3, <3>5
    <3> QED BY <3>6 DEF f
  <2>3. CASE ~(Open(p, e.index) /\ e.fits)
    BY <2>1, <2>3 DEF OnDelta, SseError
  <2> QED BY <2>2, <2>3
<1>4. CASE e.type = "content_block_stop"
  <2>1. e.index \in Indices /\ f = OnStop(p, e, n)
    BY <1>4 DEF RawEvent, BlockEvent, Feed
  <2>2. [p EXCEPT !.slots = WithoutSlot(p.slots, e.index)] \in ParserState
    BY <2>1, WithoutSlotTyped
  <2>3. [p EXCEPT !.slots = WithoutSlot(p.slots, e.index)].started = p.started
    BY DEF ParserState
  <2>4. CASE Open(p, e.index) /\ e.fits
    <3>1. [type |-> "content_block_complete", at |-> n,
           index |-> e.index, block |-> p.slots[e.index]] \in Parsed
      BY <2>1, <2>4, SlotsTyped DEF Open, Parsed
    <3> DEFINE q == [p EXCEPT !.slots = WithoutSlot(p.slots, e.index)]
               o == [type |-> "content_block_complete", at |-> n,
                     index |-> e.index, block |-> p.slots[e.index]]
    <3>2. f = [parser |-> q, out |-> o]
      BY <2>1, <2>4 DEF OnStop
    <3>3. o.at = n
      OBVIOUS
    <3>4. q \in ParserState /\ q.started = p.started
      BY <2>2, <2>3
    <3> HIDE DEF f, q, o
    <3>5. f.parser = q /\ f.out = o
      BY <3>2
    <3>6. f.parser \in ParserState /\ f.parser.started = p.started
            /\ f.out \in Parsed /\ f.out.at = n
      BY <3>1, <3>3, <3>4, <3>5 DEF o
    <3> QED BY <3>6 DEF f
  <2>5. CASE ~(Open(p, e.index) /\ e.fits)
    BY <2>1, <2>2, <2>3, <2>5 DEF OnStop, SseError
  <2> QED BY <2>4, <2>5
<1>5. CASE e.type = "message_delta"
  BY <1>5 DEF Feed, Parsed
<1>6. CASE e.type = "unrecognised"
  BY <1>6 DEF Feed, SseError
<1> QED BY <1>1, <1>2, <1>3, <1>4, <1>5, <1>6 DEF RawEvent, BlockEvent

OrderInv ==
  /\ parser \in ParserState
  /\ wire \in Seq(RawEvent) /\ Len(wire) <= MaxRaw
  /\ delivered \in Seq(Item)
  /\ ~passing => delivered = <<>>
  /\ \A n \in DOMAIN delivered : delivered[n].req = requests
                               /\ delivered[n].event.at <= Len(wire)
  /\ Contract!OneStream(delivered)
  /\ pc = "reading" /\ parser.started => Contract!Begun(delivered)
  /\ outcome = "open" <=> pc # "done"
  /\ outcome \in {"open", "answer", "error"}

\* An event of the stream that is let through comes behind all others.
LEMMA TakeKeepsOrder ==
  ASSUME OrderInv, requests \in Nat, NEW o \in Parsed, Take(o),
         wire' \in Seq(RawEvent), Len(wire') = Len(wire) + 1, o.at = Len(wire'),
         requests' = requests
  PROVE  /\ delivered' \in Seq(Item) /\ passing'
         /\ \A n \in DOMAIN delivered' : delivered'[n].req = requests'
                                      /\ delivered'[n].event.at <= Len(wire')
         /\ Contract!OneStream(delivered')
         /\ Contract!Begun(delivered) => Contract!Begun(delivered')
         /\ o.type = "message_start" => Contract!Begun(delivered')
         /\ delivered' # <<>> /\ Contract!Front(delivered') = delivered
<1> DEFINE x == [req |-> requests, event |-> o]
<1>1. x \in Item /\ x.req = requests /\ x.event = o
  BY DEF Item
<1>2. delivered' = Append(delivered, x)
  BY DEF Take
<1> HIDE DEF x
<1>0. delivered \in Seq(Item) /\ Len(delivered) \in Nat
  BY DEF OrderInv
<1>3. /\ delivered' \in Seq(Item) /\ Len(delivered') = Len(delivered) + 1
      /\ \A n \in 1..Len(delivered) : delivered'[n] = delivered[n]
      /\ delivered'[Len(delivered) + 1] = x
  BY <1>0, <1>1, <1>2, AppendProperties
<1> USE DEF OrderInv
<1>4. \A n \in DOMAIN delivered : delivered[n].event.at \in Nat
  <2> SUFFICES ASSUME NEW n \in 1..Len(delivered) PROVE delivered[n].event.at \in Nat
    BY <1>0
  <2>1. delivered[n] \in Item
    BY <1>0
  <2>2. delivered[n].event \in Parsed
    BY <2>1 DEF Item
  <2> QED BY <2>2 DEF Parsed
<1>5. o.at \in Nat /\ Len(wire) \in Nat
  BY DEF Parsed
<1>6. \A n \in DOMAIN delivered' : delivered'[n].req = requests'
                                  /\ delivered'[n].event.at <= Len(wire')
  <2> SUFFICES ASSUME NEW n \in 1..Len(delivered')
               PROVE  delivered'[n].req = requests' /\ delivered'[n].event.at <= Len(wire')
    BY <1>3
  <2>1. CASE n \in 1..Len(delivered)
    BY <1>3, <1>4, <1>5, <2>1
  <2>2. CASE n = Len(delivered) + 1
    BY <1>1, <1>3, <1>5, <2>2
  <2> QED BY <1>3, <2>1, <2>2
<1>7. Contract!OneStream(delivered')
  <2> SUFFICES ASSUME NEW m \in DOMAIN delivered', NEW n \in DOMAIN delivered', m < n
               PROVE  /\ delivered'[m].req = delivered'[n].req
                      /\ delivered'[m].event.at < delivered'[n].event.at
    BY DEF Contract!OneStream
  <2>1. m \in 1..Len(delivered)
    BY <1>3
  <2>2. CASE n \in 1..Len(delivered)
    BY <1>3, <2>1, <2>2 DEF Contract!OneStream
  <2>3. CASE n = Len(delivered) + 1
    BY <1>1, <1>3, <1>4, <1>5, <2>1, <2>3
  <2> QED BY <1>3, <2>2, <2>3
<1>8. Contract!Begun(delivered) => Contract!Begun(delivered')
  <2> SUFFICES ASSUME NEW n \in 1..Len(delivered), delivered[n].event.type = "message_start"
               PROVE  Contract!Begun(delivered')
    BY <1>0 DEF Contract!Begun
  <2>1. n \in DOMAIN delivered' /\ delivered'[n].event.type = "message_start"
    BY <1>0, <1>3
  <2> HIDE DEF OrderInv
  <2> QED BY <2>1 DEF Contract!Begun
<1>9. o.type = "message_start" => Contract!Begun(delivered')
  <2> HIDE DEF OrderInv
  <2>1. Len(delivered') \in DOMAIN delivered' /\ delivered'[Len(delivered')].event = o
    BY <1>0, <1>1, <1>3
  <2> QED BY <2>1 DEF Contract!Begun
<1>10. delivered' # <<>> /\ Contract!Front(delivered') = delivered
  <2>1. Len(delivered) \in Nat /\ Len(delivered') - 1 = Len(delivered)
    BY <1>3
  <2>2. SubSeq(delivered', 1, Len(delivered)) = delivered
    BY <1>3, <2>1
  <2> QED BY <1>3, <2>1, <2>2 DEF Contract!Front
<1>11. passing'
  BY DEF Take
<1> QED BY <1>3, <1>6, <1>7, <1>8, <1>9, <1>10, <1>11

\* The steps of the contract and the stuttering of it, and the invariant kept.
Kept == OrderInv' /\ [Contract!Next]_<<delivered, outcome>>

\* An error leaves the stack, or nothing does: the consumer's view is kept.
LEMMA ErrorKeeps ==
  ASSUME OrderInv, NEW e, Emit(e), e.type = "error", pc = "reading",
         UNCHANGED <<wire, requests>>, parser' \in ParserState
  PROVE  Kept
<1>1. \/ pc' = "done" /\ outcome' = "error" /\ UNCHANGED <<passing, delivered>>
      \/ pc' \in {"onRetry", "onFallback"} /\ UNCHANGED <<passing, delivered, outcome>>
  BY DEF Emit, Fall, Yield, Throw
<1>2. outcome = "open"
  BY DEF OrderInv
<1>3. OrderInv'
  BY <1>1, <1>2 DEF OrderInv, Contract!OneStream, Contract!Begun
<1>4. [Contract!Next]_<<delivered, outcome>>
  BY <1>1, <1>2 DEF Contract!Next, Contract!Fail
<1> QED BY <1>3, <1>4 DEF Kept

\* The same between two attempts.
LEMMA FallKeeps ==
  ASSUME OrderInv, Fall(held), IsApiError(held), ~passing, Between,
         UNCHANGED <<wire, parser, requests>>
  PROVE  Kept
<1>1. \/ pc' = "done" /\ outcome' = "error" /\ UNCHANGED <<passing, delivered>>
      \/ pc' = "onFallback" /\ UNCHANGED <<passing, delivered, outcome>>
  BY DEF Fall, Yield, Throw, IsApiError
<1>2. outcome = "open"
  BY DEF OrderInv, Between
<1>3. OrderInv'
  BY <1>1, <1>2 DEF OrderInv, Contract!OneStream, Contract!Begun
<1>4. [Contract!Next]_<<delivered, outcome>>
  BY <1>1, <1>2 DEF Contract!Next, Contract!Fail
<1> QED BY <1>3, <1>4 DEF Kept

\* A new request begins with nothing delivered.
LEMMA SendKeeps ==
  ASSUME OrderInv, NEW m, Send(m), ~passing, Between, UNCHANGED <<delivered, outcome>>
  PROVE  Kept
<1>1. delivered = <<>> /\ outcome = "open"
  BY DEF OrderInv, Between
<1>2. wire' = <<>> /\ pc' = "reading" /\ passing' = FALSE /\ parser' = FreshParser
  BY DEF Send
<1>3. FreshParser \in ParserState /\ ~FreshParser.started
  <2>1. <<>> \in [{} -> Seq(Nat)]
    OBVIOUS
  <2>2. <<>> \in UNION {[D -> Seq(Nat)] : D \in SUBSET Indices}
    BY <2>1
  <2> QED BY <2>2 DEF FreshParser, ParserState
<1>4. wire' \in Seq(RawEvent) /\ Len(wire') <= MaxRaw
  BY <1>2, StackLimits
<1>5. delivered' = <<>> /\ outcome' = "open"
  BY <1>1
<1>6. /\ delivered' \in Seq(Item)
      /\ \A n \in DOMAIN delivered' : delivered'[n].req = requests'
                                   /\ delivered'[n].event.at <= Len(wire')
      /\ Contract!OneStream(delivered')
  BY <1>5 DEF Contract!OneStream
<1> QED BY <1>1, <1>2, <1>3, <1>4, <1>5, <1>6 DEF OrderInv, Kept

\* Nothing is delivered at first, as the contract has it.
LEMMA OrderInit == Init => OrderInv /\ Contract!Init
<1> SUFFICES ASSUME Init PROVE OrderInv /\ Contract!Init
  OBVIOUS
<1>1. FreshParser \in ParserState /\ ~FreshParser.started
  <2>1. <<>> \in [{} -> Seq(Nat)]
    OBVIOUS
  <2>2. <<>> \in UNION {[D -> Seq(Nat)] : D \in SUBSET Indices}
    BY <2>1
  <2> QED BY <2>2 DEF FreshParser, ParserState
<1>2. wire = <<>> /\ delivered = <<>> /\ parser = FreshParser /\ pc = "reading"
        /\ outcome = "open"
  BY DEF Init
<1> QED BY <1>1, <1>2, StackLimits DEF OrderInv, Contract!Init, Contract!OneStream

\* Every step keeps the order of what is delivered, and is one of the contract.
LEMMA OrderStep == StackInv /\ OrderInv /\ [Next]_vars => Kept
<1> SUFFICES ASSUME StackInv, OrderInv, [Next]_vars PROVE Kept
  OBVIOUS
<1>0. requests \in Nat /\ (Between => ~passing /\ IsApiError(held))
  BY DEF StackInv, CountInv, HeldInv
<1>1. ASSUME NEW e \in RawEvent, WireSends(e) PROVE Kept
  <2> DEFINE f == Feed(parser, e, Len(wire) + 1)
  <2>1. /\ pc = "reading" /\ Len(wire) < MaxRaw
        /\ wire' = Append(wire, e) /\ parser' = f.parser /\ UNCHANGED requests
        /\ IF f.out = Nothing THEN UNCHANGED <<pc, passing, delivered, outcome>>
                               ELSE Emit(f.out)
    BY <1>1 DEF WireSends, sent, result
  <2>2. /\ wire' \in Seq(RawEvent) /\ Len(wire') = Len(wire) + 1
        /\ Len(wire') <= MaxRaw /\ Len(wire) \in Nat
    BY <2>1, StackLimits DEF OrderInv
  <2>3. /\ f.parser \in ParserState
        /\ f.out = Nothing \/ f.out.type = "error" \/ (f.out \in Parsed /\ f.out.at = Len(wire) + 1)
        /\ f.parser.started => parser.started \/ f.out.type = "message_start"
    BY <2>2, FeedTyped DEF OrderInv
  <2>4. ~IsApiError(f.out)
    BY ParserErrors
  <2> HIDE DEF f
  <2>5. outcome = "open" /\ delivered \in Seq(Item)
    BY <2>1 DEF OrderInv
  <2>6. CASE f.out = Nothing
    <3>1. parser'.started => parser.started
      BY <2>1, <2>3, <2>6 DEF Nothing
    <3>2. \A n \in DOMAIN delivered : delivered[n].event.at <= Len(wire')
      <4> SUFFICES ASSUME NEW n \in 1..Len(delivered) PROVE delivered[n].event.at <= Len(wire')
        BY <2>5
      <4>1. delivered[n] \in Item
        BY <2>5
      <4>2. delivered[n].event.at \in Nat
        BY <4>1 DEF Item, Parsed
      <4> QED BY <2>2, <2>5, <4>2 DEF OrderInv
    <3>3. UNCHANGED <<pc, passing, delivered, outcome, requests>>
      BY <2>1, <2>6
    <3> QED BY <2>1, <2>2, <2>3, <3>1, <3>2, <3>3
            DEF OrderInv, Kept, Contract!OneStream, Contract!Begun
  <2>7. CASE f.out # Nothing /\ f.out.type = "error"
    <3>1. pc' = "done" /\ outcome' = "error" /\ UNCHANGED <<passing, delivered>>
      BY <2>1, <2>4, <2>7 DEF Emit, Fall, Yield, Throw
    <3>2. \A n \in DOMAIN delivered : delivered[n].event.at <= Len(wire')
      <4> SUFFICES ASSUME NEW n \in 1..Len(delivered) PROVE delivered[n].event.at <= Len(wire')
        BY <2>5
      <4>1. delivered[n] \in Item
        BY <2>5
      <4>2. delivered[n].event.at \in Nat
        BY <4>1 DEF Item, Parsed
      <4> QED BY <2>2, <2>5, <4>2 DEF OrderInv
    <3>3. OrderInv'
      BY <2>1, <2>2, <2>3, <3>1, <3>2 DEF OrderInv, Contract!OneStream
    <3>4. Contract!Fail
      BY <2>5, <3>1 DEF Contract!Fail
    <3> QED BY <3>3, <3>4 DEF Kept, Contract!Next
  <2>8. CASE f.out # Nothing /\ f.out.type # "error"
    <3>1. Take(f.out) /\ f.out \in Parsed /\ f.out.at = Len(wire')
      BY <2>1, <2>2, <2>3, <2>4, <2>8 DEF Emit, Fall, Yield, IsApiError
    <3>2. UNCHANGED <<pc, outcome>>
      BY <3>1 DEF Take
    <3>3. /\ delivered' \in Seq(Item) /\ passing'
          /\ \A n \in DOMAIN delivered' : delivered'[n].req = requests'
                                       /\ delivered'[n].event.at <= Len(wire')
          /\ Contract!OneStream(delivered')
          /\ Contract!Begun(delivered) => Contract!Begun(delivered')
          /\ f.out.type = "message_start" => Contract!Begun(delivered')
          /\ delivered' # <<>> /\ Contract!Front(delivered') = delivered
      BY <1>0, <2>1, <2>2, <3>1, TakeKeepsOrder
    <3>4. OrderInv'
      BY <2>1, <2>2, <2>3, <3>2, <3>3 DEF OrderInv
    <3>5. Contract!Give
      BY <2>5, <3>2, <3>3 DEF Contract!Give
    <3> QED BY <3>4, <3>5 DEF Kept, Contract!Next
  <2> QED BY <2>6, <2>7, <2>8
<1>2. ASSUME NEW cls \in ErrorClass, WireFails(cls) PROVE Kept
  <2>1. /\ pc = "reading" /\ Emit(ApiError(cls)) /\ ApiError(cls).type = "error"
        /\ UNCHANGED <<wire, parser, requests>>
    BY <1>2 DEF WireFails, ApiError, stream
  <2> QED BY <2>1, ErrorKeeps DEF OrderInv
<1>3. CASE WireEnds
  <2>1. pc = "reading" /\ UNCHANGED <<wire, parser, requests>>
    BY <1>3 DEF WireEnds, stream
  <2>2. CASE AtEnd(parser) = Nothing
    <3>1. parser.started
      BY <2>2 DEF AtEnd, SseError, Nothing
    <3>2. pc' = "done" /\ outcome' = "answer" /\ UNCHANGED <<passing, delivered>>
      BY <1>3, <2>2 DEF WireEnds
    <3>3. outcome = "open" /\ Contract!Begun(delivered)
      BY <2>1, <3>1 DEF OrderInv
    <3>4. Contract!Answer
      BY <3>2, <3>3 DEF Contract!Answer
    <3>5. OrderInv'
      BY <2>1, <3>2 DEF OrderInv, Contract!OneStream
    <3> QED BY <3>4, <3>5 DEF Kept, Contract!Next
  <2>3. CASE AtEnd(parser) # Nothing
    <3>1. Emit(AtEnd(parser)) /\ AtEnd(parser).type = "error"
      BY <1>3, <2>3 DEF WireEnds, AtEnd, SseError
    <3> QED BY <2>1, <3>1, ErrorKeeps DEF OrderInv
  <2> QED BY <2>2, <2>3
<1>4. CASE IdleTimeout
  <2>1. /\ pc = "reading" /\ Emit(WatchdogError) /\ WatchdogError.type = "error"
        /\ UNCHANGED <<wire, parser, requests>>
    BY <1>4 DEF IdleTimeout, WatchdogError, stream, sent
  <2> QED BY <2>1, ErrorKeeps DEF OrderInv
<1>5. CASE RetryNoticed
  <2>1. Between /\ pc # "done" /\ UNCHANGED <<wire, parser, requests>>
    BY <1>5 DEF RetryNoticed, Between, stream, sent
  <2>2. CASE aborted
    BY <1>0, <1>5, <2>1, <2>2, FallKeeps DEF RetryNoticed
  <2>3. CASE ~aborted
    <3>1. pc' = "sleep" /\ pc = "onRetry" /\ UNCHANGED <<passing, delivered, outcome>>
      BY <1>5, <2>3 DEF RetryNoticed, result
    <3> QED BY <2>1, <3>1 DEF Kept, OrderInv, Contract!OneStream
  <2> QED BY <2>2, <2>3
<1>6. CASE SleepEnds
  <2>1. Between /\ Send(model) /\ UNCHANGED <<delivered, outcome>>
    BY <1>6 DEF SleepEnds, Between, result
  <2> QED BY <1>0, <2>1, SendKeeps
<1>7. CASE SleepAborted
  <2>1. Between /\ Fall(held) /\ UNCHANGED <<wire, parser, requests>>
    BY <1>7 DEF SleepAborted, Between, stream, sent
  <2> QED BY <1>0, <2>1, FallKeeps
<1>8. CASE FallbackNoticed
  <2>1. Between /\ Send("fallback") /\ UNCHANGED <<delivered, outcome>>
    BY <1>8 DEF FallbackNoticed, Between, result
  <2> QED BY <1>0, <2>1, SendKeeps
<1>9. CASE CallbackThrows
  <2>1. /\ outcome = "open" /\ outcome' = "error" /\ pc' = "done"
        /\ UNCHANGED <<passing, wire, parser, delivered, requests>>
    BY <1>9 DEF CallbackThrows, OrderInv, stream, sent
  <2>2. OrderInv'
    BY <2>1 DEF OrderInv, Contract!OneStream
  <2> QED BY <2>1, <2>2 DEF Kept, Contract!Next, Contract!Fail
<1>10. CASE Abort
  BY <1>10 DEF Abort, Kept, OrderInv, Contract!OneStream, Contract!Begun, stream, result, sent
<1>11. CASE UNCHANGED vars
  BY <1>11 DEF vars, Kept, OrderInv, Contract!OneStream, Contract!Begun
<1> QED BY <1>1, <1>2, <1>3, <1>4, <1>5, <1>6, <1>7, <1>8, <1>9, <1>10, <1>11
        DEF Next, StackStep

\* The consumer hears one stream in order, an error last, and an answer only of a
\* stream that began: the stack implements StreamContract.
THEOREM StackImplementsContract == Spec => ImplementsContract
<1>1. Init => OrderInv /\ Contract!Init
  BY OrderInit
<1>2. StackInv /\ OrderInv /\ [Next]_vars => OrderInv' /\ [Contract!Next]_<<delivered, outcome>>
  BY OrderStep DEF Kept
<1>3. <<delivered, outcome>> = Contract!cvars
  BY DEF Contract!cvars
<1> QED BY <1>1, <1>2, <1>3, StackAlways, PTL DEF Spec, ImplementsContract, Contract!Spec, Contract!cvars

------------------------------------------------------------------------------
(* An answer is the stream it was read from.                                 *)

IsComplete(e) == e.type = "content_block_complete"

\* Every open slot holds the deltas of its block so far.
SlotsFollow(w, p) ==
  \A i \in DOMAIN p.slots : Lists(p.slots[i], DeltasOf(w, i, Len(w)))

\* A block that was begun is open, or was closed later.
StartsFollow(w, p) ==
  \A i \in Indices : \A n \in DOMAIN w :
    IsStart(w[n], i) => i \in DOMAIN p.slots \/ \E k \in StopsOf(w, i) : n < k

\* A block that was handed over is one the stream closed, with its deltas.
BlocksFollow(w, d) ==
  \A n \in DOMAIN d :
    IsComplete(d[n].event) =>
      /\ d[n].event.at \in StopsOf(w, d[n].event.index)
      /\ Lists(d[n].event.block, DeltasOf(w, d[n].event.index, d[n].event.at))

\* A block the stream closed was handed over.
StopsFollow(w, d) ==
  \A i \in Indices : \A k \in StopsOf(w, i) :
    \E n \in DOMAIN d : IsComplete(d[n].event) /\ d[n].event.index = i /\ d[n].event.at = k

\* The parser and the consumer agree with the stream read so far.
Follows(w, p, d) ==
  SlotsFollow(w, p) /\ StartsFollow(w, p) /\ BlocksFollow(w, d) /\ StopsFollow(w, d)

BlocksInv ==
  /\ pc = "reading" \/ outcome = "answer" => Follows(wire, parser, delivered)
  /\ outcome = "answer" => parser.slots = <<>> /\ Contract!Begun(delivered)

\* Listing one more place that lies behind all others keeps the order.
LEMMA ListsAppend ==
  ASSUME NEW s \in Seq(Nat), NEW S, Lists(s, S), NEW n \in Nat, \A m \in S : m < n
  PROVE  Lists(Append(s, n), S \cup {n})
<1> DEFINE t == Append(s, n)
<1>1. /\ Len(s) \in Nat /\ DOMAIN s = 1..Len(s) /\ DOMAIN t = 1..(Len(s) + 1)
      /\ t[Len(s) + 1] = n /\ \A k \in 1..Len(s) : t[k] = s[k]
  OBVIOUS
<1>2. \A k \in 1..Len(s) : s[k] \in S
  BY <1>1 DEF Lists
<1> HIDE DEF t
<1>3. {t[k] : k \in DOMAIN t} = S \cup {n}
  <2>1. ASSUME NEW k \in DOMAIN t PROVE t[k] \in S \cup {n}
    <3>1. k \in 1..Len(s) \/ k = Len(s) + 1
      BY <1>1
    <3> QED BY <1>1, <1>2, <3>1
  <2>2. ASSUME NEW m \in S PROVE \E k \in DOMAIN t : t[k] = m
    <3>1. PICK k \in DOMAIN s : s[k] = m
      BY DEF Lists
    <3>2. k \in DOMAIN t /\ t[k] = m
      BY <1>1, <3>1
    <3> QED BY <3>2
  <2>3. \E k \in DOMAIN t : t[k] = n
    <3>1. Len(s) + 1 \in DOMAIN t
      BY <1>1
    <3> QED BY <1>1, <3>1
  <2> QED BY <2>1, <2>2, <2>3
<1>4. ASSUME NEW j \in DOMAIN t, NEW k \in DOMAIN t, j < k PROVE t[j] < t[k]
  <2>1. j \in 1..Len(s)
    BY <1>1, <1>4
  <2>2. CASE k \in 1..Len(s)
    BY <1>1, <1>4, <2>1, <2>2 DEF Lists
  <2>3. CASE k = Len(s) + 1
    BY <1>1, <1>2, <2>1, <2>3
  <2> QED BY <1>1, <2>2, <2>3
<1> QED BY <1>3, <1>4 DEF Lists, t

\* Nothing is listed by the empty sequence.
LEMMA ListsNothing == Lists(<<>>, {})
BY DEF Lists

\* One more raw event: the places before it keep their events.
LEMMA WireAppend ==
  ASSUME NEW w \in Seq(RawEvent), NEW e \in RawEvent
  PROVE  LET v == Append(w, e)
         IN  /\ v \in Seq(RawEvent) /\ Len(w) \in Nat /\ Len(v) = Len(w) + 1
             /\ DOMAIN w = 1..Len(w) /\ DOMAIN v = 1..(Len(w) + 1)
             /\ v[Len(w) + 1] = e /\ \A n \in 1..Len(w) : v[n] = w[n]
OBVIOUS

\* The stops of a stream one event longer.
LEMMA StopsAppend ==
  ASSUME NEW w \in Seq(RawEvent), NEW e \in RawEvent, NEW i
  PROVE  StopsOf(Append(w, e), i)
           = StopsOf(w, i) \cup (IF IsStop(e, i) THEN {Len(w) + 1} ELSE {})
<1> DEFINE v == Append(w, e)
<1>1. /\ Len(w) \in Nat /\ DOMAIN w = 1..Len(w) /\ DOMAIN v = 1..(Len(w) + 1)
      /\ v[Len(w) + 1] = e /\ \A n \in 1..Len(w) : v[n] = w[n]
  BY WireAppend
<1> HIDE DEF v
<1>2. StopsOf(v, i) = {n \in DOMAIN v : IsStop(v[n], i)}
      /\ StopsOf(w, i) = {n \in DOMAIN w : IsStop(w[n], i)}
  BY DEF StopsOf
<1>3. StopsOf(v, i) = StopsOf(w, i) \cup (IF IsStop(e, i) THEN {Len(w) + 1} ELSE {})
  <2>1. ASSUME NEW n \in StopsOf(v, i)
        PROVE  n \in StopsOf(w, i) \/ (n = Len(w) + 1 /\ IsStop(e, i))
    <3>1. n \in 1..Len(w) \/ n = Len(w) + 1
      BY <1>1, <1>2
    <3> QED BY <1>1, <1>2, <3>1
  <2>2. ASSUME NEW n \in StopsOf(w, i) PROVE n \in StopsOf(v, i)
    BY <1>1, <1>2
  <2>3. ASSUME IsStop(e, i) PROVE Len(w) + 1 \in StopsOf(v, i)
    BY <1>1, <1>2, <2>3
  <2>4. CASE IsStop(e, i)
    BY <2>1, <2>2, <2>3, <2>4
  <2>5. CASE ~IsStop(e, i)
    BY <2>1, <2>2, <2>5
  <2> QED BY <2>4, <2>5
<1> QED BY <1>3 DEF v

\* The deltas up to a place of the stream stay what they are when it goes on.
LEMMA DeltasStay ==
  ASSUME NEW w \in Seq(RawEvent), NEW e \in RawEvent, NEW i, NEW k \in 1..Len(w)
  PROVE  DeltasOf(Append(w, e), i, k) = DeltasOf(w, i, k)
<1> DEFINE v == Append(w, e)
<1>1. Len(w) \in Nat /\ \A n \in 1..Len(w) : v[n] = w[n]
  BY WireAppend
<1> HIDE DEF v
<1>2. \A n \in 1..k : v[n] = w[n] /\ \A m \in n..k : v[m] = w[m]
  BY <1>1
<1>3. DeltasOf(v, i, k) = DeltasOf(w, i, k)
  BY <1>2 DEF DeltasOf
<1> QED BY <1>3 DEF v

\* The deltas of a stream one event longer: a start drops them, a delta adds
\* itself, any other event leaves them.
LEMMA DeltasAppend ==
  ASSUME NEW w \in Seq(RawEvent), NEW e \in RawEvent, NEW i
  PROVE  LET D == DeltasOf(Append(w, e), i, Len(w) + 1)
         IN  /\ IsStart(e, i) => D = {}
             /\ IsDelta(e, i) => D = DeltasOf(w, i, Len(w)) \cup {Len(w) + 1}
             /\ ~IsStart(e, i) /\ ~IsDelta(e, i) => D = DeltasOf(w, i, Len(w))
<1> DEFINE v == Append(w, e)
           L == Len(w)
           D == DeltasOf(v, i, L + 1)
<1>1. L \in Nat /\ v[L + 1] = e /\ \A n \in 1..L : v[n] = w[n]
  BY WireAppend
<1> HIDE DEF v, L
<1>2. ASSUME NEW n \in 1..L
      PROVE  n \in D <=> n \in DeltasOf(w, i, L) /\ ~IsStart(e, i)
  <2>1. n \in 1..(L + 1) /\ v[n] = w[n]
    BY <1>1
  <2>2. (\A m \in n..(L + 1) : ~IsStart(v[m], i))
          <=> ~IsStart(e, i) /\ \A m \in n..L : ~IsStart(w[m], i)
    <3>1. ASSUME NEW m \in n..L PROVE m \in n..(L + 1) /\ v[m] = w[m]
      BY <1>1
    <3>2. ASSUME NEW m \in n..(L + 1) PROVE m \in n..L \/ m = L + 1
      BY <1>1
    <3>3. L + 1 \in n..(L + 1)
      BY <1>1
    <3> QED BY <1>1, <3>1, <3>2, <3>3
  <2>3. n \in D <=> IsDelta(v[n], i) /\ \A m \in n..(L + 1) : ~IsStart(v[m], i)
    BY <2>1 DEF DeltasOf
  <2>4. n \in DeltasOf(w, i, L) <=> IsDelta(w[n], i) /\ \A m \in n..L : ~IsStart(w[m], i)
    BY DEF DeltasOf
  <2> HIDE DEF D
  <2> QED BY <2>1, <2>2, <2>3, <2>4
<1>3. L + 1 \in D <=> IsDelta(e, i)
  <2>1. L + 1 \in 1..(L + 1) /\ (L + 1)..(L + 1) = {L + 1}
    BY <1>1
  <2>2. IsDelta(e, i) => ~IsStart(e, i)
    BY DEF IsDelta, IsStart
  <2> QED BY <1>1, <2>1, <2>2 DEF DeltasOf
<1>4. D \subseteq 1..L \cup {L + 1} /\ DeltasOf(w, i, L) \subseteq 1..L
  BY <1>1 DEF DeltasOf
<1> HIDE DEF D
<1>5. L + 1 \notin 1..L
  BY <1>1
<1>6. IsDelta(e, i) => ~IsStart(e, i)
  BY DEF IsDelta, IsStart
<1>7. IsStart(e, i) => D = {}
  BY <1>2, <1>3, <1>4, <1>6
<1>8. IsDelta(e, i) => D = DeltasOf(w, i, L) \cup {L + 1}
  BY <1>2, <1>3, <1>4, <1>5, <1>6
<1>9. ~IsStart(e, i) /\ ~IsDelta(e, i) => D = DeltasOf(w, i, L)
  BY <1>2, <1>3, <1>4, <1>5
<1> QED BY <1>7, <1>8, <1>9 DEF D, L, v

\* What a raw event that is no error does to the slots, and what comes out.
LEMMA FeedShape ==
  ASSUME NEW p \in ParserState, NEW e \in RawEvent, NEW n \in Nat,
         Feed(p, e, n).out.type # "error"
  PROVE  LET q == Feed(p, e, n).parser.slots
             o == Feed(p, e, n).out
         IN  \/ \E j \in Indices : /\ IsStart(e, j) /\ o = Nothing
                                   /\ q = WithSlot(p.slots, j, <<>>)
             \/ \E j \in Indices : /\ IsDelta(e, j) /\ o = Nothing /\ j \in DOMAIN p.slots
                                   /\ q = WithSlot(p.slots, j, Append(p.slots[j], n))
             \/ \E j \in Indices : /\ IsStop(e, j) /\ j \in DOMAIN p.slots
                                   /\ q = WithoutSlot(p.slots, j)
                                   /\ o = [type |-> "content_block_complete", at |-> n,
                                           index |-> j, block |-> p.slots[j]]
             \/ /\ e.type \in {"message_start", "message_delta"} /\ q = p.slots
                /\ o.type \in {"message_start", "message_delta"}
<1> DEFINE f == Feed(p, e, n)
<1>0. \A c : [p EXCEPT !.slots = c].slots = c
  BY DEF ParserState
<1>1. CASE e.type = "content_block_start"
  <2>1. e.index \in Indices /\ f = OnStart(p, e) /\ IsStart(e, e.index)
    BY <1>1 DEF RawEvent, BlockEvent, Feed, IsStart
  <2>2. CASE e.fits
    <3> DEFINE c == WithSlot(p.slots, e.index, <<>>)
    <3>1. f = [parser |-> [p EXCEPT !.slots = c], out |-> Nothing]
      BY <2>1, <2>2 DEF OnStart
    <3> HIDE DEF f, c
    <3>2. f.parser.slots = c /\ f.out = Nothing
      BY <1>0, <3>1
    <3> QED BY <2>1, <3>2 DEF f, c
  <2>3. CASE ~e.fits
    BY <2>1, <2>3 DEF OnStart, SseError
  <2> QED BY <2>2, <2>3
<1>2. CASE e.type = "content_block_delta"
  <2>1. e.index \in Indices /\ f = OnDelta(p, e, n) /\ IsDelta(e, e.index)
    BY <1>2 DEF RawEvent, BlockEvent, Feed, IsDelta
  <2>2. CASE Open(p, e.index) /\ e.fits
    <3> DEFINE c == WithSlot(p.slots, e.index, Append(p.slots[e.index], n))
    <3>1. f = [parser |-> [p EXCEPT !.slots = c], out |-> Nothing]
      BY <2>1, <2>2 DEF OnDelta
    <3> HIDE DEF f, c
    <3>2. f.parser.slots = c /\ f.out = Nothing /\ e.index \in DOMAIN p.slots
      BY <1>0, <2>2, <3>1 DEF Open
    <3> QED BY <2>1, <3>2 DEF f, c
  <2>3. CASE ~(Open(p, e.index) /\ e.fits)
    BY <2>1, <2>3 DEF OnDelta, SseError
  <2> QED BY <2>2, <2>3
<1>3. CASE e.type = "content_block_stop"
  <2>1. e.index \in Indices /\ f = OnStop(p, e, n) /\ IsStop(e, e.index)
    BY <1>3 DEF RawEvent, BlockEvent, Feed, IsStop
  <2>2. CASE Open(p, e.index) /\ e.fits
    <3> DEFINE c == WithoutSlot(p.slots, e.index)
               a == [type |-> "content_block_complete", at |-> n,
                     index |-> e.index, block |-> p.slots[e.index]]
    <3>1. f = [parser |-> [p EXCEPT !.slots = c], out |-> a]
      BY <2>1, <2>2 DEF OnStop
    <3> HIDE DEF f, c, a
    <3>2. f.parser.slots = c /\ f.out = a /\ e.index \in DOMAIN p.slots
      BY <1>0, <2>2, <3>1 DEF Open
    <3> QED BY <2>1, <3>2 DEF f, c, a
  <2>3. CASE ~(Open(p, e.index) /\ e.fits)
    BY <2>1, <2>3 DEF OnStop, SseError
  <2> QED BY <2>2, <2>3
<1>4. CASE e.type = "message_start"
  <2>1. CASE p.started
    BY <1>4, <2>1 DEF Feed, SseError
  <2>2. CASE ~p.started
    BY <1>4, <2>2 DEF Feed, ParserState
  <2> QED BY <2>1, <2>2
<1>5. CASE e.type = "message_delta"
  BY <1>5 DEF Feed
<1>6. CASE e.type = "unrecognised"
  BY <1>6 DEF Feed, SseError
<1> QED BY <1>1, <1>2, <1>3, <1>4, <1>5, <1>6 DEF RawEvent, BlockEvent

\* What was handed over stays right when the stream goes on.
LEMMA BlocksStay ==
  ASSUME NEW w \in Seq(RawEvent), NEW e \in RawEvent, NEW d, BlocksFollow(w, d)
  PROVE  BlocksFollow(Append(w, e), d)
<1> DEFINE v == Append(w, e)
<1> SUFFICES ASSUME NEW n \in DOMAIN d, IsComplete(d[n].event)
             PROVE  /\ d[n].event.at \in StopsOf(v, d[n].event.index)
                    /\ Lists(d[n].event.block, DeltasOf(v, d[n].event.index, d[n].event.at))
  BY DEF BlocksFollow
<1> DEFINE i == d[n].event.index
           k == d[n].event.at
<1>1. k \in StopsOf(w, i) /\ Lists(d[n].event.block, DeltasOf(w, i, k))
  BY DEF BlocksFollow
<1>2. k \in 1..Len(w)
  BY <1>1, WireAppend DEF StopsOf
<1> HIDE DEF i, k
<1>3. k \in StopsOf(v, i)
  BY <1>1, StopsAppend
<1>4. DeltasOf(v, i, k) = DeltasOf(w, i, k)
  BY <1>2, DeltasStay
<1> QED BY <1>1, <1>3, <1>4 DEF i, k

\* A slot that the event does not touch has the deltas it had.
LEMMA SlotStays ==
  ASSUME NEW w \in Seq(RawEvent), NEW e \in RawEvent, NEW i, NEW s,
         ~IsStart(e, i), ~IsDelta(e, i), Lists(s, DeltasOf(w, i, Len(w)))
  PROVE  Lists(s, DeltasOf(Append(w, e), i, Len(Append(w, e))))
BY DeltasAppend, WireAppend

\* The slots of the parser follow the stream by one event.
LEMMA SlotsKeep ==
  ASSUME NEW p \in ParserState, NEW w \in Seq(RawEvent), NEW e \in RawEvent,
         SlotsFollow(w, p), Feed(p, e, Len(w) + 1).out.type # "error"
  PROVE  SlotsFollow(Append(w, e), Feed(p, e, Len(w) + 1).parser)
<1> DEFINE v == Append(w, e)
           L == Len(w)
           q == Feed(p, e, L + 1).parser.slots
           o == Feed(p, e, L + 1).out
<1>0. L \in Nat /\ L + 1 \in Nat /\ Len(v) = L + 1
  BY WireAppend
<1>1. \/ \E j \in Indices : /\ IsStart(e, j) /\ o = Nothing
                            /\ q = WithSlot(p.slots, j, <<>>)
      \/ \E j \in Indices : /\ IsDelta(e, j) /\ o = Nothing /\ j \in DOMAIN p.slots
                            /\ q = WithSlot(p.slots, j, Append(p.slots[j], L + 1))
      \/ \E j \in Indices : /\ IsStop(e, j) /\ j \in DOMAIN p.slots
                            /\ q = WithoutSlot(p.slots, j)
      \/ e.type \in {"message_start", "message_delta"} /\ q = p.slots
  BY <1>0, FeedShape
<1> HIDE DEF o, q
<1> SUFFICES ASSUME NEW i \in DOMAIN q PROVE Lists(q[i], DeltasOf(v, i, Len(v)))
  BY DEF SlotsFollow, q
<1>2. \A k \in DOMAIN p.slots : Lists(p.slots[k], DeltasOf(w, k, Len(w)))
  BY DEF SlotsFollow
<1>3. CASE \E j \in Indices : IsStart(e, j) /\ q = WithSlot(p.slots, j, <<>>)
  <2>1. PICK j \in Indices : IsStart(e, j) /\ q = WithSlot(p.slots, j, <<>>)
    BY <1>3
  <2>2. CASE i = j
    <3>1. q[i] = <<>>
      BY <2>1, <2>2 DEF WithSlot
    <3>2. DeltasOf(v, i, Len(v)) = {}
      BY <1>0, <2>1, <2>2, DeltasAppend
    <3> QED BY <3>1, <3>2, ListsNothing
  <2>3. CASE i # j
    <3>1. i \in DOMAIN p.slots /\ q[i] = p.slots[i]
      BY <2>1, <2>3 DEF WithSlot
    <3>2. ~IsStart(e, i) /\ ~IsDelta(e, i)
      BY <2>1, <2>3 DEF IsStart, IsDelta
    <3> QED BY <1>2, <3>1, <3>2, SlotStays
  <2> QED BY <2>2, <2>3
<1>4. CASE \E j \in Indices : /\ IsDelta(e, j) /\ j \in DOMAIN p.slots
                              /\ q = WithSlot(p.slots, j, Append(p.slots[j], L + 1))
  <2>1. PICK j \in Indices : /\ IsDelta(e, j) /\ j \in DOMAIN p.slots
                             /\ q = WithSlot(p.slots, j, Append(p.slots[j], L + 1))
    BY <1>4
  <2>2. CASE i = j
    <3>1. q[i] = Append(p.slots[j], L + 1)
      BY <2>1, <2>2 DEF WithSlot
    <3>2. DeltasOf(v, i, Len(v)) = DeltasOf(w, j, Len(w)) \cup {L + 1}
      BY <1>0, <2>1, <2>2, DeltasAppend
    <3>3. p.slots[j] \in Seq(Nat)
      BY <2>1, SlotsTyped
    <3>4. \A m \in DeltasOf(w, j, Len(w)) : m < L + 1
      BY <1>0 DEF DeltasOf
    <3>5. Lists(p.slots[j], DeltasOf(w, j, Len(w)))
      BY <1>2, <2>1
    <3> DEFINE s == p.slots[j]
               S == DeltasOf(w, j, Len(w))
    <3> HIDE DEF L, v, s, S
    <3>6. Lists(Append(s, L + 1), S \cup {L + 1})
      BY <1>0, <3>3, <3>4, <3>5, ListsAppend DEF s, S
    <3> QED BY <3>1, <3>2, <3>6 DEF s, S
  <2>3. CASE i # j
    <3>1. i \in DOMAIN p.slots /\ q[i] = p.slots[i]
      BY <2>1, <2>3 DEF WithSlot
    <3>2. ~IsStart(e, i) /\ ~IsDelta(e, i)
      BY <2>1, <2>3 DEF IsStart, IsDelta
    <3> QED BY <1>2, <3>1, <3>2, SlotStays
  <2> QED BY <2>2, <2>3
<1>5. CASE \E j \in Indices : IsStop(e, j) /\ q = WithoutSlot(p.slots, j)
  <2>1. i \in DOMAIN p.slots /\ q[i] = p.slots[i]
    BY <1>5 DEF WithoutSlot
  <2>2. ~IsStart(e, i) /\ ~IsDelta(e, i)
    BY <1>5 DEF IsStop, IsStart, IsDelta
  <2> QED BY <1>2, <2>1, <2>2, SlotStays
<1>6. CASE e.type \in {"message_start", "message_delta"} /\ q = p.slots
  <2>1. ~IsStart(e, i) /\ ~IsDelta(e, i)
    BY <1>6 DEF IsStart, IsDelta
  <2> QED BY <1>2, <1>6, <2>1, SlotStays
<1> QED BY <1>1, <1>3, <1>4, <1>5, <1>6

\* A block that was begun is open or was closed later, one event on.
LEMMA StartsKeep ==
  ASSUME NEW p \in ParserState, NEW w \in Seq(RawEvent), NEW e \in RawEvent,
         StartsFollow(w, p), Feed(p, e, Len(w) + 1).out.type # "error"
  PROVE  StartsFollow(Append(w, e), Feed(p, e, Len(w) + 1).parser)
<1> DEFINE v == Append(w, e)
           L == Len(w)
           q == Feed(p, e, L + 1).parser.slots
           o == Feed(p, e, L + 1).out
<1>0. /\ L \in Nat /\ L + 1 \in Nat /\ Len(v) = L + 1 /\ DOMAIN v = 1..(L + 1)
      /\ DOMAIN w = 1..L /\ v[L + 1] = e /\ \A n \in 1..L : v[n] = w[n]
  BY WireAppend
<1>1. \/ \E j \in Indices : /\ IsStart(e, j) /\ o = Nothing
                            /\ q = WithSlot(p.slots, j, <<>>)
      \/ \E j \in Indices : /\ IsDelta(e, j) /\ o = Nothing /\ j \in DOMAIN p.slots
                            /\ q = WithSlot(p.slots, j, Append(p.slots[j], L + 1))
      \/ \E j \in Indices : /\ IsStop(e, j) /\ j \in DOMAIN p.slots
                            /\ q = WithoutSlot(p.slots, j)
      \/ e.type \in {"message_start", "message_delta"} /\ q = p.slots
  BY <1>0, FeedShape
<1> HIDE DEF o, q, v, L
<1>2. ASSUME NEW i, i \in DOMAIN p.slots PROVE i \in DOMAIN q \/ IsStop(e, i)
  BY <1>1, <1>2 DEF WithSlot, WithoutSlot
<1>3. ASSUME NEW i \in Indices, IsStart(e, i) PROVE i \in DOMAIN q
  BY <1>1, <1>3 DEF WithSlot, IsStart, IsDelta, IsStop
<1>4. ASSUME NEW i PROVE StopsOf(v, i) = StopsOf(w, i) \cup (IF IsStop(e, i) THEN {L + 1} ELSE {})
  BY StopsAppend DEF v, L
<1> SUFFICES ASSUME NEW i \in Indices, NEW n \in 1..(L + 1), IsStart(v[n], i)
             PROVE  i \in DOMAIN q \/ \E k \in StopsOf(v, i) : n < k
  BY <1>0 DEF StartsFollow, q, v, L
<1>5. CASE n = L + 1
  BY <1>0, <1>3, <1>5
<1>6. CASE n \in 1..L
  <2>1. IsStart(w[n], i)
    BY <1>0, <1>6
  <2>2. i \in DOMAIN p.slots \/ \E k \in StopsOf(w, i) : n < k
    BY <1>0, <1>6, <2>1 DEF StartsFollow
  <2>3. CASE \E k \in StopsOf(w, i) : n < k
    BY <1>4, <2>3
  <2>4. CASE i \in DOMAIN p.slots /\ i \notin DOMAIN q
    <3>1. L + 1 \in StopsOf(v, i)
      BY <1>2, <1>4, <2>4
    <3>2. n < L + 1
      BY <1>0, <1>6
    <3> QED BY <3>1, <3>2
  <2> QED BY <2>2, <2>3, <2>4
<1> QED BY <1>0, <1>5, <1>6

\* What the consumer has follows the stream by one event.
LEMMA DeliveredKeep ==
  ASSUME NEW p \in ParserState, NEW w \in Seq(RawEvent), NEW e \in RawEvent,
         NEW d \in Seq(Item), NEW c \in Seq(Item), NEW r \in Nat,
         SlotsFollow(w, p), BlocksFollow(w, d), StopsFollow(w, d),
         Feed(p, e, Len(w) + 1).out.type # "error",
         c = IF Feed(p, e, Len(w) + 1).out = Nothing THEN d
             ELSE Append(d, [req |-> r, event |-> Feed(p, e, Len(w) + 1).out])
  PROVE  BlocksFollow(Append(w, e), c) /\ StopsFollow(Append(w, e), c)
<1> DEFINE v == Append(w, e)
           L == Len(w)
           q == Feed(p, e, L + 1).parser.slots
           o == Feed(p, e, L + 1).out
<1>0. L \in Nat /\ L + 1 \in Nat /\ Len(v) = L + 1
  BY WireAppend
<1>1. \/ \E j \in Indices : /\ IsStart(e, j) /\ o = Nothing
                            /\ q = WithSlot(p.slots, j, <<>>)
      \/ \E j \in Indices : /\ IsDelta(e, j) /\ o = Nothing /\ j \in DOMAIN p.slots
                            /\ q = WithSlot(p.slots, j, Append(p.slots[j], L + 1))
      \/ \E j \in Indices : /\ IsStop(e, j) /\ j \in DOMAIN p.slots
                            /\ q = WithoutSlot(p.slots, j)
                            /\ o = [type |-> "content_block_complete", at |-> L + 1,
                                    index |-> j, block |-> p.slots[j]]
      \/ /\ e.type \in {"message_start", "message_delta"} /\ q = p.slots
         /\ o.type \in {"message_start", "message_delta"}
  BY <1>0, FeedShape
<1>2. ASSUME NEW i PROVE StopsOf(v, i) = StopsOf(w, i) \cup (IF IsStop(e, i) THEN {L + 1} ELSE {})
  BY StopsAppend
<1>3. BlocksFollow(v, d)
  BY BlocksStay
<1>4. c = IF o = Nothing THEN d ELSE Append(d, [req |-> r, event |-> o])
  OBVIOUS
<1> HIDE DEF o, q, v, L
<1>5. /\ Len(d) \in Nat /\ DOMAIN d = 1..Len(d) /\ DOMAIN c = 1..Len(c)
      /\ \A n \in DOMAIN d : n \in DOMAIN c /\ c[n] = d[n]
      /\ o = Nothing => c = d
      /\ o # Nothing => /\ Len(c) = Len(d) + 1
                        /\ DOMAIN c = 1..(Len(d) + 1)
                        /\ Len(d) + 1 \in DOMAIN c /\ c[Len(d) + 1].event = o
  <2>1. CASE o = Nothing
    BY <1>4, <2>1
  <2>2. CASE o # Nothing
    BY <1>4, <2>2
  <2> QED BY <2>1, <2>2
<1>6. ASSUME NEW n \in DOMAIN c, n \notin DOMAIN d
      PROVE  o # Nothing /\ n = Len(d) + 1 /\ c[n].event = o
  <2>1. o # Nothing
    BY <1>5, <1>6
  <2>2. n \in 1..(Len(d) + 1) /\ n \notin 1..Len(d) /\ Len(d) \in Nat
    BY <1>5, <1>6, <2>1
  <2>3. n = Len(d) + 1
    BY <2>2
  <2>4. c[Len(d) + 1].event = o
    BY <1>5, <2>1
  <2> QED BY <2>1, <2>3, <2>4
<1>7. CASE \E j \in Indices : /\ IsStop(e, j) /\ j \in DOMAIN p.slots
                              /\ o = [type |-> "content_block_complete", at |-> L + 1,
                                      index |-> j, block |-> p.slots[j]]
  <2>1. PICK j \in Indices : /\ IsStop(e, j) /\ j \in DOMAIN p.slots
                             /\ o = [type |-> "content_block_complete", at |-> L + 1,
                                     index |-> j, block |-> p.slots[j]]
    BY <1>7
  <2>2. /\ IsComplete(o) /\ o.at = L + 1 /\ o.index = j /\ o.block = p.slots[j]
        /\ o # Nothing
    BY <2>1 DEF IsComplete, Nothing
  <2>3. L + 1 \in StopsOf(v, j)
    BY <1>2, <2>1
  <2>4. Lists(p.slots[j], DeltasOf(v, j, L + 1))
    <3>1. Lists(p.slots[j], DeltasOf(w, j, Len(w)))
      BY <2>1 DEF SlotsFollow
    <3>2. ~IsStart(e, j) /\ ~IsDelta(e, j)
      BY <2>1 DEF IsStop, IsStart, IsDelta
    <3>3. Lists(p.slots[j], DeltasOf(v, j, Len(v)))
      BY <3>1, <3>2, SlotStays DEF v
    <3> QED BY <1>0, <3>3
  <2>5. BlocksFollow(v, c)
    <3> SUFFICES ASSUME NEW n \in DOMAIN c, IsComplete(c[n].event)
                 PROVE  /\ c[n].event.at \in StopsOf(v, c[n].event.index)
                        /\ Lists(c[n].event.block,
                                 DeltasOf(v, c[n].event.index, c[n].event.at))
      BY DEF BlocksFollow
    <3>1. CASE n \in DOMAIN d
      BY <1>3, <1>5, <3>1 DEF BlocksFollow
    <3>2. CASE n \notin DOMAIN d
      <4>1. c[n].event = o
        BY <1>6, <3>2
      <4> QED BY <2>2, <2>3, <2>4, <4>1
    <3> QED BY <3>1, <3>2
  <2>6. StopsFollow(v, c)
    <3> SUFFICES ASSUME NEW i \in Indices, NEW k \in StopsOf(v, i)
                 PROVE  \E n \in DOMAIN c : IsComplete(c[n].event)
                              /\ c[n].event.index = i /\ c[n].event.at = k
      BY DEF StopsFollow
    <3>1. CASE k \in StopsOf(w, i)
      <4>1. PICK n \in DOMAIN d : IsComplete(d[n].event)
                    /\ d[n].event.index = i /\ d[n].event.at = k
        BY <3>1 DEF StopsFollow
      <4>2. n \in DOMAIN c /\ c[n] = d[n]
        BY <1>5
      <4> QED BY <4>1, <4>2
    <3>2. CASE k = L + 1 /\ IsStop(e, i)
      <4>1. i = j
        BY <2>1, <3>2 DEF IsStop
      <4>2. Len(d) + 1 \in DOMAIN c /\ c[Len(d) + 1].event = o
        BY <1>5, <2>2
      <4> QED BY <2>2, <3>2, <4>1, <4>2
    <3> QED BY <1>2, <3>1, <3>2
  <2> QED BY <2>5, <2>6 DEF v
<1>8. CASE /\ \A i \in Indices : ~IsStop(e, i)
           /\ o = Nothing \/ ~IsComplete(o)
  <2>1. BlocksFollow(v, c)
    <3> SUFFICES ASSUME NEW n \in DOMAIN c, IsComplete(c[n].event)
                 PROVE  /\ c[n].event.at \in StopsOf(v, c[n].event.index)
                        /\ Lists(c[n].event.block,
                                 DeltasOf(v, c[n].event.index, c[n].event.at))
      BY DEF BlocksFollow
    <3>1. n \in DOMAIN d
      BY <1>6, <1>8
    <3> QED BY <1>3, <1>5, <3>1 DEF BlocksFollow
  <2>2. StopsFollow(v, c)
    <3> SUFFICES ASSUME NEW i \in Indices, NEW k \in StopsOf(v, i)
                 PROVE  \E n \in DOMAIN c : IsComplete(c[n].event)
                              /\ c[n].event.index = i /\ c[n].event.at = k
      BY DEF StopsFollow
    <3>1. k \in StopsOf(w, i)
      BY <1>2, <1>8
    <3>2. PICK n \in DOMAIN d : IsComplete(d[n].event)
                  /\ d[n].event.index = i /\ d[n].event.at = k
      BY <3>1 DEF StopsFollow
    <3>3. n \in DOMAIN c /\ c[n] = d[n]
      BY <1>5
    <3> QED BY <3>2, <3>3
  <2> QED BY <2>1, <2>2 DEF v
<1>9. CASE \E j \in Indices : (IsStart(e, j) \/ IsDelta(e, j)) /\ o = Nothing
  BY <1>8, <1>9 DEF IsStart, IsDelta, IsStop
<1>10. CASE e.type \in {"message_start", "message_delta"} /\ o.type \in {"message_start", "message_delta"}
  BY <1>8, <1>10 DEF IsStop, IsComplete
<1> QED BY <1>1, <1>7, <1>9, <1>10

\* One more event of the stream, and what is let through of it.
LEMMA FollowsKeep ==
  ASSUME OrderInv, Follows(wire, parser, delivered), requests \in Nat,
         NEW e \in RawEvent, Feed(parser, e, Len(wire) + 1).out.type # "error",
         wire' = Append(wire, e), parser' = Feed(parser, e, Len(wire) + 1).parser,
         delivered' = IF Feed(parser, e, Len(wire) + 1).out = Nothing THEN delivered
                      ELSE Append(delivered,
                                  [req |-> requests, event |-> Feed(parser, e, Len(wire) + 1).out]),
         delivered' \in Seq(Item)
  PROVE  Follows(wire', parser', delivered')
<1>1. parser \in ParserState /\ wire \in Seq(RawEvent) /\ delivered \in Seq(Item)
  BY DEF OrderInv
<1>2. SlotsFollow(wire', parser') /\ StartsFollow(wire', parser')
  BY <1>1, SlotsKeep, StartsKeep DEF Follows
<1>3. BlocksFollow(wire', delivered') /\ StopsFollow(wire', delivered')
  BY <1>1, DeliveredKeep DEF Follows
<1> QED BY <1>2, <1>3 DEF Follows

\* A request that was just sent has streamed nothing.
LEMMA FreshFollows == Follows(<<>>, FreshParser, <<>>)
BY DEF Follows, SlotsFollow, StartsFollow, BlocksFollow, StopsFollow, StopsOf, FreshParser

\* An error leaves the stack: it is decided on, or the consumer throws.
LEMMA ErrorLeaves ==
  ASSUME NEW e, Emit(e), e.type = "error", outcome = "open"
  PROVE  pc' # "reading" /\ outcome' # "answer"
BY DEF Emit, Fall, Yield, Throw

\* The same between two attempts.
LEMMA FallLeaves ==
  ASSUME Fall(held), IsApiError(held), outcome = "open"
  PROVE  pc' # "reading" /\ outcome' # "answer"
BY DEF Fall, Yield, Throw, IsApiError

\* A new request begins with nothing streamed and nothing delivered.
LEMMA SendFollows ==
  ASSUME OrderInv, NEW m, Send(m), ~passing, outcome = "open", UNCHANGED <<delivered, outcome>>
  PROVE  BlocksInv'
<1>1. delivered = <<>>
  BY DEF OrderInv
<1>2. wire' = <<>> /\ parser' = FreshParser /\ delivered' = <<>> /\ outcome' = "open"
  BY <1>1 DEF Send
<1> QED BY <1>2, FreshFollows DEF BlocksInv

\* At first nothing is streamed and nothing delivered.
LEMMA BlocksInit == Init => BlocksInv
BY FreshFollows DEF Init, BlocksInv

\* Every step keeps the parser and the consumer in agreement with the stream.
LEMMA BlocksStep == StackInv /\ OrderInv /\ OrderInv' /\ BlocksInv /\ [Next]_vars => BlocksInv'
<1> SUFFICES ASSUME StackInv, OrderInv, OrderInv', BlocksInv, [Next]_vars PROVE BlocksInv'
  OBVIOUS
<1>0. /\ requests \in Nat /\ (Between => ~passing /\ IsApiError(held))
      /\ pc # "done" => outcome = "open"
      /\ delivered' \in Seq(Item)
  BY DEF StackInv, CountInv, HeldInv, OrderInv
<1>q. ASSUME pc' # "reading", outcome' # "answer" PROVE BlocksInv'
  BY <1>q DEF BlocksInv
<1>1. ASSUME NEW e \in RawEvent, WireSends(e) PROVE BlocksInv'
  <2> DEFINE f == Feed(parser, e, Len(wire) + 1)
  <2>1. /\ pc = "reading" /\ wire' = Append(wire, e) /\ parser' = f.parser
        /\ IF f.out = Nothing THEN UNCHANGED <<pc, delivered, outcome>> ELSE Emit(f.out)
    BY <1>1 DEF WireSends, result
  <2>2. outcome = "open" /\ Follows(wire, parser, delivered)
    BY <1>0, <2>1 DEF BlocksInv
  <2>3. ~IsApiError(f.out)
    BY ParserErrors
  <2> HIDE DEF f
  <2>4. CASE f.out # Nothing /\ f.out.type = "error"
    BY <1>q, <2>1, <2>2, <2>4, ErrorLeaves
  <2>5. CASE f.out = Nothing \/ f.out.type # "error"
    <3>1. f.out.type # "error"
      BY <2>5 DEF Nothing
    <3>2. f.out # Nothing => Take(f.out)
      BY <2>1, <2>3, <3>1 DEF Emit, Fall, Yield, IsApiError
    <3>3. /\ UNCHANGED <<pc, outcome>>
          /\ delivered' = IF f.out = Nothing THEN delivered
                          ELSE Append(delivered, [req |-> requests, event |-> f.out])
      BY <2>1, <3>2 DEF Take
    <3>4. Follows(wire', parser', delivered')
      BY <1>0, <2>1, <2>2, <3>1, <3>3, FollowsKeep DEF f
    <3> QED BY <2>2, <3>3, <3>4 DEF BlocksInv
  <2> QED BY <2>4, <2>5
<1>2. ASSUME NEW cls \in ErrorClass, WireFails(cls) PROVE BlocksInv'
  <2>1. pc = "reading" /\ Emit(ApiError(cls)) /\ ApiError(cls).type = "error"
    BY <1>2 DEF WireFails, ApiError
  <2> QED BY <1>0, <1>q, <2>1, ErrorLeaves
<1>3. CASE WireEnds
  <2>1. pc = "reading" /\ UNCHANGED <<wire, parser>>
    BY <1>3 DEF WireEnds, stream
  <2>2. CASE AtEnd(parser) = Nothing
    <3>1. parser.started /\ parser.slots = <<>>
      BY <2>2 DEF AtEnd, SseError, Nothing
    <3>2. UNCHANGED delivered /\ outcome' = "answer"
      BY <1>3, <2>2 DEF WireEnds
    <3>3. Contract!Begun(delivered) /\ Follows(wire, parser, delivered)
      BY <2>1, <3>1 DEF OrderInv, BlocksInv
    <3> QED BY <2>1, <3>1, <3>2, <3>3 DEF BlocksInv
  <2>3. CASE AtEnd(parser) # Nothing
    <3>1. Emit(AtEnd(parser)) /\ AtEnd(parser).type = "error"
      BY <1>3, <2>3 DEF WireEnds, AtEnd, SseError
    <3> QED BY <1>0, <1>q, <2>1, <3>1, ErrorLeaves
  <2> QED BY <2>2, <2>3
<1>4. CASE IdleTimeout
  <2>1. pc = "reading" /\ Emit(WatchdogError) /\ WatchdogError.type = "error"
    BY <1>4 DEF IdleTimeout, WatchdogError
  <2> QED BY <1>0, <1>q, <2>1, ErrorLeaves
<1>5. CASE RetryNoticed
  <2>1. Between /\ pc # "done"
    BY <1>5 DEF RetryNoticed, Between
  <2>2. CASE aborted
    BY <1>0, <1>5, <1>q, <2>1, <2>2, FallLeaves DEF RetryNoticed
  <2>3. CASE ~aborted
    BY <1>0, <1>5, <1>q, <2>1, <2>3 DEF RetryNoticed, result
  <2> QED BY <2>2, <2>3
<1>6. CASE SleepEnds
  <2>1. Between /\ pc # "done" /\ Send(model) /\ UNCHANGED <<delivered, outcome>>
    BY <1>6 DEF SleepEnds, Between, result
  <2> QED BY <1>0, <2>1, SendFollows
<1>7. CASE SleepAborted
  <2>1. Between /\ pc # "done" /\ Fall(held)
    BY <1>7 DEF SleepAborted, Between
  <2> QED BY <1>0, <1>q, <2>1, FallLeaves
<1>8. CASE FallbackNoticed
  <2>1. Between /\ pc # "done" /\ Send("fallback") /\ UNCHANGED <<delivered, outcome>>
    BY <1>8 DEF FallbackNoticed, Between, result
  <2> QED BY <1>0, <2>1, SendFollows
<1>9. CASE CallbackThrows
  BY <1>9, <1>q DEF CallbackThrows
<1>10. CASE Abort
  BY <1>10 DEF Abort, BlocksInv, stream, result, Contract!Begun
<1>11. CASE UNCHANGED vars
  BY <1>11 DEF vars, BlocksInv, Contract!Begun
<1> QED BY <1>1, <1>2, <1>3, <1>4, <1>5, <1>6, <1>7, <1>8, <1>9, <1>10, <1>11
        DEF Next, StackStep

\* A nonempty set of positions in a sequence has a last one.
LEMMA LastExists ==
  ASSUME NEW L \in Nat, NEW S, S \subseteq 1..L, S # {}
  PROVE  \E m \in S : \A k \in S : k <= m
<1> DEFINE T == {m \in Nat : \A k \in S : k <= m}
           R == {p \in Nat \X Nat : p[1] < p[2]}
<1>1. R = OpToRel(<, Nat)
  BY DEF OpToRel
<1>2. IsWellFoundedOn(R, Nat)
  BY <1>1, NatLessThanWellFounded
<1>3. L \in T /\ T \subseteq Nat
  OBVIOUS
<1> HIDE DEF R
<1>4. PICK m \in T : \A k \in T : ~ (<<k, m>> \in R)
  <2> HIDE DEF T
  <2> QED BY <1>2, <1>3, WFMin
<1>5. m \in Nat /\ \A k \in S : k <= m
  BY <1>4
<1>6. m \in S
  <2> SUFFICES ASSUME m \notin S PROVE FALSE
    OBVIOUS
  <2>1. PICK x \in S : TRUE
    OBVIOUS
  <2>2. m > 0
    BY <1>5, <2>1
  <2>3. m - 1 \in Nat
    BY <1>5, <2>2
  <2>4. \A k \in S : k <= m - 1
    BY <1>5
  <2>5. m - 1 \in T
    BY <2>3, <2>4
  <2>6. <<m - 1, m>> \in R
    BY <1>5, <2>3 DEF R
  <2> QED BY <1>4, <2>5, <2>6
<1> QED BY <1>5, <1>6

\* What the consumer holds when a stream is accepted is what the stream closed.
LEMMA AcceptedIsTheStream == OrderInv /\ BlocksInv => AnswerIsTheStream
<1> SUFFICES ASSUME OrderInv, BlocksInv, outcome = "answer" PROVE AnswerIsTheStream
  BY DEF AnswerIsTheStream
<1> DEFINE g == delivered
           done == {n \in DOMAIN g : g[n].event.type = "content_block_complete"}
           last(i) == CHOOSE n \in done : g[n].event.index = i
                                            /\ \A k \in done : g[k].event.index = i => k <= n
           got == Collected(g)
<1>1. /\ Follows(wire, parser, g) /\ parser.slots = <<>> /\ Contract!Begun(g)
      /\ wire \in Seq(RawEvent) /\ g \in Seq(Item)
      /\ \A n \in DOMAIN g : g[n].req = requests
      /\ \A m, n \in DOMAIN g : m < n => g[m].event.at < g[n].event.at
  BY DEF BlocksInv, OrderInv, Contract!OneStream
<1>2. /\ DOMAIN g = 1..Len(g) /\ Len(g) \in Nat
      /\ \A n \in DOMAIN g : g[n].event \in Parsed
  <2>1. g \in Seq(Item)
    BY <1>1
  <2> HIDE DEF g
  <2>2. DOMAIN g = 1..Len(g) /\ Len(g) \in Nat /\ \A n \in 1..Len(g) : g[n] \in Item
    BY <2>1
  <2> QED BY <2>2 DEF Item
<1>3. /\ got.message = \E n \in DOMAIN g : g[n].event.type = "message_start"
      /\ got.blocks = [i \in {g[n].event.index : n \in done} |-> g[last(i)].event.block]
  BY DEF Collected
<1> HIDE DEF g, got
<1>4. got.message
  BY <1>1, <1>3 DEF Contract!Begun
<1>5. ASSUME NEW n \in done
      PROVE  /\ n \in DOMAIN g /\ g[n].event.index \in Indices /\ g[n].event.at \in Nat
             /\ g[n].event.at \in StopsOf(wire, g[n].event.index)
             /\ Lists(g[n].event.block, DeltasOf(wire, g[n].event.index, g[n].event.at))
  <2>1. g[n].event \in Parsed /\ g[n].event.type = "content_block_complete"
    BY <1>2
  <2>2. g[n].event.index \in Indices /\ g[n].event.at \in Nat
    BY <2>1 DEF Parsed
  <2> QED BY <1>1, <2>1, <2>2 DEF Follows, BlocksFollow, IsComplete
<1>6. ASSUME NEW i \in Indices, NEW k \in StopsOf(wire, i)
      PROVE  \E n \in done : g[n].event.index = i /\ g[n].event.at = k
  BY <1>1 DEF Follows, StopsFollow, IsComplete
<1>7. DOMAIN got.blocks = {g[n].event.index : n \in done}
  BY <1>3
<1>8. DOMAIN got.blocks = {i \in Indices : StopsOf(wire, i) # {}}
  <2>1. ASSUME NEW n \in done PROVE g[n].event.index \in {i \in Indices : StopsOf(wire, i) # {}}
    BY <1>5
  <2>2. ASSUME NEW i \in Indices, StopsOf(wire, i) # {}
        PROVE  i \in {g[n].event.index : n \in done}
    <3>1. PICK k \in StopsOf(wire, i) : TRUE
      BY <2>2
    <3>2. PICK n \in done : g[n].event.index = i
      BY <1>6, <3>1
    <3> QED BY <3>2
  <2> QED BY <1>7, <2>1, <2>2
<1>9. ASSUME NEW i \in DOMAIN got.blocks
      PROVE  \E k \in StopsOf(wire, i) : /\ \A j \in StopsOf(wire, i) : j <= k
                                         /\ Lists(got.blocks[i], DeltasOf(wire, i, k))
  <2> DEFINE S == {n \in done : g[n].event.index = i}
             n == last(i)
  <2>1. S \subseteq 1..Len(g) /\ S # {} /\ i \in Indices
    BY <1>2, <1>7, <1>8
  <2>2. \E m \in S : \A k \in S : k <= m
    <3> HIDE DEF S
    <3> QED BY <1>2, <2>1, LastExists
  <2>3. /\ n \in done /\ g[n].event.index = i
        /\ \A k \in done : g[k].event.index = i => k <= n
    BY <2>2
  <2>4. got.blocks[i] = g[n].event.block
    BY <1>3, <1>7
  <2> HIDE DEF n, done
  <2> DEFINE k == g[n].event.at
  <2>5. k \in StopsOf(wire, i) /\ Lists(got.blocks[i], DeltasOf(wire, i, k)) /\ k \in Nat
    BY <1>5, <2>3, <2>4
  <2>6. ASSUME NEW j \in StopsOf(wire, i) PROVE j <= k
    <3>1. PICK m \in done : g[m].event.index = i /\ g[m].event.at = j
      BY <1>6, <2>1
    <3>2. m <= n /\ m \in DOMAIN g /\ n \in DOMAIN g /\ m \in Nat /\ n \in Nat
      BY <1>2, <1>5, <2>3, <3>1
    <3>3. m = n \/ m < n
      BY <3>2
    <3>4. m < n => j < k
      BY <1>1, <3>1, <3>2
    <3>5. j \in Nat
      BY <1>5, <3>1
    <3> QED BY <2>5, <3>1, <3>3, <3>4, <3>5
  <2> QED BY <2>5, <2>6
<1>10. ASSUME NEW i \in Indices, NEW n \in DOMAIN wire, IsStart(wire[n], i)
       PROVE  \E k \in StopsOf(wire, i) : n < k
  <2>1. i \notin DOMAIN parser.slots
    BY <1>1
  <2> QED BY <1>1, <1>10, <2>1 DEF Follows, StartsFollow
<1> QED BY <1>1, <1>4, <1>8, <1>9, <1>10 DEF AnswerIsTheStream, g, got

\* The order of what is delivered is kept in every reachable state.
LEMMA OrderAlways == Spec => []OrderInv
<1>1. StackInv /\ OrderInv /\ [Next]_vars => OrderInv'
  BY OrderStep DEF Kept
<1> QED BY OrderInit, <1>1, StackAlways, PTL DEF Spec

\* An answer that is accepted is the message of one stream, whatever was
\* streamed, for any number of blocks, retries and requests.
THEOREM AnswersAreStreams == Spec => []AnswerIsTheStream
<1>1. Spec => []BlocksInv
  BY BlocksInit, BlocksStep, StackAlways, OrderAlways, PTL DEF Spec
<1> QED BY <1>1, OrderAlways, AcceptedIsTheStream, PTL

------------------------------------------------------------------------------
\* The places the stack may stand at.
PcInv == pc \in {"reading", "onRetry", "sleep", "onFallback", "done"}

\* Every step leads to one of the places the stack may stand at.
LEMMA PcStep == StackInv /\ PcInv /\ [Next]_vars => PcInv'
<1> SUFFICES ASSUME StackInv, PcInv, [Next]_vars PROVE PcInv'
  OBVIOUS
<1> USE DEF PcInv
<1>0. ASSUME NEW e, Emit(e) PROVE PcInv'
  BY <1>0 DEF Emit, Fall, Yield, Throw, Take
<1>1. ASSUME NEW e, Fall(e) PROVE PcInv'
  BY <1>1 DEF Fall, Yield, Throw, Take
<1>2. ASSUME NEW e \in RawEvent, WireSends(e) PROVE PcInv'
  BY <1>0, <1>2 DEF WireSends
<1>3. ASSUME NEW cls \in ErrorClass, WireFails(cls) PROVE PcInv'
  BY <1>0, <1>3 DEF WireFails
<1>4. CASE WireEnds
  BY <1>0, <1>4 DEF WireEnds
<1>5. CASE IdleTimeout
  BY <1>0, <1>5 DEF IdleTimeout
<1>6. CASE RetryNoticed \/ SleepAborted
  BY <1>1, <1>6 DEF RetryNoticed, SleepAborted
<1>7. CASE SleepEnds \/ FallbackNoticed \/ CallbackThrows \/ Abort \/ UNCHANGED vars
  BY <1>7 DEF SleepEnds, FallbackNoticed, CallbackThrows, Abort, Send, vars
<1> QED BY <1>2, <1>3, <1>4, <1>5, <1>6, <1>7 DEF Next, StackStep

\* Every variable keeps its type, for every number of retries and every stream.
THEOREM TypeCorrect == Spec => []TypeOK
<1>1. Init => PcInv
  BY DEF Init, PcInv
<1>3. StackInv /\ OrderInv /\ PcInv => TypeOK
  <2> SUFFICES ASSUME StackInv, OrderInv, PcInv PROVE TypeOK
    OBVIOUS
  <2>1. attempt \in 0..MaxRetries /\ requests \in Nat \ {0} /\ model \in {"primary", "fallback"}
    BY StackLimits DEF StackInv, CountInv
  <2>2. open \subseteq 1..requests
    BY DEF StackInv, CountInv, OpenInv
  <2>3. late \in Seq({"primary", "fallback"})
    <3>1. late = <<>> \/ late = <<"fallback">>
      BY DEF StackInv, LateInv
    <3>2. <<"fallback">> \in Seq({"primary", "fallback"}) /\ <<>> \in Seq({"primary", "fallback"})
      OBVIOUS
    <3> QED BY <3>1, <3>2, Zenon
  <2>4. passing \in BOOLEAN /\ aborted \in BOOLEAN
    BY DEF StackInv, HeldInv, LateInv
  <2>5. /\ wire \in Seq(RawEvent) /\ Len(wire) <= MaxRaw
        /\ outcome \in {"open", "answer", "error"} /\ (outcome = "open") = (pc # "done")
    BY DEF OrderInv
  <2> QED BY <2>1, <2>2, <2>3, <2>4, <2>5 DEF TypeOK, PcInv
<1> QED BY <1>1, <1>3, OrderAlways, PcStep, StackAlways, PTL DEF Spec

==============================================================================
