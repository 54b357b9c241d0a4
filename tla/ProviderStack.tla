--------------------------- MODULE ProviderStack ---------------------------
(***************************************************************************)
(* One model answer, as AgentLoop asks for it: collectAssistantMessage     *)
(* reads FallbackProvider around RetryingProvider around WatchdogProvider  *)
(* around AnthropicStreamingProvider, the order WatchdogProvider.ts        *)
(* recommends.  All of them are generators driven by the consumer's pull,  *)
(* so between two places where something outside answers (the API, a       *)
(* timer, a callback) the whole stack runs as one step.                    *)
(*                                                                         *)
(* The API is external: it may fail a request, stream anything, end, or    *)
(* fall silent for good.  An abort arrives as a task of its own, hence     *)
(* never between the end of a backoff and the request that follows it.     *)
(***************************************************************************)
EXTENDS SseParser, FiniteSets

CONSTANTS MaxRetries,     \* RetryPolicy: retries after the first attempt
          MaxRaw,         \* bound: raw events of one stream
          TightBudget     \* TRUE: the retry policy may run out of time

ASSUME StackLimits == MaxRetries \in Nat /\ MaxRaw \in Nat /\ TightBudget \in BOOLEAN

VARIABLES
    pc,          \* "reading", "onRetry", "sleep", "onFallback", "done"
    model,       \* whose turn it is: "primary" or "fallback"
    attempt,     \* RetryingProvider: attempts of this model that failed
    passing,     \* the first event of this request has been let through
    held,        \* the error being decided on
    wire,        \* raw events of this request
    parser,      \* SSEParser's state for this request
    aborted,     \* params.signal
    delivered,   \* parsed events the consumer got
    outcome,     \* of collectAssistantMessage: "open", "answer", "error"
    failure,     \* the error it threw
    requests,    \* requests sent so far
    open,        \* those the API has not ended
    late         \* models asked after the abort

vars == <<pc, model, attempt, passing, held, wire, parser, aborted,
          delivered, outcome, failure, requests, open, late>>
stream == <<wire, parser>>
sent   == <<requests, open, late>>
result == <<delivered, outcome, failure>>

------------------------------------------------------------------------------
(* Errors.                                                                   *)

ErrorClass == {"rate_limited", "transient", "client", "model_not_found", "unknown"}

ApiError(cls) == [type |-> "error", source |-> "api_error", cls |-> cls]

\* Seeded fault: idleness is taken for a network failure.
WatchdogErrorTransient == [type |-> "error", source |-> "api_error", cls |-> "transient", idle |-> TRUE]

\* "Stream watchdog: idle for 90000ms, aborting" matches no pattern.
WatchdogError == [type |-> "error", source |-> "api_error", cls |-> "unknown", idle |-> TRUE]

IsApiError(e) == e.type = "error" /\ e.source = "api_error"

isRetryable(cls) == cls \in {"rate_limited", "transient"}

shouldFallback(cls) == cls \in {"model_not_found", "transient"}

\* Seeded fault: one retry too many.
DecisionsOffByOne(cls) ==
    (IF isRetryable(cls) /\ attempt <= MaxRetries THEN {"retry"} ELSE {})
      \cup (IF ~isRetryable(cls) \/ attempt > MaxRetries \/ TightBudget THEN {"pass"} ELSE {})

\* RetryPolicy.decide: what it may answer for an error of this class.
Decisions(cls) ==
    (IF isRetryable(cls) /\ attempt < MaxRetries THEN {"retry"} ELSE {})
      \cup (IF ~isRetryable(cls) \/ attempt >= MaxRetries \/ TightBudget THEN {"pass"} ELSE {})

------------------------------------------------------------------------------
(* The consumer.                                                             *)

\* What collectAssistantMessage has put together from events g: later blocks
\* of an index replace earlier ones.
Collected(g) ==
    LET done == {n \in DOMAIN g : g[n].event.type = "content_block_complete"}
        last(i) == CHOOSE n \in done : g[n].event.index = i
                                         /\ \A k \in done : g[k].event.index = i => k <= n
    IN  [message |-> \E n \in DOMAIN g : g[n].event.type = "message_start",
         blocks  |-> [i \in {g[n].event.index : n \in done} |-> g[last(i)].event.block]]

\* The consumer throws at an error and leaves; its return() ends the
\* generators above the watchdog, nobody pulls again.
Throw(e) ==
    /\ pc' = "done" /\ outcome' = "error" /\ failure' = e
    /\ UNCHANGED <<passing, delivered>>

Take(e) ==
    /\ delivered' = Append(delivered, [req |-> requests, event |-> e])
    /\ passing' = TRUE
    /\ UNCHANGED <<pc, outcome, failure>>

\* An event leaves the stack.
Yield(e) == /\ IF e.type = "error" THEN Throw(e) ELSE Take(e)
            /\ UNCHANGED <<model, attempt, held>>

\* Seeded fault: the fallback model has a fallback of its own.
FallAgain(e) ==
    IF ~passing /\ IsApiError(e) /\ shouldFallback(e.cls)
    THEN /\ pc' = "onFallback" /\ held' = e
         /\ UNCHANGED <<model, attempt, passing, delivered, outcome, failure>>
    ELSE Yield(e)

\* FallbackProvider looks at the first event its inner stream gives.
Fall(e) ==
    IF model = "primary" /\ ~passing /\ IsApiError(e) /\ shouldFallback(e.cls)
    THEN /\ pc' = "onFallback" /\ held' = e
         /\ UNCHANGED <<model, attempt, passing, delivered, outcome, failure>>
    ELSE Yield(e)

\* Seeded fault: a failure in the middle of a stream is retried, too.
EmitRetriesLate(e) ==
    \/ /\ IsApiError(e) /\ "retry" \in Decisions(e.cls)
       /\ pc' = "onRetry" /\ held' = e
       /\ UNCHANGED <<model, attempt, passing, delivered, outcome, failure>>
    \/ /\ IsApiError(e) => "pass" \in Decisions(e.cls)
       /\ Fall(e)

\* RetryingProvider looks at the first event of every request.
Emit(e) ==
    \/ /\ ~passing /\ IsApiError(e) /\ "retry" \in Decisions(e.cls)
       /\ pc' = "onRetry" /\ held' = e
       /\ UNCHANGED <<model, attempt, passing, delivered, outcome, failure>>
    \/ /\ ~passing /\ IsApiError(e) => "pass" \in Decisions(e.cls)
       /\ Fall(e)

------------------------------------------------------------------------------
(* The API and the parser.                                                   *)

\* A new request goes out for model m.
Send(m) ==
    /\ pc' = "reading" /\ passing' = FALSE
    /\ wire' = <<>> /\ parser' = FreshParser
    /\ requests' = requests + 1
    /\ open' = open \cup {requests + 1}
    /\ late' = IF aborted THEN Append(late, m) ELSE late

\* The SDK rejects a request whose signal is aborted.
Rejected == late # <<>>

WireSends(e) ==
    /\ pc = "reading" /\ Len(wire) < MaxRaw /\ ~Rejected
    /\ wire' = Append(wire, e)
    /\ LET f == Feed(parser, e, Len(wire) + 1)
       IN  /\ parser' = f.parser
           /\ IF f.out = Nothing
              THEN UNCHANGED <<pc, model, attempt, passing, held, result>>
              ELSE Emit(f.out)
    /\ UNCHANGED <<aborted, sent>>

\* The request is refused, or its stream breaks.
WireFails(cls) ==
    /\ pc = "reading"
    /\ Rejected => cls = "client"
    /\ open' = open \ {requests}
    /\ Emit(ApiError(cls))
    /\ UNCHANGED <<stream, aborted, requests, late>>

WireEnds ==
    /\ pc = "reading" /\ ~Rejected
    /\ open' = open \ {requests}
    /\ LET e == AtEnd(parser)
       IN  IF e = Nothing
           THEN /\ pc' = "done" /\ outcome' = "answer"
                /\ UNCHANGED <<model, attempt, passing, held, delivered, failure>>
           ELSE Emit(e)
    /\ UNCHANGED <<stream, aborted, requests, late>>

\* Seeded fault: the timer is armed for the first event only.
IdleTimeoutFirst ==
    /\ pc = "reading" /\ ~passing
    /\ Emit(WatchdogError)
    /\ UNCHANGED <<stream, aborted, sent>>

\* withStreamWatchdog: no parsed event for idleTimeoutMs.  The timer does not
\* see raw events, and the request below is not ended.
IdleTimeout ==
    /\ pc = "reading"
    /\ Emit(WatchdogError)
    /\ UNCHANGED <<stream, aborted, sent>>

------------------------------------------------------------------------------
(* Retry and fallback.                                                       *)

\* onRetry has returned; the signal is looked at before the backoff.
RetryNoticed ==
    /\ pc = "onRetry"
    /\ IF aborted THEN Fall(held)
       ELSE /\ pc' = "sleep"
            /\ UNCHANGED <<model, attempt, passing, held, result>>
    /\ UNCHANGED <<stream, aborted, sent>>

\* Seeded fault: the backoff does not listen to the signal.
SleepEndsDeaf ==
    /\ pc = "sleep"
    /\ attempt' = attempt + 1
    /\ Send(model)
    /\ UNCHANGED <<model, held, aborted, result>>

\* The backoff is over: the old stream is closed, the next one opened.
SleepEnds ==
    /\ pc = "sleep" /\ ~aborted
    /\ attempt' = attempt + 1
    /\ Send(model)
    /\ UNCHANGED <<model, held, aborted, result>>

SleepAborted ==
    /\ pc = "sleep" /\ aborted
    /\ Fall(held)
    /\ UNCHANGED <<stream, aborted, sent>>

\* onFallback has returned; the signal is not looked at.
FallbackNoticed ==
    /\ pc = "onFallback"
    /\ model' = "fallback" /\ attempt' = 0
    /\ Send("fallback")
    /\ UNCHANGED <<held, aborted, result>>

\* onRetry or onFallback throws: nobody catches it below AgentLoop.
CallbackThrows ==
    /\ pc \in {"onRetry", "onFallback"}
    /\ pc' = "done" /\ outcome' = "error" /\ failure' = held
    /\ UNCHANGED <<model, attempt, passing, held, stream, aborted, delivered, sent>>

Abort ==
    /\ pc # "done" /\ ~aborted
    /\ aborted' = TRUE
    /\ UNCHANGED <<pc, model, attempt, passing, held, stream, result, sent>>

------------------------------------------------------------------------------
\* The loop has just looked at the signal and pulls for the first time.
Init ==
    /\ pc = "reading" /\ model = "primary" /\ attempt = 0 /\ passing = FALSE
    /\ held = Nothing /\ wire = <<>> /\ parser = FreshParser /\ aborted = FALSE
    /\ delivered = <<>> /\ outcome = "open" /\ failure = Nothing
    /\ requests = 1 /\ open = {1} /\ late = <<>>

StackStep ==
    \/ IdleTimeout \/ RetryNoticed \/ SleepEnds \/ SleepAborted \/ FallbackNoticed

Next ==
    \/ \E e \in RawEvent : WireSends(e)
    \/ \E cls \in ErrorClass : WireFails(cls)
    \/ WireEnds
    \/ StackStep
    \/ CallbackThrows
    \/ Abort

Spec == Init /\ [][Next]_vars

\* Timers fire and callbacks return.  Of the API nothing is assumed.
FairSpec == Spec /\ WF_vars(StackStep)

------------------------------------------------------------------------------
(* Properties.                                                               *)

\* The type of every variable; an outcome is there exactly when the stack is done.
TypeOK ==
    /\ pc \in {"reading", "onRetry", "sleep", "onFallback", "done"}
    /\ model \in {"primary", "fallback"} /\ attempt \in 0..MaxRetries
    /\ passing \in BOOLEAN /\ aborted \in BOOLEAN
    /\ wire \in Seq(RawEvent) /\ Len(wire) <= MaxRaw
    /\ outcome \in {"open", "answer", "error"}
    /\ (outcome = "open") = (pc # "done")
    /\ requests \in Nat \ {0} /\ open \subseteq 1..requests
    /\ late \in Seq({"primary", "fallback"})

\* An answer that is accepted is the message of one stream: collectAssistantMessage
\* holds every block that stream closed, the last one of each index, with all of
\* its deltas in order and nothing of another request, and no block was left open.
AnswerIsTheStream ==
    outcome = "answer" =>
        LET got == Collected(delivered)
        IN  /\ got.message
            /\ DOMAIN got.blocks = {i \in Indices : StopsOf(wire, i) # {}}
            /\ \A i \in DOMAIN got.blocks :
                 \E k \in StopsOf(wire, i) :
                   /\ \A j \in StopsOf(wire, i) : j <= k
                   /\ Lists(got.blocks[i], DeltasOf(wire, i, k))
            /\ \A n \in DOMAIN delivered : delivered[n].req = requests
            /\ \A i \in Indices :
                 \A n \in DOMAIN wire : IsStart(wire[n], i) => \E k \in StopsOf(wire, i) : n < k

\* However errors, retries and the switch of models combine, one answer costs
\* at most MaxRetries + 1 requests of each model.
RequestsBounded == requests <= 2 * (MaxRetries + 1)

\* RetryingProvider and FallbackProvider drop a stream only when the API is
\* done with it: two requests of one answer are never in flight together.
RequestsDoNotOverlap == Cardinality(open) <= 1

\* An abort ends the retries, in the callback as well as in the backoff.  The one
\* request that may still go out is the switch to the fallback model, which
\* takes the interrupted retry for a failure of the primary.
AbortStopsRetries == late \in {<<>>, <<"fallback">>}

\* The consumer sees one well-ordered stream, however it was obtained.
Contract == INSTANCE StreamContract WITH given <- delivered, status <- outcome
ImplementsContract == Contract!Spec

\* The answer comes or fails although the API may fall silent at any point.
Terminates == <>(pc = "done")

\* WatchdogProvider.ts:12: an idle stream is requested again, and when it stays
\* idle the model is switched.
IdleIsRetried ==
    outcome = "error" /\ failure = WatchdogError /\ delivered = <<>> /\ ~aborted
        => requests > 1

==============================================================================
