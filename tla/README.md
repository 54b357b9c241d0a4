# neptune-lab: models, checks and proofs

TLA+ for the agent engine of this repository (`src/neptune-engine`) and for the
server built on it (`src/neptune-ai/server`). Paths below are relative to
`src/neptune-engine/src/engine` unless they begin with `server/`, which stands for
`src/neptune-ai/server/src`.

`PROJECT.json` holds the same facts in a form tools can read: components, runs,
the source lines of every definition (`map`), the hazards, the findings, the
theorems, and for every checked property a seeded fault that breaks it.

## 1. The system

One query runs through these parts:

    server: thread-manager ── AgentEngine ── runQueryViaAgentLoop ── AgentLoopBridge
                                                   │
                         AgentLoop.runWithStore ───┼── RunStore (run.json, events.jsonl)
                                │                  └── AuditEventStore (audit.jsonl)
                         AgentLoop.run ── provider stack (fallback, retry, watchdog, HTTP)
                                │
                         ToolDispatcher.executeOne ── canUseTool, tool.call

Parts in bold are modelled.

| part | state | operations | what is hard | what makes it correct |
|---|---|---|---|---|
| **AgentLoop.run, ToolDispatcher** | turn count, history, usage, answer of the turn, tool results | one async generator; awaits provider, policy hook, reviewer, preTool hook, permission, tool, eval hook | every await may throw; two abort signals fire anywhere; five kinds of refusal; seven early exits | each tool_use answered exactly once and in order; a refusal is final; an abort bounds the work; the run ends; events come in the order consumers rely on |
| **runWithStore, resume, FileRunStore, rebuildSnapshot** | `run.json` status, `events.jsonl` | create, updateStatus, appendEvent, loadSnapshot, loadCheckpoint | crash inside an append; failing store; consumer that leaves; resume on a log others wrote | the log is the history; acknowledged events are read back; a checkpoint never changes |
| **FilesystemAuditStore** | `audit.jsonl`, head cache per process | append, load, verify, dispose | read head, await write, store head; several processes; restarts | the chain verifies; what was acknowledged stands; tampering is detected |
| **provider stack, SSE parser** | attempts, timers, open blocks of a stream | queryStream through fallback, retry, watchdog, HTTP; consume | retry only before the first event; idle stream; abort during backoff; several open blocks | the consumer sees one well-ordered stream; requests are bounded and do not overlap; the answer comes or fails |
| **SessionManager, session store** | sessions by id, session files, store availability | create, pause, resume, destroy, restore | check, await, insert; writes that land in either order; restore in the background | sessions keep apart; a destroyed one stays so |
| **AgentEngine** | query lock, abort controllers, cached histories | query, destroySession, destroy | lock and controller belong to an id another session may have by then; destroy under a query | one query per id; destroy reaches every query |
| **server: thread-manager, run, run-admission** | thread and run rows | dispatch, complete, fail, cancel; an admin's update and delete of the thread | check, await, set; an admin writes the row at any time; consumer leaves; complete fails after the thread is free | one query per thread; thread and run are settled; outcomes are final; own usage billed |
| **server: run-facts, run-event-bus, routes/runs** | run_events table, subscribers | recordEvent, publish, replay, follow | read maximum, insert, publish; replay then subscribe | no gap, no duplicate, an end |
| EventBus, InMemoryTaskQueue, channels, teammates | listeners, tasks, pending requests | emit, subscribe, update, stop, send | unsubscribe during emit; stop after complete; answer after timeout | every listener hears; final states are final |
| server: human review, plans | review and plan rows | decide, transition | check then act | one decision |
| everything else | | | file, process and network I/O, parsing, tables, user interface | listed in `PROJECT.json` with the reason it is left out |

## 2. Modules

| module | models | role |
|---|---|---|
| `LoopEvents` | `loopEvents.ts`, `types.ts`, message building | events, messages, and `Paired`: message i asks for exactly the blocks message i+1 answers |
| `AgentLoop` | `AgentLoop.run` with `ToolDispatcher.executeOne` | the generator, one action per await or yield |
| `LoopProtocol` | what its consumers may rely on | abstract specification: order of events, and what they say of the history |
| `AgentLoopRefinement` | | the mapping from `AgentLoop` to `LoopProtocol` |
| `AgentLoopMC` | | the deployments TLC tries |
| `AgentLoopProofs` | | proofs about `AgentLoop` and its refinement |
| `EventLog` | `jsonl.ts`, `rebuildSnapshot.ts` | lines, torn lines, the folds that rebuild history and checkpoints |
| `RunStore` | `runWithStore`, `resume`, `FileRunStore` | composes `LoopProtocol` (as the inner generator) with `EventLog`, failures, crashes and resume |
| `RunStoreProofs` | | proofs about `RunStore`, with what they need of induction over sequences |
| `AuditChain` | `FilesystemAuditStore` | append calls of several engines on one file |
| `AuditChainProofs` | | proofs about `AuditChain` |
| `SseParser` | `SSEParser.consume`, `ContentBlockAccumulator` | the parser as a function on its state, and what it should compute, read off the whole stream |
| `StreamContract` | what `collectAssistantMessage` relies on | abstract specification of one answer |
| `ProviderStack` | `ModelFallback`, `RetryingProvider`, `RetryPolicy`, `ErrorClassifier`, `StreamWatchdog`, `AnthropicStreamingProvider`, with `SseParser` | one answer; implements `StreamContract` |
| `ProviderStackProofs` | | proofs about it, the refinement included |
| `RunLog` | `server/services/run-facts.ts`, `run-event-bus.ts`, the stream of `server/routes/runs.ts` | numbered events, the bus, and a client that replays and follows; `LogSpec` is its abstract specification for any writers |
| `ThreadDispatch` | `ThreadManager.dispatch`, `RunService`, `run-admission.ts` | composes dispatches, their runs, a cancel request, an admin's PATCH and DELETE of the thread and the server's death with `RunLog`; implements `LogSpec` |
| `ThreadDispatchMC` | | the instance TLC tries |
| `RunLogProofs`, `ThreadDispatchProofs` | | proofs about the two |
| `SessionRegistry` | `SessionManager`, `FilesystemSessionStore` | sessions in memory and in files |
| `EngineSessions` | `AgentEngine` | queries, lock, controllers and restarts, composed with `SessionRegistry` |
| `EngineSessionsMC` | | the instance TLC tries |
| `SessionRegistryProofs`, `EngineSessionsProofs` | | proofs about the two |

### How state and actions correspond to the code

**AgentLoop.** `pc` is the place the generator stands at: an await on injected
code, or the code right after a yield. `out` is the event that was yielded and
not yet taken; while it is held nothing of the loop moves (`Running(p)`). The
code between two such places runs without interruption and is one action.
`injected` is the set of optional collaborators of the run; it is fixed in
`Init` and decides which gates exist. A refused block is one step (`Refuse`):
the code yields the error result and pushes it to `toolResults`, a local nobody
sees in between. `signal` is `params.signal`, `ctxSignal` the tool context's
abort controller; the loop looks at both, the dispatcher only at the second.

Left out: texts, inputs and outputs of tools, tracing, metrics, counters, the
`apiStopReason` of the result. `tool_use` ids are taken to be fresh, as the API
provides them. All progress a tool reports is one event. Compaction rewrites
texts and keeps ids and order, so it does nothing here. Injected synchronous
code outside any `try` (usage tracker, budget tracker, compaction policy) is
taken not to throw.

**RunStore.** The inner generator is `LoopProtocol` itself, so what is shown
holds for any loop that keeps that order, and `AgentLoop` is shown to keep it.
`wpc` is the place of the wrapper. Every store or audit call may fail, the
caller may leave its `for await` (`CallerReturns`, the finally block runs) or
walk away without `return()` as the bridge does (`CallerAbandons`), and the
process may die at any step (`Crash`), with the append under way anywhere
between not begun and complete. `run.json` and `events.jsonl` survive. An
answer costs one token, so the usage of a loop is its number of answers.

**AuditChain.** `step[c]` is the await an append call stands at, `head[c]` its
local head. `minted` makes sha256 a table: hash number h stands for the content
it was computed from, and 0 for the genesis hash, so no two contents collide.
Lines are written whole here; torn lines are in `RunStore`, where the same
`appendJsonl` is used.

**ProviderStack.** The stack is four generators driven by one pull, so a step goes
from one thing outside that answers (the API, a timer, a callback) to the next.
`Emit`, `Fall` and `Yield` are the path of an event up through the retry wrapper,
the fallback wrapper and into `collectAssistantMessage`; each looks at the first
event of a request only, and `passing` says whether it has gone by. `IdleTimeout` may
fire whenever the consumer waits: the timer sits above the parser, so it counts parsed
events, and raw deltas do not reset it. `WireSends` may therefore go on while the timer
runs. `open` is the set of requests the API has not ended; the watchdog leaves one
behind. The length of a backoff, jitter and the time budget are choices
(`Decisions`; `TightBudget` says whether time may run out before the attempts do). An
abort is a task of its own, hence never between the end of a backoff and the request
that follows in the same run of the microtask queue; after an abort the SDK rejects
the request (`Rejected`).

**SseParser.** Text and JSON are positions: a delta's payload is its place in the
stream, so the content of a block is the sequence of places it was put together from.
The reference names places of the stream, too: `StopsOf` are the places where blocks of
an index end, `DeltasOf` the places of what belongs to the one that ends at a given
stop, and `Lists` says that a sequence is these in order. What `fits` stands for: a
start or delta of a kind the accumulator knows and expects, and, at the stop of a
tool_use, an input that parses to an object.

**RunLog and ThreadDispatch.** `recordEvent` is three steps: the highest number is read,
the row inserted, the event published. There is no unique index on `(run_id, sequence)`.
The reader is one client of `/runs/:runId/events/stream`; a client that hangs up may
come back with any number it could have been sent. `pc[c]` is the await or yield a
dispatch stands at, in the order of `thread-manager.ts` 390-700. Every call of the
database may fail (`Fault`), and the catch block swallows its own failures. `tool.*`
events are recorded like output and stand under `delta`. Of how a dispatch ends, three
ways have a stage of their own, since they leave the thread's row as it was: `left` (the
consumer left at a yield), `lost` (the server died) and `unmarked` (the catch block
could not write the row). An admin's PATCH writes any status over what the row holds
(`Edit`), and a DELETE removes it as long as no run refers to it (`Delete`); `Update` is
the write of either side, which does nothing to a row that is gone. Six variables are
history, read by no guard: `holding` (calls that claimed the thread and have not written
it since), `claimant` (the call that set the thread running, if one did), `raced` (two
had looked before either claimed), `disturbed` (an admin, or a call that had given the
thread back, wrote it under a holder), and in the log `contended` (two events of one run
in the recording at once) and `late` (an event went by between the history query and the
subscription). Properties name them where the code allows an exception, so what a
property promises is visible and the exception is no larger than that.

**SessionRegistry and EngineSessions.** A call changes the session object, hands a
snapshot to the store and awaits the write; `call[k]` is that snapshot and how far the
write is. `Return` is the code after the await, which acts on the Map by id, whoever has
the id by then. `restore` is `restoreFromStore`, started by the constructor and awaited
by nobody; it lists the directory, reads it entry by entry, and fails as a whole when
the directory cannot be read, which leaves live sessions in their files (`Unread`). The
list is taken at the start; a file that lands before anything was loaded may be in it,
too (`MayList`), since the listing is awaited. In `EngineSessions` lock and controller
are looked up by id, too. History variables: `gone` (acknowledged destructions), `loose`
(ends that may not reach the file), `crossed` (a creation that met another call, the
restore or a session of the same id, or that followed a restore which left sessions
unread), `unheard` (queries without a controller when the engine was destroyed).

Operators whose comment begins "Seeded fault" model no code. They are the
plausible mistakes used to see that each property can fail.

## 3. Runs

| run | configuration | shows |
|---|---|---|
| `agent_loop` | 2 turns, up to 2 blocks an answer, 1 artifact a result, token limit 3, costs 1 and 2, three deployments: bare, policy without reviewer, everything | all of section 4 about the loop; refinement and termination |
| `run_store` | 2 turns, up to 2 blocks an answer and 2 in all, 1 notice, 1 failure, 1 resume (at the end or at checkpoint 1), whole-line appends (1,339,000 states) | the log is the history, the audit chain follows it, stable and paired checkpoints |
| `audit_chain` | 2 engines, 4 appends, one at a time, fresh store at a handover | the chain verifies through failures, restarts, dispose |
| `provider_stack` | 2 block indices, 1 retry per model, 6 raw events a stream, time budget that may run out (5,290,000 states) | all of section 4 about the stack; `StreamContract`; the answer ends |
| `thread_dispatch` | 2 dispatches, the first with 1 event of its own and usage to report; 1 trouble: a failing database call, a death of the server, a cancel request or a request of an admin; clients resume from up to 2 (1,002,000 states) | thread, runs, usage, stream; safety and liveness |
| `engine_sessions` | 2 creations, ids, workspaces, callers and queries; limits 1 and 2; 1 update or file listed late, 1 failing write, 2 restarts; all of the names interchangeable (2,633,000 states) | sessions keep apart, destroyed stays so, one query per id, destroy reaches queries |
| `run_store_torn` | as `run_store`, an interrupted append may stop inside the line or before its newline | **violation**: an acknowledged event is lost |
| `run_store_resume` | as `run_store` | **violation**: a resumed loop sends an unanswered tool_use |
| `run_store_usage` | as `run_store` | **violation**: the snapshot's usage is not the total |
| `audit_concurrent` | 1 engine, overlapping appends | **violation**: the chain forks |
| `audit_handover` | 2 engines, strictly in turn, caches kept | **violation**: a stale head |
| `provider_watchdog` | 1 index, 1 retry, no time limit | **violation**: an idle stream is not requested again |

Why the bounds are enough. Two turns are the least in which an answer's results reach a
second request, and in which a checkpoint is sealed by a later turn. Two blocks let one
be refused, aborted or called before or after the other. A token limit of 3 with costs 1
and 2 is below, at and above the sum of two answers. One failure and one resume, at any
of the steps, give every order of crash, restart and append; more of them only repeat
it. Four appends let an engine append, lose the run, get it back and append again. Six
raw events hold a message with two blocks open at once, or one block begun anew, or an
error after either; one retry per model is the least at which attempts, retry after the
switch, and the last attempt differ. Two dispatches are enough for every race on a
thread, since a third does to one of them what the other does; only the first meets
trouble, reports usage and is followed, which loses nothing since the two are alike
until then; an admin's request may come at any step of either. That only one has usage
leaves two to see: it must find its own, and the other must not be billed for it. The
proofs hold whoever reports. Three events (`run.started`, output, the end) and
resumption from 0, 1 and 2 put every cut of a log between replay and subscription. The
second dispatch stays away when a run is cancelled: it shares nothing with the cancel
request, which touches one run's row and events. Two sessions give every pair of calls
on one id, on one workspace, or under one limit, and a restart between any two steps; a
second restart brings back what the restore after the first one could not read. A file
that is listed late counts as an update there, to keep the run small: the two do not
depend on each other, and the proofs are for any number of both. `CHECK_DEADLOCK FALSE`
is set because runs, answers and dispatches end, calls are used up and the bounds stop
the model.

Fairness. `FairSpec` of `AgentLoop` has `WF_vars(LoopStep)`, the injected code
settles, and `WF_vars(Take)`, the consumer keeps pulling. Nothing is assumed of
the abort signals, of what a hook answers, or of which exit is taken. A tool that
never settles or a consumer that stops pulling stops the real loop, too: it has no
timeout of its own.

`FairSpec` of `ProviderStack` has `WF_vars(StackStep)`: the idle timer and the backoff
fire, `onRetry` and `onFallback` return. Of the API nothing is assumed: it may stay
silent for good, which is what the watchdog is for. `FairSpec` of `ThreadDispatch`
has weak fairness for each dispatch *in progress* (`CallStep`): the database and the
factory answer, the query ends, the consumer takes what is yielded or leaves.
Nobody owes a first call, an admin, a cancellation or a reader. A Postgres call without answer
or a query that never ends holds the real dispatch, too. `RunStore`, `AuditChain` and
`EngineSessions` state no liveness.

## 4. Properties

*AgentLoop.* `RequestsArePaired`: every request has a history the API accepts.
`CutShortHistoryIsPaired`: so has what an aborted or exhausted run hands back.
`RefusedNeverRun`: a refusal of any gate is final. `AbortBoundsWork`: after an
abort at most one more call and one more request begin; the code does not
promise zero, because it checks before the permission question and before the
yield of `stream_request_start`. `TurnsReportedAreTurnsAnswered`: the result's
`turnCount` is the number of answers, plus one only after an error.
`ImplementsProtocol`: the refinement. `Terminates`.

What deliberately is *not* claimed: runs that end with `budget_exceeded`,
`max_tokens`, `pause_turn` and the like leave the blocks of their last answer
unanswered, and a policy hook or reviewer that throws lets the call pass. Both are
in the model.

*RunStore.* `LiveHistoryIsLogged`: at every request the history rebuilt from the
log is the one the loop has. `AckedEventsReadBack`. `SealedCheckpointIsStable`:
once a later turn began, nothing appended changes a checkpoint, although turn
numbers start from 1 again after a resume. `SealedCheckpointIsPaired`: before a resume,
and while no call failed, every tool_use in it is answered.
`AuditFollowsTheLog`: the audit chain and the audited events of the log are one
sequence, but for what failed. An `appendEvent` that rejects is followed by the audit
append of the same event (`AgentLoop.ts:861-872`), so the chain may lead the log by one
event per failed call, and by none when none failed. In all the two differ by one event
per failed call, one per generator lost between the two appends, and the one in flight,
and by no more. `RunningIsAttended`:
a run left in `running` means a crash, a failed update or an abandoned generator.

*AuditChain.* `ChainVerifies`, `AcknowledgedStand`, `TamperingIsDetected`.
Removing the *last* event is not detected and not claimed: the chain has no
length outside the file.

*ProviderStack.* `AnswerIsTheStream`: an answer that is accepted is one stream's
message, every closed block with all of its deltas in order, whatever was retried
before; the parser is compared with a definition that reads the whole stream at
once. `RequestsBounded`: at most `2 * (MaxRetries + 1)` requests. `RequestsDoNotOverlap`.
`AbortStopsRetries`: after an abort at most one request goes out, the switch to the
fallback model. `ImplementsContract`, `Terminates`. Not claimed: that the message is
complete; a stream that ends without `message_stop` is accepted.

*RunLog, ThreadDispatch.* `StreamIsComplete`: a client that follows a run has every
published row after its Last-Event-ID, unless the run had two writers at once or an
event went by between history and subscription. `StreamMovesForward`: nobody is sent a
row twice or an older one after a newer. `StreamEnds`: a following client is told the
end, with the exceptions listed there. `OneQueryPerThread`: two dispatches query at once
only after the race between look and claim, or after a late failure or an admin wrote
the thread under the one that held it. `RunningThreadIsAttended`: the dispatch that set
a running thread running is in progress with a write of the thread ahead of it, or was
cut off (`left`, `lost`, `unmarked`); none ends by itself and leaves the thread refused
for good. Nothing is said of a thread that an admin set running: nobody owes it a write.
`EndedRunIsSettled`, `UsageIsItsOwn`, `OutcomeIsFinal`: runs are settled, bill and row
agree on the dispatch's own usage, outcomes change only under a cancel request or a
failing database.

*EngineSessions.* `SessionsKeepApart`: one session per workspace and no more than the
limit, across destruction, restart and restore, unless a creation crossed another call,
did not see the sessions a failed restore had left in their files, or an end did not
reach its file. `DestroyedStaysDestroyed`. `QueryIsAlone`: the lock
holds although its id may change hands under it. `DestroyReachesQueries`.

What the exceptions allow really happens; the hazards of `PROJECT.json` name the
lines. Two dispatches that look at an idle thread together both run; a consumer that
leaves at a yield, or a death of the server, leaves the thread `running` and
every later dispatch refused until an admin's PATCH; that PATCH may as well free a thread
under its dispatch; a cancel request stops no dispatch, and the dispatch
overwrites `cancelled`; a second create with an id in use replaces the first session
without a word; a session destroyed while the store is down comes back at a restart;
a restore that cannot read the directory (`SessionManager.ts:147`) logs a warning and
leaves the engine usable, so that new sessions take workspaces and places of the old
ones, and the next restart lists both.

## 5. Findings

Each is a sentence of the repository that the code does not keep; `PROJECT.json`
quotes them.

1. `utils/jsonl.ts:37` appends behind a line that lacks its newline. The header of
   `run/FileRunStore.ts:15` expects such a line to be skipped on restart; it is,
   together with the acknowledged event written after it.
2. `AgentLoop.resume` (`AgentLoop.ts:936`) does not run `cleanupForResume`, which
   `messageFilters.ts:156` says must run before a resume. The sub-agent's own resume
   (`packages/builtin-tools/.../resumeSubAgent.ts:124`) does.
3. `rebuildSnapshot.ts:122` keeps the last `usage_update`. A test's comment
   (`AgentLoopRunStore.test.ts:312`) expects the total over all loops.
4. `FilesystemAuditStore.ts:34`: overlapping appends of one process fork the chain,
   which line 9 calls safe. `runWithStore` awaits each append, so one loop alone does
   not do this; two loops on one `runId` and one store do.
5. `FilesystemAuditStore.ts:109`: a cached head is trusted after another process
   appended, where line 10 says the last hash is loaded again.
6. `agent-loop/retry/ErrorClassifier.ts:114` takes the watchdog's error for `unknown`,
   so an idle stream is neither requested again nor moved to the fallback model, where
   `agent-loop/watchdog/WatchdogProvider.ts:12` says it is both.

Smaller disagreements, seen while modelling and in the models, without a run of their
own: `StreamWatchdog.ts:6` says every SSE event resets the timer, which sits above the
parser and sees only parsed ones, so a long block counts as silence. An abort during
a backoff hands the held error to the fallback wrapper, which asks the fallback model.
The watchdog leaves its inner request open when it gives up. `SSEParser.ts:143` takes
a stream without `message_stop` for an answer. `server/routes/runs.ts:281` looks at the
status read before the replay, so a client whose replay already held the last event
is not sent `end`, which line 217 promises. The provider stack is exported and
recommended; nothing in the repository puts the four together.

## 6. Proofs

TLAPS proves, for every value of the constants (any number of turns, blocks,
engines, calls, retries, runs, sessions and queries):

| theorem | statement |
|---|---|
| `AgentLoopProofs!TypeCorrect` | `Spec => [](TypeOK /\ TypeInv)` |
| `AgentLoopProofs!HistoryPaired`, `CutShortPaired` | `Spec => [](RequestsArePaired /\ CutShortHistoryIsPaired)` |
| `AgentLoopProofs!RefusalsHold` | `Spec => []RefusedNeverRun` |
| `AgentLoopProofs!AbortIsPrompt` | `Spec => []AbortBoundsWork` |
| `AgentLoopProofs!TurnsCounted` | `Spec => []TurnsReportedAreTurnsAnswered` |
| `AgentLoopProofs!RunsRunDown` | every step lowers `Rank`, and `Descent` is well-founded |
| `AgentLoopProofs!LoopImplementsProtocol` | `Spec => Protocol!Spec`, the refinement of `LoopProtocol` |
| `RunStoreProofs!RunStoreTypeCorrect`, `RunsAreAttended` | `TypeOK`, `RunningIsAttended` |
| `RunStoreProofs!SealedCheckpointsAreFixtures` | `Spec => SealedCheckpointIsStable` |
| `RunStoreProofs!FirstCheckpointsArePaired` | `Spec => []SealedCheckpointIsPaired` |
| `RunStoreProofs!AckedAreReadBack`, `HistoryIsLogged`, `AuditFollowsForAll` | `AckedEventsReadBack`, `LiveHistoryIsLogged`, `AuditFollowsTheLog`, assuming `WholeLines` |
| `AuditChainProofs!TypeCorrect` | `Spec => []TypeOK`, under any discipline |
| `AuditChainProofs!VerifyDetects` | tampering with any well-typed chain is detected |
| `AuditChainProofs!TamperEvident` | `Spec => []TamperingIsDetected`, under any discipline |
| `AuditChainProofs!ChainHolds` | `Spec => []ChainVerifies`, assuming `Disciplined` |
| `AuditChainProofs!Acknowledged` | `Spec => []AcknowledgedStand`, assuming `Disciplined` |
| `ProviderStackProofs!TypeCorrect` | `Spec => []TypeOK` |
| `ProviderStackProofs!RequestCount`, `NoOverlap`, `AbortHeard` | `RequestsBounded`, `RequestsDoNotOverlap`, `AbortStopsRetries` |
| `ProviderStackProofs!AnswersAreStreams` | `Spec => []AnswerIsTheStream` |
| `ProviderStackProofs!StackImplementsContract` | `Spec => Contract!Spec`, the refinement of `StreamContract` |
| `RunLogProofs!LogTypeCorrect`, `StreamCompleteness`, `StreamProgress` | `LogSpec` keeps its types, `StreamIsComplete` and `StreamMovesForward` |
| `ThreadDispatchProofs!DispatchImplementsLog` | `Spec => LogSpec` |
| `ThreadDispatchProofs!DispatchStreams`, `DispatchMovesForward` | the two stream properties, of the dispatches |
| `ThreadDispatchProofs!TypeCorrect`, `NoTwoQueries`, `ThreadIsAttended`, `EndedRunsAreSettled`, `UsageIsBilledOnce`, `OutcomesAreFinal` | `TypeOK`, `OneQueryPerThread`, `RunningThreadIsAttended`, `EndedRunIsSettled`, `UsageIsItsOwn`, `OutcomeIsFinal` |
| `EngineSessionsProofs!TypeCorrect`, `OneQueryPerId`, `DestroyIsHeard`, `DestroyIsForGood` | `TypeOK`, `QueryIsAlone`, `DestroyReachesQueries`, `DestroyedStaysDestroyed` |
| `EngineSessionsProofs!SessionsApart` | `Spec => []SessionsKeepApart` |

Assumptions, each an `ASSUME` of the module that declares the constants: `LimitsAreNat`,
`DeploymentsAreSets`, `BoundsAreNat`, `StackLimits`, `IndicesAreNat`,
`DisciplineIsBoolean`, `NobodyIsNoEngine`, `DispatchNames`, `RegistryNames`,
`EngineLimits`. They say that limits are numbers and names are distinct. Two
theorems about the audit chain assume `Disciplined` as well: appends one at a time,
and an engine that takes a run over has nothing cached of it. The two audit
violations show that either half of it is needed. Three about the run store assume
`WholeLines`: an append that is cut short leaves nothing or the whole line. The run
`run_store_torn` shows what happens without it, finding 1.

*Arguments.*

`AgentLoop`. `TypeInv` adds to the types that the for loop stands at a real block
wherever a gate or the dispatcher looks at it; without that `collected.uses[idx]`
has no type. Pairing is not inductive: in the middle of a turn the history *is*
unpaired. `PairInv` says how: while the turn is open all messages but the last are
paired, the last asks for `collected.uses`, and `toolResults` is its prefix up to
the loop index, so that pushing the results at the end of the turn closes the gap. The
refinement rests on the same invariant: the next result is the next block's, and the
message that ends the turn answers exactly the blocks asked for.
`RefusedNeverRun` needs that the current block is in neither set until it is decided
and that touched blocks are never issued again. `AbortBoundsWork` needs that after
a late call no permission question is open, and after a late request the loop is
past the point where another could begin. `CountInv` says that the turn count is one
ahead of the answers between the start of a turn and the end of its stream only.
`RunsRunDown` orders what is left of a run lexicographically: turns (the `for` loop
counts up to `maxTurns`), places in the turn and aborts to come, then blocks of the
answer and places in the block, then artifacts and events not yet taken. The order is
well-founded by the library's theorem on lexicographic pairs, so a run has no infinite
behaviour but stuttering.

`RunStore`. What is read back (`Only`), what a log rebuilds (`Replay`), what it means
for one sequence to be read in another (`Within`), and a sequence's parts (`Parts`) are
computed from left to right. The library's induction needs an operator for its
predicate; a *set* of numbers does as well. So `Least` takes the minimum of a set from
the well-founded order of the naturals, `UpTo` concludes that a set with 0 and all
successors has every number, and `LeftToRight` that what is computed from left to right
exists. From these follow what one more event does to each of the four (`OnlyAppend`,
`ReplayAppend`, `WithinBoth` and `WithinLonger`, `PartsAppend`), which is all that the
steps need. `StoreTypes` adds to the types which event is under way at each place of the
wrapper. `MatchInv` is the heart: the log, together with the event that is under way,
rebuilds the history *as the phase of the loop has it*, results collected but not yet in
the history included; the property is its case at a request. `PairInv` says the same of
pairing for the first loop, whose log begins with nothing before it, and `StartsInv`
that what stands before each of its starts is paired; a sealed checkpoint is such a
place. `AuditInv` has a case for each place of the wrapper: at rest the chain follows
what is due to it; while an event is in hand that the chain will get, either the log has
it already and the chain follows what stands before it, or its append failed, one
failure is to spare, and the chain may lead by one more. That an append changes no
sealed checkpoint needs no invariant but the types: the cutoff of a turn lies before the
next start, and lines only follow it.

`AuditChain`. `ChainInv` says that at most one call is in flight, that the heads in use
(the owner's cache, the call's local) are the head of the file except between write and
cache update, that the last line is then that call's event, that hashes in the file
come from the table, and where every payload of the chain came from.

`ProviderStack`. `requests` is determined by model and attempt; only the current
request may be open, and none is between two attempts; whatever was delivered belongs
to the current request and stands below the place the parser has reached; and after a
late request the model is the fallback, and no further attempt is being prepared.
`AnswersAreStreams` compares an incremental parser with a definition that looks at the
whole stream. `BlocksInv` is the comparison half way: as long as the parser has seen no
error, an open slot holds exactly the deltas since the last start of its index, every
start that has no stop behind it has a slot, and the blocks that were delivered are
those of the stops so far, no more and no fewer. Each event of the API extends
the stream by one place, and the lemmas `StopsAppend` and `DeltasAppend` say what that does
to the reference. At the end of the stream no slot is open, which gives the last conjunct.

`RunLog`. The stream has nothing above `lastSentSequence`, and while a run has one
writer at a time, that writer's row is above every other one (`AloneAtTop`), so what
the filter lets through is exactly what is missing (`NothingLost`). The action
property follows from the first half and needs no discipline of the writers.
`ThreadDispatch` inherits both, because each of its steps is a step of the log or
leaves it alone. Its own invariant `DispatchInv` has a part for every call (what it
knows and which status its run has at each stage) and one for the thread: a call
between claim and release is in `holding` and a call in `holding` owes the thread a
write; as long as nobody raced or disturbed, at most one call is in it, the thread is then
`running` or gone, and no other call is between its look and its claim; a thread that is
gone has no run; and the call that set a running thread running is at a stage where it
owes a write or is cut off, which is the property itself: every write a dispatch makes of
the thread, and every admin's, either clears the claimant or sets a new one.

`EngineSessions`. `SessionsKeepApart` speaks of the Map, but sessions come into the Map
from files and from calls. `ApartInv` therefore counts the sessions that are *present*:
listed, told of by a live file, or in the hands of a call, save those a destruction is about
to remove. As long as nothing crossed and every end reached its file, they have workspaces
of their own and are no more than the limit (`Room`), and four orders hold: until a
restore is over there is nothing else, and what it found are files (`RestoredFirst`); a
creation has its id for itself (`CreatesAlone`); any other call is on the session the Map
has (`CallsListed`), which on a destroyed engine may have been emptied under it; and a file
and the Map tell of the same session (`MapFollowsFiles`). Only `Create` adds to the
present sessions, and one that crosses nothing sees all of them; every other step
leaves them or takes some away. The proof attempt is what found the failed restore
above: with one restart in the model it could not show.
`RegistryInv` says which calls can still change a destroyed session's
id and that its file tells of the end unless it is `loose`. Of the queries: the id of
one under way is locked; one past its prompt has its controller registered as long as
the engine lives, and on a destroyed engine it was aborted or is in `unheard`.

*Only model-checked:* liveness (`Terminates` twice, `StreamEnds`), which is out of the
prover's reach. Of the loop's `Terminates` only that a run which is not done can take a
step, and with fairness does, is left to TLC: `RunsRunDown` is the other half. Every
other property of a passing run is a theorem. The violations are
counterexamples and need no proof.

## 7. Not modelled, and what is left

`PROJECT.json` gives the reason for every part left out. The largest is the engine
product (`src/neptune-engine-product`), over 300,000 lines with its vendored packages:
it is the predecessor the engine was ported from, and neither the engine nor the server
runs any of it. Of what they do run, the following is left out:

- `AgentEngine`'s cached histories: `query` takes them from the cache when the session
  has any, and `pauseSession` (`AgentEngine.ts:412`) hands a directory to the transcript
  parser, so nothing is cached; on the server `thread-manager.ts:660` never
  persists the transcript. A model would have to invent what they are for.
- The circuit breaker, `EventBus`, `InMemoryTaskQueue`, the teammate channel,
  `waitForResult` and `PlanManager` are small state machines, each worth a module: a
  listener that unsubscribes during `emit`, a task stopped after it completed, a message
  answered after its timeout, `return()` awaited on a generator with a pending `next()`.
- `HumanReview` reads a status and writes it with a second statement; its race has the
  shape of `CancelReads` and `CancelWrites`.
- The message filters and the compaction policy are pure functions over histories;
  `AgentLoop.resume` does not call the former, and the latter changes no id.
- The session GC timer, run metadata, list and delete.
- Texts, prompts, formatting, tables of permissions, cost queries, routes without state,
  the web client.

Proof work left: `RebuildUsage` and the seeded faults are not reasoned about, and
nothing relates the wrapper's copy of the loop (`LoopProtocol` in `RunStore`) to
`AgentLoop` in one formula: `ImplementsProtocol` and the theorems of `RunStoreProofs` do so
together.
