------------------------------ MODULE AgentLoop ------------------------------
(***************************************************************************)
(* AgentLoop.run together with ToolDispatcher.executeOne: the async        *)
(* generator that alternates model requests and tool calls.                *)
(*                                                                         *)
(* pc names the point the generator stands at: an await on injected code   *)
(* (provider, policy hook, reviewer, preTool hook, canUseTool, tool.call,  *)
(* eval hook) or the synchronous code after a yield.  out holds the event  *)
(* that has been yielded and not yet taken; while it is held the generator *)
(* is suspended.  The two abort signals may fire between any two steps.    *)
(*                                                                         *)
(* A tool_use block is a number drawn from the counter issued (the model   *)
(* gives every block a fresh id); texts, inputs and outputs are left out.  *)
(* Errors are told apart only by where they occur.                         *)
(***************************************************************************)
EXTENDS LoopEvents, FiniteSets

CONSTANTS
  maxTurns,        \* params.maxTurns
  MaxBlocks,       \* bound: tool_use blocks in one answer
  TokenCosts,      \* bound: the token usages one answer may report
  MaxArtifacts,    \* bound: artifactInputs one tool result may carry
  tokenLimit,      \* DefaultBudgetTracker limit, 0 = none
  Deployments      \* the sets of optional collaborators a product injects

ASSUME LimitsAreNat ==
  /\ maxTurns \in Nat
  /\ MaxBlocks \in Nat
  /\ MaxArtifacts \in Nat
  /\ tokenLimit \in Nat
  /\ TokenCosts \subseteq Nat

\* hooks is a HookSurface; permissionMode is one that is not 'default'.
Collaborator == {"policyHook", "humanReviewHook", "artifactHook", "evalHook",
                 "hooks", "permissionMode"}

ASSUME DeploymentsAreSets == Deployments \subseteq SUBSET Collaborator

VARIABLES
  injected,        \* the collaborators of this run, fixed by its params
  pc,
  out,
  turnCount,
  messages,
  cumulativeUsage,
  issued,          \* tool_use ids handed out by the model so far
  collected,       \* the answer of the current turn
  toolResults,
  idx,             \* the block the for loop stands at
  lastResult,      \* how the dispatched tool ended
  artifacts,       \* artifactInputs of that result still to persist
  signal,          \* params.signal.aborted
  ctxSignal,       \* params.context.abortController.signal.aborted
  result,          \* the LoopResult
  \* history variables, read by no action
  denied,          \* blocks some gate refused
  executed,        \* blocks whose tool.call was invoked
  lateCalls,       \* tool calls begun after the context was aborted
  lateRequests     \* provider requests begun after either abort

turnVars  == <<turnCount, messages, cumulativeUsage, issued>>
blockVars == <<collected, toolResults, idx, lastResult, artifacts>>
abortVars == <<signal, ctxSignal>>
ghostVars == <<denied, executed, lateCalls, lateRequests>>
vars == <<injected, pc, out, turnVars, blockVars, abortVars, result, ghostVars>>

------------------------------------------------------------------------------
(* Data                                                                      *)

Block == collected.uses[idx]
aborted == signal \/ ctxSignal

\* Where the for loop takes block i of an answer with n blocks: the first
\* injected gate in front of the dispatcher, or past the loop.
AfterPolicy == IF "hooks" \in injected THEN "preTool" ELSE "dispatch"
FirstGate   == IF "policyHook" \in injected THEN "policy" ELSE AfterPolicy
BlockEntry(i, n) == IF i <= n THEN FirstGate ELSE "turnEnd"

Running(p) == pc = p /\ out = NoEvent
Yield(e, next) == out' = e /\ pc' = next
Goto(next) == pc' = next /\ UNCHANGED out

\* return yield* finalize({reason, turnCount, ...})
Finalize(reason, turns) == result' = [reason |-> reason, turnCount |-> turns]

------------------------------------------------------------------------------
(* The turn                                                                  *)

Init ==
  /\ injected \in Deployments
  /\ pc = "resolve" /\ out = NoEvent
  /\ turnCount = 0 /\ messages = <<Prompt>>
  /\ cumulativeUsage = 0 /\ issued = 0
  /\ collected = [stop |-> "null", uses |-> <<>>]
  /\ toolResults = <<>> /\ idx = 1 /\ lastResult = "none" /\ artifacts = 0
  /\ signal \in BOOLEAN /\ ctxSignal \in BOOLEAN
  /\ result = [reason |-> "none", turnCount |-> 0]
  /\ denied = {} /\ executed = {} /\ lateCalls = 0 /\ lateRequests = 0

\* MessageSerializer.resolveToolParams, which runs every tool's description().
ResolveTools ==
  /\ Running("resolve")
  /\ \/ Goto("top") /\ UNCHANGED result
     \/ Yield(Notice("error"), "finalize") /\ Finalize("error", turnCount)
  /\ UNCHANGED <<turnVars, blockVars, abortVars, ghostVars>>

\* The turn the result reports when the abort check in front of a turn fires;
\* seeded fault: the aborted turn is counted.
AbortedTurnCountsItself == turnCount + 1
AbortedTurn == turnCount

\* Seeded fault: one turn too many.
TurnAllowedOffByOne == turnCount <= maxTurns
TurnAllowed == turnCount < maxTurns

\* while (turnCount < maxTurns) { turnCount++; abort check; yield start }
BeginTurn ==
  /\ Running("top")
  /\ TurnAllowed
  /\ turnCount' = turnCount + 1
  /\ \/ /\ aborted
        /\ Goto("finalize") /\ Finalize("aborted", AbortedTurn)
     \/ /\ ~aborted
        /\ Yield(Ev("stream_request_start", <<>>, turnCount + 1), "request")
        /\ UNCHANGED result
  /\ UNCHANGED <<messages, cumulativeUsage, issued, blockVars, abortVars,
                 ghostVars>>

MaxTurnsReached ==
  /\ Running("top")
  /\ ~TurnAllowed
  /\ Goto("finalize") /\ Finalize("max_turns", turnCount)
  /\ UNCHANGED <<turnVars, blockVars, abortVars, ghostVars>>

\* preStream hooks, compaction (it rewrites texts, never ids or order) and
\* provider.queryStream(messages).  Nothing looks at the signals again.
SendRequest ==
  /\ Running("request")
  /\ Goto("stream")
  /\ lateRequests' = lateRequests + (IF aborted THEN 1 ELSE 0)
  /\ UNCHANGED <<turnVars, blockVars, abortVars, result,
                 denied, executed, lateCalls>>

StreamFails ==
  /\ Running("stream")
  /\ Yield(Notice("error"), "finalize") /\ Finalize("error", turnCount)
  /\ UNCHANGED <<turnVars, blockVars, abortVars, ghostVars>>

\* collectAssistantMessage returns: any stop_reason may come with any blocks.
\* collected, toolResults and the loop index are locals of the turn.
StreamEnds(stop, n, cost) ==
  LET uses == [k \in 1..n |-> issued + k]
  IN  /\ Running("stream")
      /\ collected' = [stop |-> stop, uses |-> uses]
      /\ issued' = issued + n
      /\ cumulativeUsage' = cumulativeUsage + cost
      /\ messages' = Append(messages, AssistantMessage(uses))
      /\ Yield(Ev("assistant_message", uses, 0), "answered")
      /\ toolResults' = <<>> /\ idx' = 1
      /\ UNCHANGED <<turnCount, lastResult, artifacts, abortVars, result,
                     ghostVars>>

\* postStream hooks, then the usage event.
ReportUsage ==
  /\ Running("answered")
  /\ Yield(Ev("usage_update", <<>>, cumulativeUsage), "decide")
  /\ UNCHANGED <<turnVars, blockVars, abortVars, result, ghostVars>>

\* DefaultBudgetTracker.check
shouldStop == tokenLimit > 0 /\ cumulativeUsage >= tokenLimit

\* The exit the answer calls for; "none" when its tools must be run.
ExitFor(stop, uses) ==
  IF shouldStop THEN "budget_exceeded"
  ELSE CASE stop \in {"null", "end_turn"} -> "end_turn"
         [] stop = "tool_use" -> IF uses = <<>> THEN "error" ELSE "none"
         [] OTHER -> stop

Decide ==
  /\ Running("decide")
  /\ LET exit == ExitFor(collected.stop, collected.uses)
     IN  \/ /\ exit # "none"
            /\ Goto("finalize") /\ Finalize(exit, turnCount)
         \/ /\ exit = "none"
            /\ Goto(FirstGate)
            /\ UNCHANGED result
  /\ UNCHANGED <<turnVars, blockVars, abortVars, ghostVars>>

------------------------------------------------------------------------------
(* Gates in front of the dispatcher                                          *)

\* yield the error result of a refused block, push it, continue the for loop.
PushResult == toolResults' = Append(toolResults, Block)

\* Seeded fault: the branch forgets its continue.
FallThrough(e) == Yield(e, "dispatch") /\ UNCHANGED idx
Continue(e) ==
  /\ Yield(e, BlockEntry(idx + 1, Len(collected.uses)))
  /\ idx' = idx + 1

\* Seeded fault: the error result is yielded and not pushed.
RefuseUnanswered ==
  /\ Continue(Ev("result", <<Block>>, 0))
  /\ denied' = denied \cup {Block}
  /\ UNCHANGED toolResults

Refuse ==
  /\ Continue(Ev("result", <<Block>>, 0))
  /\ PushResult
  /\ denied' = denied \cup {Block}

\* governance.policyHook.beforeToolUse; a hook that throws lets the call pass.
PolicyAnswers ==
  /\ Running("policy")
  /\ \/ Yield(Notice("error"), AfterPolicy)
     \/ Yield(Notice("governance_decision"), AfterPolicy)
     \/ Yield(Notice("governance_decision"), "policyDenied")
     \/ Yield(Notice("governance_decision"), "review")
  /\ UNCHANGED <<turnVars, blockVars, abortVars, result, ghostVars>>

PolicyDenies ==
  /\ Running("policyDenied")
  /\ Refuse
  /\ UNCHANGED <<turnVars, collected, lastResult, artifacts, abortVars, result,
                 executed, lateCalls, lateRequests>>

\* require_review without a reviewer is a refusal.
NoReviewer ==
  /\ Running("review")
  /\ "humanReviewHook" \notin injected
  /\ Refuse
  /\ UNCHANGED <<turnVars, collected, lastResult, artifacts, abortVars, result,
                 executed, lateCalls, lateRequests>>

\* Seeded fault: a reviewer that throws is asked again.
AskReviewerAgain == "review"

\* A reviewer that throws leaves review undefined, and the call passes.
AfterReviewError == AfterPolicy

\* humanReviewHook.requestReview
ReviewAnswers ==
  /\ Running("review")
  /\ "humanReviewHook" \in injected
  /\ \/ Yield(Notice("error"), AfterReviewError)
     \/ Yield(Notice("governance_decision"), AfterPolicy)
     \/ Yield(Notice("governance_decision"), "policyDenied")
  /\ UNCHANGED <<turnVars, blockVars, abortVars, result, ghostVars>>

\* hooks.runPreTool: the first {allow: false} wins, a throwing hook does not
\* block.
PreToolAnswers ==
  /\ Running("preTool")
  /\ \/ Goto("dispatch") /\ UNCHANGED <<toolResults, idx, denied>>
     \/ Refuse
  /\ UNCHANGED <<turnVars, collected, lastResult, artifacts, abortVars, result,
                 executed, lateCalls, lateRequests>>

------------------------------------------------------------------------------
(* ToolDispatcher.executeOne                                                 *)

\* A result of the dispatcher that needed no tool.call.
DispatchError ==
  /\ Yield(Ev("result", <<Block>>, 0), "post")
  /\ PushResult
  /\ lastResult' = "error" /\ artifacts' = 0

\* Seeded fault: no abort check.
AbortIgnored == FALSE
AbortSeen == ctxSignal

\* The abort check, then the tool lookup; both answer without 'started'.
Dispatch ==
  /\ Running("dispatch")
  /\ \/ /\ ~AbortSeen
        /\ Yield(Ev("started", <<Block>>, 0), "permission")
        /\ UNCHANGED <<toolResults, lastResult, artifacts>>
     \/ DispatchError           \* aborted, or unknown tool
  /\ UNCHANGED <<turnVars, collected, idx, abortVars, result, ghostVars>>

\* applyPermissionMode denies, canUseTool denies or throws, or the tool has no
\* call().
PermissionRefuses ==
  /\ Running("permission")
  /\ DispatchError
  /\ denied' = denied \cup {Block}
  /\ UNCHANGED <<turnVars, collected, idx, abortVars, result,
                 executed, lateCalls, lateRequests>>

\* import('PermissionMode.js') rejects outside executeOne's try: the loop's
\* catch ends the run with the block unanswered.
DispatcherThrows ==
  /\ Running("permission")
  /\ "permissionMode" \in injected
  /\ Yield(Notice("error"), "finalize") /\ Finalize("error", turnCount)
  /\ UNCHANGED <<turnVars, blockVars, abortVars, ghostVars>>

\* canUseTool allowed: tool.call begins, and the signals are not read again.
CallTool ==
  /\ Running("permission")
  /\ Goto("calling")
  /\ executed' = executed \cup {Block}
  /\ lateCalls' = lateCalls + (IF ctxSignal THEN 1 ELSE 0)
  /\ UNCHANGED <<turnVars, blockVars, abortVars, result, denied, lateRequests>>

\* tool.call settles with n artifactInputs in its mcpMeta, or throws.
ToolSettles(n) ==
  /\ Running("calling")
  /\ Goto("flush")
  /\ \/ lastResult' = "ok" /\ artifacts' = n
     \/ lastResult' = "error" /\ artifacts' = 0
  /\ UNCHANGED <<turnVars, collected, toolResults, idx, abortVars, result,
                 ghostVars>>

\* The buffered progress (one event stands for all), then the result.
FlushProgress ==
  /\ Running("flush")
  /\ Yield(Ev("progress", <<Block>>, 0), "emit")
  /\ UNCHANGED <<turnVars, blockVars, abortVars, result, ghostVars>>

EmitResult ==
  /\ Running("flush") \/ Running("emit")
  /\ Yield(Ev("result", <<Block>>, 0), "post")
  /\ PushResult
  /\ UNCHANGED <<turnVars, collected, idx, lastResult, artifacts, abortVars,
                 result, ghostVars>>

------------------------------------------------------------------------------
(* After the dispatcher                                                      *)

ArtifactLeft == /\ "artifactHook" \in injected
                /\ lastResult = "ok" /\ artifacts > 0

\* governance.artifactHook.persistArtifact, one input after the other.
PersistArtifact ==
  /\ Running("post")
  /\ ArtifactLeft
  /\ \/ Yield(Notice("governance_decision"), "post")
     \/ Yield(Notice("error"), "post")
  /\ artifacts' = artifacts - 1
  /\ UNCHANGED <<turnVars, collected, toolResults, idx, lastResult, abortVars,
                 result, ghostVars>>

\* postTool hooks have run and no artifact is left.
NextBlock ==
  /\ Running("post")
  /\ ~ArtifactLeft
  /\ Goto(BlockEntry(idx + 1, Len(collected.uses)))
  /\ idx' = idx + 1
  /\ UNCHANGED <<turnVars, collected, toolResults, lastResult, artifacts,
                 abortVars, result, ghostVars>>

\* messages.push(userToolResultMessage), then the second abort check.
\* Seeded fault: the abort check comes first.
ResultsSkippedOnAbort ==
  messages' = IF aborted THEN messages
              ELSE Append(messages, ToolResultMessage(toolResults))
ResultsPushed == messages' = Append(messages, ToolResultMessage(toolResults))

EndTurn ==
  /\ Running("turnEnd")
  /\ ResultsPushed
  /\ \/ aborted /\ Goto("finalize") /\ Finalize("aborted", turnCount)
     \/ ~aborted /\ Goto("top") /\ UNCHANGED result
  /\ UNCHANGED <<turnCount, cumulativeUsage, issued, blockVars,
                 abortVars, ghostVars>>

\* finalize(): the eval hook, then the generator returns.
Evaluate ==
  /\ Running("finalize")
  /\ \/ /\ "evalHook" \in injected
        /\ \/ Yield(Notice("governance_decision"), "return")
           \/ Yield(Notice("error"), "return")
     \/ /\ "evalHook" \notin injected
        /\ Goto("return")
  /\ UNCHANGED <<turnVars, blockVars, abortVars, result, ghostVars>>

Return ==
  /\ Running("return")
  /\ Goto("done")
  /\ UNCHANGED <<turnVars, blockVars, abortVars, result, ghostVars>>

------------------------------------------------------------------------------
(* The environment and the specification                                     *)

\* The caller aborts params.signal, or somebody aborts the tool context.
AbortSignal ==
  /\ ~signal /\ signal' = TRUE
  /\ UNCHANGED <<injected, pc, out, turnVars, blockVars, ctxSignal, result, ghostVars>>

AbortContext ==
  /\ ~ctxSignal /\ ctxSignal' = TRUE
  /\ UNCHANGED <<injected, pc, out, turnVars, blockVars, signal, result, ghostVars>>

Abort == pc # "done" /\ (AbortSignal \/ AbortContext)

\* The consumer takes the event; its next next() resumes the generator.
Take ==
  /\ out # NoEvent
  /\ out' = NoEvent
  /\ UNCHANGED <<injected, pc, turnVars, blockVars, abortVars, result, ghostVars>>

StreamStep ==
  \/ StreamFails
  \/ \E stop \in StopReason, n \in 0..MaxBlocks, cost \in TokenCosts :
       StreamEnds(stop, n, cost)

TurnStep ==
  \/ ResolveTools \/ BeginTurn \/ MaxTurnsReached \/ SendRequest
  \/ StreamStep \/ ReportUsage \/ Decide \/ EndTurn \/ Evaluate \/ Return

GateStep ==
  \/ PolicyAnswers \/ PolicyDenies \/ NoReviewer \/ ReviewAnswers
  \/ PreToolAnswers

ToolStep ==
  \/ Dispatch \/ PermissionRefuses \/ DispatcherThrows \/ CallTool
  \/ \E n \in 0..MaxArtifacts : ToolSettles(n)
  \/ FlushProgress \/ EmitResult \/ PersistArtifact \/ NextBlock

LoopStep == (TurnStep \/ GateStep \/ ToolStep) /\ UNCHANGED injected

Next == LoopStep \/ Abort \/ Take

Spec == Init /\ [][Next]_vars

\* Injected code settles and the consumer keeps pulling.
FairSpec == Spec /\ WF_vars(LoopStep) /\ WF_vars(Take)

------------------------------------------------------------------------------
(* Properties                                                                *)

AwaitPoint == {"resolve", "top", "request", "stream", "answered", "decide",
               "policy", "policyDenied", "review", "preTool", "dispatch",
               "permission", "calling", "flush", "emit", "post", "turnEnd",
               "finalize", "return", "done"}

\* The type of every variable; the loop never begins more turns than maxTurns.
TypeOK ==
  /\ injected \subseteq Collaborator
  /\ pc \in AwaitPoint
  /\ out \in Event \cup {NoEvent}
  /\ turnCount \in 0..maxTurns
  /\ messages \in Seq(Message)
  /\ cumulativeUsage \in Nat
  /\ issued \in Nat
  /\ collected \in [stop : StopReason, uses : Seq(Nat)]
  /\ toolResults \in Seq(Nat)
  /\ idx \in Nat \ {0}
  /\ lastResult \in {"none", "ok", "error"}
  /\ artifacts \in Nat
  /\ signal \in BOOLEAN /\ ctxSignal \in BOOLEAN
  /\ result \in [reason : ExitReason \cup {"none"}, turnCount : Nat]
  /\ denied \subseteq Nat /\ executed \subseteq Nat
  /\ lateCalls \in Nat /\ lateRequests \in Nat

\* Every request handed to the provider carries a history in which each
\* tool_use is answered by the next message; the API rejects anything else
\* ("tool_use ids must be matched").  Holds across refusals by policy,
\* reviewer, hook, permission, aborted and failed tools.
RequestsArePaired == pc = "stream" => Paired(messages)

\* A run that ends because it was aborted or ran out of turns hands back a
\* history the next query may continue from, although it was cut short.
CutShortHistoryIsPaired ==
  (pc = "done" /\ result.reason \in {"aborted", "max_turns"}) => Paired(messages)

\* No tool runs for a block that policy, reviewer, preTool hook or permission
\* check refused, whatever the order of gates and whoever threw.
RefusedNeverRun == executed \cap denied = {}

\* After an abort at most one more tool call begins (its permission question
\* was open when the abort came) and at most one more provider request (its
\* stream_request_start was being delivered).
AbortBoundsWork == lateCalls <= 1 /\ lateRequests <= 1

Answers(msgs) == Cardinality({i \in 1..Len(msgs) : msgs[i].role = "assistant"})

\* The turnCount a finished run reports counts the turns really begun: every
\* one of them produced an assistant message, except one whose stream failed.
TurnsReportedAreTurnsAnswered ==
  pc = "done" =>
    \/ result.turnCount = Answers(messages)
    \/ result.reason = "error" /\ result.turnCount = Answers(messages) + 1

\* A run whose injected code settles and whose consumer keeps pulling ends,
\* whatever the hooks, the reviewer, the model and the abort signals do.
Terminates == <>(pc = "done")

==============================================================================
