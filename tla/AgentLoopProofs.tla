--------------------------- MODULE AgentLoopProofs ---------------------------
(***************************************************************************)
(* Proofs about AgentLoop, for every value of its constants.               *)
(*                                                                         *)
(* TypeInv    the types, and that the for loop stands at a real block      *)
(*            whenever a gate, the dispatcher or a hook looks at it.       *)
(* Rank       what is left of the run: aborts and turns to come, blocks of *)
(*            the answer, events of a result.  Every step lowers it.       *)
(***************************************************************************)
EXTENDS AgentLoopRefinement, SequenceTheorems, FiniteSetTheorems, WellFoundedInduction, TLAPS

\* The points at which the loop body has a current block.
AtBlock == {"policy", "policyDenied", "review", "preTool", "dispatch",
            "permission", "calling", "flush", "emit", "post"}

TypeInv ==
  /\ TypeOK
  /\ pc \in {"answered", "decide"} => idx = 1
  /\ pc \in AtBlock => idx <= Len(collected.uses)

\* Events without a block are events.
LEMMA NoticeType ==
  ASSUME NEW t \in EventType
  PROVE  Notice(t) \in Event
BY DEF Notice, Ev, Event, EventType

\* Events about the current block are events, and that block exists.
LEMMA BlockEventType ==
  ASSUME NEW t \in EventType, TypeInv, pc \in AtBlock
  PROVE  /\ Block \in Nat
         /\ Ev(t, <<Block>>, 0) \in Event
BY DEF Ev, Event, EventType, Block, TypeInv, TypeOK

\* The for loop goes to a gate, the dispatcher or past its last block.
LEMMA EntryPoint ==
  ASSUME NEW i \in Nat, NEW n \in Nat
  PROVE  /\ BlockEntry(i, n) \in {"policy", "preTool", "dispatch", "turnEnd"}
         /\ BlockEntry(i, n) # "turnEnd" => i <= n
         /\ FirstGate \in {"policy", "preTool", "dispatch"}
         /\ AfterPolicy \in {"preTool", "dispatch"}
BY DEF BlockEntry, FirstGate, AfterPolicy

\* The exit an answer calls for is a reason of LoopResult.
LEMMA ExitType ==
  ASSUME NEW stop \in StopReason, NEW uses \in Seq(Nat)
  PROVE  /\ ExitFor(stop, uses) \in ExitReason \cup {"none"}
         /\ ExitFor(stop, uses) \notin {"aborted", "max_turns"}
         /\ ExitFor(stop, uses) = "none" => stop = "tool_use" /\ Len(uses) >= 1
<1>1. uses = <<>> \/ Len(uses) >= 1
  OBVIOUS
<1> QED BY <1>1 DEF ExitFor, ExitReason, StopReason

\* The initial state is well typed.
LEMMA TypeInit == Init => TypeInv
BY LimitsAreNat, DeploymentsAreSets
   DEF Init, TypeInv, TypeOK, AwaitPoint, AtBlock, NoEvent, Prompt, Message,
       StopReason

\* The steps of a turn keep the types.
LEMMA TypeTurn ==
  ASSUME TypeInv, TurnStep, UNCHANGED injected
  PROVE  TypeInv'
<1> USE LimitsAreNat DEF TypeInv, TypeOK, turnVars, blockVars, abortVars,
        ghostVars, Running, AwaitPoint, AtBlock, Finalize
<1>1. CASE ResolveTools
  BY <1>1, NoticeType DEF ResolveTools, Yield, Goto, EventType, ExitReason
<1>2. CASE BeginTurn
  <2>1. Ev("stream_request_start", <<>>, turnCount + 1) \in Event
    BY DEF Ev, Event, EventType
  <2> QED
    BY <1>2, <2>1 DEF BeginTurn, Yield, Goto, ExitReason, TurnAllowed,
       AbortedTurn, aborted
<1>3. CASE MaxTurnsReached
  BY <1>3 DEF MaxTurnsReached, Goto, ExitReason
<1>4. CASE SendRequest
  BY <1>4 DEF SendRequest, Goto, aborted
<1>5. CASE StreamFails
  BY <1>5, NoticeType DEF StreamFails, Yield, EventType, ExitReason
<1>6. ASSUME NEW stop \in StopReason, NEW n \in 0..MaxBlocks,
             NEW cost \in TokenCosts, StreamEnds(stop, n, cost)
      PROVE  TypeInv'
  <2> DEFINE uses == [k \in 1..n |-> issued + k]
  <2>1. uses \in Seq(Nat)
    OBVIOUS
  <2>2. /\ Ev("assistant_message", uses, 0) \in Event
        /\ AssistantMessage(uses) \in Message
    BY <2>1 DEF Ev, Event, EventType, AssistantMessage, Message
  <2> HIDE DEF uses
  <2>3. /\ collected' = [stop |-> stop, uses |-> uses]
        /\ issued' = issued + n
        /\ cumulativeUsage' = cumulativeUsage + cost
        /\ messages' = Append(messages, AssistantMessage(uses))
        /\ out' = Ev("assistant_message", uses, 0) /\ pc' = "answered"
        /\ toolResults' = <<>> /\ idx' = 1
        /\ UNCHANGED <<turnCount, lastResult, artifacts, abortVars, result,
                       ghostVars>>
    BY <1>6 DEF StreamEnds, Yield, uses
  <2> QED BY <2>1, <2>2, <2>3
<1>7. CASE ReportUsage
  <2>1. Ev("usage_update", <<>>, cumulativeUsage) \in Event
    BY DEF Ev, Event, EventType
  <2> QED BY <1>7, <2>1 DEF ReportUsage, Yield
<1>8. CASE Decide
  <2> DEFINE exit == ExitFor(collected.stop, collected.uses)
  <2>1. /\ exit \in ExitReason \cup {"none"}
        /\ exit = "none" => Len(collected.uses) >= 1
    BY ExitType
  <2>2. FirstGate \in {"policy", "preTool", "dispatch"}
    BY DEF FirstGate, AfterPolicy
  <2>3. pc = "decide" /\ UNCHANGED <<injected, turnVars, blockVars, abortVars, ghostVars, out>>
    BY <1>8 DEF Decide, Goto
  <2>4. CASE exit # "none"
    BY <1>8, <2>1, <2>3, <2>4 DEF Decide, Goto
  <2>5. CASE exit = "none"
    BY <1>8, <2>1, <2>2, <2>3, <2>5 DEF Decide, Goto
  <2> QED BY <2>4, <2>5
<1>9. CASE EndTurn
  <2>1. ToolResultMessage(toolResults) \in Message
    BY DEF ToolResultMessage, Message
  <2> QED
    BY <1>9, <2>1 DEF EndTurn, ResultsPushed, Goto, ExitReason, aborted
<1>10. CASE Evaluate
  BY <1>10, NoticeType DEF Evaluate, Yield, Goto, EventType
<1>11. CASE Return
  BY <1>11 DEF Return, Goto
<1> QED
  BY <1>1, <1>2, <1>3, <1>4, <1>5, <1>6, <1>7, <1>8, <1>9, <1>10, <1>11
     DEF TurnStep, StreamStep

\* A refusal pushes a block the model sent, and moves on within the answer.
LEMMA RefuseType ==
  ASSUME TypeInv, pc \in AtBlock, Refuse
  PROVE  /\ pc' \in {"policy", "preTool", "dispatch", "turnEnd"}
         /\ pc' # "turnEnd" => idx + 1 <= Len(collected.uses)
         /\ out' \in Event
         /\ toolResults' \in Seq(Nat)
         /\ idx' = idx + 1
         /\ denied' \subseteq Nat
<1>1. Block \in Nat /\ Ev("result", <<Block>>, 0) \in Event
  BY BlockEventType DEF EventType
<1>2. idx + 1 \in Nat /\ Len(collected.uses) \in Nat /\ toolResults \in Seq(Nat)
  BY DEF TypeInv, TypeOK
<1>3. /\ out' = Ev("result", <<Block>>, 0)
      /\ pc' = BlockEntry(idx + 1, Len(collected.uses))
      /\ idx' = idx + 1
      /\ toolResults' = Append(toolResults, Block)
      /\ denied' = denied \cup {Block}
  BY DEF Refuse, Continue, Yield, PushResult
<1>4. denied' \subseteq Nat
  BY <1>1, <1>3 DEF TypeInv, TypeOK
<1>5. idx + 1 <= Len(collected.uses) \/ pc' = "turnEnd"
  BY <1>2, <1>3, EntryPoint
<1>6. pc' \in {"policy", "preTool", "dispatch", "turnEnd"}
  BY <1>2, <1>3, EntryPoint
<1> QED BY <1>1, <1>2, <1>3, <1>4, <1>5, <1>6

\* A step that refuses the current block keeps the types.
LEMMA RefuseStep ==
  ASSUME TypeInv, pc \in AtBlock, Refuse,
         UNCHANGED <<injected, turnVars, collected, lastResult, artifacts,
                     abortVars, result, executed, lateCalls, lateRequests>>
  PROVE  TypeInv'
<1>1. /\ pc' \in {"policy", "preTool", "dispatch", "turnEnd"}
      /\ pc' # "turnEnd" => idx + 1 <= Len(collected.uses)
      /\ out' \in Event
      /\ toolResults' \in Seq(Nat)
      /\ idx' = idx + 1
      /\ denied' \subseteq Nat
  BY RefuseType
<1>2. TypeOK'
  BY <1>1 DEF TypeInv, TypeOK, AwaitPoint, turnVars, abortVars
<1> QED BY <1>1, <1>2 DEF TypeInv, AtBlock

\* The gates keep the types.
LEMMA TypeGate ==
  ASSUME TypeInv, GateStep, UNCHANGED injected
  PROVE  TypeInv'
<1> USE DEF turnVars, blockVars, abortVars, ghostVars
<1>0. /\ Notice("error") \in Event
      /\ Notice("governance_decision") \in Event
      /\ AfterPolicy \in {"preTool", "dispatch"}
  BY NoticeType DEF EventType, AfterPolicy
<1>1. CASE PolicyAnswers
  BY <1>0, <1>1 DEF PolicyAnswers, Yield, Running, TypeInv, TypeOK, AwaitPoint,
     AtBlock
<1>2. CASE PolicyDenies
  BY <1>2, RefuseStep DEF PolicyDenies, Running, AtBlock
<1>3. CASE NoReviewer
  BY <1>3, RefuseStep DEF NoReviewer, Running, AtBlock
<1>4. CASE ReviewAnswers
  BY <1>0, <1>4 DEF ReviewAnswers, AfterReviewError, Yield, Running, TypeInv,
     TypeOK, AwaitPoint, AtBlock
<1>5. CASE PreToolAnswers
  <2>1. CASE Goto("dispatch") /\ UNCHANGED <<toolResults, idx, denied>>
    BY <1>5, <2>1 DEF PreToolAnswers, Goto, Running, TypeInv, TypeOK,
       AwaitPoint, AtBlock
  <2>2. CASE Refuse
    BY <1>5, <2>2, RefuseStep DEF PreToolAnswers, Running, AtBlock
  <2> QED BY <1>5, <2>1, <2>2 DEF PreToolAnswers
<1> QED BY <1>1, <1>2, <1>3, <1>4, <1>5 DEF GateStep

\* The dispatcher and what follows it keep the types.
LEMMA TypeTool ==
  ASSUME TypeInv, ToolStep, UNCHANGED injected
  PROVE  TypeInv'
<1> USE DEF turnVars, blockVars, abortVars, ghostVars
<1>0. /\ Notice("error") \in Event
      /\ Notice("governance_decision") \in Event
  BY NoticeType DEF EventType
<1>1. pc \in AtBlock =>
        /\ Block \in Nat
        /\ Ev("started", <<Block>>, 0) \in Event
        /\ Ev("progress", <<Block>>, 0) \in Event
        /\ Ev("result", <<Block>>, 0) \in Event
        /\ denied \cup {Block} \subseteq Nat
        /\ executed \cup {Block} \subseteq Nat
  <2>1. denied \subseteq Nat /\ executed \subseteq Nat
    BY DEF TypeInv, TypeOK
  <2> QED BY <2>1, BlockEventType DEF EventType
<1>2. ASSUME pc \in AtBlock, DispatchError
      PROVE  /\ out' \in Event /\ pc' = "post"
             /\ toolResults' \in Seq(Nat)
             /\ lastResult' = "error" /\ artifacts' = 0
  BY <1>1, <1>2 DEF DispatchError, Yield, PushResult, TypeInv, TypeOK
<1>3. CASE Dispatch
  <2>1. CASE DispatchError
    <3>1. /\ out' \in Event /\ pc' = "post"
          /\ toolResults' \in Seq(Nat)
          /\ lastResult' = "error" /\ artifacts' = 0
      BY <1>2, <1>3, <2>1 DEF Dispatch, Running, AtBlock
    <3> QED
      BY <1>3, <3>1 DEF Dispatch, Running, TypeInv, TypeOK, AwaitPoint, AtBlock
  <2>2. CASE ~DispatchError
    BY <1>1, <1>3, <2>2 DEF Dispatch, Yield, Running, TypeInv, TypeOK,
       AwaitPoint, AtBlock
  <2> QED BY <2>1, <2>2
<1>4. CASE PermissionRefuses
  <2>1. pc = "permission" /\ DispatchError /\ denied' = denied \cup {Block}
    BY <1>4 DEF PermissionRefuses, Running
  <2>2. denied' \subseteq Nat
    BY <1>1, <2>1 DEF AtBlock
  <2>3. /\ out' \in Event /\ pc' = "post"
        /\ toolResults' \in Seq(Nat)
        /\ lastResult' = "error" /\ artifacts' = 0
    BY <1>2, <2>1 DEF AtBlock
  <2> QED
    BY <1>4, <2>1, <2>2, <2>3 DEF PermissionRefuses, TypeInv, TypeOK,
       AwaitPoint, AtBlock
<1>5. CASE DispatcherThrows
  BY <1>0, <1>5 DEF DispatcherThrows, Yield, Finalize, Running, TypeInv,
     TypeOK, AwaitPoint, AtBlock, ExitReason
<1>6. CASE CallTool
  <2>1. pc = "permission" /\ executed' = executed \cup {Block}
    BY <1>6 DEF CallTool, Running
  <2>2. executed' \subseteq Nat
    BY <1>1, <2>1 DEF AtBlock
  <2>3. lateCalls' \in Nat
    BY <1>6 DEF CallTool, TypeInv, TypeOK
  <2> QED
    BY <1>6, <2>1, <2>2, <2>3 DEF CallTool, Goto, TypeInv, TypeOK, AwaitPoint,
       AtBlock
<1>7. ASSUME NEW n \in 0..MaxArtifacts, ToolSettles(n)
      PROVE  TypeInv'
  BY <1>7, LimitsAreNat DEF ToolSettles, Goto, Running, TypeInv, TypeOK,
     AwaitPoint, AtBlock
<1>8. CASE FlushProgress
  BY <1>1, <1>8 DEF FlushProgress, Yield, Running, TypeInv, TypeOK,
     AwaitPoint, AtBlock
<1>9. CASE EmitResult
  BY <1>1, <1>9 DEF EmitResult, PushResult, Yield, Running, TypeInv, TypeOK,
     AwaitPoint, AtBlock
<1>10. CASE PersistArtifact
  BY <1>0, <1>10 DEF PersistArtifact, ArtifactLeft, Yield, Running, TypeInv,
     TypeOK, AwaitPoint, AtBlock
<1>11. CASE NextBlock
  <2>1. idx + 1 \in Nat /\ Len(collected.uses) \in Nat
    BY DEF TypeInv, TypeOK
  <2>2. /\ pc' \in {"policy", "preTool", "dispatch", "turnEnd"}
        /\ pc' # "turnEnd" => idx + 1 <= Len(collected.uses)
    BY <1>11, <2>1, EntryPoint DEF NextBlock, Goto
  <2> QED
    BY <1>11, <2>2 DEF NextBlock, Goto, Running, TypeInv, TypeOK, AwaitPoint,
       AtBlock
<1> QED
  BY <1>3, <1>4, <1>5, <1>6, <1>7, <1>8, <1>9, <1>10, <1>11 DEF ToolStep

\* Every step keeps the types.
LEMMA TypeStep == TypeInv /\ [Next]_vars => TypeInv'
<1> SUFFICES ASSUME TypeInv, [Next]_vars PROVE TypeInv'
  OBVIOUS
<1>1. CASE LoopStep
  BY <1>1, TypeTurn, TypeGate, TypeTool DEF LoopStep
<1>2. CASE Abort
  BY <1>2 DEF Abort, AbortSignal, AbortContext, TypeInv, TypeOK, turnVars,
     blockVars, ghostVars
<1>3. CASE Take
  BY <1>3 DEF Take, TypeInv, TypeOK, turnVars, blockVars, abortVars, ghostVars
<1>4. CASE UNCHANGED vars
  BY <1>4 DEF vars, TypeInv, TypeOK, turnVars, blockVars, abortVars, ghostVars
<1> QED BY <1>1, <1>2, <1>3, <1>4 DEF Next

\* The types hold of every reachable state, and every look at the current block
\* is a look at a block the model sent.
THEOREM TypeCorrect == Spec => [](TypeOK /\ TypeInv)
<1>1. TypeInv => TypeOK
  BY DEF TypeInv
<1> QED BY <1>1, TypeInit, TypeStep, PTL DEF Spec

------------------------------------------------------------------------------
(* Every request is paired.  PairInv is inductive together with TypeInv: in  *)
(* a turn only the last message is open, and toolResults is the answered     *)
(* prefix of its tool_use blocks.                                            *)

InTurn == AtBlock \cup {"answered", "decide", "turnEnd"}

PrefixPaired(msgs) == \A i \in 1..Len(msgs) : i < Len(msgs) => AnsweredAt(msgs, i)

TurnOpen ==
  /\ PrefixPaired(messages)
  /\ messages[Len(messages)].uses = collected.uses

\* At "post" the block's result is out already.
AnsweredOf == IF pc = "post" THEN idx ELSE idx - 1

ResultsSoFar ==
  /\ Len(toolResults) = AnsweredOf
  /\ \A k \in 1..Len(toolResults) : toolResults[k] = collected.uses[k]

AllAnswered == idx = Len(collected.uses) + 1 /\ idx >= 2

PairInv ==
  /\ Len(messages) >= 1
  /\ pc \in InTurn => TurnOpen /\ ResultsSoFar
  /\ pc = "turnEnd" => AllAnswered
  /\ pc \in {"resolve", "top", "request", "stream"} => Paired(messages)
  /\ (pc \in {"finalize", "return", "done"}
       /\ result.reason \in {"aborted", "max_turns"}) => Paired(messages)

\* An answer put behind a paired history leaves only itself unanswered.
LEMMA OpenTurnPairing ==
  ASSUME NEW msgs \in Seq(Message), Len(msgs) >= 1, Paired(msgs),
         NEW uses \in Seq(Nat)
  PROVE  LET next == Append(msgs, AssistantMessage(uses))
         IN  PrefixPaired(next) /\ next[Len(next)].uses = uses /\ Len(next) >= 1
<1> DEFINE m == AssistantMessage(uses)
<1> DEFINE next == Append(msgs, m)
<1>1. m \in Message /\ m.uses = uses /\ m.results = <<>>
  BY DEF AssistantMessage, Message
<1> HIDE DEF m
<1>2. /\ Len(next) = Len(msgs) + 1
      /\ next[Len(next)] = m
      /\ \A i \in 1..Len(msgs) : next[i] = msgs[i]
  BY <1>1
<1> HIDE DEF next
<1>3. ASSUME NEW i \in 1..Len(next), i < Len(next)
      PROVE  AnsweredAt(next, i)
  <2>1. AnsweredAt(msgs, i) /\ i \in 1..Len(msgs)
    BY <1>2, <1>3 DEF Paired
  <2>2. CASE i < Len(msgs)
    BY <1>2, <1>3, <2>1, <2>2 DEF AnsweredAt
  <2>3. CASE i = Len(msgs)
    BY <1>1, <1>2, <1>3, <2>1, <2>3 DEF AnsweredAt
  <2> QED BY <2>1, <2>2, <2>3
<1>4. PrefixPaired(next)
  BY <1>3 DEF PrefixPaired
<1> QED BY <1>1, <1>2, <1>4 DEF next, m

\* Answering every block of the last message pairs the history again.
LEMMA CloseTurnPairing ==
  ASSUME NEW msgs \in Seq(Message), Len(msgs) >= 1, PrefixPaired(msgs),
         NEW ids \in Seq(Nat), msgs[Len(msgs)].uses = ids
  PROVE  LET next == Append(msgs, ToolResultMessage(ids))
         IN  Paired(next) /\ Len(next) >= 1
<1> DEFINE m == ToolResultMessage(ids)
<1> DEFINE next == Append(msgs, m)
<1>1. m \in Message /\ m.uses = <<>> /\ m.results = ids
  BY DEF ToolResultMessage, Message
<1> HIDE DEF m
<1>2. /\ Len(next) = Len(msgs) + 1
      /\ next[Len(next)] = m
      /\ \A i \in 1..Len(msgs) : next[i] = msgs[i]
  BY <1>1
<1> HIDE DEF next
<1>3. ASSUME NEW i \in 1..Len(next)
      PROVE  AnsweredAt(next, i)
  <2>1. CASE i < Len(msgs)
    <3>1. AnsweredAt(msgs, i) /\ i \in 1..Len(msgs)
      BY <1>2, <2>1 DEF PrefixPaired
    <3> QED BY <1>2, <2>1, <3>1 DEF AnsweredAt
  <2>2. CASE i = Len(msgs)
    BY <1>1, <1>2, <2>2 DEF AnsweredAt
  <2>3. CASE i = Len(next)
    BY <1>1, <1>2, <2>3 DEF AnsweredAt
  <2> QED BY <1>2, <1>3, <2>1, <2>2, <2>3
<1>4. Paired(next)
  BY <1>3 DEF Paired
<1> QED BY <1>2, <1>4 DEF next, m

\* The prompt alone is a paired history.
LEMMA PairInit == Init => PairInv
<1> SUFFICES ASSUME Init PROVE PairInv
  OBVIOUS
<1>1. messages = <<Prompt>> /\ pc = "resolve"
  BY DEF Init
<1>2. Len(messages) = 1 /\ messages[1] = Prompt
  BY <1>1
<1>3. Paired(messages)
  BY <1>2 DEF Paired, AnsweredAt, Prompt
<1> QED BY <1>1, <1>2, <1>3 DEF PairInv, InTurn, AtBlock

\* The steps of a turn keep the pairing invariant.
LEMMA PairTurn ==
  ASSUME TypeInv, PairInv, TurnStep
  PROVE  PairInv'
<1> USE DEF turnVars, blockVars, abortVars
<1>1. CASE ResolveTools
  BY <1>1 DEF ResolveTools, Running, Goto, Yield, Finalize, PairInv, InTurn, AtBlock
<1>2. CASE BeginTurn
  BY <1>2 DEF BeginTurn, Running, Goto, Yield, Finalize, PairInv, InTurn, AtBlock
<1>3. CASE MaxTurnsReached
  BY <1>3 DEF MaxTurnsReached, Running, Goto, Finalize, PairInv, InTurn, AtBlock
<1>4. CASE SendRequest
  BY <1>4 DEF SendRequest, Running, Goto, PairInv, InTurn, AtBlock
<1>5. CASE StreamFails
  BY <1>5 DEF StreamFails, Running, Yield, Finalize, PairInv, InTurn, AtBlock
<1>6. ASSUME NEW stop \in StopReason, NEW n \in 0..MaxBlocks,
             NEW cost \in TokenCosts, StreamEnds(stop, n, cost)
      PROVE  PairInv'
  <2> DEFINE uses == [k \in 1..n |-> issued + k]
  <2>1. uses \in Seq(Nat)
    BY LimitsAreNat DEF TypeInv, TypeOK
  <2> HIDE DEF uses
  <2>2. /\ collected' = [stop |-> stop, uses |-> uses]
        /\ messages' = Append(messages, AssistantMessage(uses))
        /\ pc = "stream" /\ pc' = "answered"
        /\ toolResults' = <<>> /\ idx' = 1
    BY <1>6 DEF StreamEnds, Running, Yield, uses
  <2>3. messages \in Seq(Message) /\ Len(messages) >= 1 /\ Paired(messages)
    BY <2>2 DEF PairInv, TypeInv, TypeOK
  <2>4. PrefixPaired(messages') /\ messages'[Len(messages')].uses = uses
        /\ Len(messages') >= 1
    BY <2>1, <2>2, <2>3, OpenTurnPairing
  <2>5. TurnOpen'
    BY <2>2, <2>4 DEF TurnOpen
  <2>6. ResultsSoFar'
    BY <2>2 DEF ResultsSoFar, AnsweredOf
  <2> QED BY <2>2, <2>4, <2>5, <2>6 DEF PairInv
<1>7. CASE ReportUsage
  BY <1>7 DEF ReportUsage, Running, Yield, PairInv, InTurn, AtBlock, TurnOpen,
     ResultsSoFar, AnsweredOf
<1>8. CASE Decide
  <2> DEFINE exit == ExitFor(collected.stop, collected.uses)
  <2>1. collected.stop \in StopReason /\ collected.uses \in Seq(Nat)
    BY DEF TypeInv, TypeOK
  <2>2. exit \notin {"aborted", "max_turns"}
        /\ FirstGate \in {"policy", "preTool", "dispatch"}
    BY <2>1, ExitType, EntryPoint
  <2>3. pc = "decide" /\ UNCHANGED <<messages, collected, toolResults, idx>>
    BY <1>8 DEF Decide, Running
  <2>4. CASE exit # "none"
    BY <1>8, <2>2, <2>3, <2>4 DEF Decide, Goto, Finalize, PairInv, InTurn, AtBlock
  <2>5. CASE exit = "none"
    <3>1. pc' = FirstGate
      BY <1>8, <2>5 DEF Decide, Goto
    <3> QED
      BY <2>2, <2>3, <3>1 DEF PairInv, InTurn, AtBlock, TurnOpen, ResultsSoFar,
         AnsweredOf
  <2> QED BY <2>4, <2>5
<1>9. CASE EndTurn
  <2>1. /\ pc = "turnEnd" /\ pc' \in {"finalize", "top"}
        /\ messages' = Append(messages, ToolResultMessage(toolResults))
    BY <1>9 DEF EndTurn, Running, ResultsPushed, Goto
  <2>2. /\ messages \in Seq(Message) /\ toolResults \in Seq(Nat)
        /\ collected.uses \in Seq(Nat) /\ idx \in Nat
    BY DEF TypeInv, TypeOK
  <2>3. /\ Len(toolResults) = Len(collected.uses)
        /\ \A k \in 1..Len(toolResults) : toolResults[k] = collected.uses[k]
    BY <2>1, <2>2 DEF PairInv, InTurn, ResultsSoFar, AllAnswered, AnsweredOf
  <2>4. toolResults = collected.uses
    BY <2>2, <2>3, SeqEqual
  <2>5. Paired(messages') /\ Len(messages') >= 1
    BY <2>1, <2>2, <2>4, CloseTurnPairing DEF PairInv, InTurn, TurnOpen
  <2> QED BY <2>1, <2>5 DEF PairInv, InTurn, AtBlock
<1>10. CASE Evaluate
  BY <1>10 DEF Evaluate, Running, Yield, Goto, PairInv, InTurn, AtBlock
<1>11. CASE Return
  BY <1>11 DEF Return, Running, Goto, PairInv, InTurn, AtBlock
<1> QED
  BY <1>1, <1>2, <1>3, <1>4, <1>5, <1>6, <1>7, <1>8, <1>9, <1>10, <1>11
     DEF TurnStep, StreamStep

\* Pushing the current block keeps toolResults the answered prefix.
LEMMA PushKeepsPrefix ==
  ASSUME TypeInv, pc \in AtBlock \ {"post"}, ResultsSoFar,
         toolResults' = Append(toolResults, Block)
  PROVE  /\ Len(toolResults') = idx
         /\ \A k \in 1..Len(toolResults') : toolResults'[k] = collected.uses[k]
<1>1. /\ toolResults \in Seq(Nat) /\ Len(toolResults) = idx - 1
      /\ idx \in Nat \ {0} /\ Block \in Nat
  BY BlockEventType DEF ResultsSoFar, AnsweredOf, TypeInv, TypeOK, AtBlock, EventType
<1>2. /\ Len(toolResults') = idx
      /\ toolResults'[idx] = Block
      /\ \A k \in 1..(idx - 1) : toolResults'[k] = toolResults[k]
  BY <1>1
<1>3. \A k \in 1..(idx - 1) : toolResults[k] = collected.uses[k]
  BY <1>1 DEF ResultsSoFar
<1> QED BY <1>1, <1>2, <1>3 DEF Block

\* Leaving a block with its result pushed: the next block's prefix is answered.
LEMMA BlockEntryPairs ==
  ASSUME TypeInv, pc \in AtBlock, idx' = idx + 1,
         pc' = BlockEntry(idx + 1, Len(collected.uses)), UNCHANGED collected
  PROVE  /\ pc' \in (AtBlock \ {"post"}) \cup {"turnEnd"}
         /\ pc' = "turnEnd" => AllAnswered'
<1>1. /\ idx \in Nat \ {0} /\ Len(collected.uses) \in Nat
      /\ idx <= Len(collected.uses)
  BY DEF TypeInv, TypeOK
<1>2. pc' \in {"policy", "preTool", "dispatch", "turnEnd"}
  BY <1>1, EntryPoint
<1>3. pc' = "turnEnd" => ~(idx + 1 <= Len(collected.uses))
  BY DEF BlockEntry, FirstGate, AfterPolicy
<1> QED BY <1>1, <1>2, <1>3 DEF AtBlock, AllAnswered

\* A refusal answers the block it refuses.
LEMMA PairRefuse ==
  ASSUME TypeInv, PairInv, pc \in AtBlock \ {"post"}, Refuse,
         UNCHANGED <<turnVars, collected, result>>
  PROVE  PairInv'
<1>1. /\ toolResults' = Append(toolResults, Block) /\ idx' = idx + 1
      /\ pc' = BlockEntry(idx + 1, Len(collected.uses))
  BY DEF Refuse, PushResult, Continue, Yield
<1>2. TurnOpen /\ ResultsSoFar /\ Len(messages) >= 1
  BY DEF PairInv, InTurn
<1>3. /\ Len(toolResults') = idx
      /\ \A k \in 1..Len(toolResults') : toolResults'[k] = collected.uses[k]
  BY <1>1, <1>2, PushKeepsPrefix
<1>4. /\ pc' \in (AtBlock \ {"post"}) \cup {"turnEnd"}
      /\ pc' = "turnEnd" => AllAnswered'
  BY <1>1, BlockEntryPairs
<1>5. ResultsSoFar'
  <2>1. AnsweredOf' = idx
    BY <1>1, <1>4 DEF AnsweredOf, AtBlock, TypeInv, TypeOK
  <2> QED BY <1>3, <2>1 DEF ResultsSoFar
<1>6. TurnOpen' /\ Len(messages') >= 1
  BY <1>2 DEF TurnOpen, turnVars
<1> QED BY <1>4, <1>5, <1>6 DEF PairInv, InTurn, AtBlock

\* A step inside the block that pushes nothing.
LEMMA PairStays ==
  ASSUME PairInv, pc \in AtBlock, pc' \in AtBlock,
         pc = "post" <=> pc' = "post",
         UNCHANGED <<turnVars, collected, toolResults, idx>>
  PROVE  PairInv'
BY DEF PairInv, InTurn, AtBlock, TurnOpen, ResultsSoFar, AnsweredOf, turnVars

\* A step that ends the block with a result of the dispatcher.
LEMMA PairPush ==
  ASSUME TypeInv, PairInv, pc \in AtBlock \ {"post"}, pc' = "post",
         toolResults' = Append(toolResults, Block),
         UNCHANGED <<turnVars, collected, idx>>
  PROVE  PairInv'
<1>1. TurnOpen /\ ResultsSoFar /\ Len(messages) >= 1
  BY DEF PairInv, InTurn
<1>2. ResultsSoFar'
  BY <1>1, PushKeepsPrefix DEF ResultsSoFar, AnsweredOf
<1>3. TurnOpen' /\ Len(messages') >= 1
  BY <1>1 DEF TurnOpen, turnVars
<1> QED BY <1>2, <1>3 DEF PairInv, InTurn, AtBlock

\* The gates keep the pairing invariant.
LEMMA PairGate ==
  ASSUME TypeInv, PairInv, GateStep
  PROVE  PairInv'
<1> USE DEF turnVars, blockVars, abortVars
<1>0. AfterPolicy \in {"preTool", "dispatch"}
  BY DEF AfterPolicy
<1>1. CASE PolicyAnswers
  <2>1. pc = "policy" /\ pc' \in AtBlock \ {"post"}
        /\ UNCHANGED <<turnVars, collected, toolResults, idx>>
    BY <1>0, <1>1 DEF PolicyAnswers, Running, Yield, AtBlock
  <2> QED BY <2>1, PairStays DEF AtBlock
<1>2. CASE PolicyDenies
  BY <1>2, PairRefuse DEF PolicyDenies, Running, AtBlock
<1>3. CASE NoReviewer
  BY <1>3, PairRefuse DEF NoReviewer, Running, AtBlock
<1>4. CASE ReviewAnswers
  <2>1. pc = "review" /\ pc' \in AtBlock \ {"post"}
        /\ UNCHANGED <<turnVars, collected, toolResults, idx>>
    BY <1>0, <1>4 DEF ReviewAnswers, AfterReviewError, Running, Yield, AtBlock
  <2> QED BY <2>1, PairStays DEF AtBlock
<1>5. CASE PreToolAnswers
  <2>1. CASE Goto("dispatch") /\ UNCHANGED <<toolResults, idx, denied>>
    <3>1. pc = "preTool" /\ pc' = "dispatch"
          /\ UNCHANGED <<turnVars, collected, toolResults, idx>>
      BY <1>5, <2>1 DEF PreToolAnswers, Running, Goto
    <3> QED BY <3>1, PairStays DEF AtBlock
  <2>2. CASE Refuse
    BY <1>5, <2>2, PairRefuse DEF PreToolAnswers, Running, AtBlock
  <2> QED BY <1>5, <2>1, <2>2 DEF PreToolAnswers
<1> QED BY <1>1, <1>2, <1>3, <1>4, <1>5 DEF GateStep

\* The dispatcher and what follows it keep the pairing invariant.
LEMMA PairTool ==
  ASSUME TypeInv, PairInv, ToolStep
  PROVE  PairInv'
<1> USE DEF turnVars, blockVars, abortVars
<1>1. CASE Dispatch
  <2>1. CASE DispatchError
    BY <1>1, <2>1, PairPush DEF Dispatch, DispatchError, PushResult, Yield,
       Running, AtBlock
  <2>2. CASE ~DispatchError
    BY <1>1, <2>2, PairStays DEF Dispatch, Yield, Running, AtBlock
  <2> QED BY <2>1, <2>2
<1>2. CASE PermissionRefuses
  BY <1>2, PairPush DEF PermissionRefuses, DispatchError, PushResult, Yield,
     Running, AtBlock
<1>3. CASE DispatcherThrows
  BY <1>3 DEF DispatcherThrows, Yield, Finalize, Running, PairInv, InTurn, AtBlock
<1>4. CASE CallTool
  BY <1>4, PairStays DEF CallTool, Goto, Running, AtBlock
<1>5. ASSUME NEW n \in 0..MaxArtifacts, ToolSettles(n)
      PROVE  PairInv'
  BY <1>5, PairStays DEF ToolSettles, Goto, Running, AtBlock
<1>6. CASE FlushProgress
  BY <1>6, PairStays DEF FlushProgress, Yield, Running, AtBlock
<1>7. CASE EmitResult
  BY <1>7, PairPush DEF EmitResult, PushResult, Yield, Running, AtBlock
<1>8. CASE PersistArtifact
  BY <1>8, PairStays DEF PersistArtifact, Yield, Running, AtBlock
<1>9. CASE NextBlock
  <2>1. /\ pc = "post" /\ idx' = idx + 1
        /\ pc' = BlockEntry(idx + 1, Len(collected.uses))
        /\ UNCHANGED <<turnVars, collected, toolResults, result>>
    BY <1>9 DEF NextBlock, Running, Goto
  <2>2. /\ pc' \in (AtBlock \ {"post"}) \cup {"turnEnd"}
        /\ pc' = "turnEnd" => AllAnswered'
    BY <2>1, BlockEntryPairs DEF AtBlock
  <2>3. TurnOpen /\ ResultsSoFar /\ Len(messages) >= 1
    BY <2>1 DEF PairInv, InTurn, AtBlock
  <2>4. ResultsSoFar'
    BY <2>1, <2>2, <2>3 DEF ResultsSoFar, AnsweredOf, AtBlock, TypeInv, TypeOK
  <2>5. TurnOpen' /\ Len(messages') >= 1
    BY <2>1, <2>3 DEF TurnOpen
  <2> QED BY <2>2, <2>4, <2>5 DEF PairInv, InTurn, AtBlock
<1> QED
  BY <1>1, <1>2, <1>3, <1>4, <1>5, <1>6, <1>7, <1>8, <1>9 DEF ToolStep

\* Every step keeps the pairing invariant.
LEMMA PairStep == TypeInv /\ PairInv /\ [Next]_vars => PairInv'
<1> SUFFICES ASSUME TypeInv, PairInv, [Next]_vars PROVE PairInv'
  OBVIOUS
<1>1. CASE LoopStep
  BY <1>1, PairTurn, PairGate, PairTool DEF LoopStep
<1>2. CASE Abort \/ Take \/ UNCHANGED vars
  <2>1. UNCHANGED <<pc, messages, collected, toolResults, idx, result>>
    BY <1>2 DEF Abort, AbortSignal, AbortContext, Take, vars, turnVars, blockVars
  <2> QED
    BY <2>1 DEF PairInv, InTurn, TurnOpen, ResultsSoFar, AnsweredOf, AllAnswered
<1> QED BY <1>1, <1>2 DEF Next

\* Whatever the gates, tools, hooks, errors and aborts do, and for any number of
\* turns and blocks: the provider is never sent a history with an unanswered or
\* an invented tool_use, and an aborted or exhausted run leaves none behind.
THEOREM HistoryPaired == Spec => [](RequestsArePaired /\ CutShortHistoryIsPaired)
<1>1. PairInv => RequestsArePaired /\ CutShortHistoryIsPaired
  BY DEF PairInv, RequestsArePaired, CutShortHistoryIsPaired
<1> QED BY <1>1, TypeInit, TypeStep, PairInit, PairStep, PTL DEF Spec

\* What an aborted or exhausted run hands back is paired, too, so the next query
\* may continue from it.
THEOREM CutShortPaired == Spec => []CutShortHistoryIsPaired
BY HistoryPaired, PTL
------------------------------------------------------------------------------
(* A refused block is never run.  Ids are handed out in order, the loop goes *)
(* through them in order, so everything gates and tools have touched lies    *)
(* below the current block until the block itself is refused or called.      *)

Entered == {"calling", "flush", "emit", "post"}
Touched == denied \cup executed

DenyInv ==
  /\ Len(collected.uses) <= issued
  /\ pc \in InTurn =>
       \A k \in 1..Len(collected.uses) :
          collected.uses[k] + Len(collected.uses) = issued + k
  /\ pc \in InTurn =>
       \A b \in Touched : b + Len(collected.uses)
                            < issued + idx + (IF pc \in Entered THEN 1 ELSE 0)
  /\ \A b \in Touched : b <= issued
  /\ RefusedNeverRun

\* At a gate, the dispatcher or the permission check the block is untouched.
LEMMA BlockUntouched ==
  ASSUME TypeInv, DenyInv, pc \in AtBlock \ Entered
  PROVE  /\ Block \in Nat
         /\ Block \notin Touched
         /\ Block <= issued
         /\ Block + Len(collected.uses) = issued + idx
<1>1. /\ idx \in 1..Len(collected.uses) /\ issued \in Nat
      /\ collected.uses \in Seq(Nat) /\ Len(collected.uses) \in Nat
  BY DEF TypeInv, TypeOK
<1>2. Block \in Nat
  BY <1>1 DEF Block
<1>3. Block + Len(collected.uses) = issued + idx
  BY <1>1 DEF DenyInv, InTurn, Block
<1>4. ASSUME Block \in Touched PROVE FALSE
  <2>1. Block + Len(collected.uses) < issued + idx + 0
    BY <1>4 DEF DenyInv, InTurn
  <2> QED BY <1>1, <1>2, <1>3, <2>1
<1> QED BY <1>1, <1>2, <1>3, <1>4

\* A step that touches nothing and stays in the block, or leaves the turn.
LEMMA DenyStays ==
  ASSUME TypeInv, DenyInv,
         UNCHANGED <<collected, issued, denied, executed>>,
         pc' \in InTurn =>
           /\ pc \in InTurn
           /\ \/ idx' = idx /\ (pc \in Entered => pc' \in Entered)
              \/ idx' = idx + 1
  PROVE  DenyInv'
<1>1. /\ idx \in Nat /\ issued \in Nat /\ Len(collected.uses) \in Nat
      /\ Touched \subseteq Nat
  BY DEF TypeInv, TypeOK, Touched
<1>2. Touched' = Touched
  BY DEF Touched
<1>3. ASSUME pc' \in InTurn, NEW b \in Touched
      PROVE  b + Len(collected.uses)
               < issued + idx' + (IF pc' \in Entered THEN 1 ELSE 0)
  <2>1. b + Len(collected.uses)
          < issued + idx + (IF pc \in Entered THEN 1 ELSE 0)
    BY <1>3 DEF DenyInv
  <2> QED BY <1>1, <1>3, <2>1
<1> QED BY <1>2, <1>3 DEF DenyInv, RefusedNeverRun

\* The current block is refused or called, and nothing else is touched.
LEMMA DenyTouches ==
  ASSUME TypeInv, DenyInv, pc \in AtBlock \ Entered,
         UNCHANGED <<collected, issued>>,
         \/ denied' = denied \cup {Block} /\ UNCHANGED executed
         \/ executed' = executed \cup {Block} /\ UNCHANGED denied,
         \/ idx' = idx /\ pc' \in Entered
         \/ idx' = idx + 1 /\ pc' \in InTurn
  PROVE  DenyInv'
<1>1. /\ idx \in Nat /\ issued \in Nat /\ Len(collected.uses) \in Nat
      /\ Touched \subseteq Nat /\ pc \in InTurn
  BY DEF TypeInv, TypeOK, Touched, InTurn
<1>2. /\ Block \in Nat
      /\ Block \notin denied /\ Block \notin executed
      /\ Block <= issued
      /\ Block + Len(collected.uses) = issued + idx
  BY BlockUntouched DEF Touched
<1>3. Touched' = Touched \cup {Block}
  BY DEF Touched
<1>4. RefusedNeverRun'
  BY <1>2 DEF DenyInv, RefusedNeverRun
<1>5. ASSUME NEW b \in Touched'
      PROVE  /\ b + Len(collected.uses)
                   < issued + idx' + (IF pc' \in Entered THEN 1 ELSE 0)
             /\ b <= issued
  <2>1. CASE b = Block
    BY <1>1, <1>2, <2>1
  <2>2. CASE b \in Touched
    <3>1. b + Len(collected.uses) < issued + idx + 0 /\ b <= issued
      BY <1>1, <2>2 DEF DenyInv
    <3> QED BY <1>1, <2>2, <3>1
  <2> QED BY <1>3, <1>5, <2>1, <2>2
<1> QED BY <1>1, <1>4, <1>5 DEF DenyInv

\* Nothing is refused or run at first.
LEMMA DenyInit == Init => DenyInv
BY DEF Init, DenyInv, InTurn, AtBlock, Touched, RefusedNeverRun

\* The steps of a turn neither refuse nor run a block.
LEMMA DenyTurn ==
  ASSUME TypeInv, DenyInv, TurnStep
  PROVE  DenyInv'
<1> USE DEF turnVars, blockVars, abortVars, ghostVars
<1>1. CASE ResolveTools \/ BeginTurn \/ MaxTurnsReached \/ SendRequest
           \/ StreamFails \/ EndTurn \/ Evaluate \/ Return
  <2>1. /\ UNCHANGED <<collected, issued, denied, executed>>
        /\ pc' \notin InTurn
    BY <1>1 DEF ResolveTools, BeginTurn, MaxTurnsReached, SendRequest,
       StreamFails, EndTurn, Evaluate, Return, Goto, Yield, InTurn, AtBlock
  <2> QED BY <2>1, DenyStays
<1>2. ASSUME NEW stop \in StopReason, NEW n \in 0..MaxBlocks,
             NEW cost \in TokenCosts, StreamEnds(stop, n, cost)
      PROVE  DenyInv'
  <2> DEFINE uses == [k \in 1..n |-> issued + k]
  <2>1. /\ collected' = [stop |-> stop, uses |-> uses]
        /\ issued' = issued + n /\ idx' = 1 /\ pc' = "answered"
        /\ UNCHANGED <<denied, executed>>
    BY <1>2 DEF StreamEnds, Yield
  <2>2. n \in Nat /\ issued \in Nat /\ Touched \subseteq Nat
    BY LimitsAreNat DEF TypeInv, TypeOK, Touched
  <2>3. Len(uses) = n /\ \A k \in 1..n : uses[k] = issued + k
    BY <2>2
  <2> HIDE DEF uses
  <2>4. collected'.uses = uses
    BY <2>1
  <2>5. /\ n <= issued'
        /\ \A k \in 1..n : uses[k] + n = issued' + k
    BY <2>1, <2>2, <2>3
  <2>6. ASSUME NEW b \in Touched
        PROVE  b + n < issued' + idx' + 0 /\ b <= issued'
    BY <2>1, <2>2, <2>6 DEF DenyInv
  <2>7. Touched' = Touched /\ RefusedNeverRun' /\ pc' \notin Entered
    BY <2>1 DEF Touched, RefusedNeverRun, DenyInv, Entered
  <2> QED BY <2>3, <2>4, <2>5, <2>6, <2>7 DEF DenyInv
<1>3. CASE ReportUsage \/ Decide
  <2>1. /\ pc \in {"answered", "decide"}
        /\ UNCHANGED <<collected, issued, denied, executed, idx>>
    BY <1>3 DEF ReportUsage, Decide, Running
  <2> QED BY <2>1, DenyStays DEF InTurn, Entered
<1> QED BY <1>1, <1>2, <1>3 DEF TurnStep, StreamStep

\* A refused block was not run before.
LEMMA DenyRefuse ==
  ASSUME TypeInv, DenyInv, pc \in AtBlock \ Entered, Refuse,
         UNCHANGED <<collected, issued, executed>>
  PROVE  DenyInv'
<1>1. pc' \in InTurn /\ idx' = idx + 1
  BY RefuseType DEF InTurn, AtBlock
<1>2. denied' = denied \cup {Block}
  BY DEF Refuse
<1> QED BY <1>1, <1>2, DenyTouches

\* The gates keep refused and executed blocks apart.
LEMMA DenyGate ==
  ASSUME TypeInv, DenyInv, GateStep
  PROVE  DenyInv'
<1> USE DEF turnVars, blockVars, abortVars, ghostVars
<1>1. CASE PolicyAnswers \/ ReviewAnswers
  <2>1. /\ pc \in {"policy", "review"}
        /\ UNCHANGED <<collected, issued, denied, executed, idx>>
    BY <1>1 DEF PolicyAnswers, ReviewAnswers, Running
  <2> QED BY <2>1, DenyStays DEF InTurn, AtBlock, Entered
<1>2. CASE PolicyDenies
  BY <1>2, DenyRefuse DEF PolicyDenies, Running, AtBlock, Entered
<1>3. CASE NoReviewer
  BY <1>3, DenyRefuse DEF NoReviewer, Running, AtBlock, Entered
<1>4. CASE PreToolAnswers
  <2>1. CASE Goto("dispatch") /\ UNCHANGED <<toolResults, idx, denied>>
    <3>1. /\ pc = "preTool"
          /\ UNCHANGED <<collected, issued, denied, executed, idx>>
      BY <1>4, <2>1 DEF PreToolAnswers, Running
    <3> QED BY <3>1, DenyStays DEF InTurn, AtBlock, Entered
  <2>2. CASE Refuse
    BY <1>4, <2>2, DenyRefuse DEF PreToolAnswers, Running, AtBlock, Entered
  <2> QED BY <1>4, <2>1, <2>2 DEF PreToolAnswers
<1> QED BY <1>1, <1>2, <1>3, <1>4 DEF GateStep

\* The dispatcher keeps refused and executed blocks apart.
LEMMA DenyTool ==
  ASSUME TypeInv, DenyInv, ToolStep
  PROVE  DenyInv'
<1> USE DEF turnVars, blockVars, abortVars, ghostVars
<1>1. CASE Dispatch
  <2>1. /\ pc = "dispatch" /\ pc' \in {"permission", "post"}
        /\ UNCHANGED <<collected, issued, denied, executed, idx>>
    BY <1>1 DEF Dispatch, DispatchError, Yield, Running
  <2> QED BY <2>1, DenyStays DEF InTurn, AtBlock, Entered
<1>2. CASE PermissionRefuses
  <2>1. /\ pc = "permission" /\ pc' = "post"
        /\ denied' = denied \cup {Block}
        /\ UNCHANGED <<collected, issued, executed, idx>>
    BY <1>2 DEF PermissionRefuses, DispatchError, Yield, Running
  <2> QED BY <2>1, DenyTouches DEF AtBlock, Entered
<1>3. CASE DispatcherThrows
  <2>1. /\ pc' \notin InTurn
        /\ UNCHANGED <<collected, issued, denied, executed>>
    BY <1>3 DEF DispatcherThrows, Yield, InTurn, AtBlock
  <2> QED BY <2>1, DenyStays
<1>4. CASE CallTool
  <2>1. /\ pc = "permission" /\ pc' = "calling"
        /\ executed' = executed \cup {Block}
        /\ UNCHANGED <<collected, issued, denied, idx>>
    BY <1>4 DEF CallTool, Goto, Running
  <2> QED BY <2>1, DenyTouches DEF AtBlock, Entered
<1>5. CASE \/ \E n \in 0..MaxArtifacts : ToolSettles(n)
           \/ FlushProgress \/ EmitResult \/ PersistArtifact
  <2>1. /\ pc \in Entered /\ pc' \in Entered
        /\ UNCHANGED <<collected, issued, denied, executed, idx>>
    BY <1>5 DEF ToolSettles, FlushProgress, EmitResult, PersistArtifact,
       Goto, Yield, Running, Entered
  <2> QED BY <2>1, DenyStays DEF InTurn, AtBlock, Entered
<1>6. CASE NextBlock
  <2>1. /\ pc = "post" /\ idx' = idx + 1
        /\ UNCHANGED <<collected, issued, denied, executed>>
    BY <1>6 DEF NextBlock, Goto, Running
  <2> QED BY <2>1, DenyStays DEF InTurn, AtBlock
<1> QED BY <1>1, <1>2, <1>3, <1>4, <1>5, <1>6 DEF ToolStep

\* Every step keeps refused and executed blocks apart.
LEMMA DenyStep == TypeInv /\ DenyInv /\ [Next]_vars => DenyInv'
<1> SUFFICES ASSUME TypeInv, DenyInv, [Next]_vars PROVE DenyInv'
  OBVIOUS
<1>1. CASE LoopStep
  BY <1>1, DenyTurn, DenyGate, DenyTool DEF LoopStep
<1>2. CASE Abort \/ Take \/ UNCHANGED vars
  <2>1. UNCHANGED <<pc, collected, issued, idx, denied, executed>>
    BY <1>2 DEF Abort, AbortSignal, AbortContext, Take, vars, turnVars,
       blockVars, ghostVars
  <2> QED BY <2>1, DenyStays
<1> QED BY <1>1, <1>2 DEF Next

\* No order of gates, reviewers and failures lets a tool run for a block that
\* one of them refused.
THEOREM RefusalsHold == Spec => []RefusedNeverRun
<1>1. DenyInv => RefusedNeverRun
  BY DEF DenyInv
<1> QED BY <1>1, TypeInit, TypeStep, DenyInit, DenyStep, PTL DEF Spec

------------------------------------------------------------------------------
(* Work begun after an abort.  A late call or request is possible only while *)
(* its question was already open; ctxSignal never goes back to FALSE, so the *)
(* next abort check sees it.                                                 *)

LateInv ==
  /\ lateCalls \in 0..1 /\ lateRequests \in 0..1
  /\ lateCalls = 1 => ctxSignal /\ pc # "permission"
  /\ lateRequests = 1 => aborted /\ pc # "request"

\* Nothing is late at first.
LEMMA LateInit == Init => LateInv
BY DEF Init, LateInv

\* The second late call or request is never begun.
LEMMA LateStep == TypeInv /\ LateInv /\ [Next]_vars => LateInv'
<1> SUFFICES ASSUME TypeInv, LateInv, [Next]_vars PROVE LateInv'
  OBVIOUS
<1> USE DEF turnVars, blockVars, abortVars, ghostVars
<1>1. CASE SendRequest
  BY <1>1 DEF SendRequest, Goto, Running, LateInv, aborted
<1>2. CASE CallTool
  BY <1>2 DEF CallTool, Goto, Running, LateInv, aborted
<1>3. CASE BeginTurn
  BY <1>3 DEF BeginTurn, Goto, Yield, LateInv, aborted
<1>4. CASE Dispatch
  BY <1>4 DEF Dispatch, DispatchError, AbortSeen, Yield, LateInv, aborted
<1>5. CASE \/ ResolveTools \/ MaxTurnsReached \/ StreamStep \/ ReportUsage
           \/ EndTurn \/ Evaluate \/ Return
  <2>1. /\ UNCHANGED <<signal, ctxSignal, lateCalls, lateRequests>>
        /\ pc' \notin {"permission", "request"}
    BY <1>5 DEF ResolveTools, MaxTurnsReached, StreamStep, StreamFails,
       StreamEnds, ReportUsage, EndTurn, Evaluate, Return, Goto, Yield
  <2> QED BY <2>1 DEF LateInv, aborted
<1>6. CASE Decide \/ GateStep \/ NextBlock
  <2>1. UNCHANGED <<signal, ctxSignal, lateCalls, lateRequests>>
    BY <1>6 DEF Decide, GateStep, PolicyAnswers, PolicyDenies, NoReviewer,
       ReviewAnswers, PreToolAnswers, NextBlock
  <2>2. pc' \notin {"permission", "request"}
    BY <1>6 DEF Decide, GateStep, PolicyAnswers, PolicyDenies, NoReviewer,
       ReviewAnswers, PreToolAnswers, NextBlock, Refuse, Continue, Goto, Yield,
       BlockEntry, FirstGate, AfterPolicy, AfterReviewError
  <2> QED BY <2>1, <2>2 DEF LateInv, aborted
<1>7. CASE \/ PermissionRefuses \/ DispatcherThrows
           \/ \E n \in 0..MaxArtifacts : ToolSettles(n)
           \/ FlushProgress \/ EmitResult \/ PersistArtifact
  <2>1. /\ UNCHANGED <<signal, ctxSignal, lateCalls, lateRequests>>
        /\ pc' \notin {"permission", "request"}
    BY <1>7 DEF PermissionRefuses, DispatchError, DispatcherThrows,
       ToolSettles, FlushProgress, EmitResult, PersistArtifact, Goto, Yield
  <2> QED BY <2>1 DEF LateInv, aborted
<1>8. CASE Abort \/ Take \/ UNCHANGED vars
  BY <1>8 DEF Abort, AbortSignal, AbortContext, Take, vars, LateInv, aborted
<1> QED
  BY <1>1, <1>2, <1>3, <1>4, <1>5, <1>6, <1>7, <1>8
     DEF Next, LoopStep, TurnStep, ToolStep

\* An abort lets at most the one tool call whose permission question was open,
\* and the one request whose start event was being delivered, still begin.
THEOREM AbortIsPrompt == Spec => []AbortBoundsWork
<1>1. LateInv => AbortBoundsWork
  BY DEF LateInv, AbortBoundsWork
<1> QED BY <1>1, TypeInit, TypeStep, LateInit, LateStep, PTL DEF Spec
------------------------------------------------------------------------------
(* The turn count.  It runs one ahead of the answers between the start of a  *)
(* turn and the end of its stream, and nowhere else.                         *)

Ended == {"finalize", "return", "done"}

ReportTrue ==
  \/ result.turnCount = Answers(messages)
  \/ result.reason = "error" /\ result.turnCount = Answers(messages) + 1

CountInv ==
  /\ pc \in {"request", "stream"} => turnCount = Answers(messages) + 1
  /\ pc \in InTurn \cup {"resolve", "top"} => turnCount = Answers(messages)
  /\ pc \in Ended => ReportTrue

\* A message put behind a history adds an answer exactly when it is one.
LEMMA AnswersOfAppend ==
  ASSUME NEW msgs \in Seq(Message), NEW m \in Message
  PROVE  /\ Answers(msgs) \in Nat
         /\ m.role = "assistant" => Answers(Append(msgs, m)) = Answers(msgs) + 1
         /\ m.role # "assistant" => Answers(Append(msgs, m)) = Answers(msgs)
<1> DEFINE old == {i \in 1..Len(msgs) : msgs[i].role = "assistant"}
<1> DEFINE next == Append(msgs, m)
<1> DEFINE new == {i \in 1..Len(next) : next[i].role = "assistant"}
<1>1. /\ Len(next) = Len(msgs) + 1 /\ Len(msgs) \in Nat
      /\ next[Len(msgs) + 1] = m
      /\ \A i \in 1..Len(msgs) : next[i] = msgs[i]
  OBVIOUS
<1>2. IsFiniteSet(old)
  <2>1. IsFiniteSet(1..Len(msgs))
    BY FS_Interval
  <2> QED BY <2>1, FS_Subset
<1>3. Cardinality(old) \in Nat
  BY <1>2, FS_CardinalityType
<1>4. CASE m.role = "assistant"
  <2>1. new = old \cup {Len(msgs) + 1}
    BY <1>1, <1>4
  <2>2. Len(msgs) + 1 \notin old
    BY <1>1
  <2>3. Cardinality(new) = Cardinality(old) + 1
    BY <1>2, <2>1, <2>2, FS_AddElement
  <2> QED BY <1>3, <1>4, <2>3 DEF Answers
<1>5. CASE m.role # "assistant"
  <2>1. new = old
    BY <1>1, <1>5
  <2> QED BY <1>3, <1>5, <2>1 DEF Answers
<1> QED BY <1>4, <1>5

\* The prompt is no answer.
LEMMA CountInit == Init => CountInv
<1> SUFFICES ASSUME Init PROVE CountInv
  OBVIOUS
<1>1. messages = <<Prompt>> /\ pc = "resolve" /\ turnCount = 0
  BY DEF Init
<1>2. {i \in 1..Len(messages) : messages[i].role = "assistant"} = {}
  BY <1>1 DEF Prompt
<1>3. Answers(messages) = 0
  BY <1>2, FS_EmptySet DEF Answers
<1> QED BY <1>1, <1>3 DEF CountInv, Ended, InTurn, AtBlock

\* A step that neither begins a turn nor adds a message, and does not decide.
LEMMA CountStays ==
  ASSUME CountInv, UNCHANGED <<turnCount, messages, result>>,
         \/ pc' = pc
         \/ pc \in InTurn /\ pc' \in InTurn
         \/ pc \in Ended /\ pc' \in Ended
         \/ pc = "request" /\ pc' = "stream"
         \/ pc = "resolve" /\ pc' = "top"
  PROVE  CountInv'
BY DEF CountInv, Ended, InTurn, AtBlock, ReportTrue

\* A step that decides the run: it reports the turns begun.
LEMMA CountDecided ==
  ASSUME TypeInv, CountInv, NEW reason \in ExitReason,
         pc \in InTurn \cup {"resolve", "top", "request", "stream"},
         reason = "error" \/ pc \notin {"request", "stream"},
         Finalize(reason, turnCount), pc' = "finalize",
         UNCHANGED messages
  PROVE  CountInv'
BY DEF CountInv, Ended, InTurn, AtBlock, ReportTrue, Finalize

\* The steps of a turn keep count.
LEMMA CountTurn ==
  ASSUME TypeInv, CountInv, TurnStep
  PROVE  CountInv'
<1> USE DEF turnVars, blockVars, abortVars
<1>0. turnCount \in Nat /\ messages \in Seq(Message)
  BY LimitsAreNat DEF TypeInv, TypeOK
<1>1. CASE ResolveTools
  <2>1. pc = "resolve" /\ UNCHANGED <<turnCount, messages>>
    BY <1>1 DEF ResolveTools, Running
  <2>2. CASE Goto("top") /\ UNCHANGED result
    BY <2>1, <2>2, CountStays DEF Goto
  <2>3. CASE Finalize("error", turnCount) /\ pc' = "finalize"
    BY <2>1, <2>3, CountDecided DEF ExitReason
  <2> QED BY <1>1, <2>2, <2>3 DEF ResolveTools, Yield
<1>2. CASE BeginTurn
  <2>1. pc = "top" /\ UNCHANGED messages /\ turnCount' = turnCount + 1
        /\ turnCount = Answers(messages)
    BY <1>2 DEF BeginTurn, Running, CountInv
  <2>2. CASE aborted
    BY <1>2, <2>1, <2>2 DEF BeginTurn, Goto, Finalize, AbortedTurn, CountInv,
       Ended, InTurn, AtBlock, ReportTrue
  <2>3. CASE ~aborted
    BY <1>2, <2>1, <2>3 DEF BeginTurn, Yield, CountInv, Ended, InTurn, AtBlock
  <2> QED BY <2>2, <2>3
<1>3. CASE MaxTurnsReached
  BY <1>3, CountDecided DEF MaxTurnsReached, Running, Goto, ExitReason
<1>4. CASE SendRequest
  BY <1>4, CountStays DEF SendRequest, Running, Goto
<1>5. CASE StreamFails
  BY <1>5, CountDecided DEF StreamFails, Running, Yield, ExitReason
<1>6. ASSUME NEW stop \in StopReason, NEW n \in 0..MaxBlocks,
             NEW cost \in TokenCosts, StreamEnds(stop, n, cost)
      PROVE  CountInv'
  <2> DEFINE uses == [k \in 1..n |-> issued + k]
  <2>1. uses \in Seq(Nat)
    BY LimitsAreNat DEF TypeInv, TypeOK
  <2> HIDE DEF uses
  <2>2. /\ messages' = Append(messages, AssistantMessage(uses))
        /\ pc = "stream" /\ pc' = "answered" /\ UNCHANGED turnCount
    BY <1>6 DEF StreamEnds, Running, Yield, uses
  <2>3. /\ AssistantMessage(uses) \in Message
        /\ AssistantMessage(uses).role = "assistant"
    BY <2>1 DEF AssistantMessage, Message
  <2>4. Answers(messages') = Answers(messages) + 1
    BY <1>0, <2>2, <2>3, AnswersOfAppend
  <2> QED BY <2>2, <2>4 DEF CountInv, Ended, InTurn, AtBlock
<1>7. CASE ReportUsage
  BY <1>7, CountStays DEF ReportUsage, Running, Yield, InTurn
<1>8. CASE Decide
  <2> DEFINE exit == ExitFor(collected.stop, collected.uses)
  <2>1. exit \in ExitReason \cup {"none"}
    BY ExitType DEF TypeInv, TypeOK
  <2>2. FirstGate \in {"policy", "preTool", "dispatch"}
    BY DEF FirstGate, AfterPolicy
  <2>3. pc = "decide" /\ UNCHANGED <<turnCount, messages>>
    BY <1>8 DEF Decide, Running
  <2>4. CASE exit # "none"
    <3>1. Finalize(exit, turnCount) /\ pc' = "finalize"
      BY <1>8, <2>4 DEF Decide, Goto
    <3>2. exit \in ExitReason
      BY <2>1, <2>4
    <3> HIDE DEF exit
    <3> QED BY <2>3, <3>1, <3>2, CountDecided DEF InTurn
  <2>5. CASE exit = "none"
    <3>1. pc' = FirstGate /\ UNCHANGED result
      BY <1>8, <2>5 DEF Decide, Goto
    <3> QED BY <2>2, <2>3, <3>1, CountStays DEF InTurn, AtBlock
  <2> QED BY <2>4, <2>5
<1>9. CASE EndTurn
  <2> DEFINE m == ToolResultMessage(toolResults)
  <2>1. m \in Message /\ m.role # "assistant"
    BY DEF ToolResultMessage, Message, TypeInv, TypeOK
  <2> HIDE DEF m
  <2>2. /\ pc = "turnEnd" /\ UNCHANGED turnCount
        /\ messages' = Append(messages, m)
    BY <1>9 DEF EndTurn, Running, ResultsPushed, m
  <2>3. Answers(messages') = Answers(messages)
    BY <1>0, <2>1, <2>2, AnswersOfAppend
  <2>4. \/ pc' = "finalize" /\ result'.turnCount = turnCount
        \/ pc' = "top"
    BY <1>9 DEF EndTurn, Goto, Finalize
  <2> QED
    BY <2>2, <2>3, <2>4 DEF CountInv, Ended, InTurn, AtBlock, ReportTrue
<1>10. CASE Evaluate \/ Return
  BY <1>10, CountStays DEF Evaluate, Return, Running, Goto, Yield, Ended
<1> QED
  BY <1>1, <1>2, <1>3, <1>4, <1>5, <1>6, <1>7, <1>8, <1>9, <1>10
     DEF TurnStep, StreamStep

\* The gates and the dispatcher keep count.
LEMMA CountBlock ==
  ASSUME TypeInv, CountInv, GateStep \/ ToolStep
  PROVE  CountInv'
<1> USE DEF turnVars, blockVars, abortVars
<1>1. CASE DispatcherThrows
  BY <1>1, CountDecided DEF DispatcherThrows, Running, Yield, ExitReason,
     InTurn, AtBlock
<1>2. CASE PolicyAnswers \/ ReviewAnswers
  <2>1. AfterPolicy \in {"preTool", "dispatch"}
    BY DEF AfterPolicy
  <2> QED
    BY <1>2, <2>1, CountStays DEF PolicyAnswers, ReviewAnswers,
       AfterReviewError, Running, Yield, InTurn, AtBlock
<1>3. CASE PolicyDenies \/ NoReviewer \/ PreToolAnswers
  <2>1. pc \in AtBlock /\ UNCHANGED <<turnCount, messages, result>>
    BY <1>3 DEF PolicyDenies, NoReviewer, PreToolAnswers, Running, AtBlock
  <2>2. pc' \in InTurn
    BY <1>3, <2>1, RefuseType DEF PolicyDenies, NoReviewer, PreToolAnswers,
       Goto, InTurn, AtBlock
  <2> QED BY <2>1, <2>2, CountStays DEF InTurn
<1>4. CASE \/ Dispatch \/ PermissionRefuses \/ CallTool
           \/ \E n \in 0..MaxArtifacts : ToolSettles(n)
           \/ FlushProgress \/ EmitResult \/ PersistArtifact
  BY <1>4, CountStays DEF Dispatch, PermissionRefuses, DispatchError, CallTool,
     ToolSettles, FlushProgress, EmitResult, PersistArtifact, Running, Goto,
     Yield, InTurn, AtBlock
<1>5. CASE NextBlock
  <2>1. BlockEntry(idx + 1, Len(collected.uses)) \in InTurn
    BY DEF BlockEntry, FirstGate, AfterPolicy, InTurn, AtBlock
  <2> QED BY <1>5, <2>1, CountStays DEF NextBlock, Running, Goto, InTurn, AtBlock
<1> QED BY <1>1, <1>2, <1>3, <1>4, <1>5 DEF GateStep, ToolStep

\* Every step keeps count.
LEMMA CountStep == TypeInv /\ CountInv /\ [Next]_vars => CountInv'
<1> SUFFICES ASSUME TypeInv, CountInv, [Next]_vars PROVE CountInv'
  OBVIOUS
<1>1. CASE LoopStep
  BY <1>1, CountTurn, CountBlock DEF LoopStep
<1>2. CASE Abort \/ Take \/ UNCHANGED vars
  BY <1>2, CountStays DEF Abort, AbortSignal, AbortContext, Take, vars, turnVars
<1> QED BY <1>1, <1>2 DEF Next

\* The turn count a caller is billed and resumes by is the number of answers the
\* model gave, whichever of the exits was taken; an error may add the turn it
\* broke.
THEOREM TurnsCounted == Spec => []TurnsReportedAreTurnsAnswered
<1>1. CountInv => TurnsReportedAreTurnsAnswered
  BY DEF CountInv, Ended, ReportTrue, TurnsReportedAreTurnsAnswered
<1> QED BY <1>1, TypeInit, TypeStep, CountInit, CountStep, PTL DEF Spec
------------------------------------------------------------------------------
(* The loop keeps the order of events its consumers are written against.     *)
(* PairInv is what the mapping rests on: the results given so far are the    *)
(* answered prefix of the blocks, so the next result is the next block's,    *)
(* and at the end of the turn the results are the blocks.                    *)

Simulated == Protocol!Next \/ UNCHANGED Protocol!pvars

\* The initial states map to initial states.
LEMMA SimInit == Init => Protocol!Init
BY DEF Init, Protocol!Init, PhaseOf, TurnOf, Prompt, Protocol!Prompt, NoEvent,
   Protocol!NoEvent

\* A step that changes nothing the protocol speaks of.
LEMMA SimStutter ==
  ASSUME PhaseOf' = PhaseOf, TurnOf' = TurnOf,
         UNCHANGED <<collected, toolResults, issued, messages, result, out>>
  PROVE  Simulated
BY DEF Simulated, Protocol!pvars, Protocol!turnState

\* A decision or an error of a hook is a remark.
LEMMA SimRemark ==
  ASSUME PhaseOf \in {"tools", "ending"}, out = NoEvent,
         out' \in {Notice("governance_decision"), Notice("error")},
         PhaseOf' = PhaseOf, TurnOf' = TurnOf,
         UNCHANGED <<collected, toolResults, issued, messages, result>>
  PROVE  Simulated
BY DEF Simulated, Protocol!Next, Protocol!Remark, Protocol!Quiet,
   Protocol!turnState, Protocol!NoEvent, NoEvent, Protocol!Notice, Notice,
   Protocol!Ev, Ev

\* In a block whose result is still to come, the next result is its own.
LEMMA NextResult ==
  ASSUME TypeInv, PairInv, pc \in AtBlock \ {"post"}
  PROVE  /\ Len(toolResults) = idx - 1 /\ idx \in Nat \ {0}
         /\ Len(toolResults) < Len(collected.uses)
         /\ Block = collected.uses[Len(toolResults) + 1]
         /\ PhaseOf = "tools" /\ TurnOf = turnCount
<1>1. /\ idx \in Nat \ {0} /\ Len(collected.uses) \in Nat
      /\ idx <= Len(collected.uses)
  BY DEF TypeInv, TypeOK
<1>2. ResultsSoFar
  BY DEF PairInv, InTurn
<1>3. Len(toolResults) = idx - 1
  BY <1>2 DEF ResultsSoFar, AnsweredOf
<1>4. Block = collected.uses[Len(toolResults) + 1]
  BY <1>1, <1>3 DEF Block
<1>5. PhaseOf = "tools" /\ TurnOf = turnCount
  BY DEF PhaseOf, TurnOf, AtBlock
<1> QED BY <1>1, <1>3, <1>4, <1>5

\* A step that gives the current block its result.
LEMMA SimResult ==
  ASSUME TypeInv, PairInv, pc \in AtBlock \ {"post"}, out = NoEvent,
         out' = Ev("result", <<Block>>, 0), PushResult,
         pc' \in AtBlock \cup {"turnEnd"},
         UNCHANGED <<turnVars, collected, result>>
  PROVE  Simulated
<1>1. /\ Len(toolResults) < Len(collected.uses)
      /\ Block = collected.uses[Len(toolResults) + 1]
      /\ PhaseOf = "tools" /\ TurnOf = turnCount
  BY NextResult
<1>2. toolResults \in Seq(Nat) /\ Block \in Nat
  BY BlockEventType DEF TypeInv, TypeOK, EventType
<1>3. Len(toolResults') = Len(toolResults) + 1
  BY <1>2 DEF PushResult
<1>4. PhaseOf' = "tools" /\ TurnOf' = turnCount
  BY DEF PhaseOf, TurnOf, AtBlock, turnVars
<1>5. Protocol!Result
  BY <1>1, <1>3, <1>4 DEF Protocol!Result, Protocol!Quiet, Protocol!NoEvent,
     NoEvent, Protocol!Ev, Ev, turnVars
<1> QED BY <1>5 DEF Simulated, Protocol!Next

\* The loop ends at once: tools that cannot be resolved, a stream that fails, a
\* dispatcher that throws.
LEMMA SimFail ==
  ASSUME PhaseOf \in {"idle", "requested", "tools"}, out = NoEvent,
         out' = Notice("error"), PhaseOf' = "ending", TurnOf' = TurnOf,
         result'.reason = "error",
         UNCHANGED <<collected, toolResults, issued, messages>>
  PROVE  Simulated
BY DEF Simulated, Protocol!Next, Protocol!Fail, Protocol!Quiet,
   Protocol!turnState, Protocol!NoEvent, NoEvent, Protocol!Notice, Notice,
   Protocol!Ev, Ev

\* The loop ends between turns, or right after an answer.
LEMMA SimClose ==
  ASSUME NEW reason,
         \/ PhaseOf = "idle" /\ reason \in {"aborted", "max_turns"}
         \/ /\ PhaseOf = "tools" /\ Len(toolResults) = 0
            /\ reason \in ExitReason \ {"aborted", "max_turns"},
         out = NoEvent, PhaseOf' = "ending", TurnOf' = TurnOf,
         result'.reason = reason,
         UNCHANGED <<collected, toolResults, issued, messages, out>>
  PROVE  Simulated
BY DEF Simulated, Protocol!Next, Protocol!Close, Protocol!Quiet,
   Protocol!turnState, Protocol!NoEvent, NoEvent, Protocol!ExitReason,
   ExitReason, Protocol!StopReason, StopReason

\* The steps of a turn.
LEMMA SimTurn ==
  ASSUME TypeInv, PairInv, TurnStep
  PROVE  Simulated
<1> USE DEF turnVars, blockVars, abortVars
<1>1. CASE ResolveTools
  <2>1. pc = "resolve" /\ out = NoEvent /\ PhaseOf = "idle" /\ TurnOf = turnCount
    BY <1>1 DEF ResolveTools, Running, PhaseOf, TurnOf
  <2>2. CASE Goto("top") /\ UNCHANGED result
    <3>1. PhaseOf' = PhaseOf /\ TurnOf' = TurnOf
      BY <1>1, <2>1, <2>2 DEF ResolveTools, Goto, PhaseOf, TurnOf
    <3> QED BY <1>1, <2>2, <3>1, SimStutter DEF ResolveTools, Goto
  <2>3. CASE Yield(Notice("error"), "finalize") /\ Finalize("error", turnCount)
    <3>1. /\ PhaseOf' = "ending" /\ TurnOf' = TurnOf /\ result'.reason = "error"
          /\ out' = Notice("error")
      BY <1>1, <2>1, <2>3 DEF ResolveTools, Yield, Finalize, PhaseOf, TurnOf
    <3> QED BY <1>1, <2>1, <3>1, SimFail DEF ResolveTools
  <2> QED BY <1>1, <2>2, <2>3 DEF ResolveTools
<1>2. CASE BeginTurn
  <2>1. pc = "top" /\ out = NoEvent /\ PhaseOf = "idle" /\ TurnOf = turnCount
    BY <1>2 DEF BeginTurn, Running, PhaseOf, TurnOf
  <2>2. CASE aborted
    <3>1. /\ PhaseOf' = "ending" /\ TurnOf' = TurnOf /\ UNCHANGED out
          /\ result'.reason = "aborted"
      BY <1>2, <2>1, <2>2 DEF BeginTurn, Goto, Finalize, AbortedTurn, PhaseOf, TurnOf
    <3> QED BY <1>2, <2>1, <3>1, SimClose DEF BeginTurn
  <2>3. CASE ~aborted
    <3>1. /\ PhaseOf' = "requested" /\ TurnOf' = turnCount + 1
          /\ out' = Ev("stream_request_start", <<>>, turnCount + 1)
          /\ UNCHANGED result
      BY <1>2, <2>1, <2>3 DEF BeginTurn, Yield, PhaseOf, TurnOf
    <3>2. Protocol!BeginTurn
      BY <1>2, <2>1, <3>1 DEF BeginTurn, TurnAllowed, Protocol!BeginTurn,
         Protocol!Quiet, Protocol!NoEvent, NoEvent, Protocol!Ev, Ev
    <3> QED BY <3>2 DEF Simulated, Protocol!Next
  <2> QED BY <2>2, <2>3
<1>3. CASE MaxTurnsReached
  <2>1. /\ PhaseOf = "idle" /\ TurnOf = turnCount /\ out = NoEvent
        /\ PhaseOf' = "ending" /\ TurnOf' = turnCount
        /\ result'.reason = "max_turns" /\ UNCHANGED out
    BY <1>3 DEF MaxTurnsReached, Running, Goto, Finalize, PhaseOf, TurnOf
  <2> QED BY <1>3, <2>1, SimClose DEF MaxTurnsReached
<1>4. CASE SendRequest
  <2>1. PhaseOf' = PhaseOf /\ TurnOf' = TurnOf /\ UNCHANGED out
    BY <1>4 DEF SendRequest, Running, Goto, PhaseOf, TurnOf
  <2> QED BY <1>4, <2>1, SimStutter DEF SendRequest
<1>5. CASE StreamFails
  <2>1. /\ PhaseOf = "requested" /\ TurnOf = turnCount /\ out = NoEvent
        /\ PhaseOf' = "ending" /\ TurnOf' = turnCount
        /\ result'.reason = "error" /\ out' = Notice("error")
    BY <1>5 DEF StreamFails, Running, Yield, Finalize, PhaseOf, TurnOf
  <2> QED BY <1>5, <2>1, SimFail DEF StreamFails
<1>6. ASSUME NEW stop \in StopReason, NEW n \in 0..MaxBlocks,
             NEW cost \in TokenCosts, StreamEnds(stop, n, cost)
      PROVE  Simulated
  <2> DEFINE uses == [k \in 1..n |-> issued + k]
  <2>1. /\ pc = "stream" /\ pc' = "answered" /\ out = NoEvent
        /\ collected' = [stop |-> stop, uses |-> uses] /\ toolResults' = <<>>
        /\ issued' = issued + n
        /\ messages' = Append(messages, AssistantMessage(uses))
        /\ out' = Ev("assistant_message", uses, 0)
        /\ UNCHANGED <<turnCount, result>>
    BY <1>6 DEF StreamEnds, Running, Yield
  <2>2. /\ PhaseOf = "requested" /\ PhaseOf' = "answered" /\ TurnOf' = TurnOf
        /\ collected'.uses = uses /\ Len(toolResults') = 0
        /\ UNCHANGED result.reason
    BY <2>1 DEF PhaseOf, TurnOf
  <2>3. Protocol!Answer(n)
    BY <2>1, <2>2 DEF Protocol!Answer, Protocol!Quiet, Protocol!NoEvent,
       NoEvent, Protocol!Ev, Ev, Protocol!AssistantMessage, AssistantMessage
  <2> QED BY <2>3 DEF Simulated, Protocol!Next
<1>7. CASE ReportUsage
  <2>1. /\ PhaseOf = "answered" /\ PhaseOf' = "tools" /\ TurnOf' = TurnOf
        /\ out = NoEvent /\ out' = Ev("usage_update", <<>>, cumulativeUsage)
    BY <1>7 DEF ReportUsage, Running, Yield, PhaseOf, TurnOf
  <2>2. out'.n = cumulativeUsage /\ cumulativeUsage \in Nat
    BY <2>1 DEF Ev, TypeInv, TypeOK
  <2>3. Protocol!Usage(out'.n)
    BY <1>7, <2>1, <2>2 DEF ReportUsage, Protocol!Usage, Protocol!Quiet,
       Protocol!NoEvent, NoEvent, Protocol!Ev, Ev, Protocol!turnState
  <2> QED BY <2>2, <2>3 DEF Simulated, Protocol!Next
<1>8. CASE Decide
  <2> DEFINE exit == ExitFor(collected.stop, collected.uses)
  <2>1. /\ exit \in ExitReason \cup {"none"}
        /\ exit \notin {"aborted", "max_turns"}
    BY ExitType DEF TypeInv, TypeOK
  <2>2. /\ PhaseOf = "tools" /\ TurnOf = turnCount
        /\ pc = "decide" /\ out = NoEvent
    BY <1>8 DEF Decide, Running, PhaseOf, TurnOf
  <2>3. Len(toolResults) = 0
    BY <2>2 DEF PairInv, InTurn, ResultsSoFar, AnsweredOf, TypeInv
  <2>4. CASE exit # "none"
    <3>1. /\ PhaseOf' = "ending" /\ TurnOf' = turnCount /\ UNCHANGED out
          /\ result'.reason = exit
      BY <1>8, <2>4 DEF Decide, Goto, Finalize, PhaseOf, TurnOf
    <3>2. exit \in ExitReason \ {"aborted", "max_turns"}
      BY <2>1, <2>4
    <3> HIDE DEF exit
    <3> QED BY <1>8, <2>2, <2>3, <3>1, <3>2, SimClose DEF Decide
  <2>5. CASE exit = "none"
    <3>1. pc' = FirstGate /\ UNCHANGED <<result, out>>
      BY <1>8, <2>5 DEF Decide, Goto
    <3>2. PhaseOf' = "tools" /\ TurnOf' = turnCount
      BY <1>8, <3>1 DEF Decide, FirstGate, AfterPolicy, PhaseOf, TurnOf
    <3> QED BY <1>8, <2>2, <3>1, <3>2, SimStutter DEF Decide
  <2> QED BY <2>4, <2>5
<1>9. CASE EndTurn
  <2>1. /\ pc = "turnEnd" /\ out = NoEvent /\ UNCHANGED out
        /\ PhaseOf = "tools" /\ TurnOf = turnCount
        /\ messages' = Append(messages, ToolResultMessage(toolResults))
    BY <1>9 DEF EndTurn, Running, ResultsPushed, Goto, PhaseOf, TurnOf
  <2>2. /\ toolResults \in Seq(Nat) /\ collected.uses \in Seq(Nat) /\ idx \in Nat
    BY DEF TypeInv, TypeOK
  <2>3. /\ Len(toolResults) = Len(collected.uses) /\ Len(collected.uses) >= 1
        /\ \A k \in 1..Len(toolResults) : toolResults[k] = collected.uses[k]
    BY <2>1, <2>2 DEF PairInv, InTurn, ResultsSoFar, AllAnswered, AnsweredOf
  <2>4. toolResults = collected.uses /\ collected.uses # <<>>
    BY <2>2, <2>3, SeqEqual
  <2>5. /\ TurnOf' = turnCount
        /\ \/ PhaseOf' = "idle" /\ UNCHANGED result
           \/ PhaseOf' = "ending" /\ result'.reason = "aborted"
    BY <1>9 DEF EndTurn, Goto, Finalize, PhaseOf, TurnOf
  <2>6. Protocol!TurnDone
    BY <1>9, <2>1, <2>3, <2>4, <2>5 DEF EndTurn, Protocol!TurnDone,
       Protocol!Quiet, Protocol!NoEvent, NoEvent, Protocol!turnState,
       Protocol!ToolResultMessage, ToolResultMessage
  <2> QED BY <2>6 DEF Simulated, Protocol!Next
<1>10. CASE Evaluate
  <2>1. /\ PhaseOf = "ending" /\ PhaseOf' = "ending" /\ TurnOf' = TurnOf
        /\ out = NoEvent
        /\ \/ out' \in {Notice("governance_decision"), Notice("error")}
           \/ UNCHANGED out
    BY <1>10 DEF Evaluate, Running, Yield, Goto, PhaseOf, TurnOf
  <2> QED BY <1>10, <2>1, SimRemark, SimStutter DEF Evaluate
<1>11. CASE Return
  <2>1. /\ PhaseOf = "ending" /\ PhaseOf' = "over" /\ TurnOf' = TurnOf
        /\ out = NoEvent /\ UNCHANGED out
    BY <1>11 DEF Return, Running, Goto, PhaseOf, TurnOf
  <2>2. Protocol!Over
    BY <1>11, <2>1 DEF Return, Protocol!Over, Protocol!Quiet, Protocol!NoEvent,
       NoEvent, Protocol!turnState
  <2> QED BY <2>2 DEF Simulated, Protocol!Next
<1> QED
  BY <1>1, <1>2, <1>3, <1>4, <1>5, <1>6, <1>7, <1>8, <1>9, <1>10, <1>11
     DEF TurnStep, StreamStep

\* A refusal gives the block its result.
LEMMA SimRefuse ==
  ASSUME TypeInv, PairInv, pc \in AtBlock \ {"post"}, out = NoEvent, Refuse,
         UNCHANGED <<turnVars, collected, result>>
  PROVE  Simulated
<1>1. /\ out' = Ev("result", <<Block>>, 0) /\ PushResult
      /\ pc' \in AtBlock \cup {"turnEnd"}
  BY RefuseType DEF Refuse, Continue, Yield, AtBlock
<1> QED BY <1>1, SimResult

\* The gates.
LEMMA SimGate ==
  ASSUME TypeInv, PairInv, GateStep
  PROVE  Simulated
<1> USE DEF turnVars, blockVars, abortVars
<1>1. CASE PolicyAnswers \/ ReviewAnswers
  <2>1. AfterPolicy \in {"preTool", "dispatch"}
    BY DEF AfterPolicy
  <2>2. /\ PhaseOf = "tools" /\ PhaseOf' = "tools" /\ TurnOf' = TurnOf
        /\ out = NoEvent
        /\ out' \in {Notice("governance_decision"), Notice("error")}
    BY <1>1, <2>1 DEF PolicyAnswers, ReviewAnswers, AfterReviewError, Running,
       Yield, PhaseOf, TurnOf
  <2> QED BY <1>1, <2>2, SimRemark DEF PolicyAnswers, ReviewAnswers
<1>2. CASE PolicyDenies \/ NoReviewer
  BY <1>2, SimRefuse DEF PolicyDenies, NoReviewer, Running, AtBlock
<1>3. CASE PreToolAnswers
  <2>1. CASE Goto("dispatch") /\ UNCHANGED <<toolResults, idx, denied>>
    <3>1. PhaseOf' = PhaseOf /\ TurnOf' = TurnOf /\ UNCHANGED out
      BY <1>3, <2>1 DEF PreToolAnswers, Running, Goto, PhaseOf, TurnOf
    <3> QED BY <1>3, <2>1, <3>1, SimStutter DEF PreToolAnswers
  <2>2. CASE Refuse
    BY <1>3, <2>2, SimRefuse DEF PreToolAnswers, Running, AtBlock
  <2> QED BY <1>3, <2>1, <2>2 DEF PreToolAnswers
<1> QED BY <1>1, <1>2, <1>3 DEF GateStep

\* A dispatched block announces itself, or shows its progress.
LEMMA SimAbout ==
  ASSUME TypeInv, PairInv, pc \in AtBlock \ {"post"}, pc' \in AtBlock,
         out = NoEvent, NEW t \in {"started", "progress"},
         out' = Ev(t, <<Block>>, 0),
         UNCHANGED <<turnVars, collected, toolResults, result>>
  PROVE  Simulated
<1>1. /\ Len(toolResults) < Len(collected.uses)
      /\ Block = collected.uses[Len(toolResults) + 1]
      /\ PhaseOf = "tools" /\ TurnOf = turnCount
  BY NextResult
<1>2. PhaseOf' = "tools" /\ TurnOf' = turnCount
  BY DEF PhaseOf, TurnOf, AtBlock, turnVars
<1>3. Protocol!About
  BY <1>1, <1>2 DEF Protocol!About, Protocol!Quiet, Protocol!NoEvent, NoEvent,
     Protocol!Ev, Ev, Protocol!turnState, turnVars
<1> QED BY <1>3 DEF Simulated, Protocol!Next

\* The dispatcher and what follows it.
LEMMA SimTool ==
  ASSUME TypeInv, PairInv, ToolStep
  PROVE  Simulated
<1> USE DEF turnVars, blockVars, abortVars
<1>1. CASE Dispatch
  <2>1. CASE DispatchError
    BY <1>1, <2>1, SimResult DEF Dispatch, DispatchError, Yield, Running, AtBlock
  <2>2. CASE ~DispatchError
    BY <1>1, <2>2, SimAbout DEF Dispatch, Yield, Running, AtBlock
  <2> QED BY <2>1, <2>2
<1>2. CASE PermissionRefuses
  BY <1>2, SimResult DEF PermissionRefuses, DispatchError, Yield, Running, AtBlock
<1>3. CASE DispatcherThrows
  <2>1. /\ PhaseOf = "tools" /\ TurnOf = turnCount /\ out = NoEvent
        /\ PhaseOf' = "ending" /\ TurnOf' = turnCount
        /\ result'.reason = "error" /\ out' = Notice("error")
    BY <1>3 DEF DispatcherThrows, Running, Yield, Finalize, PhaseOf, TurnOf
  <2> QED BY <1>3, <2>1, SimFail DEF DispatcherThrows
<1>4. CASE CallTool \/ \E n \in 0..MaxArtifacts : ToolSettles(n)
  <2>1. PhaseOf' = PhaseOf /\ TurnOf' = TurnOf /\ UNCHANGED out
    BY <1>4 DEF CallTool, ToolSettles, Running, Goto, PhaseOf, TurnOf
  <2> QED BY <1>4, <2>1, SimStutter DEF CallTool, ToolSettles
<1>5. CASE FlushProgress
  BY <1>5, SimAbout DEF FlushProgress, Yield, Running, AtBlock
<1>6. CASE EmitResult
  BY <1>6, SimResult DEF EmitResult, Yield, Running, AtBlock
<1>7. CASE PersistArtifact
  <2>1. /\ PhaseOf = "tools" /\ PhaseOf' = "tools" /\ TurnOf' = TurnOf
        /\ out = NoEvent
        /\ out' \in {Notice("governance_decision"), Notice("error")}
    BY <1>7 DEF PersistArtifact, Running, Yield, PhaseOf, TurnOf
  <2> QED BY <1>7, <2>1, SimRemark DEF PersistArtifact
<1>8. CASE NextBlock
  <2>1. /\ pc' \in {"policy", "preTool", "dispatch", "turnEnd"}
        /\ pc = "post" /\ UNCHANGED out
    BY <1>8 DEF NextBlock, Running, Goto, BlockEntry, FirstGate, AfterPolicy
  <2>2. PhaseOf' = PhaseOf /\ TurnOf' = TurnOf
    BY <1>8, <2>1 DEF NextBlock, PhaseOf, TurnOf
  <2> QED BY <1>8, <2>1, <2>2, SimStutter DEF NextBlock
<1> QED BY <1>1, <1>2, <1>3, <1>4, <1>5, <1>6, <1>7, <1>8 DEF ToolStep

\* Every step of the loop is one of the protocol, or none.
LEMMA SimStep == TypeInv /\ PairInv /\ [Next]_vars => [Protocol!Next]_(Protocol!pvars)
<1> SUFFICES ASSUME TypeInv, PairInv, [Next]_vars PROVE Simulated
  BY DEF Simulated
<1>1. CASE LoopStep
  BY <1>1, SimTurn, SimGate, SimTool DEF LoopStep
<1>2. CASE Abort \/ UNCHANGED vars
  <2>1. PhaseOf' = PhaseOf /\ TurnOf' = TurnOf
    BY <1>2 DEF Abort, AbortSignal, AbortContext, vars, turnVars, PhaseOf, TurnOf
  <2> QED
    BY <1>2, <2>1, SimStutter DEF Abort, AbortSignal, AbortContext, vars,
       turnVars, blockVars
<1>3. CASE Take
  <2>1. PhaseOf' = PhaseOf /\ TurnOf' = TurnOf
    BY <1>3 DEF Take, turnVars, PhaseOf, TurnOf
  <2>2. Protocol!Take
    BY <1>3, <2>1 DEF Take, turnVars, blockVars, Protocol!Take, Protocol!Quiet,
       Protocol!NoEvent, NoEvent, Protocol!turnState
  <2> QED BY <2>2 DEF Simulated, Protocol!Next
<1> QED BY <1>1, <1>2, <1>3 DEF Next

\* For any number of turns and blocks, any deployment and any abort: what the
\* consumers of a run see is what LoopProtocol promises them, so what RunStore
\* shows of the protocol it shows of the loop.
THEOREM LoopImplementsProtocol == Spec => ImplementsProtocol
<1>1. Spec => [](TypeInv /\ PairInv)
  BY TypeInit, TypeStep, PairInit, PairStep, PTL DEF Spec
<1> QED BY <1>1, SimInit, SimStep, PTL DEF Spec, ImplementsProtocol, Protocol!Spec

------------------------------------------------------------------------------
(* No run goes on for ever: every step lowers Rank, which cannot be lowered  *)
(* for ever.  That a run which is not done can step is left to TLC, which    *)
(* checks Terminates.                                                        *)

\* How far the turn is from its end, the end of the run included.
TurnPlace ==
  CASE pc = "resolve" -> 10 [] pc = "request" -> 9 [] pc = "stream" -> 8
    [] pc = "answered" -> 7 [] pc = "decide" -> 6 [] pc \in AtBlock -> 5
    [] pc = "turnEnd" -> 4 [] pc = "top" -> 3 [] pc = "finalize" -> 2
    [] pc = "return" -> 1 [] OTHER -> 0

\* How far a block is from the next one.
BlockPlace ==
  CASE pc = "policy" -> 9 [] pc = "review" -> 8 [] pc = "policyDenied" -> 7
    [] pc = "preTool" -> 6 [] pc = "dispatch" -> 5 [] pc = "permission" -> 4
    [] pc = "calling" -> 3 [] pc = "flush" -> 2 [] pc = "emit" -> 1
    [] OTHER -> 0

\* Aborts and turns to come, blocks of the answer, and events of a result.
AbortsLeft == (IF signal THEN 0 ELSE 1) + (IF ctxSignal THEN 0 ELSE 1)
TurnsLeft  == AbortsLeft + 10 * (maxTurns - turnCount) + TurnPlace
BlocksLeft == IF pc \in AtBlock THEN 10 * (Len(collected.uses) - idx) + BlockPlace ELSE 0
EventsLeft == 2 * artifacts + (IF out = NoEvent THEN 0 ELSE 1)

Rank == <<TurnsLeft, <<BlocksLeft, EventsLeft>>>>
Ranks == Nat \X (Nat \X Nat)

\* The lexicographic order of ranks.
Descent == LexPairOrdering(OpToRel(<, Nat), LexPairOrdering(OpToRel(<, Nat), OpToRel(<, Nat), Nat, Nat),
                           Nat, Nat \X Nat)

\* A step to a lower rank.
RankDescends == <<Rank', Rank>> \in Descent

Lower ==
  \/ TurnsLeft' < TurnsLeft
  \/ TurnsLeft' = TurnsLeft /\ BlocksLeft' < BlocksLeft
  \/ TurnsLeft' = TurnsLeft /\ BlocksLeft' = BlocksLeft /\ EventsLeft' < EventsLeft

\* Ranks cannot be lowered for ever.
LEMMA DescentEnds == IsWellFoundedOn(Descent, Ranks)
BY NatLessThanWellFounded, WFLexPairOrdering DEF Descent, Ranks

RankOK ==
  /\ TurnsLeft \in Nat /\ BlocksLeft \in Nat /\ EventsLeft \in Nat
  /\ TurnPlace \in 0..10 /\ BlockPlace \in 0..9 /\ AbortsLeft \in 0..2

\* A well-typed state has a rank.
LEMMA RankTyped == TypeInv => RankOK
<1> SUFFICES ASSUME TypeInv PROVE RankOK
  OBVIOUS
<1>1. TurnPlace \in 0..10 /\ BlockPlace \in 0..9
  BY DEF TurnPlace, BlockPlace
<1>2. AbortsLeft \in 0..2
  BY DEF AbortsLeft
<1>3. maxTurns - turnCount \in Nat
  BY LimitsAreNat DEF TypeInv, TypeOK
<1>4. TurnsLeft \in Nat
  BY <1>1, <1>2, <1>3 DEF TurnsLeft
<1>5. pc \in AtBlock => Len(collected.uses) - idx \in Nat
  BY DEF TypeInv, TypeOK
<1>6. BlocksLeft \in Nat
  BY <1>1, <1>5 DEF BlocksLeft
<1>7. EventsLeft \in Nat
  BY DEF EventsLeft, TypeInv, TypeOK
<1> QED BY <1>1, <1>2, <1>4, <1>6, <1>7 DEF RankOK

\* So has the state after a step.
LEMMA NextRankTyped == TypeInv' => RankOK'
BY RankTyped, PTL

\* A lower rank is below.
LEMMA LowerDescends ==
  ASSUME TypeInv, TypeInv', Lower
  PROVE  RankDescends
<1> DEFINE a == TurnsLeft
           b == BlocksLeft
           c == EventsLeft
           x == TurnsLeft'
           y == BlocksLeft'
           z == EventsLeft'
<1>1. a \in Nat /\ b \in Nat /\ c \in Nat
  BY RankTyped DEF RankOK
<1>2. x \in Nat /\ y \in Nat /\ z \in Nat
  BY NextRankTyped DEF RankOK
<1>3. x < a \/ (x = a /\ y < b) \/ (x = a /\ y = b /\ z < c)
  BY DEF Lower
<1>4. Rank = <<a, <<b, c>>>> /\ Rank' = <<x, <<y, z>>>>
  BY DEF Rank
<1> HIDE DEF a, b, c, x, y, z
<1> DEFINE R == OpToRel(<, Nat)
           S == LexPairOrdering(R, R, Nat, Nat)
<1>5. \A m, n \in Nat : m < n => <<m, n>> \in R
  BY DEF OpToRel
<1>6. Descent = LexPairOrdering(R, S, Nat, Nat \X Nat)
  BY DEF Descent
<1> HIDE DEF R
<1>7. x = a => <<<<y, z>>, <<b, c>>>> \in S
  <2> SUFFICES ASSUME x = a PROVE <<<<y, z>>, <<b, c>>>> \in S
    OBVIOUS
  <2>1. <<y, b>> \in R \/ (y = b /\ <<z, c>> \in R)
    BY <1>1, <1>2, <1>3, <1>5
  <2> QED BY <1>1, <1>2, <2>1 DEF LexPairOrdering
<1>8. <<x, a>> \in R \/ (x = a /\ <<<<y, z>>, <<b, c>>>> \in S)
  BY <1>1, <1>2, <1>3, <1>5, <1>7
<1> HIDE DEF S
<1>9. <<<<x, <<y, z>>>>, <<a, <<b, c>>>>>> \in LexPairOrdering(R, S, Nat, Nat \X Nat)
  BY <1>1, <1>2, <1>8 DEF LexPairOrdering
<1> QED BY <1>4, <1>6, <1>9 DEF RankDescends

\* What lowers the sum of aborts and place, or the number of turns, comes closer
\* to the end: no place is more than 10 steps away.
LEMMA TurnsCompare ==
  ASSUME NEW t \in Nat, NEW u \in Nat, NEW a \in 0..2, NEW b \in 0..2, NEW p \in 0..10, NEW q \in 0..10,
         \/ u = t /\ b + q < a + p
         \/ u = t - 1 /\ b = a /\ q < p + 10
  PROVE  b + 10 * u + q < a + 10 * t + p
OBVIOUS

\* The same of the rank.
LEMMA TurnsLower ==
  ASSUME TypeInv, TypeInv',
         \/ turnCount' = turnCount /\ AbortsLeft' + TurnPlace' < AbortsLeft + TurnPlace
         \/ turnCount' = turnCount + 1 /\ AbortsLeft' = AbortsLeft /\ TurnPlace' < TurnPlace + 10
  PROVE  Lower
<1> DEFINE t == maxTurns - turnCount
           u == maxTurns - turnCount'
           a == AbortsLeft
           b == AbortsLeft'
           p == TurnPlace
           q == TurnPlace'
<1>1. a \in 0..2 /\ p \in 0..10
  BY RankTyped DEF RankOK
<1>2. b \in 0..2 /\ q \in 0..10
  BY NextRankTyped DEF RankOK
<1>0. maxTurns \in Nat /\ turnCount \in 0..maxTurns /\ turnCount' \in 0..maxTurns
  BY LimitsAreNat DEF TypeInv, TypeOK
<1>3. t \in Nat /\ u \in Nat
  <2>1. \A n \in 0..maxTurns : maxTurns - n \in Nat
    BY LimitsAreNat
  <2> QED BY <1>0, <2>1
<1>4. turnCount' = turnCount => u = t
  OBVIOUS
<1>5. turnCount' = turnCount + 1 => u = t - 1
  BY <1>0
<1>6. \/ u = t /\ b + q < a + p
      \/ u = t - 1 /\ b = a /\ q < p + 10
  BY <1>4, <1>5
<1>7. TurnsLeft = a + 10 * t + p /\ TurnsLeft' = b + 10 * u + q
  BY DEF TurnsLeft
<1> HIDE DEF t, u, a, b, p, q
<1>8. b + 10 * u + q < a + 10 * t + p
  BY <1>1, <1>2, <1>3, <1>6, TurnsCompare
<1> QED BY <1>7, <1>8 DEF Lower

\* A step that moves within the turn.
LEMMA TurnMoves ==
  ASSUME TypeInv, TypeInv', UNCHANGED <<turnCount, signal, ctxSignal>>, TurnPlace' < TurnPlace
  PROVE  Lower
<1> DEFINE a == AbortsLeft
           p == TurnPlace
           q == TurnPlace'
<1>1. AbortsLeft' = a
  BY DEF AbortsLeft
<1>2. a \in 0..2 /\ p \in 0..10 /\ q \in 0..10 /\ q < p
  BY RankTyped, NextRankTyped DEF RankOK
<1>3. a + q < a + p
  <2> HIDE DEF a, p, q
  <2> QED BY <1>2
<1> QED BY <1>1, <1>3, TurnsLower

\* A step that moves on with the current block, leaves it for the next one, or
\* leaves the last one.
LEMMA BlockMoves ==
  ASSUME TypeInv, TypeInv', UNCHANGED <<turnCount, signal, ctxSignal, collected>>, pc \in AtBlock,
         \/ pc' \in AtBlock /\ idx' = idx /\ BlockPlace' < BlockPlace
         \/ pc' \in AtBlock /\ idx' = idx + 1
         \/ pc' \in {"turnEnd", "finalize"}
  PROVE  Lower
<1>1. CASE pc' \in {"turnEnd", "finalize"}
  BY <1>1, TurnMoves DEF TurnPlace, AtBlock
<1>2. CASE pc' \in AtBlock
  <2>1. TurnPlace = 5 /\ TurnPlace' = 5
    BY <1>2 DEF TurnPlace, AtBlock
  <2>2. TurnsLeft' = TurnsLeft
    BY <2>1 DEF TurnsLeft, AbortsLeft
  <2>3. BlockPlace \in 0..9 /\ BlockPlace' \in 0..9
    BY RankTyped, NextRankTyped DEF RankOK
  <2>4. idx \in Nat /\ Len(collected.uses) \in Nat
    BY DEF TypeInv, TypeOK
  <2>5. /\ BlocksLeft = 10 * (Len(collected.uses) - idx) + BlockPlace
        /\ BlocksLeft' = 10 * (Len(collected.uses) - idx') + BlockPlace'
    BY <1>2 DEF BlocksLeft
  <2>6. (idx' = idx /\ BlockPlace' < BlockPlace) \/ idx' = idx + 1
    BY <1>2 DEF AtBlock
  <2>7. BlocksLeft' < BlocksLeft
    BY <2>3, <2>4, <2>5, <2>6
  <2> QED BY <2>2, <2>7 DEF Lower
<1> QED BY <1>1, <1>2

\* The steps of a turn.
LEMMA TurnDescends ==
  ASSUME TypeInv, TypeInv', TurnStep
  PROVE  Lower
<1> USE DEF turnVars, blockVars, abortVars, ghostVars, Running, Finalize
<1>1. CASE BeginTurn
  <2>1. turnCount' = turnCount + 1 /\ pc = "top" /\ pc' \in {"finalize", "request"}
        /\ UNCHANGED <<signal, ctxSignal>>
    BY <1>1 DEF BeginTurn, Goto, Yield
  <2>2. TurnPlace = 3 /\ TurnPlace' \in {2, 9}
    BY <2>1 DEF TurnPlace, AtBlock
  <2>3. AbortsLeft' = AbortsLeft
    BY <2>1 DEF AbortsLeft
  <2>4. TurnPlace' < TurnPlace + 10
    BY <2>2
  <2> QED BY <2>1, <2>3, <2>4, TurnsLower
<1>2. CASE ~BeginTurn
  <2>1. UNCHANGED <<turnCount, signal, ctxSignal>>
    BY <1>2 DEF TurnStep, ResolveTools, MaxTurnsReached, SendRequest, StreamStep, StreamFails,
       StreamEnds, ReportUsage, Decide, EndTurn, Evaluate, Return
  <2>2. \/ pc = "resolve" /\ pc' \in {"top", "finalize"}
        \/ pc = "top" /\ pc' = "finalize"
        \/ pc = "request" /\ pc' = "stream"
        \/ pc = "stream" /\ pc' \in {"finalize", "answered"}
        \/ pc = "answered" /\ pc' = "decide"
        \/ pc = "decide" /\ pc' \in {"finalize", "policy", "preTool", "dispatch"}
        \/ pc = "turnEnd" /\ pc' \in {"finalize", "top"}
        \/ pc = "finalize" /\ pc' = "return"
        \/ pc = "return" /\ pc' = "done"
    BY <1>2 DEF TurnStep, ResolveTools, MaxTurnsReached, SendRequest, StreamStep, StreamFails,
       StreamEnds, ReportUsage, Decide, EndTurn, Evaluate, Return, Goto, Yield, FirstGate, AfterPolicy
  <2>3. TurnPlace' < TurnPlace
    BY <2>2 DEF TurnPlace, AtBlock
  <2> QED BY <2>1, <2>3, TurnMoves
<1> QED BY <1>1, <1>2

\* The gates.
LEMMA GateDescends ==
  ASSUME TypeInv, TypeInv', GateStep
  PROVE  Lower
<1> USE DEF turnVars, abortVars, Running
<1>1. UNCHANGED <<turnCount, signal, ctxSignal, collected>>
  BY DEF GateStep, PolicyAnswers, PolicyDenies, NoReviewer, ReviewAnswers, PreToolAnswers, blockVars
<1>2. pc \in AtBlock
  BY DEF GateStep, PolicyAnswers, PolicyDenies, NoReviewer, ReviewAnswers, PreToolAnswers, AtBlock
<1>3. \/ Refuse
      \/ /\ idx' = idx
         /\ \/ pc = "policy" /\ pc' \in {"preTool", "dispatch", "policyDenied", "review"}
            \/ pc = "review" /\ pc' \in {"preTool", "dispatch", "policyDenied"}
            \/ pc = "preTool" /\ pc' = "dispatch"
  BY DEF GateStep, PolicyAnswers, PolicyDenies, NoReviewer, ReviewAnswers, PreToolAnswers, blockVars,
     Yield, Goto, AfterPolicy, AfterReviewError
<1>4. CASE Refuse
  <2>1. idx' = idx + 1 /\ pc' \in {"policy", "preTool", "dispatch", "turnEnd"}
    BY <1>2, <1>4, RefuseType
  <2> QED BY <1>1, <1>2, <2>1, BlockMoves DEF AtBlock
<1>5. CASE ~Refuse
  <2>1. idx' = idx /\ pc' \in AtBlock /\ BlockPlace' < BlockPlace
    BY <1>3, <1>5 DEF AtBlock, BlockPlace
  <2> QED BY <1>1, <1>2, <2>1, BlockMoves
<1> QED BY <1>4, <1>5

\* The dispatcher and what follows it.
LEMMA ToolDescends ==
  ASSUME TypeInv, TypeInv', ToolStep
  PROVE  Lower
<1> USE DEF turnVars, abortVars, Running
<1>1. UNCHANGED <<turnCount, signal, ctxSignal, collected>> /\ pc \in AtBlock
  BY DEF ToolStep, Dispatch, PermissionRefuses, DispatcherThrows, CallTool, ToolSettles,
     FlushProgress, EmitResult, PersistArtifact, NextBlock, blockVars, AtBlock
<1>2. CASE PersistArtifact
  <2>1. /\ pc = "post" /\ pc' = "post" /\ idx' = idx
        /\ out = NoEvent /\ artifacts > 0 /\ artifacts' = artifacts - 1
    BY <1>2 DEF PersistArtifact, ArtifactLeft, Yield
  <2>2. TurnsLeft' = TurnsLeft /\ BlocksLeft' = BlocksLeft
    BY <1>1, <2>1 DEF TurnsLeft, AbortsLeft, TurnPlace, BlocksLeft, BlockPlace, AtBlock
  <2>3. artifacts \in Nat
    BY DEF TypeInv, TypeOK
  <2>4. EventsLeft' < EventsLeft
    BY <2>1, <2>3 DEF EventsLeft
  <2> QED BY <2>2, <2>4 DEF Lower
<1>3. CASE NextBlock
  <2>1. idx' = idx + 1 /\ pc' = BlockEntry(idx + 1, Len(collected.uses))
    BY <1>3 DEF NextBlock, Goto
  <2>2. pc' \in {"policy", "preTool", "dispatch", "turnEnd"}
    BY <2>1 DEF BlockEntry, FirstGate, AfterPolicy
  <2> QED BY <1>1, <2>1, <2>2, BlockMoves DEF AtBlock
<1>4. CASE ~PersistArtifact /\ ~NextBlock
  <2>1. \/ pc' = "finalize"
        \/ /\ idx' = idx
           /\ \/ pc = "dispatch" /\ pc' \in {"permission", "post"}
              \/ pc = "permission" /\ pc' \in {"post", "calling"}
              \/ pc = "calling" /\ pc' = "flush"
              \/ pc = "flush" /\ pc' \in {"emit", "post"}
              \/ pc = "emit" /\ pc' = "post"
    BY <1>4 DEF ToolStep, Dispatch, PermissionRefuses, DispatcherThrows, CallTool, ToolSettles,
       FlushProgress, EmitResult, DispatchError, Yield, Goto, Finalize, blockVars
  <2>2. CASE pc' = "finalize"
    BY <1>1, <2>2, BlockMoves
  <2>3. CASE pc' # "finalize"
    <3>1. idx' = idx /\ pc' \in AtBlock /\ BlockPlace' < BlockPlace
      BY <2>1, <2>3 DEF AtBlock, BlockPlace
    <3> QED BY <1>1, <3>1, BlockMoves
  <2> QED BY <2>2, <2>3
<1> QED BY <1>2, <1>3, <1>4

\* An abort signal fires once; an event that is taken is gone.
LEMMA RestDescends ==
  ASSUME TypeInv, TypeInv', Abort \/ Take
  PROVE  Lower
<1>1. CASE Abort
  <2>1. pc' = pc /\ turnCount' = turnCount /\ AbortsLeft' < AbortsLeft
    BY <1>1 DEF Abort, AbortSignal, AbortContext, AbortsLeft, turnVars, TypeInv, TypeOK
  <2> DEFINE a == AbortsLeft
             b == AbortsLeft'
             p == TurnPlace
  <2>2. TurnPlace' = p
    BY <2>1 DEF TurnPlace
  <2>3. a \in 0..2 /\ b \in 0..2 /\ p \in 0..10 /\ b < a
    BY <2>1, RankTyped, NextRankTyped DEF RankOK
  <2>4. b + p < a + p
    <3> HIDE DEF a, b, p
    <3> QED BY <2>3
  <2> QED BY <2>1, <2>2, <2>4, TurnsLower
<1>2. CASE Take
  <2>1. /\ out # NoEvent /\ out' = NoEvent
        /\ UNCHANGED <<pc, turnCount, signal, ctxSignal, collected, idx, artifacts>>
    BY <1>2 DEF Take, turnVars, blockVars, abortVars
  <2>2. TurnsLeft' = TurnsLeft /\ BlocksLeft' = BlocksLeft
    BY <2>1 DEF TurnsLeft, AbortsLeft, TurnPlace, BlocksLeft, BlockPlace
  <2>3. EventsLeft' < EventsLeft
    BY <2>1 DEF EventsLeft, TypeInv, TypeOK
  <2> QED BY <2>2, <2>3 DEF Lower
<1> QED BY <1>1, <1>2

\* Every step of loop, consumer and aborts, for any number of turns, blocks and
\* artifacts, lowers the rank, and ranks cannot be lowered for ever: no order of
\* refusals, reviews, progress and artifacts keeps a run going.
THEOREM RunsRunDown ==
  /\ IsWellFoundedOn(Descent, Ranks)
  /\ Spec => [][RankDescends]_vars
<1>1. ASSUME TypeInv, TypeInv', Next PROVE RankDescends
  <2>1. Lower
    BY <1>1, TurnDescends, GateDescends, ToolDescends, RestDescends DEF Next, LoopStep
  <2> QED BY <1>1, <2>1, LowerDescends
<1>2. TypeInv /\ TypeInv' /\ [Next]_vars => [RankDescends]_vars
  BY <1>1
<1>3. Spec => [][RankDescends]_vars
  BY <1>2, TypeCorrect, PTL DEF Spec
<1> QED BY <1>3, DescentEnds
==============================================================================
