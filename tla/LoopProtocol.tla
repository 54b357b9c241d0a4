---------------------------- MODULE LoopProtocol ----------------------------
(***************************************************************************)
(* What a consumer of AgentLoop.run may rely on: the order of LoopEvents   *)
(* and what they say of the history.  A turn is stream_request_start,      *)
(* assistant_message, usage_update and then one result per tool_use block, *)
(* in block order; a new turn starts only when every block is answered,    *)
(* and the answers are then the last message.  An error of the stream or   *)
(* of the dispatcher ends the run.                                         *)
(*                                                                         *)
(* rebuildSnapshot, AgentLoopBridge and the audit chain are written        *)
(* against this order.  AgentLoop implements it (AgentLoopRefinement), and *)
(* RunStore is built on it.                                                *)
(***************************************************************************)
EXTENDS LoopEvents

CONSTANTS maxTurns, MaxBlocks

VARIABLES
  phase,     \* where the run stands
  turn,      \* turns begun
  uses,      \* tool_use blocks of the last assistant message
  answered,  \* how many of them have had their result
  issued,    \* tool_use ids handed out by the model so far
  messages,  \* the history
  reason,    \* LoopResult.reason, once it is decided
  out        \* the event being delivered, NoEvent when there is none

turnState == <<turn, uses, answered, issued>>
pvars == <<phase, turnState, messages, reason, out>>

Quiet == out = NoEvent

Init ==
  /\ phase = "idle" /\ turn = 0
  /\ uses = <<>> /\ answered = 0 /\ issued = 0
  /\ messages = <<Prompt>>
  /\ reason = "none" /\ out = NoEvent

BeginTurn ==
  /\ phase = "idle" /\ Quiet /\ turn < maxTurns
  /\ phase' = "requested" /\ turn' = turn + 1
  /\ out' = Ev("stream_request_start", <<>>, turn + 1)
  /\ UNCHANGED <<uses, answered, issued, messages, reason>>

\* The model answers with n blocks.
Answer(n) ==
  LET new == [k \in 1..n |-> issued + k]
  IN  /\ phase = "requested" /\ Quiet
      /\ phase' = "answered"
      /\ uses' = new /\ answered' = 0 /\ issued' = issued + n
      /\ messages' = Append(messages, AssistantMessage(new))
      /\ out' = Ev("assistant_message", new, 0)
      /\ UNCHANGED <<turn, reason>>

\* The cumulative usage is left open.
Usage(n) ==
  /\ phase = "answered" /\ Quiet
  /\ phase' = "tools"
  /\ out' = Ev("usage_update", <<>>, n)
  /\ UNCHANGED <<turnState, messages, reason>>

Result ==
  /\ phase = "tools" /\ Quiet /\ answered < Len(uses)
  /\ answered' = answered + 1
  /\ out' = Ev("result", <<uses[answered + 1]>>, 0)
  /\ UNCHANGED <<phase, turn, uses, issued, messages, reason>>

\* A dispatched block announces itself before its result.
About ==
  /\ phase = "tools" /\ Quiet /\ answered < Len(uses)
  /\ \E t \in {"started", "progress"} : out' = Ev(t, <<uses[answered + 1]>>, 0)
  /\ UNCHANGED <<phase, turnState, messages, reason>>

\* Decisions and errors of governance hooks.
Remark ==
  /\ phase \in {"tools", "ending"} /\ Quiet
  /\ \E t \in {"governance_decision", "error"} : out' = Notice(t)
  /\ UNCHANGED <<phase, turnState, messages, reason>>

\* Every block is answered: the results enter the history, and the next turn
\* may begin unless the run was aborted.
TurnDone ==
  /\ phase = "tools" /\ Quiet
  /\ uses # <<>> /\ answered = Len(uses)
  /\ messages' = Append(messages, ToolResultMessage(uses))
  /\ \/ phase' = "idle" /\ UNCHANGED reason
     \/ phase' = "ending" /\ reason' = "aborted"
  /\ UNCHANGED <<turnState, out>>

\* Tools cannot be resolved, the stream fails, or the dispatcher throws.
Fail ==
  /\ phase \in {"idle", "requested", "tools"} /\ Quiet
  /\ phase' = "ending" /\ reason' = "error"
  /\ out' = Notice("error")
  /\ UNCHANGED <<turnState, messages>>

\* Between turns the run ends for want of turns or an abort; right after an
\* answer it may end for what the answer says, its blocks unanswered.
Close ==
  /\ \/ phase = "idle" /\ reason' \in {"aborted", "max_turns"}
     \/ /\ phase = "tools" /\ answered = 0
        /\ reason' \in ExitReason \ {"aborted", "max_turns"}
  /\ Quiet
  /\ phase' = "ending"
  /\ UNCHANGED <<turnState, messages, out>>

Over ==
  /\ phase = "ending" /\ Quiet
  /\ phase' = "over"
  /\ UNCHANGED <<turnState, messages, reason, out>>

Take ==
  /\ ~Quiet
  /\ out' = NoEvent
  /\ UNCHANGED <<phase, turnState, messages, reason>>

Next ==
  \/ BeginTurn \/ Result \/ About \/ Remark
  \/ \E n \in 0..MaxBlocks : Answer(n)
  \/ out'.n \in Nat /\ Usage(out'.n)
  \/ TurnDone \/ Fail \/ Close \/ Over \/ Take

Spec == Init /\ [][Next]_pvars
=============================================================================
