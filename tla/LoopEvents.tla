----------------------------- MODULE LoopEvents -----------------------------
(***************************************************************************)
(* LoopEvent, LoopResult.reason and Message, reduced to what tells one     *)
(* history from another: a tool_use block is a number, a message is the    *)
(* blocks it asks for and the blocks it answers.                           *)
(***************************************************************************)
EXTENDS Naturals, Sequences

StopReason == {"null", "end_turn", "max_tokens", "stop_sequence",
               "pause_turn", "refusal", "tool_use"}

\* LoopResult.reason: stop reasons that end a run, and the loop's own.
ExitReason == (StopReason \ {"null", "tool_use"})
                \cup {"budget_exceeded", "error", "aborted", "max_turns"}

\* tool_update is split by its kind: started, progress, result.
EventType == {"stream_request_start", "assistant_message", "usage_update",
              "governance_decision", "started", "progress", "result", "error"}

Event == [type : EventType, ids : Seq(Nat), n : Nat]
Ev(t, ids, n) == [type |-> t, ids |-> ids, n |-> n]
NoEvent == [type |-> "none", ids |-> <<>>, n |-> 0]

Notice(t) == Ev(t, <<>>, 0)

Message == [role : {"user", "assistant"}, uses : Seq(Nat), results : Seq(Nat)]
Prompt == [role |-> "user", uses |-> <<>>, results |-> <<>>]
AssistantMessage(uses) == [role |-> "assistant", uses |-> uses, results |-> <<>>]
ToolResultMessage(ids) == [role |-> "user", uses |-> <<>>, results |-> ids]

\* Message i asks for exactly the tool_use blocks message i + 1 answers: same
\* ids, same order, none missing, none invented.
AnsweredAt(msgs, i) ==
  LET reply == IF i < Len(msgs) THEN msgs[i + 1].results ELSE <<>>
  IN  reply = msgs[i].uses

Paired(msgs) == \A i \in 1..Len(msgs) : AnsweredAt(msgs, i)
=============================================================================
