------------------------- MODULE AgentLoopRefinement -------------------------
(***************************************************************************)
(* The refinement mapping from AgentLoop to LoopProtocol.                  *)
(***************************************************************************)
EXTENDS AgentLoop

PhaseOf ==
  CASE pc \in {"resolve", "top"}    -> "idle"
    [] pc \in {"request", "stream"} -> "requested"
    [] pc = "answered"              -> "answered"
    [] pc \in {"finalize", "return"} -> "ending"
    [] pc = "done"                  -> "over"
    [] OTHER                        -> "tools"

\* Once the run is decided, the turns it reports.
TurnOf == IF pc \in {"finalize", "return", "done"} THEN result.turnCount
          ELSE turnCount

Protocol == INSTANCE LoopProtocol WITH
  phase <- PhaseOf, turn <- TurnOf, uses <- collected.uses,
  answered <- Len(toolResults), reason <- result.reason

\* Every behaviour of the loop, gates, aborts and errors included, is one the
\* consumer of its events expects: results match tool_use blocks one to one and
\* in order, a turn starts only when all are answered and the answers are the
\* history's last message, nothing follows the end of the run, and the turn
\* count reported is the number of stream_request_start events.
ImplementsProtocol == Protocol!Spec
==============================================================================
