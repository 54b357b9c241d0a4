-------------------------- MODULE ThreadDispatchMC --------------------------
(***************************************************************************)
(* ThreadDispatch for TLC: two dispatches of one thread; a client may      *)
(* follow the run of the first, whose query has an event of its own.       *)
(***************************************************************************)
EXTENDS ThreadDispatch

CONSTANTS c1, c2, canceller

TwoCalls == {c1, c2}
TheirWriters == {c1, c2, canceller}
FirstOnly == {c1}
SecondOnly == {c2}
EventsOfFirst == [c \in Calls |-> IF c = c1 THEN 1 ELSE 0]
==============================================================================
