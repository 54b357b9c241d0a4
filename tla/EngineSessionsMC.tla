-------------------------- MODULE EngineSessionsMC --------------------------
(***************************************************************************)
(* EngineSessions for TLC: two creations over two ids and two workspaces,  *)
(* under either limit, with two callers, two queries and two restarts.     *)
(***************************************************************************)
EXTENDS EngineSessions, TLC

CONSTANTS s1, s2, id1, id2, ws1, ws2, k1, k2, q1, q2

TwoSessions == {s1, s2}
TwoIds == {id1, id2}
TwoWorkspaces == {ws1, ws2}
TwoCallers == {k1, k2}
TwoQueriers == {q1, q2}
OneOrTwo == {1, 2}

Interchangeable ==
    Permutations(TwoSessions) \cup Permutations(TwoIds) \cup Permutations(TwoWorkspaces)
        \cup Permutations(TwoCallers) \cup Permutations(TwoQueriers)
==============================================================================
