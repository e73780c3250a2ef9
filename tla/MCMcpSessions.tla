---------------------------- MODULE MCMcpSessions ----------------------------
(* Limits of the histories for checking McpSessions with TLC. *)
EXTENDS McpSessions, TLC

CONSTANTS w1, w2, s1, s2, s3

TwoWorkers == {w1, w2}
ThreeSessions == {s1, s2, s3}

ShortHistories == [k \in Keys |-> IF k = "history" THEN 1 ELSE 2]
Symmetry == Permutations(TwoWorkers) \cup Permutations(ThreeSessions)
=============================================================================
