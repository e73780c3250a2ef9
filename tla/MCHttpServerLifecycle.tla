----------------------- MODULE MCHttpServerLifecycle -----------------------
(* Values for checking HttpServerLifecycle with TLC. *)
EXTENDS HttpServerLifecycle

CONSTANTS w1, s1, s2, c1, c2

OneWorker == {w1}
TwoStoppers == {s1, s2}
TwoConns == {c1, c2}
=============================================================================
