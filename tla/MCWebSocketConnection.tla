----------------------- MODULE MCWebSocketConnection -----------------------
(* Values for checking WebSocketConnection with TLC. *)
EXTENDS WebSocketConnection

CONSTANT p1

OnePusher == {p1}
=============================================================================
