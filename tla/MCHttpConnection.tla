-------------------------- MODULE MCHttpConnection --------------------------
(* Handlers and requests for checking HttpConnection, and the MCP handler  *)
(* of McpReplies on it, with TLC.                                          *)
EXTENDS McpReplies

Script(calls, ends) == [calls |-> calls, ends |-> ends]
Stream == <<"enable", "chunk", "chunk", "finish">>

(* Handlers that follow the rules, and handlers that do not. *)
Handlers ==
    {Script(<<>>, ends) : ends \in Ends}
    \cup {Script(Stream, ends) : ends \in {"ok", "throw"}}
    \cup {Script(<<"enable", "chunk">>, ends) : ends \in {"ok", "throw"}}
    \cup {Script(<<"chunk", "enable", "finish", "finish">>, "ok")}

AllRequests ==
    [kind : {"plain"}, keep : BOOLEAN, handler : Handlers \cup {NoHandler}]
    \cup [kind : {"options", "upgrade", "pri"}, keep : {TRUE},
          handler : {NoHandler, Script(<<>>, "ok")}]
    \cup [kind : {"plain"}, keep : {TRUE}, handler : McpHandlers]
=============================================================================
