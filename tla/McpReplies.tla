------------------------------ MODULE McpReplies ------------------------------
(***************************************************************************)
(* The replies of McpHandle::run (mcp/McpHandle.cpp) and dispatchMethod    *)
(* (mcp/McpService.cpp), as one of the handlers that an HttpConnection     *)
(* runs: which calls of the chunked-transfer interface an MCP request      *)
(* makes, and where its JSON-RPC reply is meant to go.                     *)
(*                                                                         *)
(* The session checks are McpSessions'; here they only refuse a request.   *)
(***************************************************************************)
EXTENDS HttpConnection

CONSTANT MaxPushes  \* bound: progress messages of one tool call

ASSUME MaxPushesAssumption == MaxPushes \in Nat

(* What a method makes of a request.  A tool's exceptions are errors; what *)
(* another method of the application throws may get past dispatchMethod,   *)
(* and is then swallowed by run.                                           *)
Outcomes == [tool        |-> {"value", "null", "error"},
             application |-> {"value", "null", "error", "throw"},
             builtin     |-> {"value", "error"},
             initialized |-> {"silent"}]

(* An MCP request: whether its client accepts event streams, whether it is *)
(* refused before it is dispatched, and the method it calls.               *)
McpRequest ==
    UNION {[supports_sse : BOOLEAN, refused : BOOLEAN, method : {m}, outcome : Outcomes[m],
            long_running_task : IF m = "tool" THEN BOOLEAN ELSE {FALSE},
            pushes : IF m \in {"tool", "application"} THEN 0..MaxPushes ELSE {0}]
           : m \in DOMAIN Outcomes}

enable_streaming(r) == r.supports_sse /\ r.long_running_task

(* The result of a method that fell silent is not sent. *)
sendMcpSuccessResponse(r) ==
    IF r.supports_sse /\ r.outcome = "value" THEN <<"chunk">> ELSE <<>>

(* Without an event stream the reply becomes the body of the response.     *)
(* With one the transfer is enabled, again if it already was.              *)
sendMcpErrorResponse(r) == IF r.supports_sse THEN <<"enable", "chunk">> ELSE <<>>

(* Progress is only written to an enabled transfer. *)
pushProgress(r) == IF enable_streaming(r) THEN [i \in 1..r.pushes |-> "chunk"] ELSE <<>>

Reply(r) ==
    IF r.outcome = "error" THEN sendMcpErrorResponse(r) ELSE sendMcpSuccessResponse(r)

(* Fault: the stream of a long running task is not finished. *)
run_Unfinished(r) ==
    IF r.refused THEN sendMcpErrorResponse(r)
    ELSE IF enable_streaming(r) THEN <<"enable">> \o pushProgress(r) \o Reply(r)
    ELSE pushProgress(r) \o Reply(r)

(* The calls of the chunked-transfer interface that one request makes. *)
run(r) ==
    IF r.refused THEN sendMcpErrorResponse(r)
    ELSE IF enable_streaming(r) THEN <<"enable">> \o pushProgress(r) \o Reply(r) \o <<"finish">>
    ELSE pushProgress(r) \o Reply(r)

(* What the client is owed: a reply in an event or in a body, or nothing.  *)
Replied(r) == r.refused \/ r.outcome \in {"value", "error"}
Owed(r) == IF ~Replied(r) THEN "nothing" ELSE IF r.supports_sse THEN "event" ELSE "body"

McpHandler(r) ==
    [calls |-> run(r), ends |-> "ok", owed |-> Owed(r),
     streams |-> ~r.refused /\ enable_streaming(r) /\ r.outcome = "value",
     events |-> IF r.refused THEN 1
                ELSE (IF enable_streaming(r) THEN r.pushes ELSE 0) + IF Replied(r) THEN 1 ELSE 0]

McpHandlers == {McpHandler(r) : r \in McpRequest}

(* findHandler's null result is no handler of an application. *)
ASSUME HandlersAssumption == NoHandler \notin McpHandlers

-----------------------------------------------------------------------------
(* Properties *)

IsMcp == req.kind = "plain" /\ req.handler \in McpHandlers

Chunks(w) == {i \in DOMAIN w : w[i] = "chunk"}
LastIs(w, x) == w # <<>> /\ w[Len(w)] = x

(* One response, with the reply and all progress messages in it. *)
Delivered(h, w) ==
    /\ Complete(w)
    /\ h.owed = "body" => w = <<"ok">>
    /\ h.owed = "event" => LastIs(w, "end") /\ Chunks(w) = 2..(h.events + 1)

ResponseDone == pc = "write" /\ pc' # pc /\ peer = "here" /\ ~stale /\ IsMcp

(* A client without event streams gets its reply as the body of a whole    *)
(* response; a client that does accept them gets every progress message of *)
(* a long running task and its result in one finished stream, if the       *)
(* connection has no TLS: with it, the events are not written to the TLS   *)
(* stream, and no event reaches the client (HttpHandle.cpp 472, 488, 595). *)
McpReplied ==
    [][ResponseDone /\ (req.handler.owed = "body" \/ (req.handler.streams /\ ~m_ssl_stream))
       => Delivered(req.handler, wire')]_vars

-----------------------------------------------------------------------------
(* Statements of the source's comments that the code does not keep *)

ResponseDue == pc = "account" /\ peer = "here" /\ ~stale /\ IsMcp

(* Line 196 of McpHandle.cpp: enableChunkedTransfer has already been       *)
(* called, so the reply to a client that accepts event streams is sent.    *)
SseReplied ==
    ResponseDue /\ ~m_ssl_stream /\ req.handler.owed = "event"
        => Delivered(req.handler, wire)
=============================================================================
