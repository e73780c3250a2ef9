--------------------------- MODULE HttpConnection ---------------------------
(***************************************************************************)
(* One HTTP connection: the coroutine Connection::readLoop of              *)
(* httpd/HttpServer.cpp with the handler it runs (httpd/HttpHandle.cpp),   *)
(* against a client that sends requests and may leave at any moment.       *)
(*                                                                         *)
(* A handler is a script: the calls of the chunked-transfer interface that *)
(* its filters, before_run, run and after_run make, in order, and how it   *)
(* ends.  A request is its kind, whether it allows the connection to be    *)
(* kept, and the script findHandler returns for it.  wire is what has been *)
(* written for the current request.                                        *)
(***************************************************************************)
EXTENDS Integers, Sequences

CONSTANTS Requests,     \* the requests a client may send
          NoHandler,    \* findHandler's null result
          MaxRequests,  \* HttpConfig::MAX_KEEPALIVE_REQUESTS
          CorsEnabled, WebSocketEnabled, RateLimitEnabled

Calls == {"enable", "chunk", "finish"}
Ends  == {"ok", "error", "throw"}
Kinds == {"plain", "options", "upgrade", "pri"}

ASSUME RequestsAssumption ==
    \A r \in Requests :
        /\ r.kind \in Kinds
        /\ r.keep \in BOOLEAN
        /\ r.handler # NoHandler =>
               /\ r.handler.calls \in Seq(Calls)
               /\ r.handler.ends \in Ends
ASSUME ConfigAssumption ==
    /\ MaxRequests \in Nat
    /\ {CorsEnabled, WebSocketEnabled, RateLimitEnabled} \subseteq BOOLEAN

VARIABLES
    pc,             \* where the coroutine is
    m_permit,       \* the connection's permit
    m_request_count,
    req,            \* the request being served
    res,            \* what the context's response holds
    response_sent,  \* a member of the context, which lives as long as the connection
    m_chunked_transfer, m_headers_sent,  \* members of the current handler
    script,         \* calls the handler has still to make
    wire,           \* written to the client for this request
    peer,           \* the client is "here", or has "left"
    aged,           \* MAX_CONNECTION_AGE has passed
    m_ssl_stream,   \* the connection has a TLS stream on its socket
    timer,          \* the context's steady_timer
    handled,        \* history: requests given to processHandle
    stale           \* history: response_sent was set before req was read

handlerVars == <<m_chunked_transfer, m_headers_sent, script>>
envVars == <<peer, aged, m_ssl_stream>>
history == <<handled, stale>>
vars == <<pc, m_permit, m_request_count, req, res, response_sent, handlerVars,
          wire, envVars, timer, history>>

NoRequest == [kind |-> "plain", keep |-> TRUE, handler |-> NoHandler]

(* Prepared responses, each written as a whole. *)
Answers == {"ok", "failed", "notFound", "preflight", "limited", "badRequest"}

(* The three calls of writeResponse and where readLoop goes on after each. *)
AfterWrite == [write |-> "account", writeLimited |-> "top", writeRefusal |-> "close"]

Stages == {"handshake", "acquire", "top", "read", "dispatch", "run", "account",
           "close", "closed"} \cup DOMAIN AfterWrite

Goto(from, to) == pc = from /\ pc' = to

Init ==
    /\ pc = "handshake"
    /\ m_permit = "none"
    /\ m_request_count = 0
    /\ req = NoRequest
    /\ res = "blank"
    /\ response_sent = FALSE
    /\ m_chunked_transfer = FALSE
    /\ m_headers_sent = FALSE
    /\ script = <<>>
    /\ wire = <<>>
    /\ peer = "here"
    /\ aged = FALSE
    /\ m_ssl_stream \in BOOLEAN
    /\ timer = "idle"
    /\ handled = 0
    /\ stale = FALSE

-----------------------------------------------------------------------------
(* Until the loop *)

Handshake ==
    /\ \/ Goto("handshake", "acquire")
       \/ m_ssl_stream /\ Goto("handshake", "close")
    /\ UNCHANGED <<m_permit, m_request_count, req, res, response_sent,
                   handlerVars, wire, envVars, timer, history>>

(* ConnectionManager::acquire: an invalid permit ends the coroutine, and   *)
(* the socket is left to the destructor.                                   *)
Acquire ==
    /\ \/ Goto("acquire", "top") /\ m_permit' = "valid"
       \/ Goto("acquire", "closed") /\ UNCHANGED m_permit
    /\ UNCHANGED <<m_request_count, req, res, response_sent, handlerVars, wire,
                   envVars, timer, history>>

-----------------------------------------------------------------------------
(* One iteration of the loop *)

TooOld ==
    /\ aged
    /\ Goto("top", "close")
    /\ UNCHANGED <<m_permit, m_request_count, req, res, response_sent,
                   handlerVars, wire, envVars, timer, history>>

(* Fault: the age of the connection is not checked. *)
BeginRequest_Ageless ==
    /\ Goto("top", "read")
    /\ req' = NoRequest
    /\ res' = "blank"
    /\ wire' = <<>>
    /\ timer' = "header"
    /\ UNCHANGED <<m_permit, m_request_count, response_sent, handlerVars,
                   envVars, history>>

(* The context is created by the first iteration and reset by each: its    *)
(* request, response, buffer and parser, but not response_sent.            *)
BeginRequest ==
    /\ ~aged
    /\ Goto("top", "read")
    /\ req' = NoRequest
    /\ res' = "blank"
    /\ wire' = <<>>
    /\ timer' = "header"
    /\ UNCHANGED <<m_permit, m_request_count, response_sent, handlerVars,
                   envVars, history>>

(* A client that leaves right after sending leaves after this step. *)
ReadRequest ==
    /\ peer = "here"
    /\ Goto("read", "dispatch")
    /\ req' \in Requests
    /\ timer' = "idle"
    /\ stale' = response_sent
    /\ UNCHANGED <<m_permit, m_request_count, res, response_sent, handlerVars,
                   wire, envVars, handled>>

(* The client left, or sent what the parser rejects. *)
ReadFails ==
    /\ Goto("read", "close")
    /\ timer' = "idle"
    /\ UNCHANGED <<m_permit, m_request_count, req, res, response_sent,
                   handlerVars, wire, envVars, history>>

RefuseHttp2 ==
    /\ req.kind = "pri"
    /\ Goto("dispatch", "writeRefusal")
    /\ res' = "badRequest"
    /\ UNCHANGED <<m_permit, m_request_count, req, response_sent, handlerVars,
                   wire, envVars, timer, history>>

(* The socket moves to a WebSocketConnection; this one closes what is left. *)
Upgrade ==
    /\ WebSocketEnabled
    /\ req.kind = "upgrade"
    /\ Goto("dispatch", "close")
    /\ UNCHANGED <<m_permit, m_request_count, req, res, response_sent,
                   handlerVars, wire, envVars, timer, history>>

Passes == req.kind # "pri" /\ ~(WebSocketEnabled /\ req.kind = "upgrade")

(* Rejected by checkRateLimit: answered, and on to the next request.       *)
RejectRate ==
    /\ Passes
    /\ RateLimitEnabled
    /\ Goto("dispatch", "writeLimited")
    /\ res' = "limited"
    /\ UNCHANGED <<m_permit, m_request_count, req, response_sent, handlerVars,
                   wire, envVars, timer, history>>

-----------------------------------------------------------------------------
(* processHandle and the handler *)

Preflight == req.kind = "options" /\ CorsEnabled

(* Requests answered without a handler. *)
AnswerDirectly ==
    /\ Passes
    /\ Preflight \/ req.handler = NoHandler
    /\ Goto("dispatch", "write")
    /\ res' = IF Preflight THEN "preflight" ELSE "notFound"
    /\ handled' = handled + 1
    /\ UNCHANGED <<m_permit, m_request_count, req, response_sent, handlerVars,
                   wire, envVars, timer, stale>>

(* The router constructs a new handler and runs it. *)
RunHandler ==
    /\ Passes
    /\ ~Preflight
    /\ req.handler # NoHandler
    /\ Goto("dispatch", "run")
    /\ script' = req.handler.calls
    /\ m_chunked_transfer' = FALSE
    /\ m_headers_sent' = FALSE
    /\ timer' = "handler"
    /\ handled' = handled + 1
    /\ UNCHANGED <<m_permit, m_request_count, req, res, response_sent, wire,
                   envVars, stale>>

Calling(call) ==
    /\ pc = "run"
    /\ script # <<>>
    /\ Head(script) = call
    /\ UNCHANGED <<pc, m_permit, m_request_count, req, res, envVars, timer, history>>

(* What is written reaches a client that is there; one that has left may   *)
(* make the write fail.                                                    *)
Sends(items) == wire' = IF peer = "here" THEN wire \o items ELSE wire
MayFail == peer = "left"

(* A stream is written to ctx->socket, which with TLS is the layer below   *)
(* the TLS stream: plain bytes between the records that the client expects. *)
SendsRaw(items) == Sends(IF m_ssl_stream THEN <<"plaintext">> ELSE items)

EnableChunkedTransfer ==
    /\ Calling("enable")
    /\ script' = Tail(script)
    /\ m_chunked_transfer' = TRUE
    /\ m_headers_sent' = FALSE
    /\ UNCHANGED <<response_sent, wire>>

(* The first chunk sends the headers.  The handler sees whether the call   *)
(* failed, and may then leave out the rest of its script.                  *)
WriteChunk ==
    /\ Calling("chunk")
    /\ script' \in {Tail(script)} \cup
                    (IF MayFail \/ ~m_chunked_transfer THEN {<<>>} ELSE {})
    /\ IF m_chunked_transfer
       THEN /\ SendsRaw(IF m_headers_sent THEN <<"chunk">> ELSE <<"head", "chunk">>)
            /\ m_headers_sent' = TRUE
       ELSE UNCHANGED <<wire, m_headers_sent>>
    /\ UNCHANGED <<m_chunked_transfer, response_sent>>

(* Fault: the end of the stream does not mark the response as sent. *)
FinishChunkedTransfer_Unmarked ==
    /\ Calling("finish")
    /\ script' = Tail(script)
    /\ IF m_chunked_transfer
       THEN /\ SendsRaw(<<"end">>)
            /\ \/ m_chunked_transfer' = FALSE /\ m_headers_sent' = FALSE
               \/ MayFail /\ UNCHANGED <<m_chunked_transfer, m_headers_sent>>
       ELSE UNCHANGED <<wire, m_chunked_transfer, m_headers_sent>>
    /\ UNCHANGED response_sent

(* response_sent is set even if the last write fails. *)
FinishChunkedTransfer ==
    /\ Calling("finish")
    /\ script' = Tail(script)
    /\ IF m_chunked_transfer
       THEN /\ SendsRaw(<<"end">>)
            /\ response_sent' = TRUE
            /\ \/ m_chunked_transfer' = FALSE /\ m_headers_sent' = FALSE
               \/ MayFail /\ UNCHANGED <<m_chunked_transfer, m_headers_sent>>
       ELSE UNCHANGED <<wire, m_chunked_transfer, m_headers_sent, response_sent>>

(* operator() turns an error result and an exception into a response; a    *)
(* stream left open keeps the response its headers were taken from.        *)
HandlerReturns ==
    /\ script = <<>>
    /\ Goto("run", "write")
    /\ res' = IF req.handler.ends # "ok" THEN "failed"
              ELSE IF m_chunked_transfer THEN "open" ELSE "ok"
    /\ UNCHANGED <<m_permit, m_request_count, req, response_sent, handlerVars,
                   wire, envVars, timer, history>>

-----------------------------------------------------------------------------
(* The end of an iteration *)

(* Fault: the response is written whatever response_sent says. *)
WriteResponse_Unchecked ==
    /\ pc \in DOMAIN AfterWrite
    /\ \/ pc' = AfterWrite[pc]
       \/ MayFail /\ pc' = "close"
    /\ Sends(<<res>>)
    /\ timer' = "idle"
    /\ UNCHANGED <<m_permit, m_request_count, req, res, response_sent,
                   handlerVars, envVars, history>>

(* writeResponse: nothing if the response counts as sent, else a write     *)
(* whose failure throws out of the loop.                                   *)
WriteResponse ==
    /\ pc \in DOMAIN AfterWrite
    /\ \/ pc' = AfterWrite[pc]
       \/ MayFail /\ ~response_sent /\ pc' = "close"
    /\ IF response_sent
       THEN UNCHANGED <<wire, timer>>
       ELSE Sends(<<res>>) /\ timer' = "idle"
    /\ UNCHANGED <<m_permit, m_request_count, req, res, response_sent,
                   handlerVars, envVars, history>>

(* Fault: one request more than the limit. *)
CountRequest_OneMore ==
    /\ m_request_count' = m_request_count + 1
    /\ Goto("account", IF (MaxRequests > 0 /\ m_request_count' > MaxRequests) \/ ~req.keep
                       THEN "close" ELSE "top")
    /\ UNCHANGED <<m_permit, req, res, response_sent, handlerVars, wire,
                   envVars, timer, history>>

CountRequest ==
    /\ m_request_count' = m_request_count + 1
    /\ Goto("account", IF (MaxRequests > 0 /\ m_request_count' >= MaxRequests) \/ ~req.keep
                       THEN "close" ELSE "top")
    /\ UNCHANGED <<m_permit, req, res, response_sent, handlerVars, wire,
                   envVars, timer, history>>

(* close(), and the destructor, which releases a valid permit. *)
Close ==
    /\ Goto("close", "closed")
    /\ m_permit' = IF m_permit = "valid" THEN "released" ELSE m_permit
    /\ timer' = "idle"
    /\ UNCHANGED <<m_request_count, req, res, response_sent, handlerVars, wire,
                   envVars, history>>

-----------------------------------------------------------------------------
(* The surroundings *)

PeerLeaves ==
    /\ peer = "here"
    /\ peer' = "left"
    /\ UNCHANGED <<pc, m_permit, m_request_count, req, res, response_sent,
                   handlerVars, wire, aged, m_ssl_stream, timer, history>>

Age ==
    /\ ~aged
    /\ aged' = TRUE
    /\ UNCHANGED <<pc, m_permit, m_request_count, req, res, response_sent,
                   handlerVars, wire, peer, m_ssl_stream, timer, history>>

(* A deadline passes: the callback emits cancel_signal, to which no slot   *)
(* is connected, and the operation in progress goes on.                    *)
TimerFires ==
    /\ timer \in {"header", "handler"}
    /\ timer' = "fired"
    /\ UNCHANGED <<pc, m_permit, m_request_count, req, res, response_sent,
                   handlerVars, wire, envVars, history>>

-----------------------------------------------------------------------------
(* Steps of the coroutine that wait for nobody. *)
CoroutineStep ==
    \/ Handshake \/ Acquire
    \/ TooOld \/ BeginRequest
    \/ RefuseHttp2 \/ Upgrade \/ RejectRate \/ AnswerDirectly \/ RunHandler
    \/ CountRequest \/ Close

(* Steps of the application's handler. *)
HandlerStep ==
    EnableChunkedTransfer \/ WriteChunk \/ FinishChunkedTransfer \/ HandlerReturns

(* Steps that also need the client to send, to read or to leave. *)
ClientStep == ReadRequest \/ ReadFails \/ WriteResponse

Terminated == pc = "closed" /\ UNCHANGED vars

Next ==
    \/ CoroutineStep \/ HandlerStep \/ ClientStep
    \/ PeerLeaves \/ Age \/ TimerFires
    \/ Terminated

Spec == Init /\ [][Next]_vars

(* While the server runs, the executor runs the coroutine, time passes,    *)
(* and the socket reports a client that left.  Nothing is promised of a    *)
(* client that is there, nor of a handler: its deadline stops nothing.     *)
Fairness ==
    /\ WF_vars(CoroutineStep)
    /\ WF_vars(peer = "left" /\ ClientStep)
    /\ WF_vars(Age)
    /\ WF_vars(TimerFires)

FairSpec == Spec /\ Fairness

-----------------------------------------------------------------------------
(* Properties *)

(* The variables keep their types; the request counter stays within its    *)
(* limit.                                                                  *)
TypeOK ==
    /\ pc \in Stages
    /\ m_permit \in {"none", "valid", "released"}
    /\ m_request_count \in Nat
    /\ MaxRequests > 0 => m_request_count <= MaxRequests
    /\ req \in Requests \cup {NoRequest}
    /\ res \in Answers \cup {"blank", "open"}
    /\ {response_sent, m_chunked_transfer, m_headers_sent, aged, stale, m_ssl_stream} \subseteq BOOLEAN
    /\ script \in Seq(Calls)
    /\ wire \in Seq(Answers \cup {"open", "head", "chunk", "end", "plaintext"})
    /\ peer \in {"here", "left"}
    /\ timer \in {"idle", "header", "handler", "fired"}
    /\ handled \in Nat

(* HttpHandle.h asks a handler that enables chunked transfer to write its  *)
(* chunks and to finish the transfer.                                      *)
Streams(calls) ==
    LET n == Len(calls)
    IN  /\ n >= 3
        /\ calls[1] = "enable"
        /\ calls[n] = "finish"
        /\ \A i \in 2..(n - 1) : calls[i] = "chunk"

Disciplined(handler) ==
    handler = NoHandler \/ handler.calls = <<>> \/ Streams(handler.calls)

(* The handlers whose response can reach the client as one: with TLS, not  *)
(* those that stream.                                                      *)
Answerable(handler) ==
    /\ Disciplined(handler)
    /\ m_ssl_stream => handler = NoHandler \/ handler.calls = <<>>

(* The beginning of one response, and a whole one. *)
Sound(w) ==
    \/ w = <<>>
    \/ Len(w) = 1 /\ w[1] \in Answers
    \/ /\ w[1] = "head"
       /\ \A i \in 2..Len(w) : w[i] = "chunk" \/ (w[i] = "end" /\ i = Len(w))

Complete(w) ==
    Sound(w) /\ w # <<>> /\ w[Len(w)] \in Answers \cup {"end"}

(* Whatever the handler streams, answers or throws, and whenever the       *)
(* client leaves, what is written for one request is never more than one   *)
(* response: nothing follows the end of a stream.  A stream of a TLS       *)
(* connection is excepted, as it is not written to its TLS stream.         *)
WireIsSound == Answerable(req.handler) => Sound(wire)

(* When readLoop has written, or skipped, the response, a client that is   *)
(* still there has got a whole one, unless an earlier request of the same  *)
(* connection had left response_sent set.  A streamed response is whole    *)
(* without TLS only: with it, the client gets plain bytes instead.         *)
AnsweredOnce ==
    [][ /\ pc \in DOMAIN AfterWrite
        /\ pc' # pc
        /\ peer = "here"
        /\ Answerable(req.handler)
        /\ ~stale
        => Complete(wire')]_vars

(* A connection hands at most MAX_KEEPALIVE_REQUESTS requests to handlers. *)
HandledWithinLimit == MaxRequests > 0 => handled <= MaxRequests

WaitsForClient == peer = "here" /\ pc \in {"read"} \cup DOMAIN AfterWrite
WaitsForHandler == pc = "run"

(* Unless a silent client or a handler that does not return keeps it       *)
(* waiting for ever, every connection comes to its end and returns its     *)
(* permit, even if all its requests are rejected by the rate limiter,      *)
(* which do not count as requests.                                         *)
PermitReturned ==
    []<>~(WaitsForClient \/ WaitsForHandler)
        => (m_permit = "valid" ~> m_permit = "released")

-----------------------------------------------------------------------------
(* Statements of the source's comments that the code does not keep *)

(* Line 1144 of HttpServer.cpp: the context is reset so that the state of  *)
(* the last request does not affect the next one.  So a request that was   *)
(* processed has been answered, whatever was served before it.             *)
EveryRequestAnswered ==
    pc = "account" /\ peer = "here" /\ Disciplined(req.handler) => wire # <<>>
=============================================================================
