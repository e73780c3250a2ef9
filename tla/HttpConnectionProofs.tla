------------------------ MODULE HttpConnectionProofs ------------------------
(***************************************************************************)
(* What HttpConnection keeps for every set of requests and handlers and    *)
(* every request limit; and McpReplies for every limit of its messages.    *)
(***************************************************************************)
EXTENDS McpReplies, SequenceTheorems, TLAPS

LEMMA WriteStages ==
    /\ DOMAIN AfterWrite = {"write", "writeLimited", "writeRefusal"}
    /\ AfterWrite["write"] = "account"
    /\ AfterWrite["writeLimited"] = "top"
    /\ AfterWrite["writeRefusal"] = "close"
  BY DEF AfterWrite

(* The stages by name. *)
StageNames == {"handshake", "acquire", "top", "read", "dispatch", "run", "account",
               "close", "closed", "write", "writeLimited", "writeRefusal"}

LEMMA NamesOfStages == Stages = StageNames
  BY WriteStages DEF Stages, StageNames

Items == Answers \cup {"open", "head", "chunk", "end", "plaintext"}

(* Every variable has its type, and a response is there when it is to be   *)
(* written; the bound on the request counter is a part of Counted.         *)
Typed ==
    /\ pc \in StageNames
    /\ m_permit \in {"none", "valid", "released"}
    /\ m_request_count \in Nat
    /\ req \in Requests \cup {NoRequest}
    /\ res \in Answers \cup {"blank", "open"}
    /\ response_sent \in BOOLEAN
    /\ m_chunked_transfer \in BOOLEAN
    /\ m_headers_sent \in BOOLEAN
    /\ aged \in BOOLEAN
    /\ stale \in BOOLEAN
    /\ m_ssl_stream \in BOOLEAN
    /\ script \in Seq(Calls)
    /\ wire \in Seq(Items)
    /\ peer \in {"here", "left"}
    /\ timer \in {"idle", "header", "handler", "fired"}
    /\ handled \in Nat
    /\ pc \in {"write", "writeLimited", "writeRefusal"} => res # "blank"

LEMMA InitTyped == Init => Typed
  <1> SUFFICES ASSUME Init PROVE Typed
    OBVIOUS
  <1>1. /\ response_sent = FALSE /\ m_chunked_transfer = FALSE
        /\ m_headers_sent = FALSE /\ aged = FALSE /\ stale = FALSE
    BY Zenon DEF Init
  <1>2. /\ response_sent \in BOOLEAN /\ m_chunked_transfer \in BOOLEAN
        /\ m_headers_sent \in BOOLEAN /\ aged \in BOOLEAN /\ stale \in BOOLEAN
    BY <1>1, Zenon
  <1>4. m_ssl_stream \in BOOLEAN
    BY Zenon DEF Init
  <1>3. /\ pc = "handshake" /\ m_permit = "none" /\ m_request_count = 0
        /\ req = NoRequest /\ res = "blank" /\ script = <<>> /\ wire = <<>>
        /\ peer = "here" /\ timer = "idle" /\ handled = 0
    BY Zenon DEF Init
  <1> QED
    BY <1>2, <1>3, <1>4 DEF Typed, StageNames, Answers

(* What Sends appends keeps the wire a sequence of items. *)
LEMMA SendsTyped ==
    ASSUME wire \in Seq(Items), NEW items \in Seq(Items), Sends(items)
    PROVE  wire' \in Seq(Items)
  BY DEF Sends

LEMMA StepTyped == Typed /\ [Next]_vars => Typed'
  <1> SUFFICES ASSUME Typed, [Next]_vars PROVE Typed'
    OBVIOUS
  <1> USE DEF Goto, StageNames, Answers, handlerVars, envVars, history
  <1>1. CASE Handshake
    BY <1>1 DEF Handshake, Typed
  <1>2. CASE Acquire
    BY <1>2 DEF Acquire, Typed
  <1>3. CASE TooOld
    BY <1>3 DEF TooOld, Typed
  <1>4. CASE BeginRequest
    BY <1>4 DEF BeginRequest, Typed
  <1>5. CASE ReadRequest
    BY <1>5 DEF ReadRequest, Typed
  <1>6. CASE ReadFails
    BY <1>6 DEF ReadFails, Typed
  <1>7. CASE RefuseHttp2
    BY <1>7 DEF RefuseHttp2, Typed
  <1>8. CASE Upgrade
    BY <1>8 DEF Upgrade, Typed
  <1>9. CASE RejectRate
    BY <1>9 DEF RejectRate, Typed
  <1>10. CASE AnswerDirectly
    BY <1>10 DEF AnswerDirectly, Typed
  <1>11. CASE RunHandler
    <2>1. script' \in Seq(Calls)
      BY <1>11, RequestsAssumption DEF RunHandler, Typed, NoRequest
    <2>2. m_chunked_transfer' = FALSE /\ m_headers_sent' = FALSE
      BY <1>11, Zenon DEF RunHandler
    <2>3. m_chunked_transfer' \in BOOLEAN /\ m_headers_sent' \in BOOLEAN
      BY <2>2, Zenon
    <2>4. /\ pc' = "run" /\ timer' = "handler" /\ handled' = handled + 1
          /\ UNCHANGED <<m_permit, m_request_count, req, res, response_sent, wire,
                         envVars, stale>>
      BY <1>11, Zenon DEF RunHandler
    <2> QED
      BY <2>1, <2>3, <2>4 DEF Typed
  <1>12. CASE EnableChunkedTransfer
    <2>1. script' \in Seq(Calls)
      BY <1>12 DEF EnableChunkedTransfer, Calling, Typed
    <2>2. m_chunked_transfer' = TRUE /\ m_headers_sent' = FALSE
      BY <1>12, Zenon DEF EnableChunkedTransfer
    <2>3. m_chunked_transfer' \in BOOLEAN /\ m_headers_sent' \in BOOLEAN
      BY <2>2, Zenon
    <2>4. UNCHANGED <<response_sent, wire, pc, m_permit, m_request_count, req, res,
                      envVars, timer, history>>
      BY <1>12, Zenon DEF EnableChunkedTransfer, Calling
    <2> QED
      BY <2>1, <2>3, <2>4 DEF Typed
  <1>13. CASE WriteChunk
    <2>1. script' \in Seq(Calls)
      <3>1. Tail(script) \in Seq(Calls) /\ <<>> \in Seq(Calls)
        BY <1>13 DEF WriteChunk, Calling, Typed
      <3>2. script' \in {Tail(script), <<>>}
        BY <1>13, Zenon DEF WriteChunk
      <3> QED
        BY <3>1, <3>2
    <2>2. wire' \in Seq(Items)
      <3>1. <<"chunk">> \in Seq(Items) /\ <<"head", "chunk">> \in Seq(Items)
            /\ <<"plaintext">> \in Seq(Items) /\ wire \in Seq(Items)
        BY DEF Items, Typed
      <3>2. \/ Sends(<<"chunk">>) \/ Sends(<<"head", "chunk">>)
            \/ Sends(<<"plaintext">>) \/ wire' = wire
        BY <1>13, Zenon DEF WriteChunk, SendsRaw
      <3> QED
        BY <3>1, <3>2, SendsTyped
    <2>3. m_headers_sent' \in BOOLEAN
      <3>1. m_headers_sent' = TRUE \/ m_headers_sent' = m_headers_sent
        BY <1>13, Zenon DEF WriteChunk
      <3> QED
        BY <3>1, Zenon DEF Typed
    <2> QED
      BY <1>13, <2>1, <2>2, <2>3 DEF WriteChunk, Calling, Typed
  <1>14. CASE FinishChunkedTransfer
    <2>1. script' \in Seq(Calls)
      BY <1>14 DEF FinishChunkedTransfer, Calling, Typed
    <2>2. wire' \in Seq(Items)
      <3>1. <<"end">> \in Seq(Items) /\ <<"plaintext">> \in Seq(Items) /\ wire \in Seq(Items)
        BY DEF Items, Typed
      <3>2. Sends(<<"end">>) \/ Sends(<<"plaintext">>) \/ wire' = wire
        BY <1>14, Zenon DEF FinishChunkedTransfer, SendsRaw
      <3> QED
        BY <3>1, <3>2, SendsTyped
    <2>3. /\ m_headers_sent' \in BOOLEAN /\ m_chunked_transfer' \in BOOLEAN
          /\ response_sent' \in BOOLEAN
      <3>1. /\ m_headers_sent' = FALSE \/ m_headers_sent' = m_headers_sent
            /\ m_chunked_transfer' = FALSE \/ m_chunked_transfer' = m_chunked_transfer
            /\ response_sent' = TRUE \/ response_sent' = response_sent
        BY <1>14, Zenon DEF FinishChunkedTransfer
      <3> QED
        BY <3>1, Zenon DEF Typed
    <2> QED
      BY <1>14, <2>1, <2>2, <2>3 DEF FinishChunkedTransfer, Calling, Typed
  <1>15. CASE HandlerReturns
    <2>1. res' \in {"failed", "open", "ok"}
      BY <1>15 DEF HandlerReturns
    <2> QED
      BY <1>15, <2>1 DEF HandlerReturns, Typed
  <1>16. CASE WriteResponse
    <2>1. pc' \in {"account", "top", "close"}
      BY <1>16, WriteStages DEF WriteResponse
    <2>2. wire' \in Seq(Items)
      <3>1. res \in Items
        BY <1>16, WriteStages DEF WriteResponse, Typed, Items
      <3>2. <<res>> \in Seq(Items) /\ wire \in Seq(Items)
        BY <3>1 DEF Typed
      <3>3. Sends(<<res>>) \/ wire' = wire
        BY <1>16, Zenon DEF WriteResponse
      <3> QED
        BY <3>2, <3>3, SendsTyped
    <2>3. timer' \in {"idle", "header", "handler", "fired"}
      BY <1>16 DEF WriteResponse, Typed
    <2> QED
      BY <1>16, <2>1, <2>2, <2>3 DEF WriteResponse, Typed
  <1>17. CASE CountRequest
    BY <1>17 DEF CountRequest, Typed
  <1>18. CASE Close
    BY <1>18 DEF Close, Typed
  <1>19. CASE PeerLeaves
    BY <1>19 DEF PeerLeaves, Typed
  <1>20. CASE Age
    BY <1>20 DEF Age, Typed
  <1>21. CASE TimerFires
    BY <1>21 DEF TimerFires, Typed
  <1>22. CASE UNCHANGED vars
    BY <1>22 DEF vars, Typed
  <1> QED
    BY <1>1, <1>2, <1>3, <1>4, <1>5, <1>6, <1>7, <1>8, <1>9, <1>10, <1>11, <1>12,
       <1>13, <1>14, <1>15, <1>16, <1>17, <1>18, <1>19, <1>20, <1>21, <1>22
       DEF Next, CoroutineStep, HandlerStep, ClientStep, Terminated

-----------------------------------------------------------------------------
(* The number of requests handed to handlers *)

(* A request is handed over before it is counted, and counted before the   *)
(* next one is read; a rejected one is neither.                            *)
Counted ==
    /\ handled \in m_request_count..(m_request_count + 1)
    /\ pc \in {"handshake", "acquire", "top", "read", "dispatch",
               "writeLimited", "writeRefusal"} => handled = m_request_count
    /\ pc \in {"run", "write", "account"} => handled = m_request_count + 1
    /\ MaxRequests > 0 => handled <= MaxRequests
    /\ MaxRequests > 0 /\ pc \notin {"close", "closed"} => m_request_count < MaxRequests

LEMMA InitCounted == Init => Counted
  <1>1. Init => pc = "handshake" /\ m_request_count = 0 /\ handled = 0
    BY Zenon DEF Init
  <1> QED
    BY <1>1, ConfigAssumption DEF Counted

LEMMA StepCounted == Typed /\ Counted /\ [Next]_vars => Counted'
  <1> SUFFICES ASSUME Typed, Counted, [Next]_vars PROVE Counted'
    OBVIOUS
  <1> DEFINE Numbers == m_request_count \in Nat /\ handled \in Nat /\ MaxRequests \in Nat
  <1>0. Numbers /\ pc \in StageNames
    BY ConfigAssumption DEF Typed
  <1> USE <1>0 DEF Goto, StageNames, history
  <1>1. CASE Handshake
    BY <1>1 DEF Handshake, Counted
  <1>2. CASE Acquire
    BY <1>2 DEF Acquire, Counted
  <1>3. CASE TooOld
    BY <1>3 DEF TooOld, Counted
  <1>4. CASE BeginRequest
    BY <1>4 DEF BeginRequest, Counted
  <1>5. CASE ReadRequest
    BY <1>5 DEF ReadRequest, Counted
  <1>6. CASE ReadFails
    BY <1>6 DEF ReadFails, Counted
  <1>7. CASE RefuseHttp2
    BY <1>7 DEF RefuseHttp2, Counted
  <1>8. CASE Upgrade
    BY <1>8 DEF Upgrade, Counted
  <1>9. CASE RejectRate
    BY <1>9 DEF RejectRate, Counted
  <1>10. CASE AnswerDirectly
    BY <1>10 DEF AnswerDirectly, Counted
  <1>11. CASE RunHandler
    BY <1>11 DEF RunHandler, Counted
  <1>12. CASE EnableChunkedTransfer \/ WriteChunk \/ FinishChunkedTransfer
    <2>1. UNCHANGED <<pc, m_request_count, history>>
      BY <1>12, Zenon DEF EnableChunkedTransfer, WriteChunk, FinishChunkedTransfer, Calling
    <2> QED
      BY <2>1 DEF Counted
  <1>13. CASE HandlerReturns
    BY <1>13 DEF HandlerReturns, Counted
  <1>14. CASE WriteResponse
    <2>1. /\ pc \in {"write", "writeLimited", "writeRefusal"}
          /\ pc' = AfterWrite[pc] \/ pc' = "close"
          /\ UNCHANGED <<m_request_count, handled>>
      BY <1>14, WriteStages, Zenon DEF WriteResponse
    <2> QED
      BY <2>1, WriteStages DEF Counted
  <1>15. CASE CountRequest
    BY <1>15 DEF CountRequest, Counted
  <1>16. CASE Close
    BY <1>16 DEF Close, Counted
  <1>17. CASE PeerLeaves \/ Age \/ TimerFires \/ UNCHANGED vars
    <2>1. UNCHANGED <<pc, m_request_count, handled>>
      BY <1>17, Zenon DEF PeerLeaves, Age, TimerFires, vars
    <2> QED
      BY <2>1 DEF Counted
  <1> QED
    BY <1>1, <1>2, <1>3, <1>4, <1>5, <1>6, <1>7, <1>8, <1>9, <1>10, <1>11, <1>12,
       <1>13, <1>14, <1>15, <1>16, <1>17
       DEF Next, CoroutineStep, HandlerStep, ClientStep, Terminated

LEMMA TypedAndCounted == Spec => [](Typed /\ Counted)
  <1>1. Init => Typed /\ Counted
    BY InitTyped, InitCounted
  <1>2. Typed /\ Counted /\ [Next]_vars => (Typed /\ Counted)'
    BY StepTyped, StepCounted
  <1> QED
    BY <1>1, <1>2, PTL DEF Spec

(* The variables have their types and the request counter stays within its *)
(* limit, for every set of requests and every limit.                       *)
THEOREM TypeCorrect == Spec => []TypeOK
  <1>1. Typed /\ Counted => TypeOK
    <2> SUFFICES ASSUME Typed, Counted PROVE TypeOK
      OBVIOUS
    <2>1. MaxRequests > 0 => m_request_count <= MaxRequests
      BY ConfigAssumption DEF Typed, Counted
    <2>2. {response_sent, m_chunked_transfer, m_headers_sent, aged, stale, m_ssl_stream}
             \subseteq BOOLEAN
      BY Zenon DEF Typed
    <2>3. pc \in Stages
      BY NamesOfStages DEF Typed
    <2> QED
      BY <2>1, <2>2, <2>3, Zenon DEF Typed, TypeOK, Items
  <1> QED
    BY <1>1, TypedAndCounted, PTL

(* No connection hands more requests to handlers than MAX_KEEPALIVE_REQUESTS, *)
(* although rejected requests are not counted and the counter is checked      *)
(* only after the response was written.                                       *)
THEOREM RequestsLimited == Spec => []HandledWithinLimit
  <1>1. Counted => HandledWithinLimit
    BY DEF Counted, HandledWithinLimit
  <1> QED
    BY <1>1, TypedAndCounted, PTL

-----------------------------------------------------------------------------
(* Streams on the wire *)

(* The head has been sent, and chunks after it. *)
Opened(w) ==
    /\ Len(w) >= 2
    /\ w[1] = "head"
    /\ \A i \in 2..Len(w) : w[i] = "chunk"

LEMMA EmptyIsSound == Sound(<<>>)
  BY DEF Sound

LEMMA AnswerIsComplete ==
    ASSUME NEW a \in Answers
    PROVE  Sound(<<a>>) /\ Complete(<<a>>)
  <1>1. <<a>>[1] = a /\ Len(<<a>>) = 1 /\ <<a>> # <<>>
    OBVIOUS
  <1> QED
    BY <1>1 DEF Sound, Complete

LEMMA OpenedBegins == Opened(<<>> \o <<"head", "chunk">>)
  BY DEF Opened

LEMMA OpenedIsSound ==
    ASSUME NEW w, Opened(w)
    PROVE  Sound(w)
  BY DEF Opened, Sound

LEMMA OpenedGrows ==
    ASSUME NEW w \in Seq(Items), Opened(w)
    PROVE  Opened(w \o <<"chunk">>)
  BY DEF Opened

LEMMA OpenedEnds ==
    ASSUME NEW w \in Seq(Items), Opened(w)
    PROVE  Sound(w \o <<"end">>) /\ Complete(w \o <<"end">>)
  <1> DEFINE v == w \o <<"end">>
  <1>1. Len(v) = Len(w) + 1 /\ Len(w) \in Nat /\ Len(w) >= 2
    BY DEF Opened
  <1>2. v[Len(v)] = "end"
    BY <1>1
  <1>3. v[1] = "head"
    BY <1>1 DEF Opened
  <1>4. \A i \in 2..Len(v) : v[i] = "chunk" \/ (v[i] = "end" /\ i = Len(v))
    <2> TAKE i \in 2..Len(v)
    <2>1. CASE i = Len(v)
      BY <2>1, <1>2
    <2>2. CASE i # Len(v)
      <3>1. i \in 2..Len(w) /\ v[i] = w[i]
        BY <2>2, <1>1
      <3> QED
        BY <3>1 DEF Opened
    <2> QED
      BY <2>1, <2>2
  <1>5. v # <<>>
    BY <1>1
  <1> HIDE DEF v
  <1>6. Sound(v)
    BY <1>3, <1>4, Zenon DEF Sound
  <1>7. Complete(v)
    BY <1>2, <1>5, <1>6 DEF Complete
  <1> QED
    BY <1>6, <1>7 DEF v

-----------------------------------------------------------------------------
(* Streams in the script *)

(* Chunks are left to write, and the end. *)
Rest(s) ==
    /\ Len(s) >= 1
    /\ s[Len(s)] = "finish"
    /\ \A i \in 1..(Len(s) - 1) : s[i] = "chunk"

LEMMA StreamBegins ==
    ASSUME NEW s \in Seq(Calls), Streams(s)
    PROVE  Head(s) = "enable" /\ Rest(Tail(s)) /\ Len(Tail(s)) >= 2
  <1>1. Len(s) >= 3 /\ Head(s) = "enable" /\ Len(Tail(s)) = Len(s) - 1
    BY DEF Streams
  <1>2. \A i \in 1..Len(Tail(s)) : Tail(s)[i] = s[i + 1]
    BY <1>1
  <1>3. Tail(s)[Len(Tail(s))] = "finish"
    BY <1>1, <1>2 DEF Streams
  <1>4. \A i \in 1..(Len(Tail(s)) - 1) : Tail(s)[i] = "chunk"
    BY <1>1, <1>2 DEF Streams
  <1> QED
    BY <1>1, <1>3, <1>4 DEF Rest

LEMMA RestContinues ==
    ASSUME NEW s \in Seq(Calls), Rest(s)
    PROVE  /\ s # <<>>
           /\ Head(s) \in {"chunk", "finish"}
           /\ Head(s) = "chunk" => Rest(Tail(s))
           /\ Head(s) = "finish" => Tail(s) = <<>>
           /\ Len(s) >= 2 => Head(s) = "chunk"
  <1>1. Len(s) \in Nat /\ Len(s) >= 1 /\ Head(s) = s[1] /\ s # <<>>
    BY DEF Rest
  <1>2. CASE Len(s) = 1
    <2>1. Head(s) = "finish"
      BY <1>1, <1>2 DEF Rest
    <2>2. Tail(s) = <<>>
      <3>1. Tail(s) \in Seq(Calls) /\ Len(Tail(s)) = 0
        BY <1>1, <1>2
      <3> QED
        BY <3>1, EmptySeq, Zenon
    <2> QED
      BY <1>1, <1>2, <2>1, <2>2
  <1>3. CASE Len(s) >= 2
    <2>1. Head(s) = "chunk"
      BY <1>1, <1>3 DEF Rest
    <2>2. \A i \in 1..Len(Tail(s)) : Tail(s)[i] = s[i + 1]
      BY <1>3
    <2>3. Len(Tail(s)) = Len(s) - 1
      BY <1>3
    <2>4. Rest(Tail(s))
      BY <1>3, <2>2, <2>3 DEF Rest
    <2> QED
      BY <1>1, <1>3, <2>1, <2>4
  <1>4. Len(s) = 1 \/ Len(s) >= 2
    <2>1. Len(s) \in Nat /\ Len(s) >= 1
      BY <1>1, Zenon
    <2> HIDE DEF Rest
    <2>2. \A n \in Nat : n >= 1 => n = 1 \/ n >= 2
      OBVIOUS
    <2> QED
      BY <2>1, <2>2, Zenon
  <1> QED
    BY <1>2, <1>3, <1>4, Zenon

-----------------------------------------------------------------------------
(* The invariant *)

WellBehaved == Answerable(req.handler)
BeforeAnswer == {"read", "dispatch", "writeLimited", "writeRefusal"}

(* How far a handler that follows the rules has got while its client was   *)
(* there: no stream begun, begun, headers sent, or ended.                  *)
NotBegun ==
    /\ wire = <<>>
    /\ ~m_chunked_transfer
    /\ response_sent => stale
    /\ script = <<>> \/ (Streams(script) /\ ~m_ssl_stream)
Begun ==
    /\ ~m_ssl_stream
    /\ wire = <<>>
    /\ m_chunked_transfer
    /\ ~m_headers_sent
    /\ Rest(script)
    /\ Len(script) >= 2
Streaming ==
    /\ ~m_ssl_stream
    /\ Opened(wire)
    /\ m_chunked_transfer
    /\ m_headers_sent
    /\ Rest(script)
Ended ==
    /\ Complete(wire)
    /\ response_sent
    /\ script = <<>>

Running == NotBegun \/ Begun \/ Streaming \/ Ended

(* When the handler has returned: a response to write, or nothing to add.  *)
Unanswered ==
    /\ wire = <<>>
    /\ res \in Answers
    /\ response_sent => stale
Served == Unanswered \/ (Complete(wire) /\ response_sent)

WireInv ==
    /\ WellBehaved => Sound(wire)
    /\ pc \in BeforeAnswer => wire = <<>>
    /\ pc \in {"dispatch", "writeLimited", "writeRefusal"} => (response_sent => stale)
    /\ pc \in {"writeLimited", "writeRefusal"} => res \in Answers
    /\ pc = "run" /\ peer = "here" /\ WellBehaved => Running
    /\ pc = "write" /\ peer = "here" /\ WellBehaved => Served

LEMMA InitWire == Init => WireInv
  <1>1. Init => pc = "handshake" /\ wire = <<>>
    BY Zenon DEF Init
  <1> QED
    BY <1>1, EmptyIsSound DEF WireInv, BeforeAnswer

(* A step that touches neither the wire nor the request, and after which   *)
(* nothing is being answered, keeps the invariant.                         *)
LEMMA QuietStep ==
    ASSUME WireInv, UNCHANGED <<wire, req>>,
           pc' \in {"acquire", "top", "account", "close", "closed"},
           m_ssl_stream' = m_ssl_stream
    PROVE  WireInv'
  BY DEF WireInv, BeforeAnswer, WellBehaved, Answerable

(* The steps of the handler. *)
LEMMA CallStep ==
    ASSUME Typed, WireInv, EnableChunkedTransfer \/ WriteChunk \/ FinishChunkedTransfer
    PROVE  WireInv'
  <1>1. /\ pc = "run" /\ script # <<>>
        /\ UNCHANGED <<pc, req, res, peer, stale, m_ssl_stream>>
    BY Zenon DEF EnableChunkedTransfer, WriteChunk, FinishChunkedTransfer, Calling,
                 envVars, history
  <1>2. CASE ~WellBehaved
    BY <1>1, <1>2 DEF WireInv, WellBehaved, Answerable, BeforeAnswer
  <1>3. CASE WellBehaved /\ peer # "here"
    <2>1. wire' = wire
      BY <1>3, Zenon DEF EnableChunkedTransfer, WriteChunk, FinishChunkedTransfer, Sends, SendsRaw
    <2> QED
      BY <1>1, <1>3, <2>1 DEF WireInv, WellBehaved, Answerable, BeforeAnswer
  <1>4. CASE WellBehaved /\ peer = "here"
    <2>1. ~MayFail
      BY <1>4 DEF MayFail
    <2>2. wire \in Seq(Items) /\ script \in Seq(Calls)
      BY DEF Typed
    <2>3. Running
      BY <1>1, <1>4, Zenon DEF WireInv
    <2>4. Sound(wire') /\ Running'
      <3>1. CASE NotBegun
        <4>1. Streams(script) /\ ~m_ssl_stream
          BY <1>1, <3>1, Zenon DEF NotBegun
        <4>2. Head(script) = "enable" /\ Rest(Tail(script)) /\ Len(Tail(script)) >= 2
          BY <4>1, <2>2, StreamBegins
        <4>3. EnableChunkedTransfer
          BY <4>2 DEF EnableChunkedTransfer, WriteChunk, FinishChunkedTransfer, Calling
        <4>4. /\ wire' = <<>> /\ script' = Tail(script)
              /\ m_chunked_transfer' /\ ~m_headers_sent'
          BY <4>3, <3>1, Zenon DEF EnableChunkedTransfer, NotBegun
        <4>5. Begun'
          BY <1>1, <4>1, <4>2, <4>4, Zenon DEF Begun
        <4> QED
          BY <4>4, <4>5, EmptyIsSound, Zenon DEF Running
      <3>2. CASE Begun
        <4>1. Head(script) = "chunk" /\ Rest(Tail(script))
          BY <3>2, <2>2, RestContinues DEF Begun
        <4>2. WriteChunk
          BY <4>1 DEF EnableChunkedTransfer, WriteChunk, FinishChunkedTransfer, Calling
        <4>3. script' = Tail(script)
          BY <4>2, <3>2, <2>1 DEF WriteChunk, Begun
        <4>4. /\ wire' = <<>> \o <<"head", "chunk">>
              /\ m_headers_sent' /\ m_chunked_transfer'
          BY <4>2, <3>2, <1>4, Zenon DEF WriteChunk, Sends, SendsRaw, Begun
        <4>5. Opened(wire')
          BY <4>4, OpenedBegins, Zenon
        <4>6. Streaming'
          BY <1>1, <3>2, <4>1, <4>3, <4>4, <4>5, Zenon DEF Begun, Streaming
        <4> QED
          BY <4>5, <4>6, OpenedIsSound, Zenon DEF Running
      <3>3. CASE Streaming /\ Head(script) = "chunk"
        <4>1. Rest(Tail(script))
          BY <3>3, <2>2, RestContinues DEF Streaming
        <4>2. WriteChunk
          BY <3>3 DEF EnableChunkedTransfer, WriteChunk, FinishChunkedTransfer, Calling
        <4>3. script' = Tail(script)
          BY <4>2, <3>3, <2>1 DEF WriteChunk, Streaming
        <4>4. wire' = wire \o <<"chunk">> /\ m_headers_sent' /\ m_chunked_transfer'
          BY <4>2, <3>3, <1>4, Zenon DEF WriteChunk, Sends, SendsRaw, Streaming
        <4>5. Opened(wire')
          BY <4>4, <3>3, <2>2, OpenedGrows, Zenon DEF Streaming
        <4>6. Streaming'
          BY <1>1, <3>3, <4>1, <4>3, <4>4, <4>5, Zenon DEF Begun, Streaming
        <4> QED
          BY <4>5, <4>6, OpenedIsSound, Zenon DEF Running
      <3>4. CASE Streaming /\ Head(script) # "chunk"
        <4>1. Head(script) = "finish" /\ Tail(script) = <<>>
          BY <3>4, <2>2, RestContinues DEF Streaming
        <4>2. FinishChunkedTransfer
          BY <4>1 DEF EnableChunkedTransfer, WriteChunk, FinishChunkedTransfer, Calling
        <4>3. wire' = wire \o <<"end">> /\ response_sent' /\ script' = <<>>
          BY <4>1, <4>2, <3>4, <1>4, Zenon DEF FinishChunkedTransfer, Sends, SendsRaw, Streaming
        <4>4. Sound(wire') /\ Complete(wire')
          BY <4>3, <3>4, <2>2, OpenedEnds, Zenon DEF Streaming
        <4> QED
          BY <4>3, <4>4, Zenon DEF Running, Ended
      <3>5. CASE Ended
        BY <1>1, <3>5, Zenon DEF Ended
      <3> QED
        BY <2>3, <3>1, <3>2, <3>3, <3>4, <3>5, Zenon DEF Running
    <2> QED
      BY <1>1, <2>4 DEF WireInv, BeforeAnswer
  <1> QED
    BY <1>2, <1>3, <1>4, Zenon

(* writeResponse when it writes, to a client that is there. *)
LEMMA Writing ==
    ASSUME WireInv, WriteResponse, ~response_sent, peer = "here",
           pc = "write" => WellBehaved
    PROVE  Sound(wire') /\ Complete(wire')
  <1>1. pc \in {"write", "writeLimited", "writeRefusal"} /\ Sends(<<res>>)
    BY WriteStages, Zenon DEF WriteResponse
  <1>2. wire = <<>> /\ res \in Answers
    <2>1. CASE pc = "write"
      <3>1. Served
        BY <2>1, Zenon DEF WireInv
      <3> QED
        BY <3>1, Zenon DEF Served, Unanswered
    <2>2. CASE pc \in {"writeLimited", "writeRefusal"}
      BY <2>2 DEF WireInv, BeforeAnswer
    <2> QED
      BY <1>1, <2>1, <2>2
  <1>3. wire' = <<res>>
    <2>1. wire' = <<>> \o <<res>>
      BY <1>1, <1>2, Zenon DEF Sends
    <2> QED
      BY <2>1
  <1> QED
    BY <1>2, <1>3, AnswerIsComplete, Zenon

LEMMA StepWire == Typed /\ WireInv /\ [Next]_vars => WireInv'
  <1> SUFFICES ASSUME Typed, WireInv, [Next]_vars PROVE WireInv'
    OBVIOUS
  <1> USE DEF Goto
  <1>1. CASE \/ Handshake \/ Acquire \/ TooOld \/ ReadFails \/ Upgrade
             \/ CountRequest \/ Close
    <2>1. /\ UNCHANGED <<wire, req, m_ssl_stream>>
          /\ pc' \in {"acquire", "top", "account", "close", "closed"}
      BY <1>1 DEF envVars, Handshake, Acquire, TooOld, ReadFails, Upgrade, CountRequest, Close
    <2> QED
      BY <2>1, QuietStep
  <1>2. CASE BeginRequest
    <2>1. pc' = "read" /\ wire' = <<>>
      BY <1>2, Zenon DEF BeginRequest
    <2> QED
      BY <2>1, EmptyIsSound DEF WireInv, BeforeAnswer
  <1>3. CASE ReadRequest
    <2>1. pc' = "dispatch" /\ wire' = <<>> /\ (response_sent' => stale')
      BY <1>3, Zenon DEF ReadRequest, WireInv, BeforeAnswer
    <2> QED
      BY <2>1, EmptyIsSound DEF WireInv, BeforeAnswer
  <1>4. CASE RefuseHttp2 \/ RejectRate
    <2>1. /\ pc = "dispatch" /\ pc' \in {"writeLimited", "writeRefusal"}
          /\ UNCHANGED <<wire, response_sent, stale>> /\ res' \in Answers
      BY <1>4 DEF RefuseHttp2, RejectRate, Answers, history
    <2> QED
      BY <2>1, EmptyIsSound DEF WireInv, BeforeAnswer
  <1>5. CASE AnswerDirectly
    <2>1. /\ pc = "dispatch" /\ pc' = "write"
          /\ UNCHANGED <<wire, response_sent, stale>> /\ res' \in Answers
      BY <1>5 DEF AnswerDirectly, Answers
    <2>2. wire' = <<>> /\ Unanswered'
      BY <2>1 DEF WireInv, BeforeAnswer, Unanswered
    <2> QED
      BY <2>1, <2>2, EmptyIsSound DEF WireInv, BeforeAnswer, Served
  <1>6. CASE RunHandler
    <2>1. /\ pc = "dispatch" /\ pc' = "run"
          /\ req.handler # NoHandler
          /\ script' = req.handler.calls
          /\ ~m_chunked_transfer'
          /\ UNCHANGED <<wire, response_sent, stale, req, m_ssl_stream>>
      BY <1>6, Zenon DEF RunHandler, envVars
    <2>2. wire' = <<>> /\ (response_sent' => stale')
      BY <2>1 DEF WireInv, BeforeAnswer
    <2>3. WellBehaved' => NotBegun'
      BY <2>1, <2>2, Zenon DEF WellBehaved, Answerable, Disciplined, NotBegun
    <2> QED
      BY <2>1, <2>2, <2>3, EmptyIsSound DEF WireInv, BeforeAnswer, Running
  <1>7. CASE EnableChunkedTransfer \/ WriteChunk \/ FinishChunkedTransfer
    BY <1>7, CallStep
  <1>8. CASE HandlerReturns
    <2>1. /\ pc = "run" /\ pc' = "write" /\ script = <<>>
          /\ UNCHANGED <<wire, response_sent, stale, req, peer, m_ssl_stream>>
          /\ ~m_chunked_transfer => res' \in Answers
      BY <1>8 DEF HandlerReturns, Answers, envVars, history
    <2>2. Len(script) = 0 /\ script \in Seq(Calls)
      BY <2>1
    <2>3. ASSUME WellBehaved', peer' = "here"
          PROVE  Served'
      <3>1. Running
        BY <2>1, <2>3 DEF WireInv, WellBehaved, Answerable
      <3>2. NotBegun \/ Ended
        BY <2>2, <3>1 DEF Running, Begun, Streaming, Rest
      <3>3. CASE NotBegun
        BY <2>1, <3>3 DEF NotBegun, Served, Unanswered
      <3>4. CASE Ended
        BY <2>1, <3>4, Zenon DEF Ended, Served
      <3> QED
        BY <3>2, <3>3, <3>4
    <2> QED
      BY <2>1, <2>3 DEF WireInv, BeforeAnswer, WellBehaved, Answerable
  <1>9. CASE WriteResponse
    <2>1. /\ pc \in {"write", "writeLimited", "writeRefusal"}
          /\ UNCHANGED <<req, m_ssl_stream>>
      BY <1>9, WriteStages, Zenon DEF WriteResponse, envVars
    <2>2. pc' \in {"account", "top", "close"}
      BY <1>9, WriteStages DEF WriteResponse
    <2>3. CASE wire' = wire
      BY <2>1, <2>2, <2>3, QuietStep
    <2>4. CASE wire' # wire /\ WellBehaved
      <3>1. ~response_sent /\ peer = "here"
        BY <1>9, <2>4, Zenon DEF WriteResponse, Sends
      <3>2. Sound(wire')
        BY <1>9, <2>4, <3>1, Writing
      <3> QED
        BY <2>2, <3>2 DEF WireInv, BeforeAnswer
    <2>5. CASE ~WellBehaved
      BY <2>1, <2>2, <2>5 DEF WireInv, WellBehaved, Answerable, BeforeAnswer
    <2> QED
      BY <2>3, <2>4, <2>5
  <1>10. CASE PeerLeaves
    <2>1. peer' = "left" /\ UNCHANGED <<pc, req, res, response_sent, wire, stale, m_ssl_stream>>
      BY <1>10, Zenon DEF PeerLeaves, history
    <2> QED
      BY <2>1 DEF WireInv, WellBehaved, Answerable, BeforeAnswer
  <1>11. CASE Age \/ TimerFires \/ UNCHANGED vars
    <2>1. UNCHANGED <<pc, req, res, response_sent, handlerVars, wire, peer, stale, m_ssl_stream>>
      BY <1>11, Zenon DEF Age, TimerFires, vars, envVars, history
    <2> QED
      BY <2>1, Zenon DEF WireInv, WellBehaved, Answerable, BeforeAnswer, handlerVars, Running, NotBegun,
         Begun, Streaming, Ended, Served, Unanswered
  <1> QED
    BY <1>1, <1>2, <1>3, <1>4, <1>5, <1>6, <1>7, <1>8, <1>9, <1>10, <1>11
       DEF Next, CoroutineStep, HandlerStep, ClientStep, Terminated

LEMMA TypedAndWire == Spec => [](Typed /\ WireInv)
  <1>1. Init => Typed /\ WireInv
    BY InitTyped, InitWire
  <1>2. Typed /\ WireInv /\ [Next]_vars => (Typed /\ WireInv)'
    BY StepTyped, StepWire
  <1> QED
    BY <1>1, <1>2, PTL DEF Spec

(* Whatever is written for one request is never more than one response, if *)
(* its handler follows the rules: readLoop writes nothing after the end of *)
(* a stream, and a client that leaves in the middle of one gets no more.   *)
(* Streams of TLS connections, which bypass the TLS stream, are excepted.  *)
THEOREM OneResponse == Spec => []WireIsSound
  <1>1. WireInv => WireIsSound
    BY DEF WireInv, WireIsSound, WellBehaved
  <1> QED
    BY <1>1, TypedAndWire, PTL

(* When writeResponse returns, a client that is there has one whole        *)
(* response, unless response_sent was left over from an earlier request,   *)
(* or the handler streams and the connection has TLS: what is streamed is  *)
(* then not written to the TLS stream, and is no response to the client.   *)
THEOREM AnsweredWhole == Spec => AnsweredOnce
  <1>1. Typed /\ WireInv /\ [Next]_vars =>
          [ /\ pc \in DOMAIN AfterWrite
            /\ pc' # pc
            /\ peer = "here"
            /\ Answerable(req.handler)
            /\ ~stale
            => Complete(wire')]_vars
    <2> SUFFICES ASSUME Typed, WireInv, Next,
                        pc \in DOMAIN AfterWrite, pc' # pc, peer = "here",
                        WellBehaved, ~stale
                 PROVE  Complete(wire')
      BY DEF WellBehaved
    <2>1. pc \in {"write", "writeLimited", "writeRefusal"}
      BY WriteStages, Zenon
    <2>2. WriteResponse
      BY <2>1 DEF Next, CoroutineStep, HandlerStep, ClientStep, Terminated, Goto, vars,
         Handshake, Acquire, TooOld, BeginRequest, RefuseHttp2, Upgrade, RejectRate,
         AnswerDirectly, RunHandler, EnableChunkedTransfer, HandlerReturns, CountRequest,
         Close, ReadRequest, ReadFails, WriteChunk, FinishChunkedTransfer, Calling,
         PeerLeaves, Age, TimerFires
    <2>3. CASE ~response_sent
      BY <2>2, <2>3, Writing
    <2>4. CASE response_sent
      <3>1. pc = "write"
        BY <2>1, <2>4 DEF WireInv
      <3>2. Served /\ ~Unanswered
        BY <2>4, <3>1, Zenon DEF WireInv, Unanswered
      <3>3. wire' = wire
        BY <2>2, <2>4, Zenon DEF WriteResponse
      <3> QED
        BY <3>2, <3>3, Zenon DEF Served
    <2> QED
      BY <2>3, <2>4
  <1> QED
    BY <1>1, TypedAndWire, PTL DEF Spec, AnsweredOnce

-----------------------------------------------------------------------------
(* The replies of McpHandle *)

(* A whole stream of n chunks. *)
WholeStream(w, n) ==
    /\ Len(w) = n + 2
    /\ w[1] = "head"
    /\ w[n + 2] = "end"
    /\ \A i \in 2..(n + 1) : w[i] = "chunk"

LEMMA WholeStreamIsDelivered ==
    ASSUME NEW w \in Seq(Items), NEW n \in Nat \ {0}, WholeStream(w, n)
    PROVE  Complete(w) /\ LastIs(w, "end") /\ Chunks(w) = 2..(n + 1)
  <1>1. /\ Len(w) = n + 2 /\ DOMAIN w = 1..(n + 2) /\ w # <<>>
        /\ w[1] = "head" /\ w[n + 2] = "end"
        /\ \A i \in 2..(n + 1) : w[i] = "chunk"
    BY DEF WholeStream
  <1>2. \A i \in 2..(n + 2) : w[i] = "chunk" \/ (w[i] = "end" /\ i = n + 2)
    BY <1>1
  <1>3. Complete(w)
    BY <1>1, <1>2 DEF Complete, Sound
  <1>4. Chunks(w) = 2..(n + 1)
    <2>1. \A i \in 1..(n + 2) : i = 1 \/ i = n + 2 \/ i \in 2..(n + 1)
      OBVIOUS
    <2>2. \A i \in 1..(n + 2) : w[i] = "chunk" <=> i \in 2..(n + 1)
      BY <1>1, <2>1
    <2>3. 2..(n + 1) \subseteq 1..(n + 2)
      OBVIOUS
    <2> QED
      BY <1>1, <2>2, <2>3 DEF Chunks
  <1> QED
    BY <1>1, <1>3, <1>4 DEF LastIs

LEMMA StreamCompletes ==
    ASSUME NEW w \in Seq(Items), Opened(w)
    PROVE  Len(w) - 1 \in Nat \ {0} /\ WholeStream(w \o <<"end">>, Len(w) - 1)
  <1> DEFINE v == w \o <<"end">>
             n == Len(w) - 1
  <1>1. n \in Nat \ {0} /\ Len(w) = n + 1
    BY DEF Opened
  <1>2. /\ Len(v) = n + 2 /\ v[n + 2] = "end"
        /\ \A i \in 1..(n + 1) : v[i] = w[i]
    BY <1>1
  <1>3. v[1] = "head" /\ \A i \in 2..(n + 1) : v[i] = "chunk"
    BY <1>1, <1>2 DEF Opened
  <1> QED
    BY <1>1, <1>2, <1>3 DEF WholeStream

(* A sequence and one element more, at its end *)
OneAfter(S, s, x, t) ==
    /\ t \in Seq(S) /\ Len(t) = Len(s) + 1
    /\ t[Len(s) + 1] = x
    /\ \A i \in 1..Len(s) : t[i] = s[i]

(* A sequence and one element more, before it *)
OneBefore(S, s, x, t) ==
    /\ t \in Seq(S) /\ Len(t) = Len(s) + 1
    /\ t[1] = x
    /\ \A i \in 1..Len(s) : t[i + 1] = s[i]

(* What a concatenation with a single element returns *)
LEMMA OneMore ==
    ASSUME NEW S, NEW s \in Seq(S), NEW x \in S
    PROVE  OneAfter(S, s, x, s \o <<x>>) /\ OneBefore(S, s, x, <<x>> \o s)
  <1> DEFINE one == <<x>>
  <1>1. one \in Seq(S) /\ Len(one) = 1 /\ one[1] = x
    OBVIOUS
  <1>2. Len(s) \in Nat
    OBVIOUS
  <1> SUFFICES OneAfter(S, s, x, s \o one) /\ OneBefore(S, s, x, one \o s)
    OBVIOUS
  <1> HIDE DEF one
  <1>3. /\ s \o one \in Seq(S) /\ Len(s \o one) = Len(s) + Len(one)
        /\ \A i \in 1 .. Len(s) + Len(one) :
              (s \o one)[i] = IF i <= Len(s) THEN s[i] ELSE one[i - Len(s)]
    BY <1>1, ConcatProperties, Zenon
  <1>4. /\ one \o s \in Seq(S) /\ Len(one \o s) = Len(one) + Len(s)
        /\ \A i \in 1 .. Len(one) + Len(s) :
              (one \o s)[i] = IF i <= Len(one) THEN one[i] ELSE s[i - Len(one)]
    BY <1>1, ConcatProperties, Zenon
  <1>5. /\ Len(s) + Len(one) = Len(s) + 1 /\ Len(one) + Len(s) = Len(s) + 1
        /\ Len(s) + 1 \in 1 .. Len(s) + Len(one) /\ (Len(s) + 1) - Len(s) = 1
        /\ ~(Len(s) + 1 <= Len(s))
        /\ 1 \in 1 .. Len(one) + Len(s) /\ 1 <= Len(one)
    BY <1>1, <1>2
  <1>6. (s \o one)[Len(s) + 1] = x /\ (one \o s)[1] = x
    BY <1>1, <1>3, <1>4, <1>5, Zenon
  <1>7. ASSUME NEW i \in 1..Len(s)
        PROVE  (s \o one)[i] = s[i] /\ (one \o s)[i + 1] = s[i]
    <2>1. /\ i \in 1 .. Len(s) + Len(one) /\ i <= Len(s)
          /\ i + 1 \in 1 .. Len(one) + Len(s) /\ ~(i + 1 <= Len(one)) /\ (i + 1) - Len(one) = i
      BY <1>1, <1>2
    <2> QED
      BY <1>3, <1>4, <2>1, Zenon
  <1>8. OneAfter(S, s, x, s \o one)
    BY <1>3, <1>5, <1>6, <1>7, Zenon DEF OneAfter
  <1>9. OneBefore(S, s, x, one \o s)
    BY <1>4, <1>5, <1>6, <1>7, Zenon DEF OneBefore
  <1> QED
    BY <1>8, <1>9

(* What an MCP request makes its handler do: nothing to the stream when    *)
(* the reply goes into the body, all of a stream otherwise.                *)
LEMMA McpScripts ==
    ASSUME NEW h \in McpHandlers
    PROVE  /\ h.ends = "ok" /\ h # NoHandler
           /\ h.owed = "body" => h.calls = <<>> /\ ~h.streams
           /\ h.streams => /\ h.owed = "event"
                           /\ h.events \in Nat \ {0}
                           /\ Streams(h.calls)
                           /\ Len(h.calls) = h.events + 2
  <1>1. PICK r \in McpRequest : h = McpHandler(r)
    BY DEF McpHandlers
  <1>2. /\ r.supports_sse \in BOOLEAN /\ r.refused \in BOOLEAN
        /\ r.long_running_task \in BOOLEAN /\ r.pushes \in Nat
    <2>1. PICK m \in DOMAIN Outcomes :
             r \in [supports_sse : BOOLEAN, refused : BOOLEAN, method : {m}, outcome : Outcomes[m],
                    long_running_task : IF m = "tool" THEN BOOLEAN ELSE {FALSE},
                    pushes : IF m \in {"tool", "application"} THEN 0..MaxPushes ELSE {0}]
      BY Zenon DEF McpRequest
    <2>2. /\ r.supports_sse \in BOOLEAN /\ r.refused \in BOOLEAN
          /\ r.long_running_task \in IF m = "tool" THEN BOOLEAN ELSE {FALSE}
          /\ r.pushes \in IF m \in {"tool", "application"} THEN 0..MaxPushes ELSE {0}
      BY <2>1
    <2>3. r.long_running_task \in BOOLEAN
      BY <2>2
    <2>4. r.pushes \in Nat
      BY <2>2, MaxPushesAssumption
    <2> QED
      BY <2>2, <2>3, <2>4
  <1>3. /\ h.ends = "ok" /\ h.calls = run(r) /\ h.owed = Owed(r)
        /\ h.streams = (~r.refused /\ enable_streaming(r) /\ r.outcome = "value")
        /\ h.events = IF r.refused THEN 1
                      ELSE (IF enable_streaming(r) THEN r.pushes ELSE 0)
                           + IF Replied(r) THEN 1 ELSE 0
    BY <1>1, Zenon DEF McpHandler
  <1>4. ASSUME h.owed = "body"
        PROVE  h.calls = <<>> /\ ~h.streams
    <2>1. ~r.supports_sse
      BY <1>3, <1>4 DEF Owed
    <2>2. ~enable_streaming(r) /\ pushProgress(r) = <<>> /\ Reply(r) = <<>>
          /\ sendMcpErrorResponse(r) = <<>>
      BY <2>1 DEF enable_streaming, pushProgress, Reply, sendMcpErrorResponse,
         sendMcpSuccessResponse
    <2>3. run(r) = <<>>
      BY <2>2 DEF run
    <2> QED
      BY <1>3, <2>2, <2>3, Zenon
  <1>5. ASSUME h.streams
        PROVE  /\ h.owed = "event" /\ h.events \in Nat \ {0}
               /\ Streams(h.calls) /\ Len(h.calls) = h.events + 2
    <2>1. ~r.refused /\ enable_streaming(r) /\ r.outcome = "value" /\ r.supports_sse
      BY <1>3, <1>5, Zenon DEF enable_streaming
    <2>2. Replied(r) /\ h.owed = "event" /\ h.events = r.pushes + 1
      BY <1>2, <1>3, <2>1 DEF Replied, Owed
    <2> DEFINE progress == [i \in 1..r.pushes |-> "chunk"]
               n == r.pushes
    <2>3. run(r) = <<"enable">> \o progress \o <<"chunk">> \o <<"finish">>
      BY <2>1, Zenon DEF run, pushProgress, Reply, sendMcpSuccessResponse
    <2>4. progress \in Seq(Calls) /\ Len(progress) = n
      BY <1>2 DEF Calls
    <2> HIDE DEF progress
    <2> DEFINE first == <<"enable">> \o progress
               most == first \o <<"chunk">>
               calls == most \o <<"finish">>
    <2>10. run(r) = calls
      BY <2>3
    <2>15. {"enable", "chunk", "finish"} \subseteq Calls
      BY DEF Calls
    <2>16. OneBefore(Calls, progress, "enable", first)
      BY <2>4, <2>15, OneMore
    <2>17. OneAfter(Calls, first, "chunk", most)
      <3>1. first \in Seq(Calls)
        BY <2>16, Zenon DEF OneBefore
      <3> HIDE DEF first
      <3> QED
        BY <2>15, <3>1, OneMore
    <2>18. OneAfter(Calls, most, "finish", calls)
      <3>1. most \in Seq(Calls)
        BY <2>17, Zenon DEF OneAfter
      <3> HIDE DEF most
      <3> QED
        BY <2>15, <3>1, OneMore
    <2> HIDE DEF first, most, calls
    <2>11. /\ first \in Seq(Calls) /\ Len(first) = n + 1 /\ first[1] = "enable"
           /\ \A i \in 1..n : first[i + 1] = progress[i]
      BY <2>4, <2>16, Zenon DEF OneBefore
    <2>12. /\ most \in Seq(Calls) /\ Len(most) = (n + 1) + 1 /\ most[(n + 1) + 1] = "chunk"
           /\ \A i \in 1..(n + 1) : most[i] = first[i]
      BY <2>11, <2>17, Zenon DEF OneAfter
    <2>13. /\ Len(calls) = ((n + 1) + 1) + 1 /\ calls[((n + 1) + 1) + 1] = "finish"
           /\ \A i \in 1..((n + 1) + 1) : calls[i] = most[i]
      BY <2>12, <2>18, Zenon DEF OneAfter
    <2>14. n \in Nat /\ (n + 1) + 1 = n + 2 /\ ((n + 1) + 1) + 1 = n + 3
      BY <1>2
    <2>5. /\ Len(calls) = n + 3 /\ calls[1] = "enable" /\ calls[n + 3] = "finish"
          /\ calls[n + 2] = "chunk"
      <3>1. /\ 1 \in 1..(n + 1) /\ 1 \in 1..((n + 1) + 1)
            /\ (n + 1) + 1 \in 1..((n + 1) + 1)
        BY <2>14
      <3>2. calls[1] = most[1] /\ most[1] = first[1]
        BY <2>12, <2>13, <3>1, Zenon
      <3>3. calls[(n + 1) + 1] = most[(n + 1) + 1]
        BY <2>13, <3>1, Zenon
      <3> QED
        BY <2>11, <2>12, <2>13, <2>14, <3>2, <3>3, Zenon
    <2>6. \A i \in 2..(n + 1) : calls[i] = progress[i - 1]
      <3> SUFFICES ASSUME NEW i \in 2..(n + 1) PROVE calls[i] = progress[i - 1]
        OBVIOUS
      <3>1. /\ i - 1 \in 1..n /\ (i - 1) + 1 = i /\ i \in 1..(n + 1) /\ i \in 1..((n + 1) + 1)
        BY <2>14
      <3>2. calls[i] = most[i] /\ most[i] = first[i]
        BY <2>12, <2>13, <3>1, Zenon
      <3>3. first[i] = progress[i - 1]
        BY <2>11, <3>1, Zenon
      <3> QED
        BY <3>2, <3>3, Zenon
    <2>7. \A i \in 2..(n + 1) : calls[i] = "chunk"
      BY <1>2, <2>6 DEF progress
    <2>8. \A i \in 2..(n + 2) : calls[i] = "chunk"
      BY <1>2, <2>5, <2>7
    <2>9. Streams(calls)
      BY <1>2, <2>5, <2>8 DEF Streams
    <2> QED
      <3>1. h.calls = calls
        BY <1>3, <2>10, Zenon
      <3> QED
        BY <1>2, <2>2, <2>5, <2>9, <3>1
  <1> QED
    BY <1>3, <1>4, <1>5, HandlersAssumption, Zenon

(* The chunks written and those left to write are the events the client is *)
(* owed; a handler that owes a body calls nothing.                         *)
StreamRunning(n) ==
    \/ NotBegun /\ script # <<>> /\ Len(script) = n + 2
    \/ Begun /\ Len(script) = n + 1
    \/ Streaming /\ Len(wire) + Len(script) = n + 2
    \/ WholeStream(wire, n) /\ response_sent /\ script = <<>>

McpInv ==
    LET h == req.handler IN
    peer = "here" /\ IsMcp =>
        /\ pc = "run" /\ h.owed = "body" => NotBegun /\ script = <<>>
        /\ pc = "run" /\ h.streams /\ ~m_ssl_stream => StreamRunning(h.events)
        /\ pc = "write" /\ h.owed = "body" =>
              wire = <<>> /\ res = "ok" /\ (response_sent => stale)
        /\ pc = "write" /\ h.streams /\ ~m_ssl_stream => WholeStream(wire, h.events) /\ response_sent

LEMMA McpIsDisciplined ==
    ASSUME IsMcp, req.handler.owed = "body" \/ (req.handler.streams /\ ~m_ssl_stream)
    PROVE  WellBehaved
  BY McpScripts, Zenon DEF IsMcp, WellBehaved, Answerable, Disciplined

(* The steps of an MCP handler that streams. *)
LEMMA McpCallStep ==
    ASSUME Typed, NEW n \in Nat \ {0}, pc = "run", peer = "here", StreamRunning(n),
           EnableChunkedTransfer \/ WriteChunk \/ FinishChunkedTransfer
    PROVE  StreamRunning(n)'
  <1>1. /\ script # <<>>
        /\ UNCHANGED <<pc, req, res, peer, stale, m_ssl_stream>>
    BY Zenon DEF EnableChunkedTransfer, WriteChunk, FinishChunkedTransfer, Calling,
                 envVars, history
  <1>2. ~MayFail /\ wire \in Seq(Items) /\ script \in Seq(Calls)
    BY DEF MayFail, Typed
  <1>3. Len(Tail(script)) = Len(script) - 1 /\ Len(script) \in Nat /\ Len(wire) \in Nat
    BY <1>1, <1>2
  <1>4. CASE NotBegun /\ Len(script) = n + 2
    <2>1. Streams(script) /\ ~m_ssl_stream
      BY <1>1, <1>4, Zenon DEF NotBegun
    <2>2. Head(script) = "enable" /\ Rest(Tail(script)) /\ Len(Tail(script)) >= 2
      BY <2>1, <1>2, StreamBegins
    <2>3. EnableChunkedTransfer
      BY <2>2 DEF EnableChunkedTransfer, WriteChunk, FinishChunkedTransfer, Calling
    <2>4. /\ wire' = <<>> /\ script' = Tail(script)
          /\ m_chunked_transfer' /\ ~m_headers_sent'
      BY <2>3, <1>4, Zenon DEF EnableChunkedTransfer, NotBegun
    <2>5. Begun'
      BY <1>1, <2>1, <2>2, <2>4, Zenon DEF Begun
    <2>6. Len(script') = n + 1
      BY <1>3, <1>4, <2>4
    <2> QED
      BY <2>5, <2>6, Zenon DEF StreamRunning
  <1>5. CASE Begun /\ Len(script) = n + 1
    <2>1. Head(script) = "chunk" /\ Rest(Tail(script))
      BY <1>5, <1>2, RestContinues DEF Begun
    <2>2. WriteChunk
      BY <2>1 DEF EnableChunkedTransfer, WriteChunk, FinishChunkedTransfer, Calling
    <2>3. script' = Tail(script)
      BY <2>2, <1>5, <1>2 DEF WriteChunk, Begun
    <2>4. /\ wire' = <<>> \o <<"head", "chunk">>
          /\ m_headers_sent' /\ m_chunked_transfer'
      BY <2>2, <1>5, Zenon DEF WriteChunk, Sends, SendsRaw, Begun
    <2>5. Opened(wire') /\ Len(wire') = 2
      BY <2>4, OpenedBegins
    <2>6. Streaming'
      BY <1>1, <1>5, <2>1, <2>3, <2>4, <2>5, Zenon DEF Begun, Streaming
    <2>7. Len(wire') + Len(script') = n + 2
      BY <1>3, <1>5, <2>3, <2>5
    <2> QED
      BY <2>6, <2>7, Zenon DEF StreamRunning
  <1>6. CASE Streaming /\ Len(wire) + Len(script) = n + 2 /\ Head(script) = "chunk"
    <2>1. Rest(Tail(script))
      BY <1>6, <1>2, RestContinues DEF Streaming
    <2>2. WriteChunk
      BY <1>6 DEF EnableChunkedTransfer, WriteChunk, FinishChunkedTransfer, Calling
    <2>3. script' = Tail(script)
      BY <2>2, <1>6, <1>2 DEF WriteChunk, Streaming
    <2>4. wire' = wire \o <<"chunk">> /\ m_headers_sent' /\ m_chunked_transfer'
      BY <2>2, <1>6, Zenon DEF WriteChunk, Sends, SendsRaw, Streaming
    <2>5. Opened(wire')
      BY <2>4, <1>6, <1>2, OpenedGrows, Zenon DEF Streaming
    <2>6. Streaming'
      BY <1>1, <1>6, <2>1, <2>3, <2>4, <2>5, Zenon DEF Begun, Streaming
    <2>7. Len(wire') = Len(wire) + 1 /\ Len(script') = Len(script) - 1
      BY <1>2, <1>3, <2>3, <2>4
    <2>8. Len(wire') + Len(script') = n + 2
      <3>1. \A a, b \in Nat : a + b = n + 2 => (a + 1) + (b - 1) = n + 2
        OBVIOUS
      <3> QED
        BY <1>3, <1>6, <2>7, <3>1
    <2> QED
      BY <2>6, <2>8, Zenon DEF StreamRunning
  <1>7. CASE Streaming /\ Len(wire) + Len(script) = n + 2 /\ Head(script) # "chunk"
    <2>1. Head(script) = "finish" /\ Tail(script) = <<>>
      BY <1>7, <1>2, RestContinues DEF Streaming
    <2>2. FinishChunkedTransfer
      BY <2>1 DEF EnableChunkedTransfer, WriteChunk, FinishChunkedTransfer, Calling
    <2>3. wire' = wire \o <<"end">> /\ response_sent' /\ script' = <<>>
      BY <2>1, <2>2, <1>7, Zenon DEF FinishChunkedTransfer, Sends, SendsRaw, Streaming
    <2>4. Len(script) = 1
      <3>1. Len(<<>>) = 0
        OBVIOUS
      <3>2. Len(script) - 1 = 0
        BY <1>3, <2>1, <3>1, Zenon
      <3>3. \A k \in Nat : k - 1 = 0 => k = 1
        OBVIOUS
      <3> QED
        BY <1>3, <3>2, <3>3, Zenon
    <2>5. Len(wire) - 1 = n
      BY <1>3, <1>7, <2>4
    <2>6. WholeStream(wire', n)
      BY <2>3, <2>5, <1>7, <1>2, StreamCompletes DEF Streaming
    <2> QED
      BY <2>3, <2>6, Zenon DEF StreamRunning
  <1> QED
    BY <1>1, <1>4, <1>5, <1>6, <1>7, Zenon DEF StreamRunning

LEMMA InitMcp == Init => McpInv
  <1>1. Init => pc = "handshake"
    BY Zenon DEF Init
  <1> QED
    BY <1>1 DEF McpInv

LEMMA StepMcp == Typed /\ WireInv /\ McpInv /\ [Next]_vars => McpInv'
  <1> SUFFICES ASSUME Typed, WireInv, McpInv, [Next]_vars PROVE McpInv'
    OBVIOUS
  <1> USE DEF Goto
  <1>1. CASE \/ Handshake \/ Acquire \/ TooOld \/ ReadFails \/ Upgrade \/ CountRequest \/ Close
             \/ BeginRequest \/ ReadRequest \/ RefuseHttp2 \/ RejectRate \/ WriteResponse
    <2>1. pc' \notin {"run", "write"}
      BY <1>1, WriteStages DEF Handshake, Acquire, TooOld, ReadFails, Upgrade, CountRequest, Close,
         BeginRequest, ReadRequest, RefuseHttp2, RejectRate, WriteResponse
    <2> QED
      BY <2>1 DEF McpInv
  <1>2. CASE AnswerDirectly
    <2>1. pc' = "write" /\ req' = req /\ (Preflight \/ req.handler = NoHandler)
      BY <1>2, Zenon DEF AnswerDirectly
    <2>2. ~IsMcp'
      BY <2>1, McpScripts DEF IsMcp, Preflight
    <2> QED
      BY <2>2 DEF McpInv
  <1>3. CASE RunHandler
    <2>1. /\ pc = "dispatch" /\ pc' = "run" /\ script' = req.handler.calls
          /\ ~m_chunked_transfer'
          /\ UNCHANGED <<wire, response_sent, stale, req, m_ssl_stream>>
      BY <1>3, Zenon DEF RunHandler, envVars
    <2>2. wire' = <<>> /\ (response_sent' => stale')
      BY <2>1 DEF WireInv, BeforeAnswer
    <2>3. ASSUME IsMcp', req'.handler.owed = "body"
          PROVE  NotBegun' /\ script' = <<>>
      <3>1. script' = <<>>
        BY <2>1, <2>3, McpScripts DEF IsMcp
      <3> QED
        BY <2>1, <2>2, <3>1, Zenon DEF NotBegun
    <2>4. ASSUME IsMcp', req'.handler.streams, ~m_ssl_stream'
          PROVE  StreamRunning(req.handler.events)'
      <3>1. /\ Streams(script') /\ Len(script') = req'.handler.events + 2
            /\ req'.handler.events \in Nat
        BY <2>1, <2>4, McpScripts DEF IsMcp
      <3>2. script' # <<>>
        BY <3>1 DEF Streams
      <3>3. NotBegun'
        BY <2>1, <2>2, <2>4, <3>1, Zenon DEF NotBegun
      <3> QED
        BY <3>1, <3>2, <3>3, Zenon DEF StreamRunning
    <2> QED
      BY <2>1, <2>3, <2>4 DEF McpInv
  <1>4. CASE EnableChunkedTransfer \/ WriteChunk \/ FinishChunkedTransfer
    <2>1. /\ pc = "run" /\ script # <<>>
          /\ UNCHANGED <<pc, req, res, peer, stale, m_ssl_stream>>
      BY <1>4, Zenon DEF EnableChunkedTransfer, WriteChunk, FinishChunkedTransfer, Calling,
                         envVars, history
    <2>2. ASSUME peer = "here", IsMcp, req.handler.streams, ~m_ssl_stream
          PROVE  StreamRunning(req.handler.events)'
      <3>1. req.handler.events \in Nat \ {0} /\ StreamRunning(req.handler.events)
        BY <2>1, <2>2, McpScripts DEF IsMcp, McpInv
      <3>2. PICK n \in Nat \ {0} : n = req.handler.events
        BY <3>1
      <3>3. StreamRunning(n)'
        BY <1>4, <2>1, <2>2, <3>1, <3>2, McpCallStep
      <3> QED
        BY <2>1, <3>2, <3>3 DEF StreamRunning
    <2>3. ASSUME peer = "here", IsMcp PROVE req.handler.owed # "body"
      BY <2>1, <2>3 DEF McpInv
    <2> QED
      BY <2>1, <2>2, <2>3 DEF McpInv, IsMcp
  <1>5. CASE HandlerReturns
    <2>1. /\ pc = "run" /\ pc' = "write" /\ script = <<>>
          /\ UNCHANGED <<wire, response_sent, stale, req, peer, m_ssl_stream>>
          /\ req.handler.ends = "ok" /\ ~m_chunked_transfer => res' = "ok"
      BY <1>5 DEF HandlerReturns, envVars, history
    <2>2. ASSUME peer = "here", IsMcp, req.handler.owed = "body"
          PROVE  wire' = <<>> /\ res' = "ok" /\ (response_sent' => stale')
      BY <2>1, <2>2, McpScripts DEF McpInv, IsMcp, NotBegun
    <2>3. ASSUME peer = "here", IsMcp, req.handler.streams, ~m_ssl_stream
          PROVE  WholeStream(wire', req'.handler.events) /\ response_sent'
      <3>1. StreamRunning(req.handler.events)
        BY <2>1, <2>3 DEF McpInv
      <3>2. ~Begun /\ ~Streaming
        BY <2>1 DEF Begun, Streaming, Rest
      <3>3. WholeStream(wire, req.handler.events) /\ response_sent
        BY <2>1, <3>1, <3>2, Zenon DEF StreamRunning
      <3> QED
        BY <2>1, <3>3, Zenon
    <2> QED
      BY <2>1, <2>2, <2>3 DEF McpInv, IsMcp
  <1>6. CASE PeerLeaves
    BY <1>6 DEF PeerLeaves, McpInv
  <1>7. CASE Age \/ TimerFires \/ UNCHANGED vars
    <2>1. UNCHANGED <<pc, req, res, response_sent, handlerVars, wire, peer, stale, m_ssl_stream>>
      BY <1>7, Zenon DEF Age, TimerFires, vars, envVars, history
    <2> QED
      BY <2>1, Zenon DEF McpInv, IsMcp, handlerVars, StreamRunning, NotBegun, Begun, Streaming
  <1> QED
    BY <1>1, <1>2, <1>3, <1>4, <1>5, <1>6, <1>7
       DEF Next, CoroutineStep, HandlerStep, ClientStep, Terminated

(* A client without event streams gets its reply as the body of one whole  *)
(* response, and one that accepts them gets every progress message of a    *)
(* long running task and its result in one finished stream, in order:      *)
(* whatever other requests the connection has served, unless one of them   *)
(* left response_sent set.  The stream is only delivered without TLS: with *)
(* it, its events are written beside the TLS stream.                       *)
THEOREM McpRepliesDelivered == Spec => McpReplied
  <1>1. Init => McpInv
    BY InitMcp
  <1>2. Typed /\ WireInv /\ McpInv /\ [Next]_vars =>
          [ResponseDone /\ (req.handler.owed = "body" \/ (req.handler.streams /\ ~m_ssl_stream))
             => Delivered(req.handler, wire')]_vars
    <2> SUFFICES ASSUME Typed, WireInv, McpInv, Next, ResponseDone,
                        req.handler.owed = "body" \/ (req.handler.streams /\ ~m_ssl_stream)
                 PROVE  Delivered(req.handler, wire')
      OBVIOUS
    <2>1. pc = "write" /\ pc' # pc /\ peer = "here" /\ ~stale /\ IsMcp
      BY DEF ResponseDone
    <2>2. WriteResponse
      BY <2>1 DEF Next, CoroutineStep, HandlerStep, ClientStep, Terminated, Goto, vars,
         Handshake, Acquire, TooOld, BeginRequest, RefuseHttp2, Upgrade, RejectRate,
         AnswerDirectly, RunHandler, EnableChunkedTransfer, HandlerReturns, CountRequest,
         Close, ReadRequest, ReadFails, WriteChunk, FinishChunkedTransfer, Calling,
         PeerLeaves, Age, TimerFires
    <2>3. CASE req.handler.owed = "body"
      <3>1. wire = <<>> /\ res = "ok" /\ ~response_sent
        BY <2>1, <2>3 DEF McpInv
      <3>2. wire' = <<>> \o <<res>>
        BY <2>1, <2>2, <3>1, Zenon DEF WriteResponse, Sends
      <3>3. wire' = <<"ok">>
        BY <3>1, <3>2
      <3>4. Complete(wire')
        BY <3>3, AnswerIsComplete DEF Answers
      <3> QED
        BY <2>3, <3>3, <3>4 DEF Delivered
    <2>4. CASE req.handler.streams /\ ~m_ssl_stream
      <3>1. WholeStream(wire, req.handler.events) /\ response_sent
        BY <2>1, <2>4 DEF McpInv
      <3>2. wire' = wire
        BY <2>2, <3>1, Zenon DEF WriteResponse
      <3>3. req.handler.events \in Nat \ {0} /\ req.handler.owed = "event"
        BY <2>1, <2>4, McpScripts DEF IsMcp
      <3>4. Complete(wire) /\ LastIs(wire, "end") /\ Chunks(wire) = 2..(req.handler.events + 1)
        BY <3>1, <3>3, WholeStreamIsDelivered DEF Typed
      <3> QED
        BY <3>2, <3>3, <3>4 DEF Delivered
    <2> QED
      BY <2>3, <2>4
  <1>3. Spec => [](Typed /\ WireInv)
    BY TypedAndWire
  <1>4. Spec => []McpInv
    BY <1>1, <1>3, StepMcp, PTL DEF Spec
  <1> QED
    BY <1>2, <1>3, <1>4, PTL DEF Spec, McpReplied
=============================================================================
