------------------------ MODULE WebSocketConnection ------------------------
(***************************************************************************)
(* One WebSocket connection of httpd/HttpServer.cpp: the coroutine         *)
(* readLoop with the handler it calls, other coroutines that push through  *)
(* WebSocketHandle::send, and the heartbeat sendPing.  All of them use the *)
(* one steady_timer of the WebSocketContext: setting or cancelling it ends *)
(* every wait in progress, and the callbacks of readLoop's and send()'s    *)
(* waits cancel all operations on the socket, whether the wait expired or  *)
(* was aborted.                                                            *)
(*                                                                         *)
(* loop() runs the io_context in one thread or in many.  In one thread a   *)
(* coroutine keeps the thread (turn) until it suspends.                    *)
(***************************************************************************)
EXTENDS Integers, FiniteSets

CONSTANTS Pushers,      \* coroutines besides readLoop that send one message
          MaxQueue,     \* WebSocketConfig::MAX_WRITE_QUEUE_SIZE
          MaxMessages,  \* bound: messages the client sends
          MaxBatch,     \* bound: messages one callback sends
          BatchSize     \* sendBatch's batchSize

Senders == Pushers \cup {"reader"}
Actors == Senders \cup {"ping"}
Nobody == "nobody"

ASSUME PushersAssumption ==
    /\ IsFiniteSet(Pushers)
    /\ {"reader", "ping", "read", Nobody} \cap Pushers = {}
ASSUME BoundsAssumption ==
    /\ {MaxQueue, MaxMessages, MaxBatch} \subseteq Nat
    /\ BatchSize \in Nat \ {0}

VARIABLES
    threads,   \* "one" or "many" threads run the io_context
    turn,      \* the actor between two suspension points, in one thread
    rd,        \* where readLoop is
    snd,       \* where each sender's call of send() is
    ping,      \* where sendPing is
    waits,     \* actors whose async_wait on the context's timer is pending
    timer,     \* its expiry: "off", "set" or "due"
    cancels,   \* posted callbacks that will call m_socket.cancel()
    op,        \* the asynchronous operations on the stream
    stream,    \* m_ws_stream: "none", "open" or "closing"
    m_write_queue_size,
    m_ping_stopped,
    ping_sent,
    left, row, \* the handler's sendBatch: messages left, sent of this batch
    alive,     \* the object has not been destroyed
    peer,      \* the client is "here", has "left", or is silently "gone"
    received,  \* messages read
    excuse     \* history: a reason to drop the connection has occurred

timerVars == <<waits, timer, cancels>>
batchVars == <<left, row>>
sendVars == <<m_write_queue_size, m_ping_stopped, ping_sent>>
envVars == <<threads, peer>>
outside == <<alive, received, excuse, envVars>>
vars == <<turn, rd, snd, ping, timerVars, op, stream, sendVars, batchVars, outside>>

ReaderStages == {"accept", "open", "arm", "start", "reading", "message",
                 "asking", "closing", "ended"}
SenderStages == {"idle", "count", "arm", "start", "writing", "pause", "done"}
PingStages == {"none", "spawned", "sleep", "armed", "waiting", "aborted",
               "expired", "ended", "dangling"}
Ops == Senders \cup {"read", "ping"}
OpStates == {"none", "pending", "ok", "failed"}

(* How m_socket.cancel() leaves the operations: with operation_aborted,    *)
(* which is an error like any other, except to the ping, which takes it    *)
(* for a success.                                                          *)
Aborted(o) ==
    CASE op[o] # "pending" -> op[o]
      [] op[o] = "pending" /\ o = "ping" -> "ok"
      [] OTHER -> "failed"

Init ==
    /\ threads \in {"one", "many"}
    /\ turn = Nobody
    /\ rd = "accept"
    /\ snd = [s \in Senders |-> "idle"]
    /\ ping = "none"
    /\ waits = {}
    /\ timer = "off"
    /\ cancels = 0
    /\ op = [o \in Ops |-> "none"]
    /\ stream = "none"
    /\ m_write_queue_size = 0
    /\ m_ping_stopped = FALSE
    /\ ping_sent = FALSE
    /\ left = 0
    /\ row = 0
    /\ alive = TRUE
    /\ peer = "here"
    /\ received = 0
    /\ excuse = FALSE

(* The actor a takes a step and then suspends, or keeps its thread. *)
Suspends(a) == turn \in {Nobody, a} /\ turn' = Nobody
GoesOn(a) ==
    /\ turn \in {Nobody, a}
    /\ turn' = IF threads = "one" THEN a ELSE Nobody

-----------------------------------------------------------------------------
(* The shared timer *)

(* The waits end, new ones (w) begin; the callbacks of all but sendPing's  *)
(* own wait are posted.                                                    *)
EndWaits(w) ==
    /\ waits' = w
    /\ cancels' = cancels + Cardinality(waits \ {"ping"})

(* sendPing's co_await returns with the given result. *)
PingAfter(result) == IF "ping" \in waits THEN result ELSE ping

Cancel == EndWaits({}) /\ UNCHANGED timer

(* expires_after, then async_wait by a *)
SetTimer(a) == EndWaits({a}) /\ timer' = "set"

(* The deadline passes: the waits complete without an error. *)
Expire ==
    /\ timer = "set"
    /\ turn = Nobody
    /\ timer' = "due"
    /\ EndWaits({})
    /\ ping' = PingAfter("expired")
    /\ excuse' = TRUE
    /\ UNCHANGED <<turn, rd, snd, op, stream, sendVars, batchVars, alive,
                   received, envVars>>

(* Fault: the callback leaves the socket alone. *)
RunCallback_NoCancel ==
    /\ cancels > 0
    /\ turn = Nobody
    /\ cancels' = cancels - 1
    /\ UNCHANGED <<turn, rd, snd, ping, waits, timer, op, stream, sendVars,
                   batchVars, outside>>

(* A posted callback of readLoop or send() runs, and finds the object or not. *)
RunCallback ==
    /\ cancels > 0
    /\ turn = Nobody
    /\ cancels' = cancels - 1
    /\ op' = IF alive THEN [o \in Ops |-> Aborted(o)] ELSE op
    /\ UNCHANGED <<turn, rd, snd, ping, waits, timer, stream, sendVars,
                   batchVars, outside>>

(* close(): the flag, the timer, the stream's closing handshake (nobody    *)
(* waits for it) and the socket's sending side.                            *)
Close ==
    /\ m_ping_stopped' = TRUE
    /\ Cancel
    /\ stream' = IF stream = "open" THEN "closing" ELSE stream

-----------------------------------------------------------------------------
(* readLoop: until the loop *)

(* The TLS handshake, the reading and testing of the upgrade request, or   *)
(* the WebSocket handshake fails.                                          *)
AcceptFails ==
    /\ rd = "accept"
    /\ Suspends("reader")
    /\ rd' = "ended"
    /\ Close
    /\ UNCHANGED <<snd, ping, op, m_write_queue_size, ping_sent, batchVars,
                   outside>>

(* The stream is open but the path has no handler, or the factory gives    *)
(* none: the connection is closed.                                         *)
NoHandler ==
    /\ rd = "accept"
    /\ Suspends("reader")
    /\ rd' = "ended"
    /\ m_ping_stopped' = TRUE
    /\ stream' = "closing"
    /\ UNCHANGED <<snd, ping, timerVars, op, m_write_queue_size, ping_sent,
                   batchVars, outside>>

(* The context and its callbacks are set up, and onOpen is called. *)
Open ==
    /\ rd = "accept"
    /\ GoesOn("reader")
    /\ rd' = "open"
    /\ stream' = "open"
    /\ left' \in 0..MaxBatch
    /\ row' = 0
    /\ UNCHANGED <<snd, ping, timerVars, op, sendVars, outside>>

(* onOpen returned: the heartbeat is spawned and the loop begins. *)
Opened ==
    /\ rd = "open" /\ snd["reader"] = "idle" /\ left = 0
    /\ GoesOn("reader")
    /\ rd' = "arm"
    /\ ping' = "spawned"
    /\ UNCHANGED <<snd, timerVars, op, stream, sendVars, batchVars, outside>>

(* onOpen threw: onClose is not called. *)
OpenThrows ==
    /\ rd = "open" /\ snd["reader"] = "idle"
    /\ Suspends("reader")
    /\ rd' = "ended"
    /\ left' = 0
    /\ Close
    /\ excuse' = TRUE
    /\ UNCHANGED <<snd, ping, op, m_write_queue_size, ping_sent, row, alive,
                   received, envVars>>

-----------------------------------------------------------------------------
(* readLoop: the loop *)

(* Fault: only the first iteration sets the read timeout. *)
ArmRead_Once ==
    /\ rd = "arm"
    /\ GoesOn("reader")
    /\ rd' = "start"
    /\ IF received = 0
       THEN SetTimer("reader") /\ ping' = PingAfter("aborted")
       ELSE UNCHANGED <<timerVars, ping>>
    /\ UNCHANGED <<snd, op, stream, sendVars, batchVars, outside>>

ArmRead ==
    /\ rd = "arm"
    /\ GoesOn("reader")
    /\ rd' = "start"
    /\ SetTimer("reader")
    /\ ping' = PingAfter("aborted")
    /\ UNCHANGED <<snd, op, stream, sendVars, batchVars, outside>>

StartRead ==
    /\ rd = "start"
    /\ Suspends("reader")
    /\ rd' = "reading"
    /\ op' = [op EXCEPT !["read"] = "pending"]
    /\ UNCHANGED <<snd, ping, timerVars, stream, sendVars, batchVars,
                   outside>>

(* A message has been read: the timer is cancelled, and a message that     *)
(* validateWebSocketMessage rejects is skipped.                            *)
GotMessage ==
    /\ rd = "reading" /\ op["read"] = "ok"
    /\ GoesOn("reader")
    /\ op' = [op EXCEPT !["read"] = "none"]
    /\ Cancel
    /\ ping' = PingAfter("aborted")
    /\ \/ rd' = "arm" /\ UNCHANGED batchVars
       \/ rd' = "message" /\ left' \in 0..MaxBatch /\ row' = 0
    /\ UNCHANGED <<snd, stream, sendVars, outside>>

(* Any error ends the loop: a closed or failed stream, or a cancelled read. *)
ReadEnded ==
    /\ rd = "reading" /\ op["read"] = "failed"
    /\ GoesOn("reader")
    /\ rd' = "closing"
    /\ op' = [op EXCEPT !["read"] = "none"]
    /\ Cancel
    /\ ping' = PingAfter("aborted")
    /\ UNCHANGED <<snd, stream, sendVars, batchVars, outside>>

MessageHandled ==
    /\ rd = "message" /\ snd["reader"] = "idle" /\ left = 0
    /\ GoesOn("reader")
    /\ rd' = "arm"
    /\ UNCHANGED <<snd, ping, timerVars, op, stream, sendVars, batchVars,
                   outside>>

HandlerThrows ==
    /\ rd = "message" /\ snd["reader"] = "idle"
    /\ GoesOn("reader")
    /\ rd' = "closing"
    /\ left' = 0
    /\ excuse' = TRUE
    /\ UNCHANGED <<snd, ping, timerVars, op, stream, sendVars, row, alive,
                   received, envVars>>

(* The handler calls close(): closeWebSocket, if the stream is open, sends *)
(* a close frame and waits for the client's, without a timeout.            *)
HandlerCloses ==
    /\ rd = "message" /\ snd["reader"] = "idle" /\ left = 0
    /\ stream = "open"
    /\ Suspends("reader")
    /\ rd' = "asking"
    /\ stream' = "closing"
    /\ excuse' = TRUE
    /\ op' = [op EXCEPT !["reader"] = "pending"]
    /\ UNCHANGED <<snd, ping, timerVars, sendVars, batchVars, alive,
                   received, envVars>>

HandlerClosed ==
    /\ rd = "asking" /\ op["reader"] \in {"ok", "failed"}
    /\ GoesOn("reader")
    /\ rd' = "message"
    /\ op' = [op EXCEPT !["reader"] = "none"]
    /\ UNCHANGED <<snd, ping, timerVars, stream, sendVars, batchVars,
                   outside>>

(* onClose, then close() *)
Finish ==
    /\ rd = "closing"
    /\ Suspends("reader")
    /\ rd' = "ended"
    /\ Close
    /\ ping' = PingAfter("aborted")
    /\ UNCHANGED <<snd, op, m_write_queue_size, ping_sent, batchVars,
                   outside>>

-----------------------------------------------------------------------------
(* send(), called through the context by the handler or by a pusher that   *)
(* holds the handler.  The weak pointer is locked: the object lives on.    *)

(* Fault: the batch's loop runs once too often. *)
MaySend_OneMore(s) ==
    IF s = "reader" THEN rd \in {"open", "message"} /\ left >= 0
                    ELSE rd \notin {"accept", "ended"}

MaySend(s) ==
    IF s = "reader" THEN rd \in {"open", "message"} /\ left > 0
                    ELSE rd \notin {"accept", "ended"}

(* send() returns; a batch goes on after a success, pausing between full   *)
(* batches (a generated one, which does not know its end, also after the   *)
(* last), and is given up after a failure.                                 *)
Sent(s, ok) ==
    IF s # "reader"
    THEN snd' = [snd EXCEPT ![s] = "done"] /\ UNCHANGED batchVars
    ELSE LET full == row + 1 = BatchSize
         IN  /\ left' = IF ok THEN left - 1 ELSE 0
             /\ row' = IF full \/ ~ok THEN 0 ELSE row + 1
             /\ \/ snd' = [snd EXCEPT !["reader"] = "idle"]
                   /\ ~(ok /\ full /\ left > 1)
                \/ snd' = [snd EXCEPT !["reader"] = "pause"] /\ ok /\ full

(* A pusher has nothing more to do; the handler keeps the thread. *)
Returns(s) == IF s = "reader" THEN GoesOn(s) ELSE Suspends(s)

Refused(s) ==
    /\ snd[s] = "idle" /\ MaySend(s)
    /\ stream # "open" \/ m_write_queue_size >= MaxQueue
    /\ Returns(s)
    /\ Sent(s, FALSE)
    /\ UNCHANGED <<rd, ping, timerVars, op, stream, sendVars, outside>>

(* The size is tested, and incremented by a later operation. *)
Admitted(s) ==
    /\ snd[s] = "idle" /\ MaySend(s)
    /\ stream = "open" /\ m_write_queue_size < MaxQueue
    /\ GoesOn(s)
    /\ snd' = [snd EXCEPT ![s] = "count"]
    /\ UNCHANGED <<rd, ping, timerVars, op, stream, sendVars, batchVars,
                   outside>>

CountIn(s) ==
    /\ snd[s] = "count"
    /\ GoesOn(s)
    /\ snd' = [snd EXCEPT ![s] = "arm"]
    /\ m_write_queue_size' = m_write_queue_size + 1
    /\ UNCHANGED <<rd, ping, timerVars, op, stream, m_ping_stopped,
                   ping_sent, batchVars, outside>>

ArmWrite(s) ==
    /\ snd[s] = "arm"
    /\ GoesOn(s)
    /\ snd' = [snd EXCEPT ![s] = "start"]
    /\ SetTimer(s)
    /\ ping' = PingAfter("aborted")
    /\ UNCHANGED <<rd, op, stream, sendVars, batchVars, outside>>

StartWrite(s) ==
    /\ snd[s] = "start"
    /\ Suspends(s)
    /\ snd' = [snd EXCEPT ![s] = "writing"]
    /\ op' = [op EXCEPT ![s] = "pending"]
    /\ UNCHANGED <<rd, ping, timerVars, stream, sendVars, batchVars,
                   outside>>

(* Fault: a failed write returns before the queue is counted down. *)
Written_ErrorKeepsCount(s) ==
    /\ snd[s] = "writing" /\ op[s] \in {"ok", "failed"}
    /\ Returns(s)
    /\ op' = [op EXCEPT ![s] = "none"]
    /\ Cancel
    /\ ping' = PingAfter("aborted")
    /\ m_write_queue_size' = IF op[s] = "ok" THEN m_write_queue_size - 1
                                             ELSE m_write_queue_size
    /\ Sent(s, op[s] = "ok")
    /\ UNCHANGED <<rd, stream, m_ping_stopped, ping_sent, outside>>

(* The write has ended, well or not: the timer is cancelled and the queue  *)
(* counted down.                                                           *)
Written(s) ==
    /\ snd[s] = "writing" /\ op[s] \in {"ok", "failed"}
    /\ Returns(s)
    /\ op' = [op EXCEPT ![s] = "none"]
    /\ Cancel
    /\ ping' = PingAfter("aborted")
    /\ m_write_queue_size' = m_write_queue_size - 1
    /\ Sent(s, op[s] = "ok")
    /\ UNCHANGED <<rd, stream, m_ping_stopped, ping_sent, outside>>

(* sendBatch's own timer between two batches *)
Pause ==
    /\ snd["reader"] = "pause"
    /\ Suspends("reader")
    /\ snd' = [snd EXCEPT !["reader"] = "idle"]
    /\ UNCHANGED <<rd, ping, timerVars, op, stream, sendVars, batchVars,
                   outside>>

-----------------------------------------------------------------------------
(* sendPing: detached, and without a reference to the object *)

PingGoesOn == stream = "open" /\ ~m_ping_stopped

(* The coroutine starts. *)
PingStarts ==
    /\ ping = "spawned"
    /\ Suspends("ping")
    /\ ping' = IF ~alive THEN "dangling" ELSE IF PingGoesOn THEN "sleep" ELSE "ended"
    /\ UNCHANGED <<rd, snd, timerVars, op, stream, sendVars, batchVars,
                   outside>>

(* After PING_INTERVAL, on a timer of its own: the context's timer is      *)
(* cancelled and set, and the ping is sent.                                *)
SendPing ==
    /\ ping = "sleep" /\ alive /\ PingGoesOn
    /\ GoesOn("ping")
    /\ ping' = "armed"
    /\ EndWaits({}) /\ timer' = "set"
    /\ ping_sent' = FALSE
    /\ op' = [op EXCEPT !["ping"] = "pending"]
    /\ UNCHANGED <<rd, snd, stream, m_write_queue_size, m_ping_stopped,
                   batchVars, outside>>

PingStops ==
    /\ ping = "sleep" /\ ~(alive /\ PingGoesOn)
    /\ Suspends("ping")
    /\ ping' = IF alive THEN "ended" ELSE "dangling"
    /\ UNCHANGED <<rd, snd, timerVars, op, stream, sendVars, batchVars,
                   outside>>

(* The wait begins; on a timer that is already due it ends at once. *)
AwaitPing ==
    /\ ping = "armed"
    /\ Suspends("ping")
    /\ IF timer = "due" THEN ping' = "expired" /\ UNCHANGED waits
                        ELSE ping' = "waiting" /\ waits' = waits \cup {"ping"}
    /\ UNCHANGED <<rd, snd, timer, cancels, op, stream, sendVars, batchVars,
                   outside>>

(* async_ping's callback: a ping that was written, or was aborted, counts  *)
(* as sent and cancels the timer; the pong is not waited for.              *)
PingWritten ==
    /\ op["ping"] = "ok"
    /\ turn = Nobody
    /\ op' = [op EXCEPT !["ping"] = "none"]
    /\ IF alive
       THEN ping_sent' = TRUE /\ Cancel /\ ping' = PingAfter("aborted")
       ELSE ping' = "dangling" /\ UNCHANGED <<ping_sent, timerVars>>
    /\ UNCHANGED <<turn, rd, snd, stream, m_write_queue_size, m_ping_stopped,
                   batchVars, outside>>

(* An error of the ping leaves sendPing waiting for the deadline. *)
PingFailed ==
    /\ op["ping"] = "failed"
    /\ turn = Nobody
    /\ op' = [op EXCEPT !["ping"] = "none"]
    /\ UNCHANGED <<turn, rd, snd, ping, timerVars, stream, sendVars,
                   batchVars, outside>>

(* The wait was aborted, by whomever, and the ping counts as sent. *)
PingOk ==
    /\ ping = "aborted" /\ alive /\ ping_sent
    /\ Suspends("ping")
    /\ ping' = IF PingGoesOn THEN "sleep" ELSE "ended"
    /\ ping_sent' = FALSE
    /\ UNCHANGED <<rd, snd, timerVars, op, stream, m_write_queue_size,
                   m_ping_stopped, batchVars, outside>>

(* Timed out, or woken by another user of the timer before the ping was sent. *)
PingCloses ==
    /\ \/ ping = "expired"
       \/ ping = "aborted" /\ ~ping_sent
    /\ alive
    /\ Suspends("ping")
    /\ ping' = "ended"
    /\ Close
    /\ UNCHANGED <<rd, snd, op, m_write_queue_size, ping_sent, batchVars,
                   outside>>

(* sendPing resumes on memory that has been freed. *)
PingDangles ==
    /\ ping \in {"armed", "aborted", "expired"} /\ ~alive
    /\ Suspends("ping")
    /\ ping' = "dangling"
    /\ UNCHANGED <<rd, snd, timerVars, op, stream, sendVars, batchVars,
                   outside>>

-----------------------------------------------------------------------------
(* readLoop has ended and no call of send() holds the object: destructor.  *)
Destroy ==
    /\ alive /\ turn = Nobody
    /\ rd = "ended"
    /\ \A s \in Senders : snd[s] \in {"idle", "done"}
    /\ alive' = FALSE
    /\ m_ping_stopped' = TRUE
    /\ Cancel
    /\ ping' = PingAfter("aborted")
    /\ op' = [o \in Ops |-> Aborted(o)]
    /\ UNCHANGED <<turn, rd, snd, stream, m_write_queue_size, ping_sent,
                   batchVars, received, excuse, envVars>>

-----------------------------------------------------------------------------
(* The network (external) *)

Environment(o, result) ==
    /\ op[o] = "pending"
    /\ turn = Nobody
    /\ op' = [op EXCEPT ![o] = result]
    /\ UNCHANGED <<turn, rd, snd, ping, timerVars, stream, sendVars,
                   batchVars, alive, envVars>>

MessageArrives ==
    /\ peer = "here" /\ received < MaxMessages
    /\ Environment("read", "ok")
    /\ received' = received + 1
    /\ UNCHANGED excuse

(* The client has closed, or answers the closing handshake. *)
ReadFails ==
    /\ peer = "left" \/ (peer = "here" /\ stream = "closing")
    /\ Environment("read", "failed")
    /\ UNCHANGED <<received, excuse>>

(* Written to the system's buffer, whether or not the client still reads;  *)
(* a close also waits for the client.                                      *)
WriteDone(o) ==
    /\ o # "read" /\ (rd = "asking" /\ o = "reader" => peer # "gone")
    /\ Environment(o, "ok")
    /\ UNCHANGED <<received, excuse>>

WriteFails(o) ==
    /\ o # "read" /\ peer # "here"
    /\ Environment(o, "failed")
    /\ UNCHANGED <<received, excuse>>

PeerLeaves ==
    /\ peer = "here"
    /\ turn = Nobody
    /\ peer' \in {"left", "gone"}
    /\ excuse' = TRUE
    /\ UNCHANGED <<threads, turn, rd, snd, ping, timerVars, op, stream,
                   sendVars, batchVars, alive, received>>

-----------------------------------------------------------------------------
Sending(s) ==
    \/ Refused(s)
    \/ Admitted(s)
    \/ CountIn(s)
    \/ ArmWrite(s)
    \/ StartWrite(s)
    \/ Written(s)

Reading ==
    \/ Opened
    \/ ArmRead
    \/ StartRead
    \/ GotMessage
    \/ ReadEnded
    \/ HandlerClosed
    \/ Finish

(* What the handler decides. *)
Handling == MessageHandled \/ HandlerThrows \/ HandlerCloses \/ OpenThrows

Pinging ==
    \/ PingStarts
    \/ SendPing
    \/ PingStops
    \/ AwaitPing
    \/ PingWritten
    \/ PingFailed
    \/ PingOk
    \/ PingCloses
    \/ PingDangles

Network ==
    \/ MessageArrives
    \/ ReadFails
    \/ \E o \in Ops : WriteDone(o) \/ WriteFails(o)
    \/ PeerLeaves

(* The connection is gone, or waits for a client that has vanished; not a  *)
(* step of the program.                                                    *)
Stops ==
    /\ (~alive /\ ping \in {"none", "ended", "dangling"}) \/ peer = "gone"
    /\ UNCHANGED vars

Next ==
    \/ AcceptFails \/ NoHandler \/ Open
    \/ Reading \/ Handling
    \/ \E s \in Senders : Sending(s)
    \/ Pause
    \/ Pinging
    \/ Expire \/ RunCallback
    \/ Destroy
    \/ Network
    \/ Stops

Spec == Init /\ [][Next]_vars

(* Ready coroutines and callbacks run; readLoop and the callbacks wait in  *)
(* a FIFO queue while another one has the thread, hence the strong         *)
(* fairness.  Timers expire.  The client, the handler's decisions and new  *)
(* pushes are free.                                                        *)
Fairness ==
    /\ SF_vars(Reading)
    /\ SF_vars(RunCallback)
    /\ WF_vars(Pinging)
    /\ \A s \in Senders :
           WF_vars(CountIn(s) \/ ArmWrite(s) \/ StartWrite(s) \/ Written(s))
    /\ WF_vars(Expire)

FairSpec == Spec /\ Fairness

-----------------------------------------------------------------------------
(* Properties *)

TypeOK ==
    /\ threads \in {"one", "many"}
    /\ turn \in Actors \cup {Nobody}
    /\ rd \in ReaderStages
    /\ snd \in [Senders -> SenderStages]
    /\ ping \in PingStages
    /\ waits \subseteq Actors
    /\ timer \in {"off", "set", "due"}
    /\ cancels \in Nat
    /\ op \in [Ops -> OpStates]
    /\ stream \in {"none", "open", "closing"}
    /\ m_write_queue_size \in Int
    /\ {m_ping_stopped, ping_sent, alive, excuse} \subseteq BOOLEAN
    /\ left \in Nat
    /\ row \in Nat
    /\ peer \in {"here", "left", "gone"}
    /\ received \in Nat

Queued == {s \in Senders : snd[s] \in {"arm", "start", "writing"}}

(* The write queue's size is at every moment the number of calls of send() *)
(* between its two updates, whichever of them failed.  In one thread the   *)
(* limit holds although it is tested before the size is incremented (in    *)
(* many threads it does not).                                              *)
QueueCounted ==
    /\ m_write_queue_size = Cardinality(Queued)
    /\ threads = "one" => m_write_queue_size <= MaxQueue

(* In one thread, a read or write in progress is watched: its wait is      *)
(* pending, or the callback that will cancel it is posted, although every  *)
(* other user of the timer ends the wait.                                  *)
OperationsWatched ==
    threads = "one" =>
        /\ rd = "reading" /\ op["read"] = "pending" => "reader" \in waits \/ cancels > 0
        /\ \A s \in Senders :
               snd[s] = "writing" /\ op[s] = "pending" => s \in waits \/ cancels > 0

(* In one thread, readLoop finds out that a client has vanished while it   *)
(* waits for a message, and ends.                                          *)
SilentPeerNoticed ==
    (threads = "one" /\ peer = "gone" /\ op["read"] = "pending") ~> rd = "ended"

-----------------------------------------------------------------------------
(* Statements of the source's comments that the code does not keep *)

(* HttpConfig.h, line 80: a WebSocket is a long connection that the        *)
(* heartbeat keeps.  A connection whose client is there, whose handler has *)
(* not ended it and none of whose deadlines has passed is not dropped.     *)
LongConnection == rd = "closing" => excuse
=============================================================================
