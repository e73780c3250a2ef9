----------------------------- MODULE MqttBroker -----------------------------
(***************************************************************************)
(* MqttBroker::Impl of mqtt/MqttBroker.cpp: start(), which one thread      *)
(* calls and which runs the accept context itself, its listeners, the      *)
(* threads of the connection contexts, and stop(), which is called by      *)
(* another thread, or by a signal handler that interrupts one of these.    *)
(*                                                                         *)
(* The connections' MQTT traffic is async_mqtt's; a client is served once  *)
(* handle_accept got it.  The connection contexts are all stopped in one   *)
(* step and are not told apart.                                            *)
(***************************************************************************)
EXTENDS Integers, Sequences

CONSTANTS Configured,     \* the listeners with a port (and a certificate)
          Clients, Port,  \* the clients, and the listener each one connects to
          ThreadsPerStart,\* num_iocs * threads_per_ioc
          MaxStarts,      \* bound: calls of start() that get to work
          Stoppers        \* calls of stop() that may overlap

Listeners == <<"mqtt", "ws", "tls", "wss">>
Secure == {"tls", "wss"}

ASSUME ListenersAssumption ==
    /\ Configured \subseteq {Listeners[i] : i \in 1..4}
    /\ Port \in [Clients -> Configured]
ASSUME BoundsAssumption == ThreadsPerStart \in Nat \ {0} /\ MaxStarts \in Nat
ASSUME StoppersAssumption == "main" \notin Stoppers

VARIABLES
    m_running, m_stop_requested,
    stopped,        \* the contexts were stopped, and run() returns at once
    main,           \* where start() is
    starts,         \* calls of start() that got to work
    lp,             \* the accept loop of each listener
    cl,             \* the clients
    m_con_threads,  \* the threads, by number
    th,             \* what each of them does
    spawned,        \* those of this start()
    joined,         \* the threads that were joined
    abandoned,      \* history: threads that a failed start() left, not yet joined
    st, by,         \* where each stop() is, and whom it interrupts
    at,             \* how far each joining loop is, and
    waits,          \* whether it is in join()
    crash           \* undefined behaviour has occurred

flags == <<m_running, m_stop_requested>>
starting == <<main, starts>>
threads == <<m_con_threads, th, joined>>
stopping == <<st, by>>
joining == <<at, waits>>
vars == <<flags, stopped, starting, lp, cl, threads, spawned, abandoned, stopping, joining,
          crash>>

MaxThreads == ThreadsPerStart * MaxStarts
Ids == 1..MaxThreads
Main == 0       \* the thread that calls start()
Other == -1     \* a thread of the application
Joiners == Stoppers \cup {"main"}
ListenStages == {Listeners[i] : i \in 1..4}
MainStages == {"idle", "flag", "spawn", "run", "join"} \cup ListenStages
LoopStages == {"none", "spawned", "accepting", "handshake", "backoff", "ended", "thrown"}

Init ==
    /\ m_running = FALSE /\ m_stop_requested = FALSE
    /\ stopped = FALSE
    /\ main = "idle"
    /\ starts = 0
    /\ lp = [l \in ListenStages |-> "none"]
    /\ cl = [c \in Clients |-> "away"]
    /\ m_con_threads = <<>>
    /\ th = [i \in Ids |-> "none"]
    /\ spawned = 0
    /\ joined = {}
    /\ abandoned = {}
    /\ st = [t \in Stoppers |-> "idle"]
    /\ by = [t \in Stoppers |-> Other]
    /\ at = [j \in Joiners |-> 1]
    /\ waits = [j \in Joiners |-> FALSE]
    /\ crash = FALSE

-----------------------------------------------------------------------------
(* start() *)

(* A signal handler that runs in a thread holds it up. *)
Free(x) == ~crash /\ \A t \in Stoppers : by[t] = x => st[t] = "idle"
MainGoes(from, to) == Free(Main) /\ main = from /\ main' = to

Start ==
    /\ ~m_running /\ starts < MaxStarts
    /\ MainGoes("idle", "flag")
    /\ m_running' = TRUE
    /\ starts' = starts + 1
    /\ UNCHANGED <<m_stop_requested, stopped, lp, cl, threads, spawned, abandoned, stopping,
                   joining, crash>>

ClearStopRequest ==
    /\ MainGoes("flag", Listeners[1])
    /\ m_stop_requested' = FALSE
    /\ UNCHANGED <<m_running, stopped, starts, lp, cl, threads,
                   spawned, abandoned, stopping, joining, crash>>

After(l) == CASE l = "mqtt" -> "ws" [] l = "ws" -> "tls" [] l = "tls" -> "wss"
              [] l = "wss" -> "spawn"

(* A listener's port is in use while its earlier acceptor lives in its     *)
(* coroutine.                                                              *)
Bound(l) == lp[l] \notin {"none", "ended", "thrown"}

(* The four listeners: without a port nothing is started; with one the     *)
(* acceptor is made and moved into the coroutine that is spawned.          *)
StartListener(l) ==
    /\ MainGoes(l, After(l))
    /\ IF l \in Configured
       THEN ~Bound(l) /\ lp' = [lp EXCEPT ![l] = "spawned"]
       ELSE lp' = lp
    /\ UNCHANGED <<flags, stopped, starts, cl, threads, spawned, abandoned, stopping, joining,
                   crash>>

start_mqtt_listener == StartListener("mqtt")
start_ws_listener == StartListener("ws")
start_tls_listener == StartListener("tls")
start_wss_listener == StartListener("wss")

(* The port is in use, by this broker or by another program: start()       *)
(* throws, and what was started before stays.                              *)
ListenerThrows(l) ==
    /\ l \in Configured \ Secure
    /\ MainGoes(l, "idle")
    /\ m_running' = FALSE
    /\ UNCHANGED <<m_stop_requested, stopped, starts, lp, cl, threads,
                   spawned, abandoned, stopping, joining, crash>>

(* The secure listeners catch it, and a bad certificate, themselves. *)
ListenerSkipped(l) ==
    /\ l \in Configured \cap Secure
    /\ MainGoes(l, After(l))
    /\ UNCHANGED <<flags, stopped, starts, lp, cl, threads,
                   spawned, abandoned, stopping, joining, crash>>

AllSpawned == spawned = ThreadsPerStart

(* m_con_threads.emplace_back while a stop() walks through the vector is a *)
(* data race.                                                              *)
SpawnThread ==
    /\ Free(Main) /\ main = "spawn" /\ ~AllSpawned
    /\ LET i == CHOOSE k \in Ids : th[k] = "none" /\ \A n \in 1..(k - 1) : th[n] # "none" IN
       /\ th' = [th EXCEPT ![i] = "running"]
       /\ m_con_threads' = Append(m_con_threads, i)
    /\ spawned' = spawned + 1
    /\ crash' = \E t \in Stoppers : st[t] = "join"
    /\ UNCHANGED <<flags, stopped, starting, lp, cl, joined, abandoned, stopping, joining>>

(* A thread cannot be created: start() throws, and the ones it has created *)
(* go on and are not joined; stop() does nothing from now on.              *)
SpawnThreadFails ==
    /\ ~AllSpawned
    /\ MainGoes("spawn", "idle")
    /\ m_running' = FALSE
    /\ spawned' = 0
    /\ abandoned' = abandoned \cup {i \in Ids : th[i] # "none" /\ i \notin joined}
    /\ crash' = \E t \in Stoppers : st[t] = "join"
    /\ UNCHANGED <<m_stop_requested, stopped, starts, lp, cl, threads, stopping, joining>>

(* m_accept_ioc.run(), in the thread that called start() *)
EnterRun ==
    /\ AllSpawned
    /\ MainGoes("spawn", "run")
    /\ UNCHANGED <<flags, stopped, starts, lp, cl, threads,
                   spawned, abandoned, stopping, joining, crash>>

LeaveRun ==
    /\ stopped
    /\ MainGoes("run", "join")
    /\ UNCHANGED <<flags, stopped, starts, lp, cl, threads,
                   spawned, abandoned, stopping, joining, crash>>

(* A thread of a connection context *)
ThreadEnds(i) ==
    /\ Free(i) /\ th[i] = "running" /\ stopped
    /\ th' = [th EXCEPT ![i] = "done"]
    /\ UNCHANGED <<flags, stopped, starting, lp, cl, m_con_threads, joined, spawned, abandoned,
                   stopping, joining, crash>>

-----------------------------------------------------------------------------
(* The loops over m_con_threads in start() and stop() *)

IsJoining(j) == IF j = "main" THEN Free(Main) /\ main = "join" ELSE ~crash /\ st[j] = "join"
More(j) == at[j] <= Len(m_con_threads)
Current(j) == m_con_threads[at[j]]

SkipJoined(j) ==
    /\ IsJoining(j) /\ More(j) /\ ~waits[j]
    /\ Current(j) \in joined
    /\ at' = [at EXCEPT ![j] = @ + 1]
    /\ UNCHANGED <<flags, stopped, starting, lp, cl, threads, spawned, abandoned, stopping,
                   waits, crash>>

(* join() of a thread that another thread is joining, or of the thread     *)
(* itself                                                                  *)
BeginJoin(j) ==
    /\ IsJoining(j) /\ More(j) /\ ~waits[j]
    /\ Current(j) \notin joined
    /\ waits' = [waits EXCEPT ![j] = TRUE]
    /\ crash' = \/ \E k \in Joiners \ {j} : waits[k] /\ Current(k) = Current(j)
                \/ j # "main" /\ by[j] = Current(j)
    /\ UNCHANGED <<flags, stopped, starting, lp, cl, threads, spawned, abandoned, stopping, at>>

EndJoin(j) ==
    /\ IsJoining(j) /\ More(j) /\ waits[j]
    /\ th[Current(j)] = "done"
    /\ joined' = joined \cup {Current(j)}
    /\ abandoned' = abandoned \ {Current(j)}
    /\ at' = [at EXCEPT ![j] = @ + 1]
    /\ waits' = [waits EXCEPT ![j] = FALSE]
    /\ UNCHANGED <<flags, stopped, starting, lp, cl, m_con_threads, th, spawned, stopping,
                   crash>>

(* Fault: start() does not wait for the threads. *)
StartReturns_WithoutJoin ==
    /\ MainGoes("join", "idle")
    /\ at' = [at EXCEPT !["main"] = 1]
    /\ spawned' = 0
    /\ UNCHANGED <<flags, stopped, starts, lp, cl, threads, abandoned, stopping, waits, crash>>

(* m_running is left as it is. *)
StartReturns ==
    /\ ~More("main")
    /\ MainGoes("join", "idle")
    /\ at' = [at EXCEPT !["main"] = 1]
    /\ spawned' = 0
    /\ UNCHANGED <<flags, stopped, starts, lp, cl, threads, abandoned, stopping, waits, crash>>

-----------------------------------------------------------------------------
(* stop() *)

(* Called by another thread, or in a signal handler that interrupts start()*)
(* or a connection thread; only a running broker is stopped.               *)
StopCalled(t) ==
    /\ ~crash /\ st[t] = "idle"
    /\ IF m_running
       THEN /\ st' = [st EXCEPT ![t] = "request"]
            /\ \E x \in {Other, Main} \cup {i \in Ids : th[i] = "running"} :
                  (x = Other \/ Free(x)) /\ by' = [by EXCEPT ![t] = x]
       ELSE UNCHANGED stopping
    /\ m_running' = FALSE
    /\ UNCHANGED <<m_stop_requested, stopped, main, starts, lp, cl, threads,
                   spawned, abandoned, joining, crash>>

RequestStop(t) ==
    /\ ~crash /\ st[t] = "request"
    /\ st' = [st EXCEPT ![t] = "halt"]
    /\ m_stop_requested' = TRUE
    /\ UNCHANGED <<m_running, stopped, starting, lp, cl, threads, spawned, abandoned, by, joining,
                   crash>>

(* Fault: the accept context is kept running by its work guard. *)
StopContexts_Kept(t) ==
    /\ ~crash /\ st[t] = "halt"
    /\ st' = [st EXCEPT ![t] = "join"]
    /\ UNCHANGED <<flags, stopped, starting, lp, cl, threads, spawned, abandoned, by, joining,
                   crash>>

(* The work guards go and the contexts are stopped, for good. *)
StopContexts(t) ==
    /\ ~crash /\ st[t] = "halt"
    /\ st' = [st EXCEPT ![t] = "join"]
    /\ stopped' = TRUE
    /\ UNCHANGED <<flags, starting, lp, cl, threads, spawned, abandoned, by, joining, crash>>

(* Fault: the vector is cleared first. *)
ClearThreads_Early(t) ==
    /\ IsJoining(t)
    /\ st' = [st EXCEPT ![t] = "idle"]
    /\ m_con_threads' = <<>>
    /\ crash' = \/ main \in {"spawn", "join"}
                \/ \E u \in Stoppers \ {t} : st[u] = "join"
    /\ by' = [by EXCEPT ![t] = Other]
    /\ at' = [at EXCEPT ![t] = 1]
    /\ UNCHANGED <<flags, stopped, starting, lp, cl, th, joined, spawned, abandoned, waits>>

(* m_con_threads.clear(), while start() or another stop() uses the vector  *)
ClearThreads(t) ==
    /\ IsJoining(t) /\ ~More(t)
    /\ st' = [st EXCEPT ![t] = "idle"]
    /\ m_con_threads' = <<>>
    /\ crash' = \/ main \in {"spawn", "join"}
                \/ \E u \in Stoppers \ {t} : st[u] = "join"
    /\ by' = [by EXCEPT ![t] = Other]
    /\ at' = [at EXCEPT ![t] = 1]
    /\ UNCHANGED <<flags, stopped, starting, lp, cl, th, joined, spawned, abandoned, waits>>

-----------------------------------------------------------------------------
(* The accept loops, run by the thread in start() *)

Runs == Free(Main) /\ main = "run" /\ ~stopped
WhileNotStopped == IF m_stop_requested THEN "ended" ELSE "accepting"
LoopGoes(l, from, to) == Runs /\ lp[l] = from /\ lp' = [lp EXCEPT ![l] = to]

loopRest == <<flags, stopped, starting, threads, spawned, abandoned, stopping, joining, crash>>

LoopStarts(l) ==
    /\ LoopGoes(l, "spawned", WhileNotStopped)
    /\ UNCHANGED <<cl, loopRest>>

(* A secure listener waits for the handshake before it accepts again. *)
Accept(l, c) ==
    /\ Port[c] = l /\ cl[c] = "waiting"
    /\ LoopGoes(l, "accepting", IF l \in Secure THEN "handshake" ELSE WhileNotStopped)
    /\ cl' = [cl EXCEPT ![c] = IF l \in Secure THEN "handshaking" ELSE "served"]
    /\ UNCHANGED loopRest

(* An error is thrown out of the detached coroutine, and the acceptor and  *)
(* all that wait at it go with it.                                         *)
LoopThrows(l, from) ==
    /\ LoopGoes(l, from, "thrown")
    /\ cl' = [c \in Clients |-> IF Port[c] = l /\ cl[c] \in {"waiting", "handshaking"}
                                THEN "refused" ELSE cl[c]]
    /\ UNCHANGED loopRest

(* apply_socket_opts: an option of the new client's socket cannot be set.  *)
AcceptThrows(l, c) ==
    /\ Port[c] = l /\ cl[c] = "waiting"
    /\ LoopThrows(l, "accepting")

(* Fault: any error ends the loop. *)
AcceptError_Returns(l) ==
    /\ LoopGoes(l, "accepting", "ended")
    /\ cl' = [c \in Clients |-> IF Port[c] = l /\ cl[c] = "waiting" THEN "refused" ELSE cl[c]]
    /\ UNCHANGED loopRest

(* Without files or buffers the loop waits a second; another error is      *)
(* retried at once.                                                        *)
AcceptError(l) ==
    /\ \/ LoopGoes(l, "accepting", WhileNotStopped)
       \/ ~m_stop_requested /\ LoopGoes(l, "accepting", "backoff")
    /\ UNCHANGED <<cl, loopRest>>

BackoffEnds(l) ==
    /\ LoopGoes(l, "backoff", WhileNotStopped)
    /\ UNCHANGED <<cl, loopRest>>

HandshakeDone(l, c) ==
    /\ Port[c] = l /\ cl[c] = "handshaking"
    /\ LoopGoes(l, "handshake", WhileNotStopped)
    /\ cl' = [cl EXCEPT ![c] = "served"]
    /\ UNCHANGED loopRest

(* The handshake's error is thrown as well. *)
HandshakeFails(l, c) ==
    /\ Port[c] = l /\ cl[c] = "handshaking"
    /\ LoopThrows(l, "handshake")

(* external *)
Connect(c) ==
    /\ ~crash /\ cl[c] = "away" /\ Bound(Port[c])
    /\ cl' = [cl EXCEPT ![c] = "waiting"]
    /\ UNCHANGED <<lp, loopRest>>

-----------------------------------------------------------------------------
JoinStep(j) == SkipJoined(j) \/ BeginJoin(j) \/ EndJoin(j)
MainStep ==
    \/ ClearStopRequest
    \/ start_mqtt_listener \/ start_ws_listener \/ start_tls_listener \/ start_wss_listener
    \/ \E l \in ListenStages : ListenerThrows(l) \/ ListenerSkipped(l)
    \/ SpawnThread \/ SpawnThreadFails
    \/ EnterRun
    \/ LeaveRun
    \/ JoinStep("main")
    \/ StartReturns

StopStep(t) == RequestStop(t) \/ StopContexts(t) \/ JoinStep(t) \/ ClearThreads(t)

LoopStep(l) == LoopStarts(l) \/ BackoffEnds(l)

(* Not a step of the program *)
Stops == crash /\ UNCHANGED vars

Next ==
    \/ Start
    \/ MainStep
    \/ \E i \in Ids : ThreadEnds(i)
    \/ \E t \in Stoppers : StopCalled(t) \/ StopStep(t)
    \/ \E l \in Configured : LoopStep(l) \/ AcceptError(l)
    \/ \E l \in Configured, c \in Clients :
          Accept(l, c) \/ AcceptThrows(l, c) \/ HandshakeDone(l, c) \/ HandshakeFails(l, c)
    \/ \E c \in Clients : Connect(c)
    \/ Stops

Spec == Init /\ [][Next]_vars

(* Threads run (each ends once, so fairness to all of them is fairness to  *)
(* each), and a client that keeps waiting at a plain port is accepted if   *)
(* the loop comes back to accepting again and again.  Nothing is assumed   *)
(* of the secure listeners.                                                *)
Fairness ==
    /\ WF_vars(MainStep)
    /\ WF_vars(\E i \in Ids : ThreadEnds(i))
    /\ \A t \in Stoppers : WF_vars(StopStep(t))
    /\ \A l \in Configured \ Secure : WF_vars(LoopStep(l))
    /\ \A c \in Clients : Port[c] \notin Secure => SF_vars(Accept(Port[c], c))

FairSpec == Spec /\ Fairness

-----------------------------------------------------------------------------
(* Properties *)

(* The variables keep their types, and a thread that is being joined is    *)
(* still in the vector.                                                    *)
TypeOK ==
    /\ {m_running, m_stop_requested, stopped, crash} \subseteq BOOLEAN
    /\ main \in MainStages
    /\ starts \in 0..MaxStarts
    /\ spawned \in 0..ThreadsPerStart
    /\ lp \in [ListenStages -> LoopStages]
    /\ cl \in [Clients -> {"away", "waiting", "handshaking", "served", "refused"}]
    /\ m_con_threads \in Seq(Ids)
    /\ th \in [Ids -> {"none", "running", "done"}]
    /\ joined \subseteq Ids
    /\ abandoned \subseteq Ids
    /\ st \in [Stoppers -> {"idle", "request", "halt", "join"}]
    /\ by \in [Stoppers -> {Other, Main} \cup Ids]
    /\ at \in [Joiners -> Nat \ {0}]
    /\ waits \in [Joiners -> BOOLEAN]
    /\ ~crash => \A j \in Joiners : waits[j] => More(j)

(* Whenever no start() runs, every thread that was ever started has been   *)
(* joined, whichever of the loops of start() and stop() did it, and in     *)
(* whatever order they ran, so that destroying the broker does not end the *)
(* program.  The exception is the code's: a start() that cannot create all *)
(* its threads throws and leaves those it has, running and not joined,     *)
(* until another start() and stop() join them.                             *)
NoThreadLeft ==
    ~crash /\ main = "idle" =>
        \A i \in Ids : th[i] # "none" => i \in joined \/ i \in abandoned

(* A stop() that gets to work ends start(), at whatever point the two meet.*)
StopEndsStart ==
    (\E t \in Stoppers : st[t] = "request") ~> (main = "idle" \/ crash)

(* A client that waits at a plain port of a broker that runs is served,    *)
(* whatever a client of a secure port does in its handshake and however    *)
(* often accepting fails, unless the contexts are or were stopped.  The    *)
(* exception is the code's: a socket option that cannot be set for one     *)
(* client throws and ends its listener, for all that wait there.           *)
PlainClientsServed ==
    \A c \in Clients :
        Port[c] \notin Secure =>
            (cl[c] = "waiting" /\ main = "run" ~>
                cl[c] = "served" \/ lp[Port[c]] = "thrown" \/ stopped \/ crash)

=============================================================================
