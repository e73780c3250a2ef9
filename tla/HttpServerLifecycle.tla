------------------------ MODULE HttpServerLifecycle ------------------------
(***************************************************************************)
(* start(), loop() and stop() of httpd/HttpServer.cpp with the accept loop *)
(* and the connections it creates.  The main thread starts the server and  *)
(* runs it; stop() is called by other threads, or by a handler in one of   *)
(* the threads that run the io_context.  The io_context is the server's    *)
(* own, or one the application has bound and runs in threads of its own.   *)
(*                                                                         *)
(* Each start() makes a new ConnectionManager: managers, and the accept    *)
(* loops spawned with them, are numbered.  Of a connection only its permit *)
(* is kept; its requests are the module HttpConnection's, the managers'    *)
(* inside is ConnectionManager's.                                          *)
(***************************************************************************)
EXTENDS Integers, FiniteSets

CONSTANTS Workers,   \* threads that call run()
          Stoppers,  \* calls of stop() that may overlap
          Conns,     \* bound: connections that are accepted
          MaxStarts, \* bound: calls of start() that get to work
          Nobody

ASSUME SetsAssumption == IsFiniteSet(Conns) /\ Nobody \notin Workers
ASSUME StartsAssumption == MaxStarts \in Nat

VARIABLES
    m_use_external_io,
    main,           \* where the main thread is
    m_running,
    m_io_context,   \* "null", or the context is "live", "stopped" or "freed"
    m_acceptor,     \* "none", "open" or "closed"
    mgr,            \* m_connection_manager: the number of the last start
    down,           \* the managers that were shut down
    cnt,            \* permits each manager counts
    acc,            \* the accept loop of each start
    failed,         \* history: the accept loops that ended by an error
    wk,             \* the threads in run()
    st,             \* where each call of stop() is
    by,             \* the worker that makes the call, if any
    cn, gen,        \* the connections, and the manager of their permits
    crash           \* undefined behaviour has occurred

server == <<m_use_external_io, m_running, m_io_context, m_acceptor>>
managers == <<mgr, down, cnt>>
accepting == <<acc, failed>>
stopping == <<st, by>>
conns == <<cn, gen>>
vars == <<main, server, managers, accepting, wk, stopping, conns, crash>>

Starts == 1..MaxStarts
MainStages == {"idle", "acceptor", "ssl", "spawn", "flag", "up", "loop"}
AcceptStages == {"none", "spawned", "waiting", "aborted", "ended"}
WorkerStages == {"off", "starting", "polling", "busy"}
StopStages == {"idle", "flag", "acceptor", "managers", "halt", "sleep", "clear"}
ConnStages == {"none", "created", "held", "denied", "gone"}

Init ==
    /\ m_use_external_io \in BOOLEAN
    /\ main = "idle"
    /\ m_running = FALSE
    /\ m_io_context = IF m_use_external_io THEN "live" ELSE "null"
    /\ m_acceptor = "none"
    /\ mgr = 0
    /\ down = {}
    /\ cnt = [g \in Starts |-> 0]
    /\ acc = [g \in Starts |-> "none"]
    /\ failed = {}
    /\ wk = [w \in Workers |-> "off"]
    /\ st = [t \in Stoppers |-> "idle"]
    /\ by = [t \in Stoppers |-> Nobody]
    /\ cn = [c \in Conns |-> "none"]
    /\ gen = [c \in Conns |-> 0]
    /\ crash = FALSE

(* After undefined behaviour nothing is said. *)
MainGoes(from, to) == ~crash /\ main = from /\ main' = to

Held == {c \in Conns : cn[c] = "held"}
Alive == {c \in Conns : cn[c] \in {"created", "held", "denied"}}

-----------------------------------------------------------------------------
(* start(), which the application does not call while a stop() is running *)

(* New managers, and a new io_context unless one is bound; one that an     *)
(* earlier start() left behind is forgotten.                               *)
Start ==
    /\ ~m_running /\ mgr < MaxStarts
    /\ \A t \in Stoppers : st[t] = "idle"
    /\ MainGoes("idle", "acceptor")
    /\ mgr' = mgr + 1
    /\ m_io_context' = IF m_use_external_io THEN m_io_context ELSE "live"
    /\ UNCHANGED <<m_use_external_io, m_running, m_acceptor, down, cnt, accepting,
                   wk, stopping, conns, crash>>

(* The new acceptor replaces the old one after it was made: while the old  *)
(* one is open its port is in use.                                         *)
CreateAcceptor ==
    /\ m_acceptor # "open"
    /\ \/ MainGoes("acceptor", "ssl")
       \/ MainGoes("acceptor", "spawn")
    /\ m_acceptor' = "open"
    /\ UNCHANGED <<m_use_external_io, m_running, m_io_context, managers, accepting,
                   wk, stopping, conns, crash>>

(* configureSsl with a readable, private certificate *)
ConfigureSsl ==
    /\ MainGoes("ssl", "spawn")
    /\ UNCHANGED <<server, managers, accepting, wk, stopping, conns, crash>>

(* Either step throws: start() calls stop(), which finds the server not    *)
(* running and does nothing.                                               *)
StartFails ==
    /\ \/ MainGoes("acceptor", "idle")
       \/ MainGoes("ssl", "idle")
    /\ UNCHANGED <<server, managers, accepting, wk, stopping, conns, crash>>

SpawnAccept ==
    /\ MainGoes("spawn", "flag")
    /\ acc' = [acc EXCEPT ![mgr] = "spawned"]
    /\ UNCHANGED <<server, managers, failed, wk, stopping, conns, crash>>

SetRunning ==
    /\ MainGoes("flag", "up")
    /\ m_running' = TRUE
    /\ UNCHANGED <<m_use_external_io, m_io_context, m_acceptor, managers, accepting,
                   wk, stopping, conns, crash>>

-----------------------------------------------------------------------------
(* loop() *)

Loop ==
    /\ m_io_context # "null" /\ m_running
    /\ MainGoes("up", "loop")
    /\ wk' = [w \in Workers |-> IF wk[w] = "off" THEN "starting" ELSE wk[w]]
    /\ UNCHANGED <<server, managers, accepting, stopping, conns, crash>>

LoopSkipped ==
    /\ m_io_context = "null" \/ ~m_running
    /\ MainGoes("up", "idle")
    /\ UNCHANGED <<server, managers, accepting, wk, stopping, conns, crash>>

(* A thread reads the member m_io_context when it starts. *)
EnterRun(w) ==
    /\ ~crash /\ wk[w] = "starting"
    /\ wk' = [wk EXCEPT ![w] = "polling"]
    /\ crash' = (m_io_context \in {"null", "freed"})
    /\ UNCHANGED <<main, server, managers, accepting, stopping, conns>>

LeaveRun(w) ==
    /\ ~crash /\ wk[w] = "polling" /\ m_io_context # "live"
    /\ wk' = [wk EXCEPT ![w] = "off"]
    /\ UNCHANGED <<main, server, managers, accepting, stopping, conns, crash>>

LoopReturns ==
    /\ \A w \in Workers : wk[w] = "off"
    /\ MainGoes("loop", "idle")
    /\ UNCHANGED <<server, managers, accepting, wk, stopping, conns, crash>>

(* A handler takes a worker for some time; one that called stop() until    *)
(* stop() returns.                                                         *)
BeginHandler(w) ==
    /\ ~crash /\ wk[w] = "polling" /\ m_io_context = "live"
    /\ wk' = [wk EXCEPT ![w] = "busy"]
    /\ UNCHANGED <<main, server, managers, accepting, stopping, conns, crash>>

EndHandler(w) ==
    /\ ~crash /\ wk[w] = "busy"
    /\ \A t \in Stoppers : by[t] = w => st[t] = "idle"
    /\ wk' = [wk EXCEPT ![w] = "polling"]
    /\ UNCHANGED <<main, server, managers, accepting, stopping, conns, crash>>

-----------------------------------------------------------------------------
(* doAccept and doAcceptSsl, run by a worker *)

Running(w) == ~crash /\ wk[w] = "polling" /\ m_io_context = "live"

(* The loop's condition, before the next async_accept *)
NextAccept == IF m_running THEN "waiting" ELSE "ended"

AcceptStarts(w, g) ==
    /\ Running(w) /\ acc[g] = "spawned"
    /\ acc' = [acc EXCEPT ![g] = NextAccept]
    /\ UNCHANGED <<main, server, managers, failed, wk, stopping, conns, crash>>

(* Fault: a closed probe ends the loop. *)
CloseProbe_Returns(w, g) ==
    /\ Running(w) /\ acc[g] = "waiting" /\ m_acceptor = "open"
    /\ acc' = [acc EXCEPT ![g] = "ended"]
    /\ UNCHANGED <<main, server, managers, failed, wk, stopping, conns, crash>>

(* A socket on which nothing arrives within 100 ms is closed. *)
CloseProbe(w, g) ==
    /\ Running(w) /\ acc[g] = "waiting" /\ m_acceptor = "open"
    /\ acc' = [acc EXCEPT ![g] = NextAccept]
    /\ UNCHANGED <<main, server, managers, failed, wk, stopping, conns, crash>>

Accept(w, g) ==
    /\ Running(w) /\ acc[g] = "waiting" /\ m_acceptor = "open"
    /\ \E c \in Conns : cn[c] = "none" /\ cn' = [cn EXCEPT ![c] = "created"]
    /\ acc' = [acc EXCEPT ![g] = NextAccept]
    /\ UNCHANGED <<main, server, managers, failed, wk, stopping, gen, crash>>

(* async_accept throws out of the detached coroutine. *)
AcceptFails(w, g) ==
    /\ Running(w) /\ acc[g] = "waiting"
    /\ acc' = [acc EXCEPT ![g] = "ended"]
    /\ failed' = failed \cup {g}
    /\ UNCHANGED <<main, server, managers, wk, stopping, conns, crash>>

AcceptAborted(w, g) ==
    /\ Running(w) /\ acc[g] = "aborted"
    /\ acc' = [acc EXCEPT ![g] = "ended"]
    /\ UNCHANGED <<main, server, managers, failed, wk, stopping, conns, crash>>

-----------------------------------------------------------------------------
(* A connection asks the manager the server has when it gets there, ... *)

Acquire(w, c) ==
    /\ Running(w) /\ cn[c] = "created" /\ mgr \notin down
    /\ cn' = [cn EXCEPT ![c] = "held"]
    /\ gen' = [gen EXCEPT ![c] = mgr]
    /\ cnt' = [cnt EXCEPT ![mgr] = @ + 1]
    /\ UNCHANGED <<main, server, mgr, down, accepting, wk, stopping, crash>>

(* ... or its handshake fails, its wait times out, or the manager is down. *)
Denied(w, c) ==
    /\ Running(w) /\ cn[c] = "created"
    /\ cn' = [cn EXCEPT ![c] = "denied"]
    /\ UNCHANGED <<main, server, managers, accepting, wk, stopping, gen, crash>>

(* Fault: the destructor does not test the permit. *)
EndConnection_AlwaysReleases(w, c) ==
    /\ Running(w) /\ cn[c] \in {"held", "denied"}
    /\ cn' = [cn EXCEPT ![c] = "gone"]
    /\ cnt' = [cnt EXCEPT ![mgr] = @ - 1]
    /\ UNCHANGED <<main, server, mgr, down, accepting, wk, stopping, gen, crash>>

(* The destructor releases a valid permit to the manager of that moment. *)
EndConnection(w, c) ==
    /\ Running(w) /\ cn[c] \in {"held", "denied"}
    /\ cn' = [cn EXCEPT ![c] = "gone"]
    /\ cnt' = IF cn[c] = "held" THEN [cnt EXCEPT ![mgr] = @ - 1] ELSE cnt
    /\ UNCHANGED <<main, server, mgr, down, accepting, wk, stopping, gen, crash>>

-----------------------------------------------------------------------------
(* stop() *)

StopGoes(t, from, to) == ~crash /\ st[t] = from /\ st' = [st EXCEPT ![t] = to]

(* Called from outside, or by a handler.  The flag is tested ... *)
StopCalled(t) ==
    /\ m_running
    /\ StopGoes(t, "idle", "flag")
    /\ \E w \in {Nobody} \cup {v \in Workers : wk[v] = "busy"} :
           by' = [by EXCEPT ![t] = w]
    /\ UNCHANGED <<main, server, managers, accepting, wk, conns, crash>>

(* ... and cleared by a later operation. *)
ClearRunning(t) ==
    /\ StopGoes(t, "flag", "acceptor")
    /\ m_running' = FALSE
    /\ UNCHANGED <<main, m_use_external_io, m_io_context, m_acceptor, managers,
                   accepting, wk, by, conns, crash>>

CloseAcceptor(t) ==
    /\ StopGoes(t, "acceptor", "managers")
    /\ m_acceptor' = "closed"
    /\ acc' = [g \in Starts |-> IF acc[g] = "waiting" THEN "aborted" ELSE acc[g]]
    /\ UNCHANGED <<main, m_use_external_io, m_running, m_io_context, managers,
                   failed, wk, by, conns, crash>>

ShutdownManagers(t) ==
    /\ StopGoes(t, "managers", "halt")
    /\ down' = down \cup {mgr}
    /\ UNCHANGED <<main, server, mgr, cnt, accepting, wk, by, conns, crash>>

AfterHalt == IF m_use_external_io \/ m_io_context = "null" THEN "idle" ELSE "sleep"

(* Fault: a bound context is left running. *)
HaltContext_OwnOnly(t) ==
    /\ StopGoes(t, "halt", AfterHalt)
    /\ m_io_context' = IF m_io_context = "live" /\ ~m_use_external_io
                       THEN "stopped" ELSE m_io_context
    /\ crash' = (m_io_context = "freed")
    /\ UNCHANGED <<main, m_use_external_io, m_running, m_acceptor, managers,
                   accepting, wk, by, conns>>

(* The context is stopped, also one that is bound. *)
HaltContext(t) ==
    /\ StopGoes(t, "halt", AfterHalt)
    /\ m_io_context' = IF m_io_context = "live" THEN "stopped" ELSE m_io_context
    /\ crash' = (m_io_context = "freed")
    /\ UNCHANGED <<main, m_use_external_io, m_running, m_acceptor, managers,
                   accepting, wk, by, conns>>

(* 100 ms later the context is deleted, and with it every coroutine and    *)
(* its connection.                                                         *)
FreeContext(t) ==
    /\ StopGoes(t, "sleep", "clear")
    /\ m_io_context # "null"
    /\ m_io_context # "freed" /\ \A w \in Workers : wk[w] = "off"
    /\ m_io_context' = "freed"
    /\ acc' = [g \in Starts |-> IF acc[g] = "none" THEN "none" ELSE "ended"]
    /\ cn' = [c \in Conns |-> IF c \in Alive THEN "gone" ELSE cn[c]]
    /\ cnt' = IF Held = {} THEN cnt
                           ELSE [cnt EXCEPT ![mgr] = @ - Cardinality(Held)]
    /\ UNCHANGED <<main, m_use_external_io, m_running, m_acceptor, mgr, down,
                   failed, wk, by, gen, crash>>

(* A thread is still in run(), or another stop() has just deleted it. *)
FreeContextInUse(t) ==
    /\ ~crash /\ st[t] = "sleep"
    /\ m_io_context # "null"
    /\ m_io_context = "freed" \/ \E w \in Workers : wk[w] # "off"
    /\ crash' = TRUE
    /\ UNCHANGED <<main, server, managers, accepting, wk, stopping, conns>>

(* Another stop() has deleted and cleared it. *)
FreeNothing(t) ==
    /\ m_io_context = "null"
    /\ StopGoes(t, "sleep", "clear")
    /\ UNCHANGED <<main, server, managers, accepting, wk, by, conns, crash>>

(* Fault: the pointer is kept. *)
ClearPointer_Kept(t) ==
    /\ StopGoes(t, "clear", "idle")
    /\ UNCHANGED <<main, server, managers, accepting, wk, by, conns, crash>>

ClearPointer(t) ==
    /\ StopGoes(t, "clear", "idle")
    /\ m_io_context' = "null"
    /\ UNCHANGED <<main, m_use_external_io, m_running, m_acceptor, managers,
                   accepting, wk, by, conns, crash>>

-----------------------------------------------------------------------------
(* The application's own threads, and its restarting of a bound context    *)
(* (external)                                                              *)

AppRuns(w) ==
    /\ ~crash /\ m_use_external_io /\ m_io_context = "live"
    /\ wk[w] = "off"
    /\ wk' = [wk EXCEPT ![w] = "polling"]
    /\ UNCHANGED <<main, server, managers, accepting, stopping, conns, crash>>

AppRestarts ==
    /\ ~crash /\ m_use_external_io /\ m_io_context = "stopped"
    /\ \A w \in Workers : wk[w] = "off"
    /\ \A t \in Stoppers : st[t] = "idle"
    /\ m_io_context' = "live"
    /\ UNCHANGED <<main, m_use_external_io, m_running, m_acceptor, managers,
                   accepting, wk, stopping, conns, crash>>

-----------------------------------------------------------------------------
Starting ==
    \/ Start
    \/ CreateAcceptor
    \/ ConfigureSsl
    \/ StartFails
    \/ SpawnAccept
    \/ SetRunning

Looping == Loop \/ LoopSkipped \/ LoopReturns

Stopping(t) ==
    \/ ClearRunning(t)
    \/ CloseAcceptor(t)
    \/ ShutdownManagers(t)
    \/ HaltContext(t)
    \/ FreeContext(t)
    \/ FreeContextInUse(t)
    \/ FreeNothing(t)
    \/ ClearPointer(t)

Leaving(w) == EnterRun(w) \/ LeaveRun(w) \/ EndHandler(w)

Working(w) ==
    \/ BeginHandler(w)
    \/ \E g \in Starts :
          \/ AcceptStarts(w, g)
          \/ CloseProbe(w, g)
          \/ Accept(w, g)
          \/ AcceptFails(w, g)
          \/ AcceptAborted(w, g)
    \/ \E c \in Conns : Acquire(w, c) \/ Denied(w, c) \/ EndConnection(w, c)

(* The server has stopped for good, or the program has crashed; not a step *)
(* of the program.                                                         *)
Stops ==
    /\ crash \/ (main = "idle" /\ mgr = MaxStarts /\ \A t \in Stoppers : st[t] = "idle")
    /\ UNCHANGED vars

Next ==
    \/ Starting
    \/ Looping
    \/ \E t \in Stoppers : StopCalled(t) \/ Stopping(t)
    \/ \E w \in Workers : Leaving(w) \/ Working(w) \/ AppRuns(w)
    \/ AppRestarts
    \/ Stops

Spec == Init /\ [][Next]_vars

(* Threads run, and handlers end; the application promises nothing. *)
Fairness ==
    /\ \A t \in Stoppers : WF_vars(Stopping(t))
    /\ \A w \in Workers : WF_vars(Leaving(w))

FairSpec == Spec /\ Fairness

-----------------------------------------------------------------------------
(* Properties *)

(* The variables keep their types, and the pointer to a deleted context is *)
(* kept no longer than its stop() runs.                                    *)
TypeOK ==
    /\ {m_use_external_io, m_running, crash} \subseteq BOOLEAN
    /\ main \in MainStages
    /\ m_io_context \in {"null", "live", "stopped", "freed"}
    /\ m_io_context = "freed" => \E t \in Stoppers : st[t] = "clear"
    /\ m_acceptor \in {"none", "open", "closed"}
    /\ mgr \in 0..MaxStarts
    /\ down \subseteq 0..MaxStarts
    /\ cnt \in [Starts -> Int]
    /\ acc \in [Starts -> AcceptStages]
    /\ failed \subseteq Starts
    /\ wk \in [Workers -> WorkerStages]
    /\ st \in [Stoppers -> StopStages]
    /\ by \in [Stoppers -> Workers \cup {Nobody}]
    /\ cn \in [Conns -> ConnStages]
    /\ gen \in [Conns -> 0..MaxStarts]

(* A server with a context of its own goes on accepting while it runs,     *)
(* unless accepting failed: the loop is spawned before m_running is set,   *)
(* but no thread runs it before loop(), and no stop() of an earlier life   *)
(* reaches this one.                                                       *)
AcceptsWhileRunning ==
    ~m_use_external_io /\ m_running =>
        acc[mgr] \in {"spawned", "waiting"} \/ mgr \in failed

(* With a context of its own the server's managers count exactly the       *)
(* permits that connections hold, through stops, the deletion of the       *)
(* context and new starts: no permit of an earlier manager is returned to  *)
(* a later one.                                                            *)
PermitsBalanced ==
    ~m_use_external_io =>
        \A g \in Starts : cnt[g] = Cardinality({c \in Held : gen[c] = g})

(* A stop() that gets to work makes every thread leave run(), unless the   *)
(* program crashes, or the application restarts its own context.           *)
StopEndsRun ==
    \A t \in Stoppers :
        st[t] = "managers" ~> (\A w \in Workers : wk[w] = "off") \/ crash
=============================================================================
