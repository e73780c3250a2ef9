--------------------- MODULE HttpServerLifecycleProofs ---------------------
(***************************************************************************)
(* What the server keeps through every overlap of start(), loop() and      *)
(* stop(), for all sets of workers, calls of stop() and connections.       *)
(***************************************************************************)
EXTENDS HttpServerLifecycle, FiniteSetTheorems, TLAPS

StartStages == {"acceptor", "ssl", "spawn", "flag"}

Calm == \A t \in Stoppers : st[t] = "idle"

(* TypeOK without the three Booleans *)
Typed ==
    /\ main \in MainStages
    /\ m_io_context \in {"null", "live", "stopped", "freed"}
    /\ m_acceptor \in {"none", "open", "closed"}
    /\ mgr \in 0..MaxStarts
    /\ down \subseteq 0..MaxStarts
    /\ cnt \in [Starts -> Int]
    /\ acc \in [Starts -> AcceptStages]
    /\ failed \subseteq Starts
    /\ wk \in [Workers -> WorkerStages]
    /\ st \in [Stoppers -> StopStages]
    /\ by \in [Stoppers -> Workers \cup {Nobody}]
    /\ cn \in [Conns -> ConnStages]
    /\ gen \in [Conns -> 0..MaxStarts]

Flags == {m_use_external_io, m_running, crash} \subseteq BOOLEAN

(* start() and stop() do not overlap but for the test of the flag, and no  *)
(* stop() is past its first operation while the server runs.               *)
Phases ==
    /\ main # "idle" => mgr \in Starts
    /\ main \in StartStages => ~m_running /\ Calm
    /\ m_running => \A t \in Stoppers : st[t] \in {"idle", "flag"}

(* The deleted context's pointer is cleared by who deleted it; only a      *)
(* context of the server's own is deleted.                                 *)
Freeing ==
    /\ m_io_context = "freed" => \E t \in Stoppers : st[t] = "clear"
    /\ \A t \in Stoppers : st[t] = "clear" => m_io_context \in {"null", "freed"}
    /\ m_use_external_io => \A t \in Stoppers : st[t] \notin {"sleep", "clear"}

-----------------------------------------------------------------------------
LEMMA InitTyped == Init => Typed /\ Flags /\ Phases /\ Freeing
<1> SUFFICES ASSUME Init
             PROVE  Typed /\ Flags /\ Phases /\ Freeing
  OBVIOUS
<1>1. Typed
  BY StartsAssumption
     DEF Init, Typed, MainStages, Starts, AcceptStages, WorkerStages, StopStages, ConnStages
<1>2. Flags
  BY Zenon DEF Init, Flags
<1>3. Phases
  BY DEF Init, Phases, StartStages
<1>4. Freeing
  BY DEF Init, Freeing
<1> QED
  BY <1>1, <1>2, <1>3, <1>4

LEMMA FlagsKept == Flags /\ [Next]_vars => Flags'
<1> SUFFICES ASSUME Flags, [Next]_vars
             PROVE  Flags'
  OBVIOUS
<1>1. m_use_external_io' = m_use_external_io
  BY DEF Next, Starting, Looping, Stopping, Leaving, Working, vars, server, managers,
     accepting, stopping, conns, Start, CreateAcceptor, ConfigureSsl, StartFails,
     SpawnAccept, SetRunning, Loop, LoopSkipped, LoopReturns, EnterRun, LeaveRun,
     BeginHandler, EndHandler, AcceptStarts, CloseProbe, Accept, AcceptFails,
     AcceptAborted, Acquire, Denied, EndConnection, StopCalled, ClearRunning,
     CloseAcceptor, ShutdownManagers, HaltContext, FreeContext, FreeContextInUse,
     FreeNothing, ClearPointer, AppRuns, AppRestarts, Stops
<1>2. m_running' \in BOOLEAN
  BY DEF Flags, Next, Starting, Looping, Stopping, Leaving, Working, vars, server, managers,
     accepting, stopping, conns, Start, CreateAcceptor, ConfigureSsl, StartFails,
     SpawnAccept, SetRunning, Loop, LoopSkipped, LoopReturns, EnterRun, LeaveRun,
     BeginHandler, EndHandler, AcceptStarts, CloseProbe, Accept, AcceptFails,
     AcceptAborted, Acquire, Denied, EndConnection, StopCalled, ClearRunning,
     CloseAcceptor, ShutdownManagers, HaltContext, FreeContext, FreeContextInUse,
     FreeNothing, ClearPointer, AppRuns, AppRestarts, Stops
<1>3. crash' \in BOOLEAN
  <2>1. ASSUME NEW w \in Workers, EnterRun(w) PROVE crash' \in BOOLEAN
    <3>1. crash' = (m_io_context \in {"null", "freed"})
      BY <2>1, Zenon DEF EnterRun
    <3>2. (m_io_context \in {"null", "freed"}) \in BOOLEAN
      OBVIOUS
    <3> QED
      BY <3>1, <3>2, Zenon
  <2>2. ASSUME NEW t \in Stoppers, HaltContext(t) PROVE crash' \in BOOLEAN
    BY <2>2, Zenon DEF HaltContext
  <2>3. ASSUME NEW t \in Stoppers, FreeContextInUse(t) PROVE crash' \in BOOLEAN
    BY <2>3, Zenon DEF FreeContextInUse
  <2>4. \/ crash' = crash
        \/ \E w \in Workers : EnterRun(w)
        \/ \E t \in Stoppers : HaltContext(t) \/ FreeContextInUse(t)
    BY DEF Next, Starting, Looping, Stopping, Leaving, Working, vars, server, managers,
       accepting, stopping, conns, Start, CreateAcceptor, ConfigureSsl, StartFails,
       SpawnAccept, SetRunning, Loop, LoopSkipped, LoopReturns, LeaveRun,
       BeginHandler, EndHandler, AcceptStarts, CloseProbe, Accept, AcceptFails,
       AcceptAborted, Acquire, Denied, EndConnection, StopCalled, ClearRunning,
       CloseAcceptor, ShutdownManagers, FreeContext,
       FreeNothing, ClearPointer, AppRuns, AppRestarts, Stops
  <2> QED
    BY <2>1, <2>2, <2>3, <2>4, Zenon DEF Flags
<1> QED
  BY <1>1, <1>2, <1>3 DEF Flags

(* One manager's count changes. *)
LEMMA CountChanges ==
    ASSUME NEW f \in [Starts -> Int], NEW g, NEW n \in Int
    PROVE  [f EXCEPT ![g] = @ + n] \in [Starts -> Int] /\ [f EXCEPT ![g] = @ - n] \in [Starts -> Int]
<1>1. \A h \in Starts : f[h] \in Int
  OBVIOUS
<1>2. CASE g \in Starts
  BY <1>1, <1>2
<1>3. CASE g \notin Starts
  BY <1>3
<1> QED
  BY <1>2, <1>3

LEMMA HeldFinite == IsFiniteSet(Held) /\ Cardinality(Held) \in Nat
<1>1. Held \subseteq Conns
  BY DEF Held
<1> QED
  BY <1>1, SetsAssumption, FS_Subset, FS_CardinalityType

LEMMA TypedKept == Typed /\ [Next]_vars => Typed'
<1> SUFFICES ASSUME Typed, [Next]_vars
             PROVE  Typed'
  OBVIOUS
<1>1. CASE Start
  <2>1. mgr + 1 \in 0..MaxStarts
    BY <1>1, StartsAssumption DEF Start, Typed
  <2> QED
    BY <1>1, <2>1 DEF Start, MainGoes, accepting, stopping, conns, Typed, MainStages
<1>2. CASE CreateAcceptor
  BY <1>2 DEF CreateAcceptor, MainGoes, managers, accepting, stopping, conns, Typed,
     MainStages, AcceptStages, WorkerStages, StopStages, ConnStages
<1>3. CASE ConfigureSsl
  BY <1>3 DEF ConfigureSsl, MainGoes, server, managers, accepting, stopping, conns,
     Typed, MainStages, AcceptStages, WorkerStages, StopStages, ConnStages
<1>4. CASE StartFails
  BY <1>4 DEF StartFails, MainGoes, server, managers, accepting, stopping, conns, Typed,
     MainStages, AcceptStages, WorkerStages, StopStages, ConnStages
<1>5. CASE SpawnAccept
  BY <1>5 DEF SpawnAccept, MainGoes, server, managers, stopping, conns, Typed,
     MainStages, AcceptStages, WorkerStages, StopStages, ConnStages
<1>6. CASE SetRunning
  BY <1>6 DEF SetRunning, MainGoes, managers, accepting, stopping, conns, Typed,
     MainStages, AcceptStages, WorkerStages, StopStages, ConnStages
<1>7. CASE Loop
  BY <1>7 DEF Loop, MainGoes, server, managers, accepting, stopping, conns, Typed,
     MainStages, AcceptStages, WorkerStages, StopStages, ConnStages
<1>8. CASE LoopSkipped
  BY <1>8 DEF LoopSkipped, MainGoes, server, managers, accepting, stopping, conns, Typed,
     MainStages, AcceptStages, WorkerStages, StopStages, ConnStages
<1>9. CASE LoopReturns
  BY <1>9 DEF LoopReturns, MainGoes, server, managers, accepting, stopping, conns, Typed,
     MainStages, AcceptStages, WorkerStages, StopStages, ConnStages
<1>10. ASSUME NEW t \in Stoppers, StopCalled(t) PROVE Typed'
  BY <1>10 DEF StopCalled, StopGoes, server, managers, accepting, conns, Typed,
     MainStages, AcceptStages, WorkerStages, StopStages, ConnStages
<1>11. ASSUME NEW t \in Stoppers, ClearRunning(t) PROVE Typed'
  BY <1>11 DEF ClearRunning, StopGoes, managers, accepting, conns, Typed, MainStages,
     AcceptStages, WorkerStages, StopStages, ConnStages
<1>12. ASSUME NEW t \in Stoppers, CloseAcceptor(t) PROVE Typed'
  BY <1>12 DEF CloseAcceptor, StopGoes, managers, conns, Typed, MainStages, AcceptStages,
     WorkerStages, StopStages, ConnStages
<1>13. ASSUME NEW t \in Stoppers, ShutdownManagers(t) PROVE Typed'
  BY <1>13 DEF ShutdownManagers, StopGoes, server, managers, accepting, conns, Typed,
     MainStages, AcceptStages, WorkerStages, StopStages, ConnStages
<1>14. ASSUME NEW t \in Stoppers, HaltContext(t) PROVE Typed'
  BY <1>14 DEF HaltContext, StopGoes, AfterHalt, managers, accepting, conns, Typed,
     MainStages, AcceptStages, WorkerStages, StopStages, ConnStages
<1>15. ASSUME NEW t \in Stoppers, FreeContext(t) PROVE Typed'
  <2>1. cnt' \in [Starts -> Int]
    <3>1. cnt \in [Starts -> Int]
      BY DEF Typed
    <3>2. [cnt EXCEPT ![mgr] = @ - Cardinality(Held)] \in [Starts -> Int]
      BY <3>1, HeldFinite, CountChanges
    <3>3. cnt' = cnt \/ cnt' = [cnt EXCEPT ![mgr] = @ - Cardinality(Held)]
      BY <1>15 DEF FreeContext
    <3> QED
      BY <3>1, <3>2, <3>3
  <2>2. acc' \in [Starts -> AcceptStages] /\ cn' \in [Conns -> ConnStages]
    BY <1>15 DEF FreeContext, Typed, AcceptStages, ConnStages
  <2>3. st' \in [Stoppers -> StopStages]
    BY <1>15 DEF FreeContext, StopGoes, Typed, StopStages
  <2> QED
    BY <1>15, <2>1, <2>2, <2>3 DEF FreeContext, Typed
<1>16. ASSUME NEW t \in Stoppers, FreeContextInUse(t) PROVE Typed'
  BY <1>16 DEF FreeContextInUse, server, managers, accepting, stopping, conns, Typed,
     MainStages, AcceptStages, WorkerStages, StopStages, ConnStages
<1>17. ASSUME NEW t \in Stoppers, FreeNothing(t) PROVE Typed'
  BY <1>17 DEF FreeNothing, StopGoes, server, managers, accepting, conns, Typed,
     MainStages, AcceptStages, WorkerStages, StopStages, ConnStages
<1>18. ASSUME NEW t \in Stoppers, ClearPointer(t) PROVE Typed'
  BY <1>18 DEF ClearPointer, StopGoes, managers, accepting, conns, Typed, MainStages,
     AcceptStages, WorkerStages, StopStages, ConnStages
<1>19. ASSUME NEW w \in Workers, EnterRun(w) PROVE Typed'
  BY <1>19 DEF EnterRun, server, managers, accepting, stopping, conns, Typed, MainStages,
     AcceptStages, WorkerStages, StopStages, ConnStages
<1>20. ASSUME NEW w \in Workers, LeaveRun(w) PROVE Typed'
  BY <1>20 DEF LeaveRun, server, managers, accepting, stopping, conns, Typed, MainStages,
     AcceptStages, WorkerStages, StopStages, ConnStages
<1>21. ASSUME NEW w \in Workers, EndHandler(w) PROVE Typed'
  BY <1>21 DEF EndHandler, server, managers, accepting, stopping, conns, Typed,
     MainStages, AcceptStages, WorkerStages, StopStages, ConnStages
<1>22. ASSUME NEW w \in Workers, BeginHandler(w) PROVE Typed'
  BY <1>22 DEF BeginHandler, server, managers, accepting, stopping, conns, Typed,
     MainStages, AcceptStages, WorkerStages, StopStages, ConnStages
<1>23. ASSUME NEW w \in Workers, AppRuns(w) PROVE Typed'
  BY <1>23 DEF AppRuns, server, managers, accepting, stopping, conns, Typed, MainStages,
     AcceptStages, WorkerStages, StopStages, ConnStages
<1>24. ASSUME NEW w \in Workers, NEW g \in Starts, AcceptStarts(w, g) PROVE Typed'
  BY <1>24 DEF AcceptStarts, Running, NextAccept, server, managers, stopping, conns,
     Typed, MainStages, AcceptStages, WorkerStages, StopStages, ConnStages
<1>25. ASSUME NEW w \in Workers, NEW g \in Starts, CloseProbe(w, g) PROVE Typed'
  BY <1>25 DEF CloseProbe, Running, NextAccept, server, managers, stopping, conns, Typed,
     MainStages, AcceptStages, WorkerStages, StopStages, ConnStages
<1>26. ASSUME NEW w \in Workers, NEW g \in Starts, Accept(w, g) PROVE Typed'
  BY <1>26 DEF Accept, Running, NextAccept, server, managers, stopping, Typed,
     MainStages, AcceptStages, WorkerStages, StopStages, ConnStages
<1>27. ASSUME NEW w \in Workers, NEW g \in Starts, AcceptFails(w, g) PROVE Typed'
  BY <1>27 DEF AcceptFails, Running, server, managers, stopping, conns, Typed,
     MainStages, AcceptStages, WorkerStages, StopStages, ConnStages
<1>28. ASSUME NEW w \in Workers, NEW g \in Starts, AcceptAborted(w, g) PROVE Typed'
  BY <1>28 DEF AcceptAborted, Running, server, managers, stopping, conns, Typed,
     MainStages, AcceptStages, WorkerStages, StopStages, ConnStages
<1>29. ASSUME NEW w \in Workers, NEW c \in Conns, Acquire(w, c) PROVE Typed'
  <2>1. cnt' \in [Starts -> Int]
    <3>1. cnt \in [Starts -> Int]
      BY DEF Typed
    <3>2. [cnt EXCEPT ![mgr] = @ + 1] \in [Starts -> Int]
      BY <3>1, CountChanges
    <3> QED
      BY <1>29, <3>2 DEF Acquire
  <2> QED
    BY <1>29, <2>1 DEF Acquire, server, accepting, stopping, Typed, ConnStages
<1>30. ASSUME NEW w \in Workers, NEW c \in Conns, Denied(w, c) PROVE Typed'
  BY <1>30 DEF Denied, Running, server, managers, accepting, stopping, Typed, MainStages,
     AcceptStages, WorkerStages, StopStages, ConnStages
<1>31. ASSUME NEW w \in Workers, NEW c \in Conns, EndConnection(w, c) PROVE Typed'
  <2>1. cnt' \in [Starts -> Int]
    <3>1. cnt \in [Starts -> Int]
      BY DEF Typed
    <3>2. [cnt EXCEPT ![mgr] = @ - 1] \in [Starts -> Int]
      BY <3>1, CountChanges
    <3>3. cnt' = cnt \/ cnt' = [cnt EXCEPT ![mgr] = @ - 1]
      BY <1>31 DEF EndConnection
    <3> QED
      BY <3>1, <3>2, <3>3
  <2> QED
    BY <1>31, <2>1 DEF EndConnection, server, accepting, stopping, Typed, ConnStages
<1>32. CASE AppRestarts
  BY <1>32 DEF AppRestarts, managers, accepting, stopping, conns, Typed, MainStages,
     AcceptStages, WorkerStages, StopStages, ConnStages
<1>33. CASE UNCHANGED vars
  BY <1>33 DEF vars, server, managers, accepting, stopping, conns, Typed, MainStages,
     AcceptStages, WorkerStages, StopStages, ConnStages
<1> QED
  BY <1>1, <1>2, <1>3, <1>4, <1>5, <1>6, <1>7, <1>8, <1>9, <1>10, <1>11, <1>12, <1>13,
     <1>14, <1>15, <1>16, <1>17, <1>18, <1>19, <1>20, <1>21, <1>22, <1>23, <1>24, <1>25,
     <1>26, <1>27, <1>28, <1>29, <1>30, <1>31, <1>32, <1>33 DEF Next, Starting, Looping,
     Stopping, Leaving, Working, Stops

LEMMA PhasesKept == Typed /\ Flags /\ Phases /\ [Next]_vars => Phases'
<1> SUFFICES ASSUME Typed, Flags, Phases, [Next]_vars
             PROVE  Phases'
  OBVIOUS
<1>1. CASE Start
  BY <1>1, StartsAssumption DEF Start, MainGoes, accepting, stopping, conns, Typed,
     Flags, Phases, StartStages, Calm, Starts
<1>2. CASE CreateAcceptor
  BY <1>2 DEF CreateAcceptor, MainGoes, managers, accepting, stopping, conns, Typed,
     Flags, Phases, StartStages, Calm
<1>3. CASE ConfigureSsl
  BY <1>3 DEF ConfigureSsl, MainGoes, server, managers, accepting, stopping, conns,
     Typed, Flags, Phases, StartStages, Calm
<1>4. CASE StartFails
  BY <1>4 DEF StartFails, MainGoes, server, managers, accepting, stopping, conns, Typed,
     Flags, Phases, StartStages, Calm
<1>5. CASE SpawnAccept
  BY <1>5 DEF SpawnAccept, MainGoes, server, managers, stopping, conns, Typed, Flags,
     Phases, StartStages, Calm
<1>6. CASE SetRunning
  BY <1>6 DEF SetRunning, MainGoes, managers, accepting, stopping, conns, Typed, Flags,
     Phases, StartStages, Calm
<1>7. CASE Loop
  BY <1>7 DEF Loop, MainGoes, server, managers, accepting, stopping, conns, Typed, Flags,
     Phases, StartStages, Calm
<1>8. CASE LoopSkipped
  BY <1>8 DEF LoopSkipped, MainGoes, server, managers, accepting, stopping, conns, Typed,
     Flags, Phases, StartStages, Calm
<1>9. CASE LoopReturns
  BY <1>9 DEF LoopReturns, MainGoes, server, managers, accepting, stopping, conns, Typed,
     Flags, Phases, StartStages, Calm
<1>10. ASSUME NEW t \in Stoppers, StopCalled(t) PROVE Phases'
  BY <1>10 DEF StopCalled, StopGoes, server, managers, accepting, conns, Typed, Flags,
     Phases, StartStages, Calm
<1>11. ASSUME NEW t \in Stoppers, ClearRunning(t) PROVE Phases'
  BY <1>11 DEF ClearRunning, StopGoes, managers, accepting, conns, Typed, Flags, Phases,
     StartStages, Calm
<1>12. ASSUME NEW t \in Stoppers, CloseAcceptor(t) PROVE Phases'
  BY <1>12 DEF CloseAcceptor, StopGoes, managers, conns, Typed, Flags, Phases,
     StartStages, Calm
<1>13. ASSUME NEW t \in Stoppers, ShutdownManagers(t) PROVE Phases'
  BY <1>13 DEF ShutdownManagers, StopGoes, server, managers, accepting, conns, Typed,
     Flags, Phases, StartStages, Calm
<1>14. ASSUME NEW t \in Stoppers, HaltContext(t) PROVE Phases'
  BY <1>14 DEF HaltContext, StopGoes, AfterHalt, managers, accepting, conns, Typed,
     Flags, Phases, StartStages, Calm
<1>15. ASSUME NEW t \in Stoppers, FreeContext(t) PROVE Phases'
  BY <1>15 DEF FreeContext, StopGoes, Held, Alive, Typed, Flags, Phases, StartStages, Calm
<1>16. ASSUME NEW t \in Stoppers, FreeContextInUse(t) PROVE Phases'
  BY <1>16 DEF FreeContextInUse, server, managers, accepting, stopping, conns, Typed,
     Flags, Phases, StartStages, Calm
<1>17. ASSUME NEW t \in Stoppers, FreeNothing(t) PROVE Phases'
  BY <1>17 DEF FreeNothing, StopGoes, server, managers, accepting, conns, Typed, Flags,
     Phases, StartStages, Calm
<1>18. ASSUME NEW t \in Stoppers, ClearPointer(t) PROVE Phases'
  BY <1>18 DEF ClearPointer, StopGoes, managers, accepting, conns, Typed, Flags, Phases,
     StartStages, Calm
<1>19. ASSUME NEW w \in Workers, EnterRun(w) PROVE Phases'
  BY <1>19 DEF EnterRun, server, managers, accepting, stopping, conns, Typed, Flags,
     Phases, StartStages, Calm
<1>20. ASSUME NEW w \in Workers, LeaveRun(w) PROVE Phases'
  BY <1>20 DEF LeaveRun, server, managers, accepting, stopping, conns, Typed, Flags,
     Phases, StartStages, Calm
<1>21. ASSUME NEW w \in Workers, EndHandler(w) PROVE Phases'
  BY <1>21 DEF EndHandler, server, managers, accepting, stopping, conns, Typed, Flags,
     Phases, StartStages, Calm
<1>22. ASSUME NEW w \in Workers, BeginHandler(w) PROVE Phases'
  BY <1>22 DEF BeginHandler, server, managers, accepting, stopping, conns, Typed, Flags,
     Phases, StartStages, Calm
<1>23. ASSUME NEW w \in Workers, AppRuns(w) PROVE Phases'
  BY <1>23 DEF AppRuns, server, managers, accepting, stopping, conns, Typed, Flags,
     Phases, StartStages, Calm
<1>24. ASSUME NEW w \in Workers, NEW g \in Starts, AcceptStarts(w, g) PROVE Phases'
  BY <1>24 DEF AcceptStarts, Running, NextAccept, server, managers, stopping, conns,
     Typed, Flags, Phases, StartStages, Calm
<1>25. ASSUME NEW w \in Workers, NEW g \in Starts, CloseProbe(w, g) PROVE Phases'
  BY <1>25 DEF CloseProbe, Running, NextAccept, server, managers, stopping, conns, Typed,
     Flags, Phases, StartStages, Calm
<1>26. ASSUME NEW w \in Workers, NEW g \in Starts, Accept(w, g) PROVE Phases'
  BY <1>26 DEF Accept, Running, NextAccept, server, managers, stopping, Typed, Flags,
     Phases, StartStages, Calm
<1>27. ASSUME NEW w \in Workers, NEW g \in Starts, AcceptFails(w, g) PROVE Phases'
  BY <1>27 DEF AcceptFails, Running, server, managers, stopping, conns, Typed, Flags,
     Phases, StartStages, Calm
<1>28. ASSUME NEW w \in Workers, NEW g \in Starts, AcceptAborted(w, g) PROVE Phases'
  BY <1>28 DEF AcceptAborted, Running, server, managers, stopping, conns, Typed, Flags,
     Phases, StartStages, Calm
<1>29. ASSUME NEW w \in Workers, NEW c \in Conns, Acquire(w, c) PROVE Phases'
  BY <1>29 DEF Acquire, Running, server, accepting, stopping, Typed, Flags, Phases,
     StartStages, Calm
<1>30. ASSUME NEW w \in Workers, NEW c \in Conns, Denied(w, c) PROVE Phases'
  BY <1>30 DEF Denied, Running, server, managers, accepting, stopping, Typed, Flags,
     Phases, StartStages, Calm
<1>31. ASSUME NEW w \in Workers, NEW c \in Conns, EndConnection(w, c) PROVE Phases'
  BY <1>31 DEF EndConnection, Running, server, accepting, stopping, Typed, Flags, Phases,
     StartStages, Calm
<1>32. CASE AppRestarts
  BY <1>32 DEF AppRestarts, managers, accepting, stopping, conns, Typed, Flags, Phases,
     StartStages, Calm
<1>33. CASE UNCHANGED vars
  BY <1>33 DEF vars, server, managers, accepting, stopping, conns, Typed, Flags, Phases,
     StartStages, Calm
<1> QED
  BY <1>1, <1>2, <1>3, <1>4, <1>5, <1>6, <1>7, <1>8, <1>9, <1>10, <1>11, <1>12, <1>13,
     <1>14, <1>15, <1>16, <1>17, <1>18, <1>19, <1>20, <1>21, <1>22, <1>23, <1>24, <1>25,
     <1>26, <1>27, <1>28, <1>29, <1>30, <1>31, <1>32, <1>33 DEF Next, Starting, Looping,
     Stopping, Leaving, Working, Stops

LEMMA FreeingKept == Typed /\ Flags /\ Freeing /\ [Next]_vars => Freeing'
<1> SUFFICES ASSUME Typed, Flags, Freeing, [Next]_vars
             PROVE  Freeing'
  OBVIOUS
<1>1. CASE Start
  BY <1>1 DEF Start, MainGoes, accepting, stopping, conns, Typed, Flags, Freeing
<1>2. CASE CreateAcceptor
  BY <1>2 DEF CreateAcceptor, MainGoes, managers, accepting, stopping, conns, Typed,
     Flags, Freeing
<1>3. CASE ConfigureSsl
  BY <1>3 DEF ConfigureSsl, MainGoes, server, managers, accepting, stopping, conns,
     Typed, Flags, Freeing
<1>4. CASE StartFails
  BY <1>4 DEF StartFails, MainGoes, server, managers, accepting, stopping, conns, Typed,
     Flags, Freeing
<1>5. CASE SpawnAccept
  BY <1>5 DEF SpawnAccept, MainGoes, server, managers, stopping, conns, Typed, Flags,
     Freeing
<1>6. CASE SetRunning
  BY <1>6 DEF SetRunning, MainGoes, managers, accepting, stopping, conns, Typed, Flags,
     Freeing
<1>7. CASE Loop
  BY <1>7 DEF Loop, MainGoes, server, managers, accepting, stopping, conns, Typed, Flags,
     Freeing
<1>8. CASE LoopSkipped
  BY <1>8 DEF LoopSkipped, MainGoes, server, managers, accepting, stopping, conns, Typed,
     Flags, Freeing
<1>9. CASE LoopReturns
  BY <1>9 DEF LoopReturns, MainGoes, server, managers, accepting, stopping, conns, Typed,
     Flags, Freeing
<1>10. ASSUME NEW t \in Stoppers, StopCalled(t) PROVE Freeing'
  BY <1>10 DEF StopCalled, StopGoes, server, managers, accepting, conns, Typed, Flags,
     Freeing
<1>11. ASSUME NEW t \in Stoppers, ClearRunning(t) PROVE Freeing'
  BY <1>11 DEF ClearRunning, StopGoes, managers, accepting, conns, Typed, Flags, Freeing
<1>12. ASSUME NEW t \in Stoppers, CloseAcceptor(t) PROVE Freeing'
  BY <1>12 DEF CloseAcceptor, StopGoes, managers, conns, Typed, Flags, Freeing
<1>13. ASSUME NEW t \in Stoppers, ShutdownManagers(t) PROVE Freeing'
  BY <1>13 DEF ShutdownManagers, StopGoes, server, managers, accepting, conns, Typed,
     Flags, Freeing
<1>14. ASSUME NEW t \in Stoppers, HaltContext(t) PROVE Freeing'
  BY <1>14 DEF HaltContext, StopGoes, AfterHalt, managers, accepting, conns, Typed,
     Flags, Freeing
<1>15. ASSUME NEW t \in Stoppers, FreeContext(t) PROVE Freeing'
  BY <1>15 DEF FreeContext, StopGoes, Held, Alive, Typed, Flags, Freeing
<1>16. ASSUME NEW t \in Stoppers, FreeContextInUse(t) PROVE Freeing'
  BY <1>16 DEF FreeContextInUse, server, managers, accepting, stopping, conns, Typed,
     Flags, Freeing
<1>17. ASSUME NEW t \in Stoppers, FreeNothing(t) PROVE Freeing'
  BY <1>17 DEF FreeNothing, StopGoes, server, managers, accepting, conns, Typed, Flags,
     Freeing
<1>18. ASSUME NEW t \in Stoppers, ClearPointer(t) PROVE Freeing'
  BY <1>18 DEF ClearPointer, StopGoes, managers, accepting, conns, Typed, Flags, Freeing
<1>19. ASSUME NEW w \in Workers, EnterRun(w) PROVE Freeing'
  BY <1>19 DEF EnterRun, server, managers, accepting, stopping, conns, Typed, Flags,
     Freeing
<1>20. ASSUME NEW w \in Workers, LeaveRun(w) PROVE Freeing'
  BY <1>20 DEF LeaveRun, server, managers, accepting, stopping, conns, Typed, Flags,
     Freeing
<1>21. ASSUME NEW w \in Workers, EndHandler(w) PROVE Freeing'
  BY <1>21 DEF EndHandler, server, managers, accepting, stopping, conns, Typed, Flags,
     Freeing
<1>22. ASSUME NEW w \in Workers, BeginHandler(w) PROVE Freeing'
  BY <1>22 DEF BeginHandler, server, managers, accepting, stopping, conns, Typed, Flags,
     Freeing
<1>23. ASSUME NEW w \in Workers, AppRuns(w) PROVE Freeing'
  BY <1>23 DEF AppRuns, server, managers, accepting, stopping, conns, Typed, Flags,
     Freeing
<1>24. ASSUME NEW w \in Workers, NEW g \in Starts, AcceptStarts(w, g) PROVE Freeing'
  BY <1>24 DEF AcceptStarts, Running, NextAccept, server, managers, stopping, conns,
     Typed, Flags, Freeing
<1>25. ASSUME NEW w \in Workers, NEW g \in Starts, CloseProbe(w, g) PROVE Freeing'
  BY <1>25 DEF CloseProbe, Running, NextAccept, server, managers, stopping, conns, Typed,
     Flags, Freeing
<1>26. ASSUME NEW w \in Workers, NEW g \in Starts, Accept(w, g) PROVE Freeing'
  BY <1>26 DEF Accept, Running, NextAccept, server, managers, stopping, Typed, Flags,
     Freeing
<1>27. ASSUME NEW w \in Workers, NEW g \in Starts, AcceptFails(w, g) PROVE Freeing'
  BY <1>27 DEF AcceptFails, Running, server, managers, stopping, conns, Typed, Flags,
     Freeing
<1>28. ASSUME NEW w \in Workers, NEW g \in Starts, AcceptAborted(w, g) PROVE Freeing'
  BY <1>28 DEF AcceptAborted, Running, server, managers, stopping, conns, Typed, Flags,
     Freeing
<1>29. ASSUME NEW w \in Workers, NEW c \in Conns, Acquire(w, c) PROVE Freeing'
  BY <1>29 DEF Acquire, Running, server, accepting, stopping, Typed, Flags, Freeing
<1>30. ASSUME NEW w \in Workers, NEW c \in Conns, Denied(w, c) PROVE Freeing'
  BY <1>30 DEF Denied, Running, server, managers, accepting, stopping, Typed, Flags,
     Freeing
<1>31. ASSUME NEW w \in Workers, NEW c \in Conns, EndConnection(w, c) PROVE Freeing'
  BY <1>31 DEF EndConnection, Running, server, accepting, stopping, Typed, Flags, Freeing
<1>32. CASE AppRestarts
  BY <1>32 DEF AppRestarts, managers, accepting, stopping, conns, Typed, Flags, Freeing
<1>33. CASE UNCHANGED vars
  BY <1>33 DEF vars, server, managers, accepting, stopping, conns, Typed, Flags, Freeing
<1> QED
  BY <1>1, <1>2, <1>3, <1>4, <1>5, <1>6, <1>7, <1>8, <1>9, <1>10, <1>11, <1>12, <1>13,
     <1>14, <1>15, <1>16, <1>17, <1>18, <1>19, <1>20, <1>21, <1>22, <1>23, <1>24, <1>25,
     <1>26, <1>27, <1>28, <1>29, <1>30, <1>31, <1>32, <1>33 DEF Next, Starting, Looping,
     Stopping, Leaving, Working, Stops

-----------------------------------------------------------------------------
(* A server with an io_context of its own: its threads are those of        *)
(* loop(); the context is live from start() until a stop() halts it; the   *)
(* connections that hold a permit are the last manager's, and there are    *)
(* none when a context is made.                                            *)
Owned ==
    ~m_use_external_io =>
        /\ main # "loop" => \A w \in Workers : wk[w] = "off"
        /\ m_running \/ main \in StartStages => m_io_context = "live"
        /\ m_running => mgr \in Starts /\ (acc[mgr] \in {"spawned", "waiting"} \/ mgr \in failed)
        /\ main = "flag" => acc[mgr] = "spawned"
        /\ m_io_context \in {"null", "freed"} => \A c \in Conns : cn[c] # "held"
        /\ main \in StartStages => \A c \in Conns : cn[c] # "held"
        /\ m_io_context \in {"live", "stopped"} =>
              \/ m_running \/ main \in StartStages
              \/ \E t \in Stoppers : st[t] \in {"acceptor", "managers", "halt", "sleep"}
              \/ main = "idle" /\ \A c \in Conns : cn[c] # "held"
        /\ \A c \in Conns : cn[c] = "held" => gen[c] = mgr /\ mgr \in Starts

LEMMA InitOwned == Init => Owned
  BY DEF Init, Owned, StartStages

LEMMA OwnedKept == Typed /\ Flags /\ Phases /\ Freeing /\ Owned /\ [Next]_vars => Owned'
<1> SUFFICES ASSUME Typed, Flags, Phases, Freeing, Owned, [Next]_vars
             PROVE  Owned'
  OBVIOUS
<1>1. CASE Start
  BY <1>1 DEF Start, MainGoes, accepting, stopping, conns, Typed, Flags, Phases, Freeing,
     Owned, StartStages, Calm
<1>2. CASE CreateAcceptor
  BY <1>2 DEF CreateAcceptor, MainGoes, managers, accepting, stopping, conns, Typed,
     Flags, Phases, Freeing, Owned, StartStages, Calm
<1>3. CASE ConfigureSsl
  BY <1>3 DEF ConfigureSsl, MainGoes, server, managers, accepting, stopping, conns,
     Typed, Flags, Phases, Freeing, Owned, StartStages, Calm
<1>4. CASE StartFails
  BY <1>4 DEF StartFails, MainGoes, server, managers, accepting, stopping, conns, Typed,
     Flags, Phases, Freeing, Owned, StartStages, Calm
<1>5. CASE SpawnAccept
  BY <1>5 DEF SpawnAccept, MainGoes, server, managers, stopping, conns, Typed, Flags,
     Phases, Freeing, Owned, StartStages, Calm
<1>6. CASE SetRunning
  BY <1>6 DEF SetRunning, MainGoes, managers, accepting, stopping, conns, Typed, Flags,
     Phases, Freeing, Owned, StartStages, Calm
<1>7. CASE Loop
  BY <1>7 DEF Loop, MainGoes, server, managers, accepting, stopping, conns, Typed, Flags,
     Phases, Freeing, Owned, StartStages, Calm
<1>8. CASE LoopSkipped
  BY <1>8 DEF LoopSkipped, MainGoes, server, managers, accepting, stopping, conns, Typed,
     Flags, Phases, Freeing, Owned, StartStages, Calm
<1>9. CASE LoopReturns
  BY <1>9 DEF LoopReturns, MainGoes, server, managers, accepting, stopping, conns, Typed,
     Flags, Phases, Freeing, Owned, StartStages, Calm
<1>10. ASSUME NEW t \in Stoppers, StopCalled(t) PROVE Owned'
  BY <1>10 DEF StopCalled, StopGoes, server, managers, accepting, conns, Typed, Flags,
     Phases, Freeing, Owned, StartStages, Calm
<1>11. ASSUME NEW t \in Stoppers, ClearRunning(t) PROVE Owned'
  BY <1>11 DEF ClearRunning, StopGoes, managers, accepting, conns, Typed, Flags, Phases,
     Freeing, Owned, StartStages, Calm
<1>12. ASSUME NEW t \in Stoppers, CloseAcceptor(t) PROVE Owned'
  BY <1>12 DEF CloseAcceptor, StopGoes, managers, conns, Typed, Flags, Phases, Freeing,
     Owned, StartStages, Calm
<1>13. ASSUME NEW t \in Stoppers, ShutdownManagers(t) PROVE Owned'
  BY <1>13 DEF ShutdownManagers, StopGoes, server, managers, accepting, conns, Typed,
     Flags, Phases, Freeing, Owned, StartStages, Calm
<1>14. ASSUME NEW t \in Stoppers, HaltContext(t) PROVE Owned'
  BY <1>14 DEF HaltContext, StopGoes, AfterHalt, managers, accepting, conns, Typed,
     Flags, Phases, Freeing, Owned, StartStages, Calm
<1>15. ASSUME NEW t \in Stoppers, FreeContext(t) PROVE Owned'
  BY <1>15 DEF FreeContext, StopGoes, Held, Alive, Typed, Flags, Phases, Freeing, Owned,
     StartStages, Calm
<1>16. ASSUME NEW t \in Stoppers, FreeContextInUse(t) PROVE Owned'
  BY <1>16 DEF FreeContextInUse, server, managers, accepting, stopping, conns, Typed,
     Flags, Phases, Freeing, Owned, StartStages, Calm
<1>17. ASSUME NEW t \in Stoppers, FreeNothing(t) PROVE Owned'
  BY <1>17 DEF FreeNothing, StopGoes, server, managers, accepting, conns, Typed, Flags,
     Phases, Freeing, Owned, StartStages, Calm
<1>18. ASSUME NEW t \in Stoppers, ClearPointer(t) PROVE Owned'
  BY <1>18 DEF ClearPointer, StopGoes, managers, accepting, conns, Typed, Flags, Phases,
     Freeing, Owned, StartStages, Calm
<1>19. ASSUME NEW w \in Workers, EnterRun(w) PROVE Owned'
  BY <1>19 DEF EnterRun, server, managers, accepting, stopping, conns, Typed, Flags,
     Phases, Freeing, Owned, StartStages, Calm
<1>20. ASSUME NEW w \in Workers, LeaveRun(w) PROVE Owned'
  BY <1>20 DEF LeaveRun, server, managers, accepting, stopping, conns, Typed, Flags,
     Phases, Freeing, Owned, StartStages, Calm
<1>21. ASSUME NEW w \in Workers, EndHandler(w) PROVE Owned'
  BY <1>21 DEF EndHandler, server, managers, accepting, stopping, conns, Typed, Flags,
     Phases, Freeing, Owned, StartStages, Calm
<1>22. ASSUME NEW w \in Workers, BeginHandler(w) PROVE Owned'
  BY <1>22 DEF BeginHandler, server, managers, accepting, stopping, conns, Typed, Flags,
     Phases, Freeing, Owned, StartStages, Calm
<1>23. ASSUME NEW w \in Workers, AppRuns(w) PROVE Owned'
  BY <1>23 DEF AppRuns, server, managers, accepting, stopping, conns, Typed, Flags,
     Phases, Freeing, Owned, StartStages, Calm
<1>24. ASSUME NEW w \in Workers, NEW g \in Starts, AcceptStarts(w, g) PROVE Owned'
  BY <1>24 DEF AcceptStarts, Running, NextAccept, server, managers, stopping, conns,
     Typed, Flags, Phases, Freeing, Owned, StartStages, Calm
<1>25. ASSUME NEW w \in Workers, NEW g \in Starts, CloseProbe(w, g) PROVE Owned'
  BY <1>25 DEF CloseProbe, Running, NextAccept, server, managers, stopping, conns, Typed,
     Flags, Phases, Freeing, Owned, StartStages, Calm
<1>26. ASSUME NEW w \in Workers, NEW g \in Starts, Accept(w, g) PROVE Owned'
  BY <1>26 DEF Accept, Running, NextAccept, server, managers, stopping, Typed, Flags,
     Phases, Freeing, Owned, StartStages, Calm
<1>27. ASSUME NEW w \in Workers, NEW g \in Starts, AcceptFails(w, g) PROVE Owned'
  BY <1>27 DEF AcceptFails, Running, server, managers, stopping, conns, Typed, Flags,
     Phases, Freeing, Owned, StartStages, Calm
<1>28. ASSUME NEW w \in Workers, NEW g \in Starts, AcceptAborted(w, g) PROVE Owned'
  BY <1>28 DEF AcceptAborted, Running, server, managers, stopping, conns, Typed, Flags,
     Phases, Freeing, Owned, StartStages, Calm
<1>29. ASSUME NEW w \in Workers, NEW c \in Conns, Acquire(w, c) PROVE Owned'
  BY <1>29 DEF Acquire, Running, server, accepting, stopping, Typed, Flags, Phases,
     Freeing, Owned, StartStages, Calm
<1>30. ASSUME NEW w \in Workers, NEW c \in Conns, Denied(w, c) PROVE Owned'
  BY <1>30 DEF Denied, Running, server, managers, accepting, stopping, Typed, Flags,
     Phases, Freeing, Owned, StartStages, Calm
<1>31. ASSUME NEW w \in Workers, NEW c \in Conns, EndConnection(w, c) PROVE Owned'
  BY <1>31 DEF EndConnection, Running, server, accepting, stopping, Typed, Flags, Phases,
     Freeing, Owned, StartStages, Calm
<1>32. CASE AppRestarts
  BY <1>32 DEF AppRestarts, managers, accepting, stopping, conns, Typed, Flags, Phases,
     Freeing, Owned, StartStages, Calm
<1>33. CASE UNCHANGED vars
  BY <1>33 DEF vars, server, managers, accepting, stopping, conns, Typed, Flags, Phases,
     Freeing, Owned, StartStages, Calm
<1> QED
  BY <1>1, <1>2, <1>3, <1>4, <1>5, <1>6, <1>7, <1>8, <1>9, <1>10, <1>11, <1>12, <1>13,
     <1>14, <1>15, <1>16, <1>17, <1>18, <1>19, <1>20, <1>21, <1>22, <1>23, <1>24, <1>25,
     <1>26, <1>27, <1>28, <1>29, <1>30, <1>31, <1>32, <1>33 DEF Next, Starting, Looping,
     Stopping, Leaving, Working, Stops

-----------------------------------------------------------------------------
(* The permits of one manager *)
PermitsOf(g) == {c \in Held : gen[c] = g}

LEMMA PermitsFinite ==
    ASSUME NEW g
    PROVE  IsFiniteSet(PermitsOf(g)) /\ Cardinality(PermitsOf(g)) \in Nat
<1>1. PermitsOf(g) \subseteq Held
  BY DEF PermitsOf
<1> QED
  BY <1>1, HeldFinite, FS_Subset, FS_CardinalityType

LEMMA InitBalanced == Init => PermitsBalanced
<1> SUFFICES ASSUME Init, NEW g \in Starts
             PROVE  cnt[g] = Cardinality(PermitsOf(g))
  BY DEF PermitsBalanced, PermitsOf
<1>1. PermitsOf(g) = {}
  BY DEF Init, PermitsOf, Held
<1> QED
  BY <1>1, FS_EmptySet DEF Init

(* A step that no permit is concerned in *)
LEMMA PermitsAlone ==
    ASSUME PermitsBalanced, m_use_external_io' = m_use_external_io,
           cnt' = cnt, gen' = gen, Held' = Held
    PROVE  PermitsBalanced'
  BY DEF PermitsBalanced

LEMMA AcquireBalanced ==
    ASSUME Typed, Phases, Owned, PermitsBalanced,
           NEW w \in Workers, NEW c \in Conns, Acquire(w, c)
    PROVE  PermitsBalanced'
<1> SUFFICES ASSUME ~m_use_external_io, NEW g \in Starts
             PROVE  cnt'[g] = Cardinality(PermitsOf(g)')
  BY DEF PermitsBalanced, PermitsOf, Acquire, server
<1>1. mgr \in Starts
  BY DEF Acquire, Running, Owned, Phases
<1>2. cnt \in [Starts -> Int] /\ gen \in [Conns -> 0..MaxStarts] /\ cn \in [Conns -> ConnStages]
  BY DEF Typed
<1>3. cnt[g] = Cardinality(PermitsOf(g))
  BY DEF PermitsBalanced, PermitsOf
<1>4. CASE g = mgr
  <2>1. PermitsOf(g)' = PermitsOf(g) \cup {c}
    BY <1>2, <1>4 DEF Acquire, PermitsOf, Held
  <2>2. c \notin PermitsOf(g)
    BY DEF Acquire, PermitsOf, Held
  <2>3. Cardinality(PermitsOf(g) \cup {c}) = Cardinality(PermitsOf(g)) + 1
    BY <2>2, PermitsFinite, FS_AddElement
  <2> QED
    BY <1>1, <1>2, <1>3, <1>4, <2>1, <2>3 DEF Acquire
<1>5. CASE g # mgr
  <2>1. PermitsOf(g)' = PermitsOf(g)
    BY <1>2, <1>5 DEF Acquire, PermitsOf, Held
  <2> QED
    BY <1>1, <1>2, <1>3, <1>5, <2>1 DEF Acquire
<1> QED
  BY <1>4, <1>5

LEMMA EndBalanced ==
    ASSUME Typed, Owned, PermitsBalanced,
           NEW w \in Workers, NEW c \in Conns, EndConnection(w, c)
    PROVE  PermitsBalanced'
<1> SUFFICES ASSUME ~m_use_external_io, NEW g \in Starts
             PROVE  cnt'[g] = Cardinality(PermitsOf(g)')
  BY DEF PermitsBalanced, PermitsOf, EndConnection, server
<1>1. cnt \in [Starts -> Int] /\ cn \in [Conns -> ConnStages]
  BY DEF Typed
<1>2. cnt[g] = Cardinality(PermitsOf(g))
  BY DEF PermitsBalanced, PermitsOf
<1>3. cn[c] = "held" => gen[c] = mgr /\ mgr \in Starts
  BY DEF Owned
<1>4. PermitsOf(g)' = PermitsOf(g) \ {c}
  BY <1>1 DEF EndConnection, PermitsOf, Held
<1>5. CASE cn[c] = "held" /\ g = mgr
  <2>1. c \in PermitsOf(g)
    BY <1>3, <1>5 DEF PermitsOf, Held
  <2>2. Cardinality(PermitsOf(g) \ {c}) = Cardinality(PermitsOf(g)) - 1
    BY <2>1, PermitsFinite, FS_RemoveElement
  <2> QED
    BY <1>1, <1>2, <1>4, <1>5, <2>2 DEF EndConnection
<1>6. CASE ~(cn[c] = "held" /\ g = mgr)
  <2>1. c \notin PermitsOf(g)
    BY <1>3, <1>6 DEF PermitsOf, Held
  <2>2. PermitsOf(g)' = PermitsOf(g)
    BY <1>4, <2>1
  <2>3. cnt'[g] = cnt[g]
    BY <1>1, <1>6 DEF EndConnection
  <2> QED
    BY <1>2, <2>2, <2>3
<1> QED
  BY <1>5, <1>6

LEMMA FreeBalanced ==
    ASSUME Typed, Owned, PermitsBalanced, NEW t \in Stoppers, FreeContext(t)
    PROVE  PermitsBalanced'
<1> SUFFICES ASSUME ~m_use_external_io, NEW g \in Starts
             PROVE  cnt'[g] = Cardinality(PermitsOf(g)')
  BY DEF PermitsBalanced, PermitsOf, FreeContext
<1>1. cnt \in [Starts -> Int] /\ cn \in [Conns -> ConnStages]
  BY DEF Typed
<1>2. cnt[g] = Cardinality(PermitsOf(g))
  BY DEF PermitsBalanced, PermitsOf
<1>3. \A c \in Held : gen[c] = mgr
  BY DEF Owned, Held
<1>4. PermitsOf(g)' = {}
  BY <1>1 DEF FreeContext, PermitsOf, Held, Alive
<1>5. CASE g = mgr
  <2>1. PermitsOf(g) = Held
    BY <1>3, <1>5 DEF PermitsOf
  <2>2. Held = {} => Cardinality(Held) = 0
    BY FS_EmptySet
  <2>3. cnt'[g] = cnt[g] - Cardinality(Held)
    BY <1>1, <1>5, <2>2 DEF FreeContext
  <2> QED
    BY <1>1, <1>2, <1>4, <2>1, <2>3, FS_EmptySet
<1>6. CASE g # mgr
  <2>1. PermitsOf(g) = {}
    BY <1>3, <1>6 DEF PermitsOf
  <2>2. cnt'[g] = cnt[g]
    BY <1>1, <1>6 DEF FreeContext
  <2> QED
    BY <1>2, <1>4, <2>1, <2>2
<1> QED
  BY <1>5, <1>6

LEMMA BalancedKept ==
    Typed /\ Phases /\ Owned /\ PermitsBalanced /\ [Next]_vars => PermitsBalanced'
<1> SUFFICES ASSUME Typed, Phases, Owned, PermitsBalanced, [Next]_vars
             PROVE  PermitsBalanced'
  OBVIOUS
<1>1. cn \in [Conns -> ConnStages]
  BY DEF Typed
<1>2. ASSUME NEW w \in Workers, NEW g \in Starts, Accept(w, g) PROVE PermitsBalanced'
  <2>1. Held' = Held
    BY <1>1, <1>2 DEF Accept, Held
  <2> QED
    BY <1>2, <2>1, PermitsAlone DEF Accept, server, managers
<1>3. ASSUME NEW w \in Workers, NEW c \in Conns, Denied(w, c) PROVE PermitsBalanced'
  <2>1. Held' = Held
    BY <1>1, <1>3 DEF Denied, Held
  <2> QED
    BY <1>3, <2>1, PermitsAlone DEF Denied, server, managers
<1>4. CASE UNCHANGED <<m_use_external_io, cnt, conns>>
  BY <1>4, PermitsAlone DEF conns, Held
<1>5. \/ UNCHANGED <<m_use_external_io, cnt, conns>>
      \/ \E w \in Workers, g \in Starts : Accept(w, g)
      \/ \E w \in Workers, c \in Conns : Acquire(w, c) \/ Denied(w, c) \/ EndConnection(w, c)
      \/ \E t \in Stoppers : FreeContext(t)
  BY DEF Next, Starting, Looping, Stopping, Leaving, Working, vars, server, managers,
     conns, Start, CreateAcceptor, ConfigureSsl, StartFails, SpawnAccept, SetRunning,
     Loop, LoopSkipped, LoopReturns, EnterRun, LeaveRun, BeginHandler, EndHandler,
     AcceptStarts, CloseProbe, AcceptFails, AcceptAborted, StopCalled, ClearRunning,
     CloseAcceptor, ShutdownManagers, HaltContext, FreeContextInUse, FreeNothing,
     ClearPointer, AppRuns, AppRestarts, Stops
<1> QED
  BY <1>2, <1>3, <1>4, <1>5, AcquireBalanced, EndBalanced, FreeBalanced

-----------------------------------------------------------------------------
(* What every reachable state satisfies *)
Safe == Typed /\ Flags /\ Phases /\ Freeing /\ Owned

LEMMA AlwaysSafe == Spec => []Safe
<1>1. Init => Safe
  BY InitTyped, InitOwned DEF Safe
<1>2. Safe /\ [Next]_vars => Safe'
  BY TypedKept, FlagsKept, PhasesKept, FreeingKept, OwnedKept DEF Safe
<1> QED
  BY <1>1, <1>2, PTL DEF Spec

(* The variables of HttpServer keep their types, and its pointer to a      *)
(* deleted io_context lives no longer than the stop() that deleted it.     *)
THEOREM TypeCorrect == Spec => []TypeOK
<1>1. Safe => TypeOK
  BY Zenon DEF Safe, Typed, Flags, Freeing, TypeOK
<1> QED
  BY <1>1, AlwaysSafe, PTL

(* A server that runs on a context of its own has an accept loop that goes *)
(* on unless accepting failed: doAccept ends on m_running, which start()   *)
(* sets only after it has spawned the loop.                                *)
THEOREM Accepting == Spec => []AcceptsWhileRunning
<1>1. Safe => AcceptsWhileRunning
  BY DEF Safe, Owned, AcceptsWhileRunning
<1> QED
  BY <1>1, AlwaysSafe, PTL

(* The permits that ~Connection returns and ConnectionManager counts stay  *)
(* in balance through stops, the deletion of the context and new starts.   *)
THEOREM Balanced == Spec => []PermitsBalanced
<1>1. Safe /\ PermitsBalanced /\ [Next]_vars => PermitsBalanced'
  BY BalancedKept DEF Safe
<1> QED
  BY <1>1, InitBalanced, AlwaysSafe, PTL DEF Spec
=============================================================================
