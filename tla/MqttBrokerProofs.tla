-------------------------- MODULE MqttBrokerProofs --------------------------
(***************************************************************************)
(* What the broker keeps of its threads through every overlap of start()   *)
(* and stop(), for any number of threads, starts and stops.                *)
(***************************************************************************)
EXTENDS MqttBroker, SequenceTheorems, TLAPS

(* TypeOK without the Booleans *)
Typed ==
    /\ main \in MainStages
    /\ starts \in 0..MaxStarts
    /\ spawned \in 0..ThreadsPerStart
    /\ lp \in [ListenStages -> LoopStages]
    /\ cl \in [Clients -> {"away", "waiting", "handshaking", "served", "refused"}]
    /\ m_con_threads \in Seq(Ids)
    /\ th \in [Ids -> {"none", "running", "done"}]
    /\ joined \subseteq Ids
    /\ abandoned \subseteq Ids
    /\ st \in [Stoppers -> {"idle", "request", "halt", "join"}]
    /\ by \in [Stoppers -> {Other, Main} \cup Ids]
    /\ at \in [Joiners -> Nat \ {0}]
    /\ waits \in [Joiners -> BOOLEAN]

Flags == {m_running, m_stop_requested, stopped, crash} \subseteq BOOLEAN

(* The threads that start() has made room for *)
Allowance ==
    IF main \in {"idle", "run", "join"}
    THEN starts * ThreadsPerStart
    ELSE (starts - 1) * ThreadsPerStart + spawned

(* Threads are numbered in the order of their start. *)
Room ==
    /\ main # "idle" => starts >= 1
    /\ main \notin {"spawn", "run", "join"} => spawned = 0
    /\ \E k \in Nat : k <= Allowance /\ \A i \in Ids : th[i] # "none" <=> i <= k

(* A joining loop has joined what lies before its place, and a loop that   *)
(* does not run begins at the first thread.                                *)
Places ==
    /\ at["main"] = 1 \/ main = "join"
    /\ \A t \in Stoppers : at[t] = 1 \/ st[t] = "join"
    /\ \A j \in Joiners : waits[j] => More(j)
    /\ waits["main"] => main = "join"
    /\ \A t \in Stoppers : waits[t] => st[t] = "join"
    /\ \A j \in Joiners : \A n \in 1..(at[j] - 1) :
          n <= Len(m_con_threads) /\ m_con_threads[n] \in joined

(* A thread is in the vector until it was joined, and start() ends after   *)
(* its threads were joined, or abandons them.                              *)
Known ==
    /\ \A i \in Ids : th[i] # "none" =>
          i \in joined \/ \E n \in 1..Len(m_con_threads) : m_con_threads[n] = i
    /\ main \notin {"spawn", "run", "join"} =>
          \A i \in Ids : th[i] # "none" => i \in joined \/ i \in abandoned

-----------------------------------------------------------------------------
LEMMA IdsAreNaturals == MaxThreads \in Nat /\ Ids = 1..MaxThreads
  BY BoundsAssumption DEF Ids, MaxThreads

LEMMA MainJoins == "main" \in Joiners /\ Stoppers \subseteq Joiners /\ "main" \notin Stoppers
  BY StoppersAssumption DEF Joiners

LEMMA ConfiguredStages == Configured \subseteq ListenStages
  BY ListenersAssumption DEF ListenStages

LEMMA StageNames == ListenStages = {"mqtt", "ws", "tls", "wss"}
  BY DEF ListenStages, Listeners

LEMMA InitTyped == Init => Typed /\ Flags
<1> SUFFICES ASSUME Init
             PROVE  Typed /\ Flags
  OBVIOUS
<1>1. Typed
  BY BoundsAssumption DEF Init, Typed, MainStages, LoopStages
<1>2. Flags
  BY Zenon DEF Init, Flags
<1> QED
  BY <1>1, <1>2

LEMMA InitSafe == Init => Room /\ Places /\ Known
<1> SUFFICES ASSUME Init
             PROVE  Room /\ Places /\ Known
  OBVIOUS
<1>1. Room
  <2>1. Allowance = 0
    BY BoundsAssumption DEF Init, Allowance
  <2>2. \A i \in Ids : th[i] # "none" <=> i <= 0
    BY IdsAreNaturals DEF Init
  <2> QED
    BY <2>1, <2>2 DEF Init, Room
<1>2. Places
  BY MainJoins DEF Init, Places
<1>3. Known
  BY DEF Init, Known
<1> QED
  BY <1>1, <1>2, <1>3

LEMMA FirstListener == Listeners[1] = "mqtt"
  BY DEF Listeners

LEMMA Products ==
    ASSUME NEW m \in Nat, NEW n \in Nat, m <= n
    PROVE  /\ m * ThreadsPerStart \in Nat
           /\ m * ThreadsPerStart <= n * ThreadsPerStart
<1>1. ThreadsPerStart \in Nat
  BY BoundsAssumption
<1>2. n - m \in Nat /\ (n - m) * ThreadsPerStart >= 0
  BY <1>1
<1>3. (n - m) * ThreadsPerStart = n * ThreadsPerStart - m * ThreadsPerStart
  BY <1>1
<1>4. m * ThreadsPerStart \in Nat /\ n * ThreadsPerStart \in Nat
  BY <1>1
<1> QED
  BY <1>2, <1>3, <1>4

LEMMA OneMore ==
    ASSUME NEW n \in Nat
    PROVE  /\ (n + 1) * ThreadsPerStart = n * ThreadsPerStart + ThreadsPerStart
           /\ (n - 1) * ThreadsPerStart = n * ThreadsPerStart - ThreadsPerStart
           /\ n * ThreadsPerStart \in Nat
  BY BoundsAssumption

(* The number that SpawnThread takes is the next one, and there is one. *)
NextThread == CHOOSE j \in Ids : th[j] = "none" /\ \A n \in 1..(j - 1) : th[n] # "none"

LEMMA NextThreadIsFree ==
    ASSUME Typed, Room, main = "spawn", ~AllSpawned,
           NEW k \in Nat, k <= Allowance, \A i \in Ids : th[i] # "none" <=> i <= k
    PROVE  k + 1 \in Ids /\ NextThread = k + 1 /\ k + 1 <= Allowance + 1
<1>1. spawned \in Nat /\ spawned < ThreadsPerStart /\ ThreadsPerStart \in Nat
  BY BoundsAssumption DEF Typed, AllSpawned
<1>2. Allowance = (starts - 1) * ThreadsPerStart + spawned
  BY DEF Allowance
<1>3. starts \in Nat /\ starts <= MaxStarts /\ MaxStarts \in Nat
  BY BoundsAssumption DEF Typed
<1>4. Allowance = starts * ThreadsPerStart - ThreadsPerStart + spawned
  BY <1>1, <1>2, <1>3, OneMore
<1>5. starts * ThreadsPerStart <= MaxStarts * ThreadsPerStart
  BY <1>3, Products
<1>6. MaxThreads = MaxStarts * ThreadsPerStart
  BY <1>1, <1>3 DEF MaxThreads
<1>7. k + 1 \in Ids
  <2>1. starts * ThreadsPerStart \in Nat
    BY <1>3, Products
  <2>2. k + 1 <= MaxThreads
    BY <1>1, <1>4, <1>5, <1>6, <2>1, IdsAreNaturals
  <2> QED
    BY <2>2, IdsAreNaturals
<1>8. \A j \in Ids : (th[j] = "none" /\ \A n \in 1..(j - 1) : th[n] # "none") <=> j = k + 1
  <2>1. ASSUME NEW j \in Ids, j = k + 1
        PROVE  th[j] = "none" /\ \A n \in 1..(j - 1) : th[n] # "none"
    BY <1>7, <2>1, IdsAreNaturals
  <2>2. ASSUME NEW j \in Ids, th[j] = "none", \A n \in 1..(j - 1) : th[n] # "none"
        PROVE  j = k + 1
    <3>1. j > k /\ j \in Nat
      BY <2>2, IdsAreNaturals
    <3>2. j > k + 1 => k + 1 \in 1..(j - 1)
      BY <3>1
    <3>3. th[k + 1] = "none"
      BY <1>7
    <3> QED
      BY <2>2, <3>1, <3>2, <3>3
  <2> QED
    BY <2>1, <2>2
<1>9. NextThread = k + 1
  BY <1>7, <1>8 DEF NextThread
<1>10. Allowance \in Int
  BY <1>1, <1>3, <1>4, OneMore
<1> QED
  BY <1>7, <1>9, <1>10

LEMMA SpawnStep ==
    ASSUME SpawnThread
    PROVE  /\ th' = [th EXCEPT ![NextThread] = "running"]
           /\ m_con_threads' = Append(m_con_threads, NextThread)
  BY DEF SpawnThread, NextThread

(* The steps that concern more than a client or an accept loop *)
LEMMA Steps ==
    ASSUME [Next]_vars
    PROVE  \/ Start \/ ClearStopRequest
           \/ \E l \in ListenStages : StartListener(l) \/ ListenerThrows(l) \/ ListenerSkipped(l)
           \/ SpawnThread \/ SpawnThreadFails \/ EnterRun \/ LeaveRun \/ StartReturns
           \/ \E i \in Ids : ThreadEnds(i)
           \/ \E j \in Joiners : SkipJoined(j) \/ BeginJoin(j) \/ EndJoin(j)
           \/ \E t \in Stoppers :
                 StopCalled(t) \/ RequestStop(t) \/ StopContexts(t) \/ ClearThreads(t)
           \/ UNCHANGED loopRest
  BY MainJoins, StageNames
     DEF Next, MainStep, StopStep, JoinStep, LoopStep, Stops, start_mqtt_listener,
         start_ws_listener, start_tls_listener, start_wss_listener, LoopStarts, BackoffEnds,
         AcceptError, Accept, AcceptThrows, LoopThrows, HandshakeDone, HandshakeFails, Connect,
         loopRest, vars

LEMMA TypedKept == Typed /\ Room /\ [Next]_vars => Typed'
<1> SUFFICES ASSUME Typed, Room, [Next]_vars
             PROVE  Typed'
  OBVIOUS
<1>1. CASE Start
  BY <1>1, StageNames, ConfiguredStages, MainJoins, BoundsAssumption DEF Start, MainGoes,
     threads, stopping, joining, Typed, MainStages, LoopStages
<1>2. CASE ClearStopRequest
  BY <1>2, FirstListener, StageNames DEF ClearStopRequest, MainGoes, threads, stopping,
     joining, Typed, MainStages
<1>3. ASSUME NEW l \in ListenStages, StartListener(l) PROVE Typed'
  BY <1>3, StageNames, ConfiguredStages, MainJoins, BoundsAssumption DEF StartListener,
     MainGoes, After, flags, threads, stopping, joining, Typed, MainStages, LoopStages
<1>4. ASSUME NEW l \in ListenStages, ListenerThrows(l) PROVE Typed'
  BY <1>4, StageNames, ConfiguredStages, MainJoins, BoundsAssumption DEF ListenerThrows,
     MainGoes, threads, stopping, joining, Typed, MainStages, LoopStages
<1>5. ASSUME NEW l \in ListenStages, ListenerSkipped(l) PROVE Typed'
  BY <1>5, StageNames, ConfiguredStages, MainJoins, BoundsAssumption DEF ListenerSkipped,
     MainGoes, After, flags, threads, stopping, joining, Typed, MainStages, LoopStages
<1>6. CASE SpawnThread
  <2>1. PICK k \in Nat : k <= Allowance /\ \A i \in Ids : th[i] # "none" <=> i <= k
    BY DEF Room
  <2>2. NextThread \in Ids
    BY <1>6, <2>1, NextThreadIsFree DEF SpawnThread
  <2>3. th' \in [Ids -> {"none", "running", "done"}]
    BY <1>6, <2>2, SpawnStep DEF Typed
  <2>4. m_con_threads' \in Seq(Ids)
    <3>1. m_con_threads \in Seq(Ids)
      BY DEF Typed
    <3>2. Append(m_con_threads, NextThread) \in Seq(Ids)
      BY <2>2, <3>1, AppendProperties
    <3> QED
      BY <1>6, <3>2, SpawnStep
  <2> QED
    BY <1>6, <2>3, <2>4, BoundsAssumption
       DEF SpawnThread, AllSpawned, flags, starting, stopping, joining, Typed
<1>7. CASE EnterRun
  BY <1>7, StageNames, ConfiguredStages, MainJoins, BoundsAssumption DEF EnterRun,
     MainGoes, AllSpawned, flags, threads, stopping, joining, Typed, MainStages,
     LoopStages
<1>8. CASE LeaveRun
  BY <1>8, StageNames, ConfiguredStages, MainJoins, BoundsAssumption DEF LeaveRun,
     MainGoes, flags, threads, stopping, joining, Typed, MainStages, LoopStages
<1>9. CASE StartReturns
  BY <1>9, StageNames, ConfiguredStages, MainJoins, BoundsAssumption DEF StartReturns,
     MainGoes, More, flags, threads, stopping, Typed, MainStages, LoopStages
<1>10. ASSUME NEW i \in Ids, ThreadEnds(i) PROVE Typed'
  BY <1>10, StageNames, ConfiguredStages, MainJoins, BoundsAssumption DEF ThreadEnds,
     flags, starting, stopping, joining, Typed, MainStages, LoopStages
<1>11. ASSUME NEW j \in Joiners, SkipJoined(j) PROVE Typed'
  BY <1>11, StageNames, ConfiguredStages, MainJoins, BoundsAssumption DEF SkipJoined,
     IsJoining, More, Current, flags, starting, threads, stopping, Typed, MainStages,
     LoopStages
<1>12. ASSUME NEW j \in Joiners, BeginJoin(j) PROVE Typed'
  BY <1>12, StageNames, ConfiguredStages, MainJoins, BoundsAssumption DEF BeginJoin,
     IsJoining, More, Current, flags, starting, threads, stopping, Typed, MainStages,
     LoopStages
<1>13. ASSUME NEW j \in Joiners, EndJoin(j) PROVE Typed'
  BY <1>13, StageNames, ConfiguredStages, MainJoins, BoundsAssumption DEF EndJoin,
     IsJoining, More, Current, flags, starting, stopping, Typed, MainStages, LoopStages
<1>14. ASSUME NEW t \in Stoppers, StopCalled(t) PROVE Typed'
  BY <1>14, StageNames, ConfiguredStages, MainJoins, BoundsAssumption DEF StopCalled,
     threads, stopping, joining, Typed, MainStages, LoopStages
<1>15. ASSUME NEW t \in Stoppers, RequestStop(t) PROVE Typed'
  BY <1>15, StageNames, ConfiguredStages, MainJoins, BoundsAssumption DEF RequestStop,
     starting, threads, joining, Typed, MainStages, LoopStages
<1>16. ASSUME NEW t \in Stoppers, StopContexts(t) PROVE Typed'
  BY <1>16, StageNames, ConfiguredStages, MainJoins, BoundsAssumption DEF StopContexts,
     flags, starting, threads, joining, Typed, MainStages, LoopStages
<1>17. ASSUME NEW t \in Stoppers, ClearThreads(t) PROVE Typed'
  BY <1>17, StageNames, ConfiguredStages, MainJoins, BoundsAssumption DEF ClearThreads,
     IsJoining, More, flags, starting, Typed, MainStages, LoopStages
<1>18. ASSUME NEW l \in Configured, LoopStarts(l) PROVE Typed'
  BY <1>18, StageNames, ConfiguredStages, MainJoins, BoundsAssumption DEF LoopStarts,
     LoopGoes, WhileNotStopped, loopRest, flags, starting, threads, stopping, joining,
     Typed, MainStages, LoopStages
<1>19. ASSUME NEW l \in Configured, BackoffEnds(l) PROVE Typed'
  BY <1>19, StageNames, ConfiguredStages, MainJoins, BoundsAssumption DEF BackoffEnds,
     LoopGoes, WhileNotStopped, loopRest, flags, starting, threads, stopping, joining,
     Typed, MainStages, LoopStages
<1>20. ASSUME NEW l \in Configured, AcceptError(l) PROVE Typed'
  BY <1>20, StageNames, ConfiguredStages, MainJoins, BoundsAssumption DEF AcceptError,
     LoopGoes, WhileNotStopped, loopRest, flags, starting, threads, stopping, joining,
     Typed, MainStages, LoopStages
<1>21. ASSUME NEW l \in Configured, NEW c \in Clients, Accept(l, c) PROVE Typed'
  BY <1>21, StageNames, ConfiguredStages, MainJoins, BoundsAssumption DEF Accept,
     LoopGoes, WhileNotStopped, loopRest, flags, starting, threads, stopping, joining,
     Typed, MainStages, LoopStages
<1>22. ASSUME NEW l \in Configured, NEW c \in Clients, HandshakeDone(l, c) PROVE Typed'
  BY <1>22, StageNames, ConfiguredStages, MainJoins, BoundsAssumption DEF HandshakeDone,
     LoopGoes, WhileNotStopped, loopRest, flags, starting, threads, stopping, joining,
     Typed, MainStages, LoopStages
<1>23. ASSUME NEW l \in Configured, NEW c \in Clients, HandshakeFails(l, c) PROVE Typed'
  BY <1>23, StageNames, ConfiguredStages, MainJoins, BoundsAssumption DEF HandshakeFails,
     LoopThrows, LoopGoes, loopRest, flags, starting, threads, stopping, joining, Typed, MainStages,
     LoopStages
<1>24. ASSUME NEW c \in Clients, Connect(c) PROVE Typed'
  BY <1>24, StageNames, ConfiguredStages, MainJoins, BoundsAssumption DEF Connect,
     loopRest, flags, starting, threads, stopping, joining, Typed, MainStages, LoopStages
<1>25. CASE UNCHANGED vars
  BY <1>25 DEF vars, flags, starting, threads, stopping, joining, Typed, MainStages,
     LoopStages
<1>26. CASE SpawnThreadFails
  BY <1>26, StageNames, BoundsAssumption DEF SpawnThreadFails, MainGoes, threads, stopping,
     joining, Typed, MainStages
<1>27. ASSUME NEW l \in Configured, NEW c \in Clients, AcceptThrows(l, c) PROVE Typed'
  BY <1>27, StageNames, ConfiguredStages, MainJoins, BoundsAssumption DEF AcceptThrows,
     LoopThrows, LoopGoes, loopRest, flags, starting, threads, stopping, joining, Typed,
     MainStages, LoopStages
<1> QED
  BY <1>27, <1>26, <1>1, <1>2, <1>3, <1>4, <1>5, <1>6, <1>7, <1>8, <1>9, <1>10, <1>11, <1>12, <1>13,
     <1>14, <1>15, <1>16, <1>17, <1>18, <1>19, <1>20, <1>21, <1>22, <1>23, <1>24, <1>25,
     MainJoins, StageNames DEF Next, MainStep, StopStep, JoinStep, LoopStep, Stops,
     start_mqtt_listener, start_ws_listener, start_tls_listener, start_wss_listener

LEMMA FlagsKept == Flags /\ [Next]_vars => Flags'
<1> SUFFICES ASSUME Flags, [Next]_vars
             PROVE  Flags'
  OBVIOUS
<1>1. UNCHANGED crash => crash' \in BOOLEAN
  BY Zenon DEF Flags
<1>2. UNCHANGED flags => m_running' \in BOOLEAN /\ m_stop_requested' \in BOOLEAN
  BY Zenon DEF Flags, flags
<1>3. UNCHANGED stopped => stopped' \in BOOLEAN
  BY Zenon DEF Flags
<1>4. CASE Start
  BY <1>4, Zenon DEF Start, flags, Flags
<1>5. CASE ClearStopRequest
  BY <1>5, Zenon DEF ClearStopRequest, flags, Flags
<1>6. ASSUME NEW l \in ListenStages, StartListener(l) PROVE Flags'
  BY <1>6, Zenon DEF StartListener, flags, Flags
<1>7. ASSUME NEW l \in ListenStages, ListenerThrows(l) PROVE Flags'
  BY <1>7, Zenon DEF ListenerThrows, flags, Flags
<1>8. ASSUME NEW l \in ListenStages, ListenerSkipped(l) PROVE Flags'
  BY <1>8, Zenon DEF ListenerSkipped, flags, Flags
<1>9. CASE SpawnThread
  BY <1>9, Zenon DEF SpawnThread, flags, Flags
<1>10. CASE EnterRun
  BY <1>10, Zenon DEF EnterRun, flags, Flags
<1>11. CASE LeaveRun
  BY <1>11, Zenon DEF LeaveRun, flags, Flags
<1>12. CASE StartReturns
  BY <1>12, Zenon DEF StartReturns, flags, Flags
<1>13. ASSUME NEW i \in Ids, ThreadEnds(i) PROVE Flags'
  BY <1>13, Zenon DEF ThreadEnds, flags, Flags
<1>14. ASSUME NEW j \in Joiners, SkipJoined(j) PROVE Flags'
  BY <1>14, Zenon DEF SkipJoined, flags, Flags
<1>15. ASSUME NEW j \in Joiners, BeginJoin(j) PROVE Flags'
  BY <1>15, Zenon DEF BeginJoin, flags, Flags
<1>16. ASSUME NEW j \in Joiners, EndJoin(j) PROVE Flags'
  BY <1>16, Zenon DEF EndJoin, flags, Flags
<1>17. ASSUME NEW t \in Stoppers, StopCalled(t) PROVE Flags'
  BY <1>17, Zenon DEF StopCalled, flags, Flags
<1>18. ASSUME NEW t \in Stoppers, RequestStop(t) PROVE Flags'
  BY <1>18, Zenon DEF RequestStop, flags, Flags
<1>19. ASSUME NEW t \in Stoppers, StopContexts(t) PROVE Flags'
  BY <1>19, Zenon DEF StopContexts, flags, Flags
<1>20. ASSUME NEW t \in Stoppers, ClearThreads(t) PROVE Flags'
  BY <1>20, Zenon DEF ClearThreads, flags, Flags
<1>21. CASE UNCHANGED loopRest
  BY <1>21 DEF loopRest, flags, starting, threads, stopping, joining, Flags
<1>22. CASE SpawnThreadFails
  BY <1>22, Zenon DEF SpawnThreadFails, flags, Flags
<1> QED
  BY <1>22, <1>4, <1>5, <1>6, <1>7, <1>8, <1>9, <1>10, <1>11, <1>12, <1>13, <1>14, <1>15, <1>16,
     <1>17, <1>18, <1>19, <1>20, <1>21, Steps

LEMMA RoomKept == Typed /\ Room /\ [Next]_vars => Room'
<1> SUFFICES ASSUME Typed, Room, [Next]_vars
             PROVE  Room'
  OBVIOUS
<1> PICK k \in Nat : k <= Allowance /\ \A i \in Ids : th[i] # "none" <=> i <= k
  BY DEF Room
<1>a. /\ starts \in Nat /\ spawned \in Nat /\ ThreadsPerStart \in Nat
      /\ starts * ThreadsPerStart \in Nat
      /\ (starts - 1) * ThreadsPerStart = starts * ThreadsPerStart - ThreadsPerStart
  BY BoundsAssumption, OneMore DEF Typed
<1>1. CASE Start
  <2>1. Allowance = starts * ThreadsPerStart
    BY <1>1 DEF Start, MainGoes, Allowance
  <2>2. starts' = starts + 1 /\ main' = "flag" /\ spawned = 0 /\ spawned' = 0 /\ th' = th
    BY <1>1 DEF Start, MainGoes, threads, Room
  <2>3. Allowance' = starts * ThreadsPerStart
    BY <1>a, <2>2 DEF Allowance
  <2> QED
    BY <1>a, <2>1, <2>2, <2>3 DEF Room
<1>2. CASE ClearStopRequest
  BY <1>2, <1>a, StageNames, FirstListener DEF ClearStopRequest, MainGoes, threads,
     stopping, joining, Typed, Room, Allowance
<1>3. ASSUME NEW l \in ListenStages, StartListener(l) PROVE Room'
  BY <1>3, <1>a, StageNames, FirstListener DEF StartListener, MainGoes, After, flags,
     threads, stopping, joining, Typed, Room, Allowance
<1>4. ASSUME NEW l \in ListenStages, ListenerThrows(l) PROVE Room'
  BY <1>4, <1>a, StageNames, FirstListener DEF ListenerThrows, MainGoes, threads,
     stopping, joining, Typed, Room, Allowance
<1>5. ASSUME NEW l \in ListenStages, ListenerSkipped(l) PROVE Room'
  BY <1>5, <1>a, StageNames, FirstListener DEF ListenerSkipped, MainGoes, After, flags,
     threads, stopping, joining, Typed, Room, Allowance
<1>6. CASE SpawnThread
  <2>1. NextThread = k + 1 /\ k + 1 \in Ids
    BY <1>6, NextThreadIsFree DEF SpawnThread
  <2>2. Allowance' = Allowance + 1 /\ Allowance \in Int
    BY <1>6, <1>a DEF SpawnThread, Allowance, starting
  <2>3. \A i \in Ids : th'[i] # "none" <=> i <= k + 1
    BY <1>6, <2>1, SpawnStep, IdsAreNaturals DEF Typed
  <2>4. k + 1 \in Nat /\ k + 1 <= Allowance'
    BY <2>2
  <2>5. main' = "spawn" /\ starts' = starts
    BY <1>6 DEF SpawnThread, starting
  <2>6. starts >= 1
    BY <1>6 DEF SpawnThread, Room
  <2> QED
    BY <2>3, <2>4, <2>5, <2>6 DEF Room
<1>7. CASE EnterRun
  BY <1>7, <1>a, StageNames, FirstListener DEF EnterRun, MainGoes, AllSpawned, flags,
     threads, stopping, joining, Typed, Room, Allowance
<1>8. CASE LeaveRun
  BY <1>8, <1>a, StageNames, FirstListener DEF LeaveRun, MainGoes, flags, threads,
     stopping, joining, Typed, Room, Allowance
<1>9. CASE StartReturns
  BY <1>9, <1>a, StageNames, FirstListener DEF StartReturns, MainGoes, More, flags,
     threads, stopping, Typed, Room, Allowance
<1>10. ASSUME NEW i \in Ids, ThreadEnds(i) PROVE Room'
  BY <1>10, <1>a, StageNames, FirstListener DEF ThreadEnds, flags, starting, stopping,
     joining, Typed, Room, Allowance
<1>11. ASSUME NEW j \in Joiners, SkipJoined(j) PROVE Room'
  BY <1>11, <1>a, StageNames, FirstListener DEF SkipJoined, IsJoining, More, Current,
     flags, starting, threads, stopping, Typed, Room, Allowance
<1>12. ASSUME NEW j \in Joiners, BeginJoin(j) PROVE Room'
  BY <1>12, <1>a, StageNames, FirstListener DEF BeginJoin, IsJoining, More, Current,
     flags, starting, threads, stopping, Typed, Room, Allowance
<1>13. ASSUME NEW j \in Joiners, EndJoin(j) PROVE Room'
  BY <1>13, <1>a, StageNames, FirstListener DEF EndJoin, IsJoining, More, Current, flags,
     starting, stopping, Typed, Room, Allowance
<1>14. ASSUME NEW t \in Stoppers, StopCalled(t) PROVE Room'
  BY <1>14, <1>a, StageNames, FirstListener DEF StopCalled, threads, stopping, joining,
     Typed, Room, Allowance
<1>15. ASSUME NEW t \in Stoppers, RequestStop(t) PROVE Room'
  BY <1>15, <1>a, StageNames, FirstListener DEF RequestStop, starting, threads, joining,
     Typed, Room, Allowance
<1>16. ASSUME NEW t \in Stoppers, StopContexts(t) PROVE Room'
  BY <1>16, <1>a, StageNames, FirstListener DEF StopContexts, flags, starting, threads,
     joining, Typed, Room, Allowance
<1>17. ASSUME NEW t \in Stoppers, ClearThreads(t) PROVE Room'
  BY <1>17, <1>a, StageNames, FirstListener DEF ClearThreads, IsJoining, More, flags,
     starting, Typed, Room, Allowance
<1>18. CASE UNCHANGED loopRest
  BY <1>18 DEF loopRest, flags, starting, threads, stopping, joining, Typed, Room,
     Allowance
<1>19. CASE SpawnThreadFails
  BY <1>19, <1>a, StageNames DEF SpawnThreadFails, MainGoes, AllSpawned, threads, Typed, Room,
     Allowance
<1> QED
  BY <1>19, <1>1, <1>2, <1>3, <1>4, <1>5, <1>6, <1>7, <1>8, <1>9, <1>10, <1>11, <1>12, <1>13,
     <1>14, <1>15, <1>16, <1>17, <1>18, Steps

LEMMA CrashStays == [Next]_vars /\ ~crash' => ~crash
<1> SUFFICES ASSUME [Next]_vars, ~crash'
             PROVE  ~crash
  OBVIOUS
<1>1. CASE Start
  BY <1>1 DEF Start, MainGoes, Free
<1>2. CASE ClearStopRequest
  BY <1>2 DEF ClearStopRequest, MainGoes, Free
<1>3. ASSUME NEW l \in ListenStages, StartListener(l) PROVE ~crash
  BY <1>3 DEF StartListener, MainGoes, Free
<1>4. ASSUME NEW l \in ListenStages, ListenerThrows(l) PROVE ~crash
  BY <1>4 DEF ListenerThrows, MainGoes, Free
<1>5. ASSUME NEW l \in ListenStages, ListenerSkipped(l) PROVE ~crash
  BY <1>5 DEF ListenerSkipped, MainGoes, Free
<1>6. CASE SpawnThread
  BY <1>6 DEF SpawnThread, Free
<1>7. CASE EnterRun
  BY <1>7 DEF EnterRun, MainGoes, Free
<1>8. CASE LeaveRun
  BY <1>8 DEF LeaveRun, MainGoes, Free
<1>9. CASE StartReturns
  BY <1>9 DEF StartReturns, MainGoes, Free
<1>10. ASSUME NEW i \in Ids, ThreadEnds(i) PROVE ~crash
  BY <1>10 DEF ThreadEnds, Free
<1>11. ASSUME NEW j \in Joiners, SkipJoined(j) PROVE ~crash
  BY <1>11 DEF SkipJoined, IsJoining, Free
<1>12. ASSUME NEW j \in Joiners, BeginJoin(j) PROVE ~crash
  BY <1>12 DEF BeginJoin, IsJoining, Free
<1>13. ASSUME NEW j \in Joiners, EndJoin(j) PROVE ~crash
  BY <1>13 DEF EndJoin, IsJoining, Free
<1>14. ASSUME NEW t \in Stoppers, StopCalled(t) PROVE ~crash
  BY <1>14 DEF StopCalled, Free
<1>15. ASSUME NEW t \in Stoppers, RequestStop(t) PROVE ~crash
  BY <1>15 DEF RequestStop, Free
<1>16. ASSUME NEW t \in Stoppers, StopContexts(t) PROVE ~crash
  BY <1>16 DEF StopContexts, Free
<1>17. ASSUME NEW t \in Stoppers, ClearThreads(t) PROVE ~crash
  BY <1>17 DEF ClearThreads, IsJoining, Free
<1>18. CASE UNCHANGED loopRest
  BY <1>18 DEF loopRest, flags, starting, threads, stopping, joining
<1>19. CASE SpawnThreadFails
  BY <1>19 DEF SpawnThreadFails, MainGoes, Free
<1> QED
  BY <1>19, <1>1, <1>2, <1>3, <1>4, <1>5, <1>6, <1>7, <1>8, <1>9, <1>10, <1>11, <1>12, <1>13,
     <1>14, <1>15, <1>16, <1>17, <1>18, Steps

LEMMA PlacesKept ==
    Typed /\ (~crash => Places) /\ [Next]_vars => (~crash' => Places')
<1> SUFFICES ASSUME Typed, Places, [Next]_vars, ~crash, ~crash'
             PROVE  Places'
  BY CrashStays
<1>1. CASE Start
  BY <1>1, MainJoins, StageNames DEF Start, MainGoes, threads, stopping, joining, Typed,
     Places, More, Current
<1>2. CASE ClearStopRequest
  BY <1>2, MainJoins, StageNames DEF ClearStopRequest, MainGoes, threads, stopping,
     joining, Typed, Places, More, Current
<1>3. ASSUME NEW l \in ListenStages, StartListener(l) PROVE Places'
  BY <1>3, MainJoins, StageNames DEF StartListener, MainGoes, After, flags, threads,
     stopping, joining, Typed, Places, More, Current
<1>4. ASSUME NEW l \in ListenStages, ListenerThrows(l) PROVE Places'
  BY <1>4, MainJoins, StageNames DEF ListenerThrows, MainGoes, threads, stopping,
     joining, Typed, Places, More, Current
<1>5. ASSUME NEW l \in ListenStages, ListenerSkipped(l) PROVE Places'
  BY <1>5, MainJoins, StageNames DEF ListenerSkipped, MainGoes, After, flags, threads,
     stopping, joining, Typed, Places, More, Current
<1>6. CASE SpawnThread
  BY <1>6, MainJoins, StageNames DEF SpawnThread, AllSpawned, flags, starting, stopping,
     joining, Typed, Places, More, Current
<1>7. CASE EnterRun
  BY <1>7, MainJoins, StageNames DEF EnterRun, MainGoes, AllSpawned, flags, threads,
     stopping, joining, Typed, Places, More, Current
<1>8. CASE LeaveRun
  BY <1>8, MainJoins, StageNames DEF LeaveRun, MainGoes, flags, threads, stopping,
     joining, Typed, Places, More, Current
<1>9. CASE StartReturns
  BY <1>9, MainJoins, StageNames DEF StartReturns, MainGoes, More, flags, threads,
     stopping, Typed, Places, Current
<1>10. ASSUME NEW i \in Ids, ThreadEnds(i) PROVE Places'
  BY <1>10, MainJoins, StageNames DEF ThreadEnds, flags, starting, stopping, joining,
     Typed, Places, More, Current
<1>11. ASSUME NEW j \in Joiners, SkipJoined(j) PROVE Places'
  BY <1>11, MainJoins, StageNames DEF SkipJoined, IsJoining, More, Current, flags,
     starting, threads, stopping, Typed, Places
<1>12. ASSUME NEW j \in Joiners, BeginJoin(j) PROVE Places'
  BY <1>12, MainJoins, StageNames DEF BeginJoin, IsJoining, More, Current, flags,
     starting, threads, stopping, Typed, Places
<1>13. ASSUME NEW j \in Joiners, EndJoin(j) PROVE Places'
  BY <1>13, MainJoins, StageNames DEF EndJoin, IsJoining, More, Current, flags, starting,
     stopping, Typed, Places
<1>14. ASSUME NEW t \in Stoppers, StopCalled(t) PROVE Places'
  BY <1>14, MainJoins, StageNames DEF StopCalled, threads, stopping, joining, Typed,
     Places, More, Current
<1>15. ASSUME NEW t \in Stoppers, RequestStop(t) PROVE Places'
  BY <1>15, MainJoins, StageNames DEF RequestStop, starting, threads, joining, Typed,
     Places, More, Current
<1>16. ASSUME NEW t \in Stoppers, StopContexts(t) PROVE Places'
  BY <1>16, MainJoins, StageNames DEF StopContexts, flags, starting, threads, joining,
     Typed, Places, More, Current
<1>17. ASSUME NEW t \in Stoppers, ClearThreads(t) PROVE Places'
  <2>1. main # "join" /\ \A u \in Stoppers \ {t} : st[u] # "join"
    BY <1>17, Zenon DEF ClearThreads
  <2>2. at \in [Joiners -> Nat \ {0}] /\ waits \in [Joiners -> BOOLEAN]
    BY DEF Typed
  <2>3. \A j \in Joiners : at'[j] = 1
    BY <1>17, <2>1, <2>2, MainJoins DEF ClearThreads, Places, Joiners
  <2>4. \A j \in Joiners : ~waits[j]
    BY <1>17, <2>1, MainJoins DEF ClearThreads, Places, Joiners
  <2>5. waits' = waits
    BY <1>17 DEF ClearThreads
  <2>6. \A j \in Joiners : 1..(at'[j] - 1) = {}
    BY <2>3
  <2> QED
    BY <2>3, <2>4, <2>5, <2>6, MainJoins DEF Places
<1>18. CASE UNCHANGED loopRest
  BY <1>18 DEF loopRest, flags, starting, threads, stopping, joining, Typed, Places,
     More, Current
<1>19. CASE SpawnThreadFails
  BY <1>19, MainJoins DEF SpawnThreadFails, MainGoes, threads, stopping, joining, Typed,
     Places, More
<1> QED
  BY <1>19, <1>1, <1>2, <1>3, <1>4, <1>5, <1>6, <1>7, <1>8, <1>9, <1>10, <1>11, <1>12, <1>13,
     <1>14, <1>15, <1>16, <1>17, <1>18, Steps

LEMMA KnownKept ==
    Typed /\ Room /\ (~crash => Places /\ Known) /\ [Next]_vars => (~crash' => Known')
<1> SUFFICES ASSUME Typed, Room, Places, Known, [Next]_vars, ~crash, ~crash'
             PROVE  Known'
  BY CrashStays
<1>1. CASE Start
  BY <1>1, MainJoins, StageNames, FirstListener DEF Start, MainGoes, threads, stopping,
     joining, Typed, Places, Known, More
<1>2. CASE ClearStopRequest
  BY <1>2, MainJoins, StageNames, FirstListener DEF ClearStopRequest, MainGoes, threads,
     stopping, joining, Typed, Places, Known, More
<1>3. ASSUME NEW l \in ListenStages, StartListener(l) PROVE Known'
  BY <1>3, MainJoins, StageNames, FirstListener DEF StartListener, MainGoes, After,
     flags, threads, stopping, joining, Typed, Places, Known, More
<1>4. ASSUME NEW l \in ListenStages, ListenerThrows(l) PROVE Known'
  BY <1>4, MainJoins, StageNames, FirstListener DEF ListenerThrows, MainGoes, threads,
     stopping, joining, Typed, Places, Known, More
<1>5. ASSUME NEW l \in ListenStages, ListenerSkipped(l) PROVE Known'
  BY <1>5, MainJoins, StageNames, FirstListener DEF ListenerSkipped, MainGoes, After,
     flags, threads, stopping, joining, Typed, Places, Known, More
<1>6. CASE SpawnThread
  BY <1>6, MainJoins, StageNames, FirstListener DEF SpawnThread, AllSpawned, flags,
     starting, stopping, joining, Typed, Places, Known, More
<1>7. CASE EnterRun
  BY <1>7, MainJoins, StageNames, FirstListener DEF EnterRun, MainGoes, AllSpawned,
     flags, threads, stopping, joining, Typed, Places, Known, More
<1>8. CASE LeaveRun
  BY <1>8, MainJoins, StageNames, FirstListener DEF LeaveRun, MainGoes, flags, threads,
     stopping, joining, Typed, Places, Known, More
<1>9. CASE StartReturns
  BY <1>9, MainJoins, StageNames, FirstListener DEF StartReturns, MainGoes, More, flags,
     threads, stopping, Typed, Places, Known
<1>10. ASSUME NEW i \in Ids, ThreadEnds(i) PROVE Known'
  BY <1>10, MainJoins, StageNames, FirstListener DEF ThreadEnds, flags, starting,
     stopping, joining, Typed, Places, Known, More
<1>11. ASSUME NEW j \in Joiners, SkipJoined(j) PROVE Known'
  BY <1>11, MainJoins, StageNames, FirstListener DEF SkipJoined, IsJoining, More,
     Current, flags, starting, threads, stopping, Typed, Places, Known
<1>12. ASSUME NEW j \in Joiners, BeginJoin(j) PROVE Known'
  BY <1>12, MainJoins, StageNames, FirstListener DEF BeginJoin, IsJoining, More, Current,
     flags, starting, threads, stopping, Typed, Places, Known
<1>13. ASSUME NEW j \in Joiners, EndJoin(j) PROVE Known'
  BY <1>13, MainJoins, StageNames, FirstListener DEF EndJoin, IsJoining, More, Current,
     flags, starting, stopping, Typed, Places, Known
<1>14. ASSUME NEW t \in Stoppers, StopCalled(t) PROVE Known'
  BY <1>14, MainJoins, StageNames, FirstListener DEF StopCalled, threads, stopping,
     joining, Typed, Places, Known, More
<1>15. ASSUME NEW t \in Stoppers, RequestStop(t) PROVE Known'
  BY <1>15, MainJoins, StageNames, FirstListener DEF RequestStop, starting, threads,
     joining, Typed, Places, Known, More
<1>16. ASSUME NEW t \in Stoppers, StopContexts(t) PROVE Known'
  BY <1>16, MainJoins, StageNames, FirstListener DEF StopContexts, flags, starting,
     threads, joining, Typed, Places, Known, More
<1>17. ASSUME NEW t \in Stoppers, ClearThreads(t) PROVE Known'
  <2>1. at[t] \in Nat /\ at[t] > Len(m_con_threads) /\ Len(m_con_threads) \in Nat
    BY <1>17, MainJoins DEF ClearThreads, More, Typed
  <2>2. \A n \in 1..Len(m_con_threads) : m_con_threads[n] \in joined
    BY <2>1, MainJoins DEF Places
  <2>3. \A i \in Ids : th[i] # "none" => i \in joined
    BY <2>2 DEF Known
  <2>4. th' = th /\ joined' = joined
    BY <1>17 DEF ClearThreads
  <2> QED
    BY <2>3, <2>4 DEF Known
<1>18. CASE UNCHANGED loopRest
  BY <1>18 DEF loopRest, flags, starting, threads, stopping, joining, Typed, Places,
     Known, More
<1>19. CASE SpawnThreadFails
  BY <1>19 DEF SpawnThreadFails, MainGoes, threads, Known
<1> QED
  BY <1>19, <1>1, <1>2, <1>3, <1>4, <1>5, <1>6, <1>7, <1>8, <1>9, <1>10, <1>11, <1>12, <1>13,
     <1>14, <1>15, <1>16, <1>17, <1>18, Steps

-----------------------------------------------------------------------------
(* What every reachable state satisfies *)
Safe == Typed /\ Flags /\ Room /\ (~crash => Places /\ Known)

LEMMA AlwaysSafe == Spec => []Safe
<1>1. Init => Safe
  BY InitTyped, InitSafe DEF Safe
<1>2. Safe /\ [Next]_vars => Safe'
  <2> SUFFICES ASSUME Safe, [Next]_vars
               PROVE  Safe'
    OBVIOUS
  <2>1. Typed' /\ Flags' /\ Room'
    BY TypedKept, FlagsKept, RoomKept DEF Safe
  <2>2. ~crash' => Places' /\ Known'
    BY PlacesKept, KnownKept DEF Safe
  <2> QED
    BY <2>1, <2>2 DEF Safe
<1> QED
  BY <1>1, <1>2, PTL DEF Spec

(* The variables of MqttBroker::Impl keep their types, and a loop of start()*)
(* or stop() that waits in join() waits for a thread of m_con_threads.     *)
THEOREM TypeCorrect == Spec => []TypeOK
<1>1. Safe => TypeOK
  BY Zenon DEF Safe, Typed, Flags, Places, TypeOK
<1> QED
  BY <1>1, AlwaysSafe, PTL

(* Between a start() and the next every thread that any start() put into   *)
(* m_con_threads has been joined, so that ~Impl does not meet a joinable   *)
(* thread; only a start() that could not create a thread leaves the others *)
(* it created, and they are all it leaves.                                 *)
THEOREM AllJoined == Spec => []NoThreadLeft
<1>1. Safe => NoThreadLeft
  BY DEF Safe, Known, NoThreadLeft
<1> QED
  BY <1>1, AlwaysSafe, PTL
=============================================================================
