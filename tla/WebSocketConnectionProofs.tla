--------------------- MODULE WebSocketConnectionProofs ---------------------
(***************************************************************************)
(* What holds of every WebSocket connection, for any set of pushers and    *)
(* any limits: the write queue's count, and, in one thread, that a read or *)
(* write in progress always has something that will end it.  The invariant *)
(* follows an operation from the setting of the timer to its start: in one *)
(* thread nobody can end the wait in between.                              *)
(***************************************************************************)
EXTENDS WebSocketConnection, FiniteSetTheorems, TLAPS

(* An actor's wait, and the place of the handler's send() *)
Handled ==
    /\ snd["reader"] # "idle" => rd \in {"open", "message"}
    /\ snd["reader"] \in {"count", "arm", "start", "writing"} => left > 0

Kept == ~alive => rd = "ended" /\ \A s \in Senders : snd[s] \in {"idle", "done"}

(* In one thread the actor that has tested the limit, or set the timer,    *)
(* has the thread until it suspends.                                       *)
Turns ==
    threads = "one" =>
        /\ rd = "start" => turn = "reader" /\ "reader" \in waits
        /\ \A s \in Senders :
               /\ snd[s] = "count" => turn = s /\ m_write_queue_size < MaxQueue
               /\ snd[s] = "arm" => turn = s
               /\ snd[s] = "start" => turn = s /\ s \in waits

Inv == TypeOK /\ Handled /\ Kept /\ Turns /\ QueueCounted /\ OperationsWatched

LEMMA ActorsFinite ==
    /\ IsFiniteSet(Actors) /\ IsFiniteSet(Senders)
    /\ "reader" \in Senders /\ Senders \subseteq Actors /\ "ping" \in Actors
    /\ "ping" \notin Senders /\ "read" \notin Senders /\ Nobody \notin Senders
    /\ Nobody # "ping"
    /\ Senders \subseteq Ops /\ "read" \in Ops /\ "ping" \in Ops
  <1>1. IsFiniteSet(Senders)
    BY PushersAssumption, FS_AddElement DEF Senders
  <1>2. IsFiniteSet(Actors)
    BY <1>1, FS_AddElement DEF Actors
  <1> QED
    BY <1>1, <1>2, PushersAssumption DEF Actors, Senders, Ops, Nobody

(* Ending the waits posts a callback for each of them but sendPing's. *)
LEMMA Posted ==
    ASSUME waits \subseteq Actors
    PROVE  /\ Cardinality(waits \ {"ping"}) \in Nat
           /\ \A s \in Senders : s \in waits => Cardinality(waits \ {"ping"}) > 0
  <1>1. IsFiniteSet(waits \ {"ping"})
    BY ActorsFinite, FS_Subset
  <1>2. Cardinality(waits \ {"ping"}) \in Nat
    BY <1>1, FS_CardinalityType
  <1>3. ASSUME NEW s \in Senders, s \in waits
        PROVE  Cardinality(waits \ {"ping"}) > 0
    <2>1. s \in waits \ {"ping"}
      BY <1>3, ActorsFinite
    <2> QED
      BY <1>1, <1>2, <2>1, FS_EmptySet
  <1> QED
    BY <1>2, <1>3

(* What the updates of the timer do to their variables. *)
LEMMA Ended ==
    ASSUME TypeOK, NEW w \in SUBSET Actors, EndWaits(w)
    PROVE  /\ waits' = w
           /\ cancels' \in Nat
           /\ cancels' >= cancels
           /\ \A s \in Senders : s \in waits => cancels' > 0
  <1>1. waits \subseteq Actors /\ cancels \in Nat
    BY DEF TypeOK
  <1> DEFINE k == Cardinality(waits \ {"ping"})
  <1>2. waits' = w /\ cancels' = cancels + k
    BY DEF EndWaits
  <1>3. k \in Nat /\ \A s \in Senders : s \in waits => k > 0
    BY <1>1, Posted
  <1> HIDE DEF k
  <1>4. \A c \in Nat, n \in Nat : c + n \in Nat /\ c + n >= c /\ (n > 0 => c + n > 0)
    OBVIOUS
  <1> QED
    BY <1>1, <1>2, <1>3, <1>4

LEMMA PingTyped ==
    ASSUME TypeOK, NEW result \in PingStages
    PROVE  PingAfter(result) \in PingStages
  BY DEF TypeOK, PingAfter

-----------------------------------------------------------------------------
(* Types *)

LEMMA TypeInit == Init => TypeOK
  <1> USE ActorsFinite
  <1> SUFFICES ASSUME Init PROVE TypeOK
    OBVIOUS
  <1>1. cancels \in Nat /\ m_write_queue_size \in Int /\ left \in Nat /\ row \in Nat
        /\ received \in Nat
    BY DEF Init
  <1>2. {m_ping_stopped, ping_sent, alive, excuse} \subseteq BOOLEAN
    BY DEF Init
  <1>3. /\ threads \in {"one", "many"} /\ turn \in Actors \cup {Nobody}
        /\ rd \in ReaderStages /\ ping \in PingStages /\ waits \subseteq Actors
        /\ timer \in {"off", "set", "due"} /\ stream \in {"none", "open", "closing"}
        /\ peer \in {"here", "left", "gone"}
    BY DEF Init, ReaderStages, PingStages
  <1>4. snd \in [Senders -> SenderStages] /\ op \in [Ops -> OpStates]
    BY DEF Init, SenderStages, OpStates
  <1> QED
    BY <1>1, <1>2, <1>3, <1>4 DEF TypeOK

LEMMA TypeStep ==
    ASSUME TypeOK, Handled, Next
    PROVE  TypeOK'
  <1> USE ActorsFinite DEF TypeOK, GoesOn, Suspends, ReaderStages, PingStages,
      PingAfter, Close, SetTimer, Cancel, timerVars, batchVars, sendVars,
      envVars, outside,
      SenderStages, OpStates, Aborted, Environment
  <1>1. CASE Opened
    BY <1>1, Ended DEF Opened
  <1>2. CASE ArmRead
    BY <1>2, Ended DEF ArmRead
  <1>3. CASE StartRead
    BY <1>3, Ended DEF StartRead
  <1>4. CASE GotMessage
    BY <1>4, Ended DEF GotMessage
  <1>5. CASE ReadEnded
    BY <1>5, Ended DEF ReadEnded
  <1>6. CASE HandlerClosed
    BY <1>6, Ended DEF HandlerClosed
  <1>7. CASE Finish
    BY <1>7, Ended DEF Finish
  <1>8. CASE MessageHandled
    BY <1>8, Ended DEF MessageHandled
  <1>9. CASE HandlerThrows
    BY <1>9, Ended DEF HandlerThrows
  <1>10. CASE HandlerCloses
    BY <1>10, Ended DEF HandlerCloses
  <1>11. CASE OpenThrows
    BY <1>11, Ended DEF OpenThrows
  <1>12. CASE AcceptFails
    BY <1>12, Ended DEF AcceptFails
  <1>13. CASE NoHandler
    BY <1>13, Ended DEF NoHandler
  <1>14. CASE Open
    BY <1>14, Ended DEF Open
  <1>15. CASE Pause
    BY <1>15, Ended DEF Pause
  <1>16. CASE PingStarts
    BY <1>16, Ended DEF PingStarts
  <1>17. CASE SendPing
    <2>1. waits' \subseteq Actors /\ cancels' \in Nat
      BY <1>17, Ended DEF SendPing
    <2>2. ping_sent' \in BOOLEAN /\ UNCHANGED <<m_ping_stopped, alive, excuse>>
      BY <1>17, Zenon DEF SendPing
    <2> QED
      BY <1>17, <2>1, <2>2 DEF SendPing
  <1>18. CASE PingStops
    BY <1>18, Ended DEF PingStops
  <1>19. CASE AwaitPing
    BY <1>19, Ended DEF AwaitPing
  <1>20. CASE PingWritten
    <2>1. waits' \subseteq Actors /\ cancels' \in Nat
      BY <1>20, Ended DEF PingWritten
    <2>2. ping_sent' \in BOOLEAN /\ UNCHANGED <<m_ping_stopped, alive, excuse>>
      BY <1>20, Zenon DEF PingWritten, TypeOK
    <2> QED
      BY <1>20, <2>1, <2>2 DEF PingWritten
  <1>21. CASE PingFailed
    BY <1>21, Ended DEF PingFailed
  <1>22. CASE PingOk
    BY <1>22, Ended DEF PingOk
  <1>23. CASE PingCloses
    BY <1>23, Ended DEF PingCloses
  <1>24. CASE PingDangles
    BY <1>24, Ended DEF PingDangles
  <1>25. CASE Expire
    BY <1>25, Ended DEF Expire
  <1>26. CASE RunCallback
    BY <1>26, Ended DEF RunCallback
  <1>27. CASE Destroy
    <2>1. waits' \subseteq Actors /\ cancels' \in Nat
      BY <1>27, Ended DEF Destroy
    <2>2. m_ping_stopped' \in BOOLEAN /\ alive' \in BOOLEAN
          /\ UNCHANGED <<ping_sent, excuse>>
      BY <1>27, Zenon DEF Destroy
    <2>3. op' \in [Ops -> OpStates]
      BY <1>27 DEF Destroy
    <2> QED
      BY <1>27, <2>1, <2>2, <2>3 DEF Destroy
  <1>28. CASE MessageArrives
    BY <1>28, Ended DEF MessageArrives
  <1>29. CASE ReadFails
    BY <1>29, Ended DEF ReadFails
  <1>30. CASE PeerLeaves
    BY <1>30, Ended DEF PeerLeaves
  <1>31. ASSUME NEW s \in Senders, Refused(s)
        PROVE  TypeOK'
    BY <1>31, Ended DEF Refused, Sent, MaySend, Returns
  <1>32. ASSUME NEW s \in Senders, Admitted(s)
        PROVE  TypeOK'
    BY <1>32, Ended DEF Admitted, Sent, MaySend, Returns
  <1>33. ASSUME NEW s \in Senders, CountIn(s)
        PROVE  TypeOK'
    BY <1>33, Ended DEF CountIn, Sent, MaySend, Returns
  <1>34. ASSUME NEW s \in Senders, ArmWrite(s)
        PROVE  TypeOK'
    BY <1>34, Ended DEF ArmWrite, Sent, MaySend, Returns
  <1>35. ASSUME NEW s \in Senders, StartWrite(s)
        PROVE  TypeOK'
    BY <1>35, Ended DEF StartWrite, Sent, MaySend, Returns
  <1>36. ASSUME NEW s \in Senders, Written(s) PROVE TypeOK'
    <2>1. waits' \subseteq Actors /\ cancels' \in Nat
      BY <1>36, Ended DEF Written
    <2>2. /\ snd' \in [Senders -> SenderStages]
          /\ op' \in [Ops -> OpStates]
          /\ m_write_queue_size' \in Int
      BY <1>36 DEF Written, Sent
    <2>3. left' \in Nat /\ row' \in Nat
      BY <1>36 DEF Written, Sent, Handled
    <2>4. ping' \in PingStages
      BY <1>36 DEF Written
    <2> QED
      BY <1>36, <2>1, <2>2, <2>3, <2>4 DEF Written, Returns
  <1>37. ASSUME NEW o \in Ops, WriteDone(o)
        PROVE  TypeOK'
    BY <1>37 DEF WriteDone
  <1>38. ASSUME NEW o \in Ops, WriteFails(o)
        PROVE  TypeOK'
    BY <1>38 DEF WriteFails
  <1>39. CASE Stops
    BY <1>39 DEF Stops, vars
  <1> QED
    BY <1>1, <1>2, <1>3, <1>4, <1>5, <1>6, <1>7, <1>8, <1>9, <1>10, <1>11,
       <1>12, <1>13, <1>14, <1>15, <1>16, <1>17, <1>18, <1>19, <1>20, <1>21,
       <1>22, <1>23, <1>24, <1>25, <1>26, <1>27, <1>28, <1>29, <1>30, <1>31,
       <1>32, <1>33, <1>34, <1>35, <1>36, <1>37, <1>38, <1>39 DEF Next,
       Reading, Handling, Sending, Pinging, Network

-----------------------------------------------------------------------------
(* The handler and the object's life *)

LEMMA HandledStep ==
    ASSUME TypeOK, Handled, Next
    PROVE  Handled'
  <1> USE ActorsFinite DEF TypeOK, Handled, batchVars, sendVars, envVars,
      outside
  <1>1. CASE Opened
    BY <1>1 DEF Opened, Environment
  <1>2. CASE ArmRead
    BY <1>2 DEF ArmRead, Environment
  <1>3. CASE StartRead
    BY <1>3 DEF StartRead, Environment
  <1>4. CASE GotMessage
    BY <1>4 DEF GotMessage, Environment
  <1>5. CASE ReadEnded
    BY <1>5 DEF ReadEnded, Environment
  <1>6. CASE HandlerClosed
    BY <1>6 DEF HandlerClosed, Environment
  <1>7. CASE Finish
    BY <1>7 DEF Finish, Environment
  <1>8. CASE MessageHandled
    BY <1>8 DEF MessageHandled, Environment
  <1>9. CASE HandlerThrows
    BY <1>9 DEF HandlerThrows, Environment
  <1>10. CASE HandlerCloses
    BY <1>10 DEF HandlerCloses, Environment
  <1>11. CASE OpenThrows
    BY <1>11 DEF OpenThrows, Environment
  <1>12. CASE AcceptFails
    BY <1>12 DEF AcceptFails, Environment
  <1>13. CASE NoHandler
    BY <1>13 DEF NoHandler, Environment
  <1>14. CASE Open
    BY <1>14 DEF Open, Environment
  <1>15. CASE Pause
    BY <1>15 DEF Pause, Environment
  <1>16. CASE PingStarts
    BY <1>16 DEF PingStarts, Environment
  <1>17. CASE SendPing
    BY <1>17 DEF SendPing, Environment
  <1>18. CASE PingStops
    BY <1>18 DEF PingStops, Environment
  <1>19. CASE AwaitPing
    BY <1>19 DEF AwaitPing, Environment
  <1>20. CASE PingWritten
    BY <1>20 DEF PingWritten, Environment
  <1>21. CASE PingFailed
    BY <1>21 DEF PingFailed, Environment
  <1>22. CASE PingOk
    BY <1>22 DEF PingOk, Environment
  <1>23. CASE PingCloses
    BY <1>23 DEF PingCloses, Environment
  <1>24. CASE PingDangles
    BY <1>24 DEF PingDangles, Environment
  <1>25. CASE Expire
    BY <1>25 DEF Expire, Environment
  <1>26. CASE RunCallback
    BY <1>26 DEF RunCallback, Environment
  <1>27. CASE Destroy
    BY <1>27 DEF Destroy, Environment
  <1>28. CASE MessageArrives
    BY <1>28 DEF MessageArrives, Environment
  <1>29. CASE ReadFails
    BY <1>29 DEF ReadFails, Environment
  <1>30. CASE PeerLeaves
    BY <1>30 DEF PeerLeaves, Environment
  <1>31. ASSUME NEW s \in Senders, Refused(s)
        PROVE  Handled'
    BY <1>31 DEF Refused, Sent, MaySend, Environment
  <1>32. ASSUME NEW s \in Senders, Admitted(s)
        PROVE  Handled'
    BY <1>32 DEF Admitted, Sent, MaySend, Environment
  <1>33. ASSUME NEW s \in Senders, CountIn(s)
        PROVE  Handled'
    BY <1>33 DEF CountIn, Environment
  <1>34. ASSUME NEW s \in Senders, ArmWrite(s)
        PROVE  Handled'
    BY <1>34 DEF ArmWrite, Environment
  <1>35. ASSUME NEW s \in Senders, StartWrite(s)
        PROVE  Handled'
    BY <1>35 DEF StartWrite, Environment
  <1>36. ASSUME NEW s \in Senders, Written(s)
        PROVE  Handled'
    BY <1>36 DEF Written, Sent, MaySend, Environment
  <1>37. ASSUME NEW o \in Ops, WriteDone(o)
        PROVE  Handled'
    BY <1>37 DEF WriteDone, Environment, Environment
  <1>38. ASSUME NEW o \in Ops, WriteFails(o)
        PROVE  Handled'
    BY <1>38 DEF WriteFails, Environment, Environment
  <1>39. CASE Stops
    BY <1>39 DEF Stops, vars
  <1> QED
    BY <1>1, <1>2, <1>3, <1>4, <1>5, <1>6, <1>7, <1>8, <1>9, <1>10, <1>11,
       <1>12, <1>13, <1>14, <1>15, <1>16, <1>17, <1>18, <1>19, <1>20, <1>21,
       <1>22, <1>23, <1>24, <1>25, <1>26, <1>27, <1>28, <1>29, <1>30, <1>31,
       <1>32, <1>33, <1>34, <1>35, <1>36, <1>37, <1>38, <1>39 DEF Next,
       Reading, Handling, Sending, Pinging, Network

LEMMA KeptStep ==
    ASSUME TypeOK, Handled, Kept, Next
    PROVE  Kept'
  <1> USE ActorsFinite DEF TypeOK, Kept, batchVars, sendVars, envVars, outside
  <1>1. CASE Opened
    BY <1>1 DEF Opened, Environment
  <1>2. CASE ArmRead
    BY <1>2 DEF ArmRead, Environment
  <1>3. CASE StartRead
    BY <1>3 DEF StartRead, Environment
  <1>4. CASE GotMessage
    BY <1>4 DEF GotMessage, Environment
  <1>5. CASE ReadEnded
    BY <1>5 DEF ReadEnded, Environment
  <1>6. CASE HandlerClosed
    BY <1>6 DEF HandlerClosed, Environment
  <1>7. CASE Finish
    BY <1>7 DEF Finish, Environment
  <1>8. CASE MessageHandled
    BY <1>8 DEF MessageHandled, Environment
  <1>9. CASE HandlerThrows
    BY <1>9 DEF HandlerThrows, Environment
  <1>10. CASE HandlerCloses
    BY <1>10 DEF HandlerCloses, Environment
  <1>11. CASE OpenThrows
    BY <1>11 DEF OpenThrows, Environment
  <1>12. CASE AcceptFails
    BY <1>12 DEF AcceptFails, Environment
  <1>13. CASE NoHandler
    BY <1>13 DEF NoHandler, Environment
  <1>14. CASE Open
    BY <1>14 DEF Open, Environment
  <1>15. CASE Pause
    BY <1>15 DEF Pause, Environment
  <1>16. CASE PingStarts
    BY <1>16 DEF PingStarts, Environment
  <1>17. CASE SendPing
    BY <1>17 DEF SendPing, Environment
  <1>18. CASE PingStops
    BY <1>18 DEF PingStops, Environment
  <1>19. CASE AwaitPing
    BY <1>19 DEF AwaitPing, Environment
  <1>20. CASE PingWritten
    BY <1>20 DEF PingWritten, Environment
  <1>21. CASE PingFailed
    BY <1>21 DEF PingFailed, Environment
  <1>22. CASE PingOk
    BY <1>22 DEF PingOk, Environment
  <1>23. CASE PingCloses
    BY <1>23 DEF PingCloses, Environment
  <1>24. CASE PingDangles
    BY <1>24 DEF PingDangles, Environment
  <1>25. CASE Expire
    BY <1>25 DEF Expire, Environment
  <1>26. CASE RunCallback
    BY <1>26 DEF RunCallback, Environment
  <1>27. CASE Destroy
    BY <1>27 DEF Destroy, Environment
  <1>28. CASE MessageArrives
    BY <1>28 DEF MessageArrives, Environment
  <1>29. CASE ReadFails
    BY <1>29 DEF ReadFails, Environment
  <1>30. CASE PeerLeaves
    BY <1>30 DEF PeerLeaves, Environment
  <1>31. ASSUME NEW s \in Senders, Refused(s)
        PROVE  Kept'
    BY <1>31 DEF Refused, Sent, MaySend, Environment
  <1>32. ASSUME NEW s \in Senders, Admitted(s)
        PROVE  Kept'
    BY <1>32 DEF Admitted, Sent, MaySend, Environment
  <1>33. ASSUME NEW s \in Senders, CountIn(s)
        PROVE  Kept'
    BY <1>33 DEF CountIn, Environment
  <1>34. ASSUME NEW s \in Senders, ArmWrite(s)
        PROVE  Kept'
    BY <1>34 DEF ArmWrite, Environment
  <1>35. ASSUME NEW s \in Senders, StartWrite(s)
        PROVE  Kept'
    BY <1>35 DEF StartWrite, Environment
  <1>36. ASSUME NEW s \in Senders, Written(s)
        PROVE  Kept'
    BY <1>36 DEF Written, Sent, MaySend, Environment
  <1>37. ASSUME NEW o \in Ops, WriteDone(o)
        PROVE  Kept'
    BY <1>37 DEF WriteDone, Environment, Environment
  <1>38. ASSUME NEW o \in Ops, WriteFails(o)
        PROVE  Kept'
    BY <1>38 DEF WriteFails, Environment, Environment
  <1>39. CASE Stops
    BY <1>39 DEF Stops, vars
  <1> QED
    BY <1>1, <1>2, <1>3, <1>4, <1>5, <1>6, <1>7, <1>8, <1>9, <1>10, <1>11,
       <1>12, <1>13, <1>14, <1>15, <1>16, <1>17, <1>18, <1>19, <1>20, <1>21,
       <1>22, <1>23, <1>24, <1>25, <1>26, <1>27, <1>28, <1>29, <1>30, <1>31,
       <1>32, <1>33, <1>34, <1>35, <1>36, <1>37, <1>38, <1>39 DEF Next,
       Reading, Handling, Sending, Pinging, Network

-----------------------------------------------------------------------------
(* One thread *)

LEMMA TurnsStep ==
    ASSUME TypeOK, Handled, Kept, Turns, Next
    PROVE  Turns'
  <1> USE ActorsFinite, PushersAssumption
      DEF TypeOK, Handled, Turns, GoesOn, Suspends, Cancel, Close, SetTimer,
      timerVars, batchVars, sendVars, envVars, outside, Nobody, Actors
  <1>1. CASE Opened
    BY <1>1, Ended DEF Opened
  <1>2. CASE ArmRead
    BY <1>2, Ended DEF ArmRead
  <1>3. CASE StartRead
    BY <1>3, Ended DEF StartRead
  <1>4. CASE GotMessage
    BY <1>4, Ended DEF GotMessage
  <1>5. CASE ReadEnded
    BY <1>5, Ended DEF ReadEnded
  <1>6. CASE HandlerClosed
    BY <1>6, Ended DEF HandlerClosed
  <1>7. CASE Finish
    BY <1>7, Ended DEF Finish
  <1>8. CASE MessageHandled
    BY <1>8, Ended DEF MessageHandled
  <1>9. CASE HandlerThrows
    BY <1>9, Ended DEF HandlerThrows
  <1>10. CASE HandlerCloses
    BY <1>10, Ended DEF HandlerCloses
  <1>11. CASE OpenThrows
    BY <1>11, Ended DEF OpenThrows
  <1>12. CASE AcceptFails
    BY <1>12, Ended DEF AcceptFails
  <1>13. CASE NoHandler
    BY <1>13, Ended DEF NoHandler
  <1>14. CASE Open
    BY <1>14, Ended DEF Open
  <1>15. CASE Pause
    BY <1>15, Ended DEF Pause
  <1>16. CASE PingStarts
    BY <1>16, Ended DEF PingStarts
  <1>17. CASE SendPing
    BY <1>17, Ended DEF SendPing
  <1>18. CASE PingStops
    BY <1>18, Ended DEF PingStops
  <1>19. CASE AwaitPing
    BY <1>19, Ended DEF AwaitPing
  <1>20. CASE PingWritten
    BY <1>20, Ended DEF PingWritten
  <1>21. CASE PingFailed
    BY <1>21, Ended DEF PingFailed
  <1>22. CASE PingOk
    BY <1>22, Ended DEF PingOk
  <1>23. CASE PingCloses
    BY <1>23, Ended DEF PingCloses
  <1>24. CASE PingDangles
    BY <1>24, Ended DEF PingDangles
  <1>25. CASE Expire
    BY <1>25, Ended DEF Expire
  <1>26. CASE RunCallback
    BY <1>26, Ended DEF RunCallback
  <1>27. CASE Destroy
    BY <1>27, Ended DEF Destroy
  <1>28. CASE MessageArrives
    BY <1>28, Ended DEF MessageArrives, Environment
  <1>29. CASE ReadFails
    BY <1>29, Ended DEF ReadFails, Environment
  <1>30. CASE PeerLeaves
    BY <1>30, Ended DEF PeerLeaves
  <1>31. ASSUME NEW s \in Senders, Refused(s)
        PROVE  Turns'
    BY <1>31, Ended DEF Refused, Sent, MaySend, Returns
  <1>32. ASSUME NEW s \in Senders, Admitted(s)
        PROVE  Turns'
    BY <1>32, Ended DEF Admitted, Sent, MaySend, Returns
  <1>33. ASSUME NEW s \in Senders, CountIn(s)
        PROVE  Turns'
    BY <1>33, Ended DEF CountIn
  <1>34. ASSUME NEW s \in Senders, ArmWrite(s)
        PROVE  Turns'
    BY <1>34, Ended DEF ArmWrite
  <1>35. ASSUME NEW s \in Senders, StartWrite(s)
        PROVE  Turns'
    BY <1>35, Ended DEF StartWrite
  <1>36. ASSUME NEW s \in Senders, Written(s)
        PROVE  Turns'
    BY <1>36, Ended DEF Written, Sent, MaySend, Returns
  <1>37. ASSUME NEW o \in Ops, WriteDone(o)
        PROVE  Turns'
    BY <1>37 DEF WriteDone, Environment
  <1>38. ASSUME NEW o \in Ops, WriteFails(o)
        PROVE  Turns'
    BY <1>38 DEF WriteFails, Environment
  <1>39. CASE Stops
    BY <1>39 DEF Stops, vars
  <1> QED
    BY <1>1, <1>2, <1>3, <1>4, <1>5, <1>6, <1>7, <1>8, <1>9, <1>10, <1>11,
       <1>12, <1>13, <1>14, <1>15, <1>16, <1>17, <1>18, <1>19, <1>20, <1>21,
       <1>22, <1>23, <1>24, <1>25, <1>26, <1>27, <1>28, <1>29, <1>30, <1>31,
       <1>32, <1>33, <1>34, <1>35, <1>36, <1>37, <1>38, <1>39 DEF Next,
       Reading, Handling, Sending, Pinging, Network

LEMMA WatchedStep ==
    ASSUME TypeOK, Handled, Kept, Turns, OperationsWatched, Next
    PROVE  OperationsWatched'
  <1> USE ActorsFinite
      DEF TypeOK, Turns, OperationsWatched, Cancel, Close, SetTimer,
      timerVars, batchVars, sendVars, envVars, outside, Aborted, Actors
  <1>1. CASE Opened
    BY <1>1, Ended DEF Opened
  <1>2. CASE ArmRead
    BY <1>2, Ended DEF ArmRead
  <1>3. CASE StartRead
    BY <1>3, Ended DEF StartRead
  <1>4. CASE GotMessage
    BY <1>4, Ended DEF GotMessage
  <1>5. CASE ReadEnded
    BY <1>5, Ended DEF ReadEnded
  <1>6. CASE HandlerClosed
    BY <1>6, Ended DEF HandlerClosed
  <1>7. CASE Finish
    BY <1>7, Ended DEF Finish
  <1>8. CASE MessageHandled
    BY <1>8, Ended DEF MessageHandled
  <1>9. CASE HandlerThrows
    BY <1>9, Ended DEF HandlerThrows
  <1>10. CASE HandlerCloses
    BY <1>10, Ended DEF HandlerCloses
  <1>11. CASE OpenThrows
    BY <1>11, Ended DEF OpenThrows
  <1>12. CASE AcceptFails
    BY <1>12, Ended DEF AcceptFails
  <1>13. CASE NoHandler
    BY <1>13, Ended DEF NoHandler
  <1>14. CASE Open
    BY <1>14, Ended DEF Open
  <1>15. CASE Pause
    BY <1>15, Ended DEF Pause
  <1>16. CASE PingStarts
    BY <1>16, Ended DEF PingStarts
  <1>17. CASE SendPing
    BY <1>17, Ended DEF SendPing
  <1>18. CASE PingStops
    BY <1>18, Ended DEF PingStops
  <1>19. CASE AwaitPing
    BY <1>19, Ended DEF AwaitPing
  <1>20. CASE PingWritten
    BY <1>20, Ended DEF PingWritten
  <1>21. CASE PingFailed
    BY <1>21, Ended DEF PingFailed
  <1>22. CASE PingOk
    BY <1>22, Ended DEF PingOk
  <1>23. CASE PingCloses
    BY <1>23, Ended DEF PingCloses
  <1>24. CASE PingDangles
    BY <1>24, Ended DEF PingDangles
  <1>25. CASE Expire
    BY <1>25, Ended DEF Expire
  <1>26. CASE RunCallback
    <2>1. CASE alive
      <3>1. ASSUME NEW o \in Ops PROVE op'[o] # "pending"
        BY <1>26, <2>1 DEF RunCallback
      <3> QED
        BY <3>1
    <2>2. CASE ~alive
      BY <1>26, <2>2 DEF RunCallback, Kept
    <2> QED
      BY <2>1, <2>2
  <1>27. CASE Destroy
    BY <1>27, Ended DEF Destroy
  <1>28. CASE MessageArrives
    BY <1>28, Ended DEF MessageArrives, Environment
  <1>29. CASE ReadFails
    BY <1>29, Ended DEF ReadFails, Environment
  <1>30. CASE PeerLeaves
    BY <1>30, Ended DEF PeerLeaves
  <1>31. ASSUME NEW s \in Senders, Refused(s)
        PROVE  OperationsWatched'
    BY <1>31, Ended DEF Refused, Sent, MaySend, Returns
  <1>32. ASSUME NEW s \in Senders, Admitted(s)
        PROVE  OperationsWatched'
    BY <1>32, Ended DEF Admitted, Sent, MaySend, Returns
  <1>33. ASSUME NEW s \in Senders, CountIn(s)
        PROVE  OperationsWatched'
    BY <1>33, Ended DEF CountIn
  <1>34. ASSUME NEW s \in Senders, ArmWrite(s)
        PROVE  OperationsWatched'
    BY <1>34, Ended DEF ArmWrite
  <1>35. ASSUME NEW s \in Senders, StartWrite(s)
        PROVE  OperationsWatched'
    BY <1>35, Ended DEF StartWrite
  <1>36. ASSUME NEW s \in Senders, Written(s)
        PROVE  OperationsWatched'
    BY <1>36, Ended DEF Written, Sent, MaySend, Returns
  <1>37. ASSUME NEW o \in Ops, WriteDone(o)
        PROVE  OperationsWatched'
    BY <1>37 DEF WriteDone, Environment
  <1>38. ASSUME NEW o \in Ops, WriteFails(o)
        PROVE  OperationsWatched'
    BY <1>38 DEF WriteFails, Environment
  <1>39. CASE Stops
    BY <1>39 DEF Stops, vars
  <1> QED
    BY <1>1, <1>2, <1>3, <1>4, <1>5, <1>6, <1>7, <1>8, <1>9, <1>10, <1>11,
       <1>12, <1>13, <1>14, <1>15, <1>16, <1>17, <1>18, <1>19, <1>20, <1>21,
       <1>22, <1>23, <1>24, <1>25, <1>26, <1>27, <1>28, <1>29, <1>30, <1>31,
       <1>32, <1>33, <1>34, <1>35, <1>36, <1>37, <1>38, <1>39 DEF Next,
       Reading, Handling, Sending, Pinging, Network

-----------------------------------------------------------------------------
(* The write queue *)

(* A call of send() enters or leaves the queue. *)
LEMMA OneMore ==
    ASSUME TypeOK, NEW s \in Senders, NEW n \in SenderStages,
           snd' = [snd EXCEPT ![s] = n]
    PROVE  /\ IsFiniteSet(Queued) /\ Cardinality(Queued) \in Nat
           /\ s \notin Queued /\ n \in {"arm", "start", "writing"} =>
                 Cardinality(Queued') = Cardinality(Queued) + 1
           /\ s \in Queued /\ n \notin {"arm", "start", "writing"} =>
                 Cardinality(Queued') = Cardinality(Queued) - 1
           /\ (s \in Queued <=> n \in {"arm", "start", "writing"}) =>
                 Queued' = Queued
  <1> USE DEF Queued, TypeOK
  <1>1. IsFiniteSet(Queued)
    BY ActorsFinite, FS_Subset
  <1>2. Cardinality(Queued) \in Nat
    BY <1>1, FS_CardinalityType
  <1>3. CASE s \notin Queued /\ n \in {"arm", "start", "writing"}
    <2>1. Queued' = Queued \cup {s}
      BY <1>3
    <2> QED
      BY <1>1, <1>2, <1>3, <2>1, FS_AddElement
  <1>4. CASE s \in Queued /\ n \notin {"arm", "start", "writing"}
    <2>1. Queued' = Queued \ {s}
      BY <1>4
    <2>2. Cardinality(Queued \ {s}) = Cardinality(Queued) - 1
      <3> HIDE DEF Queued
      <3> QED
        BY <1>1, <1>4, FS_RemoveElement
    <2> QED
      BY <1>1, <1>2, <1>4, <2>1, <2>2
  <1>5. CASE s \in Queued <=> n \in {"arm", "start", "writing"}
    <2>1. Queued' = Queued
      BY <1>5
    <2> QED
      BY <1>1, <1>2, <1>5, <2>1
  <1> QED
    BY <1>3, <1>4, <1>5

(* The new stage of a sender whose send() returns. *)
LEMMA SentStage ==
    ASSUME TypeOK, NEW s \in Senders, NEW ok \in BOOLEAN, Sent(s, ok)
    PROVE  \E n \in {"done", "pause", "idle"} : snd' = [snd EXCEPT ![s] = n]
  BY DEF Sent

LEMMA QueueStep ==
    ASSUME TypeOK, Turns, QueueCounted, Next
    PROVE  QueueCounted'
  <1> USE ActorsFinite, BoundsAssumption
  <1>1. ASSUME NEW s \in Senders, Sending(s) \/ (Pause /\ s = "reader")
        PROVE  QueueCounted'
    <2>1. threads' = threads /\ m_write_queue_size \in Int /\ MaxQueue \in Nat
      BY <1>1 DEF Sending, Refused, Admitted, CountIn, ArmWrite, StartWrite, Written,
         Pause, sendVars, envVars, outside, TypeOK
    <2>2. CASE Refused(s)
      <3>1. PICK n \in {"done", "pause", "idle"} : snd' = [snd EXCEPT ![s] = n]
        BY <2>2, SentStage DEF Refused
      <3>2. s \notin Queued /\ n \in SenderStages
        BY <2>2, <3>1 DEF Refused, Queued, SenderStages
      <3>3. Queued' = Queued
        BY <3>1, <3>2, OneMore
      <3> QED
        BY <2>1, <2>2, <3>3 DEF Refused, QueueCounted, sendVars
    <2>3. CASE Admitted(s)
      <3>1. s \notin Queued
        BY <2>3 DEF Admitted, Queued
      <3>2. Queued' = Queued
        BY <2>3, <3>1, OneMore DEF Admitted, SenderStages
      <3> QED
        BY <2>1, <2>3, <3>2 DEF Admitted, QueueCounted, sendVars
    <2>4. CASE CountIn(s)
      <3>1. s \notin Queued
        BY <2>4 DEF CountIn, Queued
      <3>2. Cardinality(Queued') = Cardinality(Queued) + 1
        BY <2>4, <3>1, OneMore DEF CountIn, SenderStages
      <3>3. threads = "one" => m_write_queue_size < MaxQueue
        BY <2>4 DEF CountIn, Turns
      <3>4. m_write_queue_size' = m_write_queue_size + 1
        BY <2>4 DEF CountIn
      <3> QED
        BY <2>1, <3>2, <3>3, <3>4 DEF QueueCounted
    <2>5. CASE ArmWrite(s) \/ StartWrite(s)
      <3>1. s \in Queued
        BY <2>5 DEF ArmWrite, StartWrite, Queued
      <3>2. Queued' = Queued
        BY <2>5, <3>1, OneMore DEF ArmWrite, StartWrite, SenderStages
      <3> QED
        BY <2>1, <2>5, <3>2 DEF ArmWrite, StartWrite, QueueCounted, sendVars
    <2>6. CASE Written(s)
      <3>1. PICK n \in {"done", "pause", "idle"} : snd' = [snd EXCEPT ![s] = n]
        BY <2>6, SentStage DEF Written
      <3>2. s \in Queued /\ n \in SenderStages
        BY <2>6, <3>1 DEF Written, Queued, SenderStages
      <3>3. Cardinality(Queued') = Cardinality(Queued) - 1
        BY <3>1, <3>2, OneMore
      <3>4. m_write_queue_size' = m_write_queue_size - 1
        BY <2>6 DEF Written
      <3> QED
        BY <2>1, <3>3, <3>4 DEF QueueCounted
    <2>7. CASE Pause /\ s = "reader"
      <3>1. s \notin Queued
        BY <2>7 DEF Pause, Queued
      <3>2. Queued' = Queued
        BY <2>7, <3>1, OneMore DEF Pause, SenderStages
      <3> QED
        BY <2>1, <2>7, <3>2 DEF Pause, QueueCounted, sendVars
    <2> QED
      BY <1>1, <2>2, <2>3, <2>4, <2>5, <2>6, <2>7 DEF Sending
  <1>2. CASE UNCHANGED <<snd, m_write_queue_size, threads>>
    BY <1>2 DEF QueueCounted, Queued
  <1>3. (\E s \in Senders : Sending(s) \/ (Pause /\ s = "reader"))
        \/ UNCHANGED <<snd, m_write_queue_size, threads>>
    BY DEF Next, Reading, Handling, Pinging, Network, Opened, ArmRead, StartRead,
       GotMessage, ReadEnded, HandlerClosed, Finish, MessageHandled, HandlerThrows,
       HandlerCloses, OpenThrows, AcceptFails, NoHandler, Open, PingStarts, SendPing,
       PingStops, AwaitPing, PingWritten, PingFailed, PingOk, PingCloses, PingDangles,
       Expire, RunCallback, Destroy, MessageArrives, ReadFails, WriteDone, WriteFails,
       PeerLeaves, Environment, Stops, sendVars, envVars, outside, vars
  <1> QED
    BY <1>1, <1>2, <1>3

-----------------------------------------------------------------------------
LEMMA Initially == Init => Inv
  <1> SUFFICES ASSUME Init PROVE Inv
    OBVIOUS
  <1> USE ActorsFinite
  <1>1. TypeOK
    BY TypeInit
  <1>2. \A s \in Senders : snd[s] = "idle"
    BY DEF Init
  <1>3. Handled
    BY <1>2 DEF Init, Handled
  <1>4. Kept /\ Turns
    BY <1>2 DEF Init, Kept, Turns
  <1>5. OperationsWatched
    BY <1>2 DEF Init, OperationsWatched
  <1>6. Queued = {}
    BY <1>2 DEF Queued
  <1>7. QueueCounted
    BY <1>6, FS_EmptySet, BoundsAssumption DEF Init, QueueCounted
  <1> QED
    BY <1>1, <1>3, <1>4, <1>5, <1>7 DEF Inv

LEMMA Stutters == Inv /\ UNCHANGED vars => Inv'
  <1> SUFFICES ASSUME Inv, UNCHANGED vars PROVE Inv'
    OBVIOUS
  <1> USE DEF vars, timerVars, batchVars, sendVars, envVars, outside
  <1>1. TypeOK'
    BY DEF Inv, TypeOK
  <1>2. Handled' /\ Kept'
    BY DEF Inv, Handled, Kept
  <1>3. Turns' /\ OperationsWatched'
    BY DEF Inv, Turns, OperationsWatched
  <1>4. QueueCounted'
    BY DEF Inv, QueueCounted, Queued
  <1> QED
    BY <1>1, <1>2, <1>3, <1>4 DEF Inv

LEMMA Invariance == Spec => []Inv
  <1>1. Inv /\ [Next]_vars => Inv'
    BY TypeStep, HandledStep, KeptStep, TurnsStep, WatchedStep, QueueStep, Stutters
       DEF Inv
  <1> QED
    BY Initially, <1>1, PTL DEF Spec

(* The state keeps its types, whoever is interrupted where. *)
THEOREM WebSocketTypes == Spec => []TypeOK
  <1>1. Inv => TypeOK
    BY DEF Inv
  <1> QED
    BY Invariance, <1>1, PTL

(* send() counts every call in once and out once, and one thread admits    *)
(* no more than the limit.                                                 *)
THEOREM WriteQueueCounted == Spec => []QueueCounted
  <1>1. Inv => QueueCounted
    BY DEF Inv
  <1> QED
    BY Invariance, <1>1, PTL

(* In one thread no read or write is left without a watchdog. *)
THEOREM NothingUnwatched == Spec => []OperationsWatched
  <1>1. Inv => OperationsWatched
    BY DEF Inv
  <1> QED
    BY Invariance, <1>1, PTL
=============================================================================
