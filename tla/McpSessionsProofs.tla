-------------------------- MODULE McpSessionsProofs --------------------------
(***************************************************************************)
(* What the session registry keeps for any number of requests in service,  *)
(* of sessions and of records.                                             *)
(***************************************************************************)
EXTENDS McpSessions, FiniteSetTheorems, TLAPS

Numbers == 0..MaxRecords
Request == [method : Methods, id : SessionIds]
Draft == [key : Keys, history : Seq(Numbers)]
WholeDraft == {d \in Draft : d.history # <<>>}

SessionsTyped == Live \subseteq SessionIds /\ m_sessions \in [Live -> Session]

ControlTyped ==
    /\ pc \in [Workers -> Stages]
    /\ request \in [Workers -> {NoRequest} \cup Request]
    /\ \A w \in Workers : pc[w] # "idle" => request[w] \in Request

(* Between its two sections a worker holds a history that is not empty.    *)
DraftsTyped ==
    /\ draft \in [Workers -> {NoDraft} \cup Draft]
    /\ \A w \in Workers : pc[w] = "save" => draft[w] \in WholeDraft

GhostsTyped ==
    /\ records \in 0..MaxRecords
    /\ generated \subseteq SessionIds
    /\ issued \subseteq generated
    /\ saved \subseteq SessionIds \X Keys \X Numbers
    /\ raced \subseteq SessionIds \X Keys
    /\ replaced \subseteq SessionIds \X Keys

Typed == SessionsTyped /\ ControlTyped /\ DraftsTyped /\ GhostsTyped

-----------------------------------------------------------------------------
(* Operations on the map of sessions *)

LEMMA NewIsTyped == NewSession \in Session
  <1>1. NewSession.metadata \in [Keys -> Seq(Numbers)] /\ NewSession.idle = 0
    BY DEF NewSession
  <1> QED
    BY <1>1, BoundsAssumption DEF NewSession, Session, History, Numbers

LEMMA LiveIsFinite ==
    ASSUME SessionsTyped
    PROVE  IsFiniteSet(Live) /\ Cardinality(Live) \in Nat
  BY SetsAssumption, FS_Subset, FS_CardinalityType DEF SessionsTyped

LEMMA PutTyped ==
    ASSUME SessionsTyped, NEW s \in SessionIds, NEW x \in Session,
           m_sessions' = Put(s, x)
    PROVE  SessionsTyped' /\ Live' = Live \cup {s}
  BY DEF SessionsTyped, Put, Live

LEMMA KeepTyped ==
    ASSUME SessionsTyped, NEW S \in SUBSET Live, m_sessions' = Keep(S)
    PROVE  SessionsTyped' /\ Live' = S
  BY DEF SessionsTyped, Keep, Live

LEMMA IdleIsFree ==
    ASSUME NEW x \in Session, NEW n \in 0..(Timeout + 1)
    PROVE  [x EXCEPT !.idle = n] \in Session
  BY DEF Session

LEMMA StoreTyped ==
    ASSUME NEW x \in Session, NEW k \in Keys, NEW h \in Seq(Numbers)
    PROVE  [x EXCEPT !.idle = 0, !.metadata[k] = h] \in Session
  <1> DEFINE m == [x.metadata EXCEPT ![k] = h]
             y == [x EXCEPT !.idle = 0]
  <1>1. m \in [Keys -> Seq(Numbers)]
    BY DEF Session, History, Numbers
  <1>2. y \in Session /\ y.metadata = x.metadata
    BY IdleIsFree, BoundsAssumption DEF Session
  <1>3. ASSUME NEW z \in Session
        PROVE  [z EXCEPT !.metadata = m] \in Session
    <2> HIDE DEF m
    <2> QED
      BY <1>1 DEF Session, History, Numbers
  <1>4. [x EXCEPT !.idle = 0, !.metadata[k] = h] = [y EXCEPT !.metadata = m]
    BY <1>2
  <1> QED
    BY <1>2, <1>3, <1>4

LEMMA TouchedTyped ==
    ASSUME SessionsTyped, NEW s, m_sessions' = Touched(s)
    PROVE  SessionsTyped' /\ Live' = Live
  <1>1. CASE s \notin Live
    BY <1>1 DEF Touched, SessionsTyped, Live
  <1>2. CASE s \in Live
    <2> DEFINE x == [m_sessions[s] EXCEPT !.idle = 0]
    <2>1. m_sessions[s] \in Session
      BY <1>2 DEF SessionsTyped
    <2>2. x \in Session
      BY <2>1, IdleIsFree, BoundsAssumption
    <2>3. m_sessions' = [m_sessions EXCEPT ![s] = x]
      BY <1>2, Zenon DEF Touched
    <2> HIDE DEF x
    <2> QED
      BY <1>2, <2>2, <2>3 DEF SessionsTyped, Live
  <1> QED
    BY <1>1, <1>2

LEMMA TickTyped ==
    ASSUME SessionsTyped, Tick
    PROVE  SessionsTyped' /\ Live' = Live
  <1> DEFINE Older(x) == IF x.idle > Timeout THEN x.idle ELSE x.idle + 1
             Aged(x) == [x EXCEPT !.idle = Older(x)]
  <1>1. \A x \in Session : Aged(x) \in Session
    <2> TAKE x \in Session
    <2>1. x.idle \in 0..(Timeout + 1)
      BY DEF Session
    <2>2. Older(x) \in 0..(Timeout + 1)
      BY <2>1, BoundsAssumption
    <2> HIDE DEF Older
    <2> QED
      BY <2>2, IdleIsFree
  <1>2. m_sessions' = [s \in Live |-> Aged(m_sessions[s])]
    BY Zenon DEF Tick
  <1> HIDE DEF Aged
  <1> QED
    BY <1>1, <1>2 DEF SessionsTyped, Live

(* Adding a record and dropping the oldest entry when there is one too     *)
(* many: a history that was within its limit stays so.                     *)
LEMMA TrimKeepsBound ==
    ASSUME NEW k \in Keys, NEW h \in Seq(Numbers), NEW r \in Numbers
    PROVE  /\ Trim(k, Append(h, r)) \in Seq(Numbers)
           /\ Trim(k, Append(h, r)) # <<>>
           /\ Len(h) <= MaxHistory[k] => Len(Trim(k, Append(h, r))) <= MaxHistory[k]
  <1>1. MaxHistory[k] \in Nat \ {0} /\ Len(h) \in Nat
    BY BoundsAssumption
  <1> DEFINE a == Append(h, r)
  <1>2. a \in Seq(Numbers) /\ Len(a) = Len(h) + 1
    OBVIOUS
  <1> HIDE DEF a
  <1>3. CASE Len(a) > MaxHistory[k]
    <2>1. Tail(a) \in Seq(Numbers) /\ Len(Tail(a)) = Len(a) - 1
      BY <1>1, <1>2, <1>3
    <2>2. Len(Tail(a)) >= 1 /\ (Len(h) <= MaxHistory[k] => Len(Tail(a)) <= MaxHistory[k])
      BY <1>1, <1>2, <1>3, <2>1
    <2>3. Tail(a) # <<>>
      <3>1. \A n \in Nat : n >= 1 => n # 0
        OBVIOUS
      <3>2. Len(Tail(a)) \in Nat
        BY <2>1
      <3>3. Len(Tail(a)) # 0
        BY <2>2, <3>1, <3>2, Zenon
      <3>4. Len(<<>>) = 0
        OBVIOUS
      <3> QED
        BY <3>3, <3>4, Zenon
    <2>4. Trim(k, a) = Tail(a)
      BY <1>3, Zenon DEF Trim
    <2> QED
      BY <2>1, <2>2, <2>3, <2>4, Zenon DEF a
  <1>4. CASE ~(Len(a) > MaxHistory[k])
    <2>1. a # <<>> /\ Len(a) <= MaxHistory[k]
      BY <1>1, <1>2, <1>4
    <2> QED
      BY <1>2, <1>4, <2>1 DEF Trim, a
  <1> QED
    BY <1>3, <1>4

-----------------------------------------------------------------------------
(* The parts of a step *)

LEMMA InitTyped == Init => Typed
  <1> SUFFICES ASSUME Init PROVE Typed
    OBVIOUS
  <1>1. m_sessions = <<>> /\ Live = {}
    BY DEF Init, Live
  <1>2. SessionsTyped
    BY <1>1 DEF SessionsTyped
  <1>3. ControlTyped
    BY DEF Init, ControlTyped, Stages
  <1>4. DraftsTyped
    BY DEF Init, DraftsTyped
  <1>5. GhostsTyped
    BY BoundsAssumption DEF Init, GhostsTyped
  <1> QED
    BY <1>2, <1>3, <1>4, <1>5 DEF Typed

LEMMA GotoTyped ==
    ASSUME ControlTyped, NEW w \in Workers, NEW from, NEW to \in Stages,
           from # "idle", Goto(w, from, to)
    PROVE  ControlTyped' /\ request[w] \in Request
  BY DEF ControlTyped, Goto

(* Only reading a history makes a worker hold one. *)
LEMMA DraftsStay ==
    ASSUME DraftsTyped, ControlTyped, NEW w \in Workers, NEW from, NEW to,
           to # "save", Goto(w, from, to), draft' = draft
    PROVE  DraftsTyped'
  BY DEF DraftsTyped, ControlTyped, Goto

LEMMA BeginTyped ==
    ASSUME ControlTyped, DraftsTyped, NEW w \in Workers, NEW stage \in {"register", "validate"},
           NEW m \in Methods, NEW s \in SessionIds, Begin(w, stage, m, s)
    PROVE  ControlTyped' /\ DraftsTyped'
  <1>1. ControlTyped'
    BY DEF ControlTyped, Begin, Stages, Request
  <1>2. DraftsTyped'
    BY DEF ControlTyped, DraftsTyped, Begin
  <1> QED
    BY <1>1, <1>2

LEMMA ReadHistoryTyped ==
    ASSUME Typed, NEW w \in Workers, ReadHistory(w)
    PROVE  Typed'
  <1>1. ControlTyped' /\ request[w] \in Request
    BY GotoTyped DEF ReadHistory, Typed, Stages
  <1>2. SessionsTyped'
    BY DEF Typed, SessionsTyped, ReadHistory, Live
  <1>3. records' \in Numbers
    BY BoundsAssumption DEF ReadHistory, Typed, GhostsTyped, Numbers
  <1>4. PICK k \in Keys :
          /\ draft' = [draft EXCEPT ![w] =
                 [key |-> k, history |-> Trim(k, Append(Stored(Id(w), k), records'))]]
          /\ raced' = raced \cup
                 {<<Id(v), k>> : v \in {u \in Workers : /\ pc[u] = "save"
                                                        /\ Id(u) = Id(w)
                                                        /\ draft[u].key = k}}
    BY Zenon DEF ReadHistory
  <1>5. Stored(Id(w), k) \in Seq(Numbers)
    <2>1. CASE Id(w) \in Live
      <3>1. m_sessions[Id(w)] \in Session
        BY <2>1 DEF Typed, SessionsTyped
      <3> QED
        BY <2>1, <3>1 DEF Stored, Session, History, Numbers
    <2>2. CASE Id(w) \notin Live
      BY <2>2 DEF Stored
    <2> QED
      BY <2>1, <2>2
  <1> DEFINE h == Trim(k, Append(Stored(Id(w), k), records'))
             d == [key |-> k, history |-> h]
  <1>6. h \in Seq(Numbers) /\ h # <<>>
    BY <1>3, <1>5, TrimKeepsBound
  <1> HIDE DEF h
  <1>7. d \in WholeDraft
    BY <1>6 DEF WholeDraft, Draft
  <1>8. draft' = [draft EXCEPT ![w] = d] /\ pc' = [pc EXCEPT ![w] = "save"]
    BY <1>4, Zenon DEF h, ReadHistory, Goto
  <1> HIDE DEF d
  <1>9. DraftsTyped'
    BY <1>7, <1>8 DEF Typed, DraftsTyped, ControlTyped, WholeDraft
  <1>10. raced' \subseteq SessionIds \X Keys
    <2>1. \A v \in Workers : pc[v] = "save" => Id(v) \in SessionIds
      BY DEF Typed, ControlTyped, Request, Id
    <2> QED
      BY <1>4, <2>1 DEF Typed, GhostsTyped
  <1>11. GhostsTyped'
    BY <1>3, <1>10 DEF ReadHistory, Typed, GhostsTyped, Numbers
  <1> QED
    BY <1>1, <1>2, <1>9, <1>11 DEF Typed

LEMMA SaveHistoryTyped ==
    ASSUME Typed, NEW w \in Workers, SaveHistory(w)
    PROVE  Typed' /\ Live' = Live
  <1> DEFINE s == Id(w)
             k == draft[w].key
             h == draft[w].history
  <1>1. Goto(w, "save", IF k = "history" THEN "tool" ELSE "latest")
    BY Zenon DEF SaveHistory
  <1>2. pc[w] = "save" /\ draft[w] \in WholeDraft
    BY <1>1 DEF Goto, Typed, DraftsTyped
  <1>3. k \in Keys /\ h \in Seq(Numbers) /\ h # <<>>
    BY <1>2 DEF WholeDraft, Draft
  <1>4. h[Len(h)] \in Numbers
    BY <1>3
  <1>5. s \in SessionIds
    BY <1>2 DEF Typed, ControlTyped, Request, Id
  <1>6. ControlTyped'
    BY <1>1, GotoTyped DEF Typed, Stages
  <1>7. DraftsTyped'
    BY <1>1 DEF SaveHistory, Goto, Typed, DraftsTyped, ControlTyped
  <1>8. SessionsTyped' /\ Live' = Live
    <2>1. CASE s \notin Live
      BY <2>1 DEF SaveHistory, Typed, SessionsTyped, Live
    <2>2. CASE s \in Live
      <3> DEFINE x == [m_sessions[s] EXCEPT !.idle = 0, !.metadata[k] = h]
      <3>1. m_sessions[s] \in Session
        BY <2>2 DEF Typed, SessionsTyped
      <3>2. x \in Session
        <4> HIDE DEF s, k, h
        <4> QED
          BY <1>3, <3>1, StoreTyped
      <3>3. m_sessions' = [m_sessions EXCEPT ![s] = x]
        BY <2>2, Zenon DEF SaveHistory
      <3> HIDE DEF x
      <3> QED
        BY <2>2, <3>2, <3>3 DEF Typed, SessionsTyped, Live
    <2> QED
      BY <2>1, <2>2
  <1>9. GhostsTyped'
    <2>1. saved' = saved \/ saved' = saved \cup {<<s, k, h[Len(h)]>>}
      BY Zenon DEF SaveHistory
    <2> HIDE DEF s, k, h
    <2>2. saved' \subseteq SessionIds \X Keys \X Numbers
      BY <1>3, <1>4, <1>5, <2>1 DEF Typed, GhostsTyped
    <2>3. UNCHANGED <<records, generated, issued, raced, replaced>>
      BY Zenon DEF SaveHistory
    <2> QED
      BY <2>2, <2>3 DEF Typed, GhostsTyped
  <1> QED
    BY <1>6, <1>7, <1>8, <1>9 DEF Typed

LEMMA SetMetadataTyped ==
    ASSUME Typed, NEW w \in Workers, SetMetadata(w)
    PROVE  Typed' /\ Live' = Live
  <1> DEFINE s == Id(w)
  <1>1. Goto(w, "dispatch", "idle") /\ UNCHANGED <<draft, generated, issued, raced>>
    BY Zenon DEF SetMetadata
  <1>2. records' \in 0..MaxRecords
    BY BoundsAssumption DEF SetMetadata, Typed, GhostsTyped
  <1>3. ControlTyped' /\ s \in SessionIds
    BY <1>1, GotoTyped DEF Typed, Stages, Request, Id
  <1>4. DraftsTyped'
    BY <1>1, DraftsStay DEF Typed
  <1>5. PICK k \in Keys, n \in ArrayLengths :
            IF s \in Live
            THEN /\ m_sessions' = [m_sessions EXCEPT ![s] =
                        [@ EXCEPT !.idle = 0, !.metadata[k] = FromClient(n)]]
                 /\ saved' = {e \in saved : ~(e[1] = s /\ e[2] = k)}
                 /\ replaced' = replaced \cup {<<s, k>>}
            ELSE UNCHANGED <<m_sessions, saved, replaced>>
    BY Zenon DEF SetMetadata
  <1>6. FromClient(n) \in Seq(Numbers)
    BY BoundsAssumption DEF FromClient, Numbers
  <1>7. CASE s \in Live
    <2> DEFINE x == [m_sessions[s] EXCEPT !.idle = 0, !.metadata[k] = FromClient(n)]
    <2>1. m_sessions[s] \in Session
      BY <1>7 DEF Typed, SessionsTyped
    <2>2. x \in Session
      BY <1>6, <2>1, StoreTyped
    <2>3. m_sessions' = [m_sessions EXCEPT ![s] = x]
      BY <1>5, <1>7, Zenon
    <2> HIDE DEF x
    <2>4. SessionsTyped' /\ Live' = Live
      BY <1>7, <2>2, <2>3 DEF Typed, SessionsTyped, Live
    <2>5. GhostsTyped'
      BY <1>1, <1>2, <1>3, <1>5, <1>7 DEF Typed, GhostsTyped
    <2> QED
      BY <1>3, <1>4, <2>4, <2>5 DEF Typed
  <1>8. CASE s \notin Live
    <2>1. SessionsTyped' /\ Live' = Live
      BY <1>5, <1>8 DEF Typed, SessionsTyped, Live
    <2>2. GhostsTyped'
      BY <1>1, <1>2, <1>5, <1>8 DEF Typed, GhostsTyped
    <2> QED
      BY <1>3, <1>4, <2>1, <2>2 DEF Typed
  <1> QED
    BY <1>7, <1>8

(* The three sections that copy, store or replace a history.               *)
ServeHistory(w) == ReadHistory(w) \/ SaveHistory(w) \/ SetMetadata(w)

LEMMA ServeHistoryTyped ==
    ASSUME Typed, NEW w \in Workers, ServeHistory(w)
    PROVE  Typed'
  BY ReadHistoryTyped, SaveHistoryTyped, SetMetadataTyped DEF ServeHistory

(* Every section of a request but the first, by what it does with pc. *)
LEMMA ServeMoves ==
    ASSUME NEW w \in Workers, Serve(w), ~ServeHistory(w)
    PROVE  /\ \E from \in Stages \ {"idle"}, to \in Stages \ {"save"} : Goto(w, from, to)
           /\ UNCHANGED <<draft, records, generated, saved, raced, replaced>>
  <1>1. CASE Register(w) \/ Cleanup(w) \/ Recheck(w) \/ Insert(w)
    <2>1. /\ \E from \in {"register", "cleanup", "recheck", "insert"},
               to \in {"dispatch", "cleanup", "recheck", "insert", "idle"} : Goto(w, from, to)
          /\ UNCHANGED <<draft, records, generated, saved, raced, replaced>>
      BY <1>1 DEF Register, Cleanup, Recheck, Insert, ghosts
    <2> QED
      BY <2>1 DEF Stages
  <1>2. CASE Validate(w) \/ Touch(w)
    <2>1. /\ \E from \in {"validate", "touch"}, to \in {"touch", "idle", "dispatch"} :
               Goto(w, from, to)
          /\ UNCHANGED <<draft, records, generated, saved, raced, replaced>>
      BY <1>2 DEF Validate, Touch, ghosts
    <2> QED
      BY <2>1 DEF Stages
  <1>3. CASE \/ ServeReading(w) \/ ServeTouching(w) \/ ServeUnregister(w) \/ CallTool(w)
             \/ SaveLatest(w)
    <2>1. /\ \E from \in {"dispatch", "tool", "latest"}, to \in {"tool", "idle"} :
               Goto(w, from, to)
          /\ UNCHANGED <<draft, records, generated, saved, raced, replaced>>
      BY <1>3 DEF ServeReading, ServeTouching, ServeUnregister, CallTool, SaveLatest, ghosts
    <2> QED
      BY <2>1 DEF Stages
  <1> QED
    BY <1>1, <1>2, <1>3 DEF Serve, ServeHistory

(* ... and by what it does with the sessions.                              *)
LEMMA ServeSessions ==
    ASSUME Typed, NEW w \in Workers, Serve(w)
    PROVE  /\ SessionsTyped'
           /\ \/ Live' \subseteq Live
              \/ /\ Live' = Live \cup {Id(w)}
                 /\ \/ pc[w] = "register" /\ Cardinality(Live) < MaxSessions
                    \/ pc[w] = "insert"
                 /\ pc' = [pc EXCEPT ![w] = "dispatch"]
                 /\ issued' = issued \cup {Id(w)}
  <1>1. SessionsTyped
    BY DEF Typed
  <1>2. pc[w] # "idle" => Id(w) \in SessionIds
    BY DEF Typed, ControlTyped, Request, Id
  <1>3. CASE m_sessions' = m_sessions
    BY <1>1, <1>3 DEF SessionsTyped, Live
  <1>4. CASE m_sessions' = Touched(Id(w))
    BY <1>1, <1>4, TouchedTyped
  <1>5. CASE \E S \in SUBSET Live : m_sessions' = Keep(S)
    BY <1>1, <1>5, KeepTyped
  <1>6. CASE Register(w) /\ m_sessions' = Put(Id(w), NewSession)
    <2>1. CASE Id(w) \in Live
      <3>1. m_sessions' = Touched(Id(w))
        BY <1>6, <2>1 DEF Register
      <3> QED
        BY <1>4, <3>1
    <2>2. CASE Id(w) \notin Live /\ Cardinality(Live) >= MaxSessions
      <3>1. ~(Cardinality(Live) < MaxSessions)
        BY <1>1, <2>2, LiveIsFinite, BoundsAssumption
      <3>2. m_sessions' = m_sessions
        BY <1>6, <2>2, <3>1, Zenon DEF Register
      <3> QED
        BY <1>3, <3>2
    <2>3. CASE Id(w) \notin Live /\ ~(Cardinality(Live) >= MaxSessions)
      <3>1. /\ Goto(w, "register", "dispatch") /\ issued' = issued \cup {Id(w)}
            /\ Cardinality(Live) < MaxSessions
        BY <1>6, <2>3, Zenon DEF Register
      <3> QED
        BY <1>1, <1>2, <1>6, <3>1, PutTyped, NewIsTyped DEF Goto
    <2> QED
      BY <2>1, <2>2, <2>3
  <1>7. CASE Insert(w)
    <2>1. /\ Goto(w, "insert", "dispatch") /\ issued' = issued \cup {Id(w)}
          /\ m_sessions' = Put(Id(w), NewSession)
      BY <1>7, Zenon DEF Insert
    <2> QED
      BY <1>1, <1>2, <2>1, PutTyped, NewIsTyped DEF Goto
  <1>8. CASE SaveHistory(w) \/ SetMetadata(w)
    BY <1>8, SaveHistoryTyped, SetMetadataTyped DEF Typed
  <1>9. CASE Cleanup(w) \/ ServeUnregister(w)
    <2>1. m_sessions' = Keep({s \in Live : ~Expired(s)}) \/ m_sessions' = Keep(Live \ {Id(w)})
      BY <1>9, Zenon DEF Cleanup, ServeUnregister
    <2> QED
      BY <1>5, <2>1
  <1>10. CASE \/ Recheck(w) \/ Validate(w) \/ Touch(w) \/ ServeReading(w) \/ ServeTouching(w)
              \/ CallTool(w) \/ ReadHistory(w) \/ SaveLatest(w)
    <2>1. m_sessions' = m_sessions \/ m_sessions' = Touched(Id(w))
      BY <1>10, Zenon DEF Recheck, Validate, Touch, ServeReading, ServeTouching, CallTool,
         ReadHistory, SaveLatest
    <2> QED
      BY <1>3, <1>4, <2>1
  <1>11. CASE Register(w)
    BY <1>3, <1>4, <1>6, <1>11, Zenon DEF Register
  <1> QED
    BY <1>7, <1>8, <1>9, <1>10, <1>11 DEF Serve

LEMMA ServeTyped ==
    ASSUME Typed, GhostsTyped', NEW w \in Workers, Serve(w)
    PROVE  Typed'
  <1>1. CASE ServeHistory(w)
    BY <1>1, ServeHistoryTyped
  <1>2. CASE ~ServeHistory(w)
    <2>1. PICK from \in Stages \ {"idle"}, to \in Stages \ {"save"} : Goto(w, from, to)
      BY <1>2, ServeMoves
    <2>2. draft' = draft
      BY <1>2, ServeMoves
    <2>3. ControlTyped'
      BY <2>1, GotoTyped DEF Typed
    <2>4. DraftsTyped'
      BY <2>1, <2>2, DraftsStay DEF Typed
    <2> QED
      BY <2>3, <2>4, ServeSessions DEF Typed
  <1> QED
    BY <1>1, <1>2

-----------------------------------------------------------------------------
(* Ids are used once *)

Registering == {"register", "cleanup", "recheck", "insert"}

(* A session that exists has been issued; an id that is being registered   *)
(* has not, and belongs to one request only.                               *)
Fresh ==
    /\ Live \subseteq issued
    /\ \A w \in Workers : pc[w] \in Registering => Id(w) \in generated \ issued
    /\ \A v, w \in Workers :
           pc[v] \in Registering /\ pc[w] \in Registering /\ Id(v) = Id(w) => v = w

(* How a section of a request changes what is being registered.            *)
LEMMA ServeIssues ==
    ASSUME ControlTyped, NEW w \in Workers, Serve(w)
    PROVE  /\ \/ issued' = issued
              \/ /\ pc[w] \in Registering
                 /\ pc'[w] = "dispatch"
                 /\ issued' = issued \cup {Id(w)}
           /\ generated' = generated
           /\ pc'[w] \in Registering =>
                  pc[w] \in Registering /\ request' = request /\ issued' = issued
           /\ pc'[w] = "insert" => Recheck(w) /\ m_sessions' = m_sessions
           /\ pc'[w] # "insert" \/ ~(Cardinality(Live) >= MaxSessions)
           /\ \A v \in Workers \ {w} : pc'[v] = pc[v] /\ request'[v] = request[v]
  <1>1. CASE Register(w) \/ Cleanup(w) \/ Recheck(w) \/ Insert(w)
    BY <1>1 DEF Register, Cleanup, Recheck, Insert, Goto, ghosts, Registering, ControlTyped
  <1>2. CASE Validate(w) \/ Touch(w) \/ ReadHistory(w)
    BY <1>2 DEF Validate, Touch, ReadHistory, Goto, ghosts, Registering, ControlTyped
  <1>3. CASE \/ ServeReading(w) \/ ServeTouching(w) \/ ServeUnregister(w) \/ CallTool(w)
             \/ SaveHistory(w) \/ SetMetadata(w) \/ SaveLatest(w)
    <2>1. /\ \E from \in Stages, to \in {"tool", "idle", "latest"} : Goto(w, from, to)
          /\ UNCHANGED <<generated, issued>>
      BY <1>3 DEF ServeReading, ServeTouching, ServeUnregister, CallTool, SaveHistory,
         SetMetadata, SaveLatest, ghosts, Stages
    <2> QED
      BY <2>1 DEF Goto, Registering, ControlTyped
  <1> QED
    BY <1>1, <1>2, <1>3 DEF Serve

LEMMA ServeFresh ==
    ASSUME Typed, Fresh, NEW w \in Workers, Serve(w)
    PROVE  GhostsTyped' /\ Fresh'
  <1> USE DEF Typed
  <1>1. issued' \subseteq generated' /\ generated' = generated
    BY ServeIssues DEF Fresh, GhostsTyped
  <1>2. GhostsTyped'
    <2>1. CASE ServeHistory(w)
      BY <2>1, ServeHistoryTyped DEF Typed
    <2>2. CASE ~ServeHistory(w)
      BY <1>1, <2>2, ServeMoves DEF GhostsTyped
    <2> QED
      BY <2>1, <2>2
  <1>3. Live' \subseteq issued'
    <2>1. issued \subseteq issued'
      BY ServeIssues
    <2> QED
      BY <2>1, ServeSessions DEF Fresh
  <1>4. ASSUME NEW v \in Workers, pc'[v] \in Registering
        PROVE  /\ pc[v] \in Registering /\ Id(v)' = Id(v)
               /\ Id(v) \in generated \ issued'
    <2>1. pc[v] \in Registering /\ request'[v] = request[v]
      BY <1>4, ServeIssues
    <2>2. Id(v) \in generated \ issued
      BY <2>1 DEF Fresh
    <2>3. Id(v) \notin issued'
      <3>1. CASE issued' = issued
        BY <2>2, <3>1
      <3>2. CASE pc[w] \in Registering /\ pc'[w] = "dispatch" /\ issued' = issued \cup {Id(w)}
        <4>1. v # w
          BY <1>4, <3>2 DEF Registering
        <4>2. Id(v) # Id(w)
          BY <2>1, <3>2, <4>1 DEF Fresh
        <4> QED
          BY <2>2, <3>2, <4>2
      <3> QED
        BY <3>1, <3>2, ServeIssues
    <2> QED
      BY <2>1, <2>2, <2>3 DEF Id
  <1> QED
    BY <1>1, <1>2, <1>3, <1>4 DEF Fresh

LEMMA BeginFresh ==
    ASSUME Typed, Fresh, NEW w \in Workers, InitializeNew(w) \/ CarryId(w)
    PROVE  Typed' /\ Fresh' /\ m_sessions' = m_sessions /\ issued' = issued
  <1> USE DEF Typed
  <1>1. m_sessions' = m_sessions /\ issued' = issued /\ SessionsTyped'
    BY DEF InitializeNew, CarryId, Begin, SessionsTyped, Live
  <1>2. CASE InitializeNew(w)
    <2>1. PICK s \in SessionIds \ generated :
            Begin(w, "register", "initialize", s) /\ generated' = generated \cup {s}
      BY <1>2 DEF InitializeNew
    <2>2. ControlTyped' /\ DraftsTyped'
      BY <2>1, BeginTyped DEF Methods
    <2>3. GhostsTyped'
      BY <2>1 DEF GhostsTyped, Begin
    <2>4. /\ pc[w] = "idle"
          /\ \A v \in Workers \ {w} : pc'[v] = pc[v] /\ Id(v)' = Id(v)
          /\ Id(w)' = s
      BY <2>1 DEF Begin, ControlTyped, Id
    <2>5. s \notin issued' /\ s \in generated' /\ s \notin generated
      BY <1>1, <2>1 DEF GhostsTyped
    <2>6. \A v \in Workers \ {w} : pc'[v] \in Registering =>
              pc[v] \in Registering /\ Id(v)' \in generated \ issued'
      BY <1>1, <2>4 DEF Fresh
    <2>7. \A v \in Workers : pc'[v] \in Registering => Id(v)' \in generated' \ issued'
      BY <2>1, <2>4, <2>5, <2>6
    <2>8. \A u, v \in Workers :
             pc'[u] \in Registering /\ pc'[v] \in Registering /\ Id(u)' = Id(v)' => u = v
      BY <2>4, <2>5, <2>6 DEF Fresh
    <2>9. Live' \subseteq issued'
      BY <1>1 DEF Fresh, Live
    <2> QED
      BY <1>1, <2>2, <2>3, <2>7, <2>8, <2>9 DEF Fresh
  <1>3. CASE CarryId(w)
    <2>1. PICK m \in Methods, s \in issued : Begin(w, "validate", m, s)
      BY <1>3 DEF CarryId
    <2>2. generated' = generated /\ s \in SessionIds
      BY <1>3 DEF CarryId, GhostsTyped
    <2>3. ControlTyped' /\ DraftsTyped'
      BY <2>1, <2>2, BeginTyped
    <2>4. GhostsTyped'
      BY <2>1, <2>2 DEF GhostsTyped, Begin
    <2>5. /\ pc'[w] = "validate"
          /\ \A v \in Workers \ {w} : pc'[v] = pc[v] /\ Id(v)' = Id(v)
      BY <2>1 DEF Begin, ControlTyped, Id
    <2>6. \A v \in Workers : pc'[v] \in Registering =>
              v # w /\ pc[v] \in Registering /\ Id(v)' = Id(v)
      BY <2>5 DEF Registering
    <2>7. Live' \subseteq issued'
      BY <1>1 DEF Fresh, Live
    <2> QED
      BY <1>1, <2>2, <2>3, <2>4, <2>6, <2>7 DEF Fresh
  <1> QED
    BY <1>2, <1>3

-----------------------------------------------------------------------------
(* The limit *)

LEMMA WorkersAreMany ==
    /\ Cardinality(Workers) \in Nat /\ Cardinality(Workers) >= 1
    /\ \A S \in SUBSET Workers :
           /\ IsFiniteSet(S)
           /\ Cardinality(S) \in Nat
           /\ Cardinality(S) <= Cardinality(Workers)
           /\ \A w \in Workers \ S : Cardinality(S) <= Cardinality(Workers) - 1
  <1>1. Cardinality(Workers) \in Nat /\ Cardinality(Workers) # 0
    BY SetsAssumption, FS_CardinalityType, FS_EmptySet
  <1>2. ASSUME NEW S \in SUBSET Workers
        PROVE  /\ IsFiniteSet(S) /\ Cardinality(S) \in Nat
               /\ Cardinality(S) <= Cardinality(Workers)
    BY <1>2, SetsAssumption, FS_Subset, FS_CardinalityType
  <1>3. ASSUME NEW S \in SUBSET Workers, NEW w \in Workers \ S
        PROVE  Cardinality(S) <= Cardinality(Workers) - 1
    <2>1. S \cup {w} \in SUBSET Workers
      OBVIOUS
    <2>2. Cardinality(S \cup {w}) = Cardinality(S) + 1
      BY <1>2, FS_AddElement
    <2>3. Cardinality(S \cup {w}) <= Cardinality(Workers)
      BY <1>2, <2>1
    <2> QED
      BY <1>1, <1>2, <2>2, <2>3
  <1> QED
    BY <1>1, <1>2, <1>3

(* The overrun does not grow when neither set does. *)
LEMMA OverrunShrinks ==
    ASSUME SessionsTyped, OverrunByWorkers, Live' \subseteq Live,
           At("insert")' \subseteq At("insert")
    PROVE  OverrunByWorkers'
  <1>1. Cardinality(Live') <= Cardinality(Live) /\ Cardinality(Live') \in Nat
    BY LiveIsFinite, FS_Subset, FS_CardinalityType
  <1>2. At("insert") \in SUBSET Workers
    BY DEF At
  <1>3. /\ Cardinality(At("insert")') <= Cardinality(At("insert"))
        /\ Cardinality(At("insert")') \in Nat
    BY <1>2, WorkersAreMany, FS_Subset, FS_CardinalityType
  <1> QED
    BY <1>1, <1>2, <1>3, LiveIsFinite, WorkersAreMany, BoundsAssumption DEF OverrunByWorkers

LEMMA ServeOverrun ==
    ASSUME Typed, OverrunByWorkers, NEW w \in Workers, Serve(w)
    PROVE  OverrunByWorkers'
  <1> DEFINE I == At("insert")
             J == At("insert")'
  <1> USE DEF Typed
  <1>1. I \in SUBSET Workers /\ J \in SUBSET Workers
    BY DEF At
  <1>2. /\ Cardinality(I) \in Nat /\ Cardinality(J) \in Nat
        /\ Cardinality(J) <= Cardinality(Workers)
        /\ Cardinality(Workers) \in Nat
        /\ Cardinality(Live) \in Nat /\ IsFiniteSet(Live)
        /\ MaxSessions \in Nat
    BY <1>1, WorkersAreMany, LiveIsFinite, BoundsAssumption
  <1>3. \A v \in Workers \ {w} : v \in I <=> v \in J
    BY ServeIssues DEF At
  <1>4. CASE pc'[w] = "insert"
    <2>1. m_sessions' = m_sessions /\ ~(Cardinality(Live) >= MaxSessions)
      BY <1>4, ServeIssues
    <2>2. Live' = Live
      BY <2>1 DEF Live
    <2> QED
      BY <1>2, <2>1, <2>2 DEF OverrunByWorkers
  <1>5. CASE pc'[w] # "insert" /\ Live' \subseteq Live
    <2>1. J \subseteq I
      BY <1>3, <1>5 DEF At
    <2> QED
      BY <1>5, <2>1, OverrunShrinks
  <1>6. CASE /\ pc'[w] # "insert" /\ Live' = Live \cup {Id(w)}
             /\ \/ pc[w] = "register" /\ Cardinality(Live) < MaxSessions
                \/ pc[w] = "insert"
    <2>1. Cardinality(Live') <= Cardinality(Live) + 1 /\ Cardinality(Live') \in Nat
      <3>1. CASE Id(w) \in Live
        <4>1. Live' = Live
          BY <1>6, <3>1
        <4> QED
          BY <1>2, <4>1
      <3>2. CASE Id(w) \notin Live
        <4>1. Cardinality(Live \cup {Id(w)}) = Cardinality(Live) + 1
          BY <1>2, <3>2, FS_AddElement
        <4> QED
          BY <1>2, <1>6, <4>1
      <3> QED
        BY <3>1, <3>2
    <2>2. w \notin J
      BY <1>6 DEF At
    <2>3. CASE Cardinality(Live) < MaxSessions
      <3>1. Cardinality(J) <= Cardinality(Workers) - 1
        BY <1>1, <2>2, WorkersAreMany
      <3> QED
        BY <1>2, <2>1, <2>3, <3>1 DEF OverrunByWorkers
    <2>4. CASE pc[w] = "insert"
      <3>1. w \in I /\ J = I \ {w}
        BY <1>3, <2>2, <2>4 DEF At
      <3> HIDE DEF I, J
      <3>2. Cardinality(J) = Cardinality(I) - 1
        BY <1>1, <3>1, WorkersAreMany, FS_RemoveElement
      <3> QED
        BY <1>2, <2>1, <3>2 DEF OverrunByWorkers, I, J
    <2> QED
      BY <1>6, <2>3, <2>4
  <1>7. \/ Live' \subseteq Live
        \/ /\ Live' = Live \cup {Id(w)}
           /\ \/ pc[w] = "register" /\ Cardinality(Live) < MaxSessions
              \/ pc[w] = "insert"
    BY ServeSessions
  <1> QED
    BY <1>4, <1>5, <1>6, <1>7

-----------------------------------------------------------------------------
(* The theorems *)

Inv == Typed /\ Fresh /\ OverrunByWorkers

LEMMA InitInv == Init => Inv
  <1> SUFFICES ASSUME Init PROVE Inv
    OBVIOUS
  <1>1. Live = {} /\ \A w \in Workers : pc[w] = "idle"
    BY DEF Init, Live
  <1>2. Fresh
    BY <1>1 DEF Fresh, Registering
  <1>3. At("insert") = {}
    BY <1>1 DEF At
  <1>4. OverrunByWorkers
    BY <1>1, <1>3, FS_EmptySet, WorkersAreMany, BoundsAssumption DEF OverrunByWorkers
  <1> QED
    BY <1>2, <1>4, InitTyped DEF Inv

(* A step that only removes or ages sessions. *)
LEMMA Housekeeping ==
    ASSUME Inv, CleanupExpired \/ Tick \/ UNCHANGED vars
    PROVE  Inv' /\ Live' \subseteq Live
  <1>1. UNCHANGED <<pc, request, draft, records, ghosts>>
    BY Zenon DEF CleanupExpired, Tick, vars
  <1>2. SessionsTyped' /\ Live' \subseteq Live
    <2>1. SessionsTyped
      BY DEF Inv, Typed
    <2>2. CASE CleanupExpired
      <3>1. m_sessions' = Keep({s \in Live : ~Expired(s)})
        BY <2>2, Zenon DEF CleanupExpired
      <3>2. {s \in Live : ~Expired(s)} \in SUBSET Live
        OBVIOUS
      <3> QED
        BY <2>1, <3>1, <3>2, KeepTyped
    <2>3. CASE Tick
      BY <2>1, <2>3, TickTyped
    <2>4. CASE UNCHANGED vars
      BY <2>1, <2>4 DEF vars, SessionsTyped, Live
    <2> QED
      BY <2>2, <2>3, <2>4
  <1>3. ControlTyped' /\ DraftsTyped' /\ GhostsTyped'
    BY <1>1 DEF Inv, Typed, ControlTyped, DraftsTyped, GhostsTyped, ghosts
  <1>4. Fresh'
    BY <1>1, <1>2 DEF Inv, Fresh, Id, ghosts
  <1>5. At("insert")' = At("insert")
    BY <1>1 DEF At
  <1>6. OverrunByWorkers'
    BY <1>2, <1>5, OverrunShrinks DEF Inv, Typed
  <1> QED
    BY <1>2, <1>3, <1>4, <1>6 DEF Inv, Typed

LEMMA StepInv == Inv /\ [Next]_vars => Inv'
  <1> SUFFICES ASSUME Inv, [Next]_vars PROVE Inv'
    OBVIOUS
  <1>1. ASSUME NEW w \in Workers, Serve(w)
        PROVE  Inv'
    BY <1>1, ServeFresh, ServeTyped, ServeOverrun DEF Inv
  <1>2. ASSUME NEW w \in Workers, InitializeNew(w) \/ CarryId(w)
        PROVE  Inv'
    <2>1. Typed' /\ Fresh' /\ m_sessions' = m_sessions
      BY <1>2, BeginFresh DEF Inv
    <2>2. At("insert")' \subseteq At("insert")
      BY <1>2 DEF At, InitializeNew, CarryId, Begin, Inv, Typed, ControlTyped
    <2>3. OverrunByWorkers'
      BY <2>1, <2>2, OverrunShrinks DEF Inv, Typed, Live
    <2> QED
      BY <2>1, <2>3 DEF Inv
  <1>3. CASE CleanupExpired \/ Tick \/ UNCHANGED vars
    BY <1>3, Housekeeping
  <1> QED
    BY <1>1, <1>2, <1>3 DEF Next

LEMMA InvHolds == Spec => []Inv
  BY InitInv, StepInv, PTL DEF Spec

(* registerSession lets go of its mutex between the check and the          *)
(* insertion; the sessions, with those on the point of being inserted, are *)
(* still at most m_max_sessions and one for each request in service but    *)
(* one.                                                                    *)
THEOREM OverrunLimited == Spec => []OverrunByWorkers
  BY InvHolds, PTL DEF Inv

(* A session that was unregistered or cleaned up is never inserted again,  *)
(* because only registerSession inserts and an id is registered once.      *)
THEOREM NoSessionReturns == Spec => NoResurrection
  <1>1. Inv /\ [Next]_vars => [\A s \in Ended : s \notin Live']_vars
    <2> SUFFICES ASSUME Inv, Next, NEW s \in Ended
                 PROVE  s \notin Live'
      BY Zenon
    <2>1. s \in issued /\ s \notin Live
      BY DEF Ended
    <2>2. ASSUME NEW w \in Workers, Serve(w)
          PROVE  s \notin Live'
      <3>1. \/ Live' \subseteq Live
            \/ Live' = Live \cup {Id(w)} /\ pc[w] \in Registering
        BY <2>2, ServeSessions DEF Inv, Registering
      <3>2. pc[w] \in Registering => Id(w) # s
        BY <2>1 DEF Inv, Fresh
      <3> QED
        BY <2>1, <3>1, <3>2
    <2>3. ASSUME NEW w \in Workers, InitializeNew(w) \/ CarryId(w)
          PROVE  s \notin Live'
      BY <2>1, <2>3, BeginFresh DEF Inv, Live
    <2>4. CASE CleanupExpired \/ Tick
      BY <2>1, <2>4, Housekeeping
    <2> QED
      BY <2>2, <2>3, <2>4 DEF Next
  <1> QED
    BY <1>1, InvHolds, PTL DEF Spec, NoResurrection

-----------------------------------------------------------------------------
(* What a section does to the sessions *)

LEMMA ServeMap ==
    ASSUME Typed, Fresh, NEW w \in Workers, Serve(w), ~SaveHistory(w), ~SetMetadata(w)
    PROVE  \/ m_sessions' = m_sessions
           \/ m_sessions' = Touched(Id(w)) /\ pc[w] \in {"touch", "dispatch", "latest"}
           \/ m_sessions' = Keep({s \in Live : ~Expired(s)})
           \/ ServeUnregister(w) /\ m_sessions' = Keep(Live \ {Id(w)})
           \/ m_sessions' = Put(Id(w), NewSession) /\ pc[w] \in Registering
  <1>1. CASE Register(w)
    <2>1. pc[w] = "register"
      BY <1>1, Zenon DEF Register, Goto
    <2>2. Id(w) \notin Live
      BY <2>1 DEF Fresh, Registering
    <2> QED
      BY <1>1, <2>1, <2>2, Zenon DEF Register, Registering
  <1>2. CASE Cleanup(w) \/ ServeUnregister(w)
    BY <1>2, Zenon DEF Cleanup, ServeUnregister
  <1>3. CASE Insert(w)
    BY <1>3, Zenon DEF Insert, Goto, Registering
  <1>4. CASE Touch(w) \/ ServeTouching(w) \/ SaveLatest(w)
    BY <1>4, Zenon DEF Touch, ServeTouching, SaveLatest, Goto
  <1>5. CASE Recheck(w) \/ Validate(w) \/ ServeReading(w) \/ CallTool(w) \/ ReadHistory(w)
    BY <1>5, Zenon DEF Recheck, Validate, ServeReading, CallTool, ReadHistory
  <1> QED
    BY <1>1, <1>2, <1>3, <1>4, <1>5 DEF Serve

(* A session of another id is left alone, or removed.                      *)
LEMMA OthersSpared ==
    ASSUME Inv, NEW w \in Workers, Serve(w), NEW s \in Live, s \in Live', s # Id(w)
    PROVE  m_sessions'[s] = m_sessions[s]
  <1>1. CASE SaveHistory(w) \/ SetMetadata(w)
    <2>1. m_sessions' = m_sessions \/ \E x : m_sessions' = [m_sessions EXCEPT ![Id(w)] = x]
      BY <1>1, Zenon DEF SaveHistory, SetMetadata
    <2> QED
      BY <2>1 DEF Inv, Typed, SessionsTyped
  <1>2. CASE m_sessions' = m_sessions
    BY <1>2
  <1>3. CASE m_sessions' = Touched(Id(w))
    BY <1>3 DEF Touched, Inv, Typed, SessionsTyped
  <1>4. CASE \E S \in SUBSET Live : m_sessions' = Keep(S)
    BY <1>4 DEF Keep, Live
  <1>5. CASE m_sessions' = Put(Id(w), NewSession)
    BY <1>5 DEF Put
  <1> QED
    BY <1>1, <1>2, <1>3, <1>4, <1>5, ServeMap DEF Inv

(* A session disappears only when it has expired, or when a request with   *)
(* its id unregisters it: no section of registerSession, of the tools or   *)
(* of the cleanup loses another one.                                       *)
THEOREM OnlyRemovedWhenDue == Spec => RemovedWhenDue
  <1> DEFINE Due(s) == \/ Expired(s)
                       \/ \E w \in Workers :
                             /\ pc[w] = "dispatch"
                             /\ request[w] = [method |-> "session/unregister", id |-> s]
  <1>1. Inv /\ [Next]_vars => [\A s \in Live \ Live' : Due(s)]_vars
    <2> SUFFICES ASSUME Inv, Next, NEW s \in Live \ Live' PROVE Due(s)
      BY Zenon
    <2>1. ASSUME NEW w \in Workers, Serve(w)
          PROVE  Due(s)
      <3>1. ~SaveHistory(w) /\ ~SetMetadata(w)
        BY SaveHistoryTyped, SetMetadataTyped DEF Inv
      <3>2. CASE m_sessions' = Keep({t \in Live : ~Expired(t)})
        BY <3>2 DEF Keep, Live
      <3>3. CASE ServeUnregister(w) /\ m_sessions' = Keep(Live \ {Id(w)})
        <4>1. /\ pc[w] = "dispatch" /\ s = Id(w)
              /\ request[w].method = "session/unregister"
          BY <3>3 DEF Keep, Live, ServeUnregister, Goto
        <4>2. request[w] \in Request
          BY <4>1 DEF Inv, Typed, ControlTyped
        <4>3. request[w] = [method |-> "session/unregister", id |-> s]
          BY <4>1, <4>2 DEF Request, Id
        <4> QED
          BY <4>1, <4>3
      <3>4. CASE m_sessions' = m_sessions
        BY <3>4 DEF Live
      <3>5. CASE m_sessions' = Touched(Id(w))
        BY <3>5, TouchedTyped DEF Inv, Typed
      <3>6. CASE m_sessions' = Put(Id(w), NewSession)
        BY <3>6 DEF Put, Live
      <3> HIDE DEF Due
      <3> QED
        BY <2>1, <3>1, <3>2, <3>3, <3>4, <3>5, <3>6, ServeMap DEF Inv
    <2>2. ASSUME NEW w \in Workers, InitializeNew(w) \/ CarryId(w)
          PROVE  Due(s)
      BY <2>2, BeginFresh DEF Inv, Live
    <2>3. CASE CleanupExpired
      BY <2>3 DEF CleanupExpired, Keep, Live
    <2>4. CASE Tick
      BY <2>4, TickTyped DEF Inv, Typed
    <2> HIDE DEF Due
    <2> QED
      BY <2>1, <2>2, <2>3, <2>4 DEF Next
  <1> QED
    BY <1>1, InvHolds, PTL DEF Spec, RemovedWhenDue

-----------------------------------------------------------------------------
(* Dead sessions *)

Admitting == {"touch", "dispatch", "tool", "save", "latest"}

(* The section that lets a request in finds its session valid; a request   *)
(* that registers its session is not in an older one.                      *)
LEMMA DeadRefuses ==
    ASSUME Inv, NEW w \in Workers, Serve(w), NEW s \in Live, Dead(s), Id(w) = s
    PROVE  m_sessions' = m_sessions \/ m_sessions' = Keep({t \in Live : ~Expired(t)})
  <1>1. pc[w] \notin Admitting
    BY DEF Dead, Admitted, Admitting
  <1>2. pc[w] \notin Registering
    BY DEF Inv, Fresh
  <1>3. ~SaveHistory(w) /\ ~SetMetadata(w)
    BY <1>1, Zenon DEF SaveHistory, SetMetadata, Goto, Admitting
  <1>4. ~ServeUnregister(w)
    BY <1>1, Zenon DEF ServeUnregister, Goto, Admitting
  <1> QED
    BY <1>1, <1>2, <1>3, <1>4, ServeMap DEF Inv, Admitting

LEMMA DeadLetsNobodyIn ==
    ASSUME Inv, NEW w \in Workers, Serve(w), NEW s \in Live, Dead(s)
    PROVE  ~Admitted(s)'
  <1>1. \A v \in Workers : pc[v] \in Admitting => Id(v) # s
    BY DEF Dead, Admitted, Admitting
  <1>2. \A v \in Workers \ {w} : pc'[v] = pc[v] /\ request'[v] = request[v]
    BY ServeIssues DEF Inv, Typed
  <1>3. ASSUME pc'[w] \in Admitting PROVE Id(w)' # s
    <2>1. pc[w] # "idle" /\ pc[w] \in Stages
      BY Zenon DEF Inv, Typed, ControlTyped, Serve, Register, Cleanup, Recheck, Insert, Validate,
         Touch, ServeReading, ServeTouching, SetMetadata, ServeUnregister, CallTool, ReadHistory,
         SaveHistory, SaveLatest, Goto
    <2>2. Id(w)' = Id(w)
      <3>1. \E from, to \in Stages : Goto(w, from, to)
        <4>1. CASE ServeHistory(w)
          BY <4>1 DEF ServeHistory, SaveHistory, ReadHistory, SetMetadata, Stages
        <4> QED
          BY <4>1, ServeMoves
      <3> QED
        BY <1>3, <3>1 DEF Goto, Id, Admitting, Inv, Typed, ControlTyped
    <2>3. CASE pc[w] \in Admitting
      BY <1>1, <2>2, <2>3
    <2>4. CASE pc[w] \in Registering
      BY <2>2, <2>4 DEF Inv, Fresh
    <2>5. CASE pc[w] = "validate"
      <3>1. Validate(w)
        BY <2>5 DEF Serve, Register, Cleanup, Recheck, Insert, Validate, Touch, ServeReading,
           ServeTouching, SetMetadata, ServeUnregister, CallTool, ReadHistory, SaveHistory,
           SaveLatest, Goto
      <3>2. ~Expired(Id(w))
        BY <1>3, <3>1 DEF Validate, Goto, Admitting, Inv, Typed, ControlTyped
      <3> QED
        BY <2>2, <3>2 DEF Dead
    <2> QED
      BY <2>1, <2>3, <2>4, <2>5 DEF Stages, Admitting, Registering
  <1>4. \A v \in Workers : pc'[v] \in Admitting => Id(v)' # s
    BY <1>1, <1>2, <1>3 DEF Id
  <1> QED
    BY <1>4 DEF Admitted, Admitting

(* A session that has expired and that no request is in is dead: no        *)
(* section of any request refreshes it or lets one in, until it is gone.   *)
THEOREM DeadForever == Spec => DeadStaysDead
  <1>1. Inv /\ [Next]_vars => [\A s \in Live : Dead(s) => (Dead(s) \/ s \notin Live)']_vars
    <2> SUFFICES ASSUME Inv, Next, NEW s \in Live, Dead(s), s \in Live'
                 PROVE  Expired(s)' /\ ~Admitted(s)'
      BY Zenon DEF Dead
    <2>1. Expired(s) /\ ~Admitted(s)
      BY DEF Dead
    <2>2. ASSUME NEW w \in Workers, Serve(w)
          PROVE  Expired(s)' /\ ~Admitted(s)'
      <3>1. m_sessions'[s] = m_sessions[s]
        <4>1. CASE Id(w) = s
          BY <2>2, <4>1, DeadRefuses DEF Keep, Live
        <4>2. CASE Id(w) # s
          BY <2>2, <4>2, OthersSpared
        <4> QED
          BY <4>1, <4>2
      <3> QED
        BY <2>1, <2>2, <3>1, DeadLetsNobodyIn DEF Expired
    <2>3. ASSUME NEW w \in Workers, InitializeNew(w) \/ CarryId(w)
          PROVE  Expired(s)' /\ ~Admitted(s)'
      <3>1. m_sessions' = m_sessions
        BY <2>3, BeginFresh DEF Inv
      <3>2. /\ pc'[w] \in {"register", "validate"}
            /\ \A v \in Workers \ {w} : pc'[v] = pc[v] /\ request'[v] = request[v]
        BY <2>3 DEF InitializeNew, CarryId, Begin, Inv, Typed, ControlTyped
      <3> QED
        BY <2>1, <3>1, <3>2 DEF Expired, Admitted, Id
    <2>4. CASE CleanupExpired \/ Tick
      <3>1. UNCHANGED <<pc, request>>
        BY <2>4, Zenon DEF CleanupExpired, Tick
      <3>2. Expired(s)'
        <4>1. CASE CleanupExpired
          BY <2>1, <4>1 DEF CleanupExpired, Keep, Live, Expired
        <4>2. CASE Tick
          <5>1. m_sessions[s] \in Session /\ m_sessions[s].idle > Timeout
            BY <2>1 DEF Expired, Inv, Typed, SessionsTyped
          <5>2. m_sessions'[s] = m_sessions[s]
            BY <4>2, <5>1 DEF Tick, Session
          <5> QED
            BY <2>1, <5>2 DEF Expired
        <4> QED
          BY <2>4, <4>1, <4>2
      <3> QED
        BY <2>1, <3>1, <3>2 DEF Admitted, Id
    <2> QED
      BY <2>2, <2>3, <2>4 DEF Next
  <1> QED
    BY <1>1, InvHolds, PTL DEF Spec, DeadStaysDead

-----------------------------------------------------------------------------
(* Histories *)

Served == {"validate"} \cup Admitting

(* A history of a key: at its limit, or with the record in it. *)
Holds(k, h, r) == Len(h) >= MaxHistory[k] \/ \E i \in DOMAIN h : h[i] = r

(* The worker is about to store a history in a session that exists, and no *)
(* other copy of it has been about.                                        *)
Stores(w, s, k) ==
    /\ pc[w] = "save" /\ Id(w) = s /\ draft[w].key = k
    /\ s \in Live /\ <<s, k>> \notin raced

(* Two workers that hold copies of one history are marked; a copy that is  *)
(* alone holds all that was stored.  Ids are not used again, so nothing    *)
(* was stored in a session that is new.                                    *)
Alone ==
    \A v, w \in Workers :
        pc[v] = "save" /\ pc[w] = "save" /\ Id(v) = Id(w) /\ draft[v].key = draft[w].key
            => v = w \/ <<Id(w), draft[w].key>> \in raced
CopiesWhole ==
    \A w \in Workers, e \in saved :
        Stores(w, e[1], e[2]) => Holds(e[2], draft[w].history, e[3])
OldIds ==
    /\ \A w \in Workers : pc[w] \in Served => Id(w) \in issued
    /\ \A e \in saved : e[1] \in issued

HistoryInv == Alone /\ CopiesWhole /\ OldIds /\ HistoryKept

LEMMA KeptHolds ==
    ASSUME NEW s, NEW k, NEW r
    PROVE  Kept(s, k, r) <=> Holds(k, m_sessions[s].metadata[k], r)
  BY DEF Kept, Holds

(* A step that stores no record, copies nothing and inserts only new ids.  *)
LEMMA HistoriesStay ==
    ASSUME HistoryInv,
           UNCHANGED <<draft, raced>>, saved' \subseteq saved,
           issued \subseteq issued',
           \A w \in Workers : pc'[w] = "save" => pc[w] = "save" /\ Id(w)' = Id(w),
           \A w \in Workers : pc'[w] \in Served => Id(w)' \in issued',
           \A e \in saved' : e[1] \in Live' =>
               \/ /\ e[1] \in Live
                  /\ m_sessions'[e[1]].metadata[e[2]] = m_sessions[e[1]].metadata[e[2]]
               \/ e[1] \notin issued
    PROVE  HistoryInv'
  <1>1. Alone'
    BY DEF HistoryInv, Alone
  <1>2. OldIds'
    BY DEF HistoryInv, OldIds
  <1>3. ASSUME NEW e \in saved', e[1] \in Live'
        PROVE  /\ e \in saved /\ e[1] \in Live
               /\ m_sessions'[e[1]].metadata[e[2]] = m_sessions[e[1]].metadata[e[2]]
    BY <1>3 DEF HistoryInv, OldIds
  <1>4. CopiesWhole'
    <2> SUFFICES ASSUME NEW w \in Workers, NEW e \in saved', Stores(w, e[1], e[2])'
                 PROVE  Holds(e[2], draft[w].history, e[3])
      BY Zenon DEF CopiesWhole, Holds
    <2>1. e \in saved /\ Stores(w, e[1], e[2])
      BY <1>3 DEF Stores
    <2> QED
      BY <2>1 DEF HistoryInv, CopiesWhole
  <1>5. HistoryKept'
    <2> SUFFICES ASSUME NEW e \in saved', e[1] \in Live', <<e[1], e[2]>> \notin raced
                 PROVE  Kept(e[1], e[2], e[3])'
      BY Zenon DEF HistoryKept
    <2>1. Kept(e[1], e[2], e[3])
      BY <1>3 DEF HistoryInv, HistoryKept
    <2> QED
      BY <1>3, <2>1 DEF Kept
  <1> QED
    BY <1>1, <1>2, <1>4, <1>5 DEF HistoryInv

(* Adding a record to a history and trimming it loses nothing before the   *)
(* history is full.                                                        *)
LEMMA TrimHolds ==
    ASSUME NEW k \in Keys, NEW h \in Seq(Numbers), NEW n \in Numbers, NEW r,
           Holds(k, h, r)
    PROVE  Holds(k, Trim(k, Append(h, n)), r)
  <1>1. MaxHistory[k] \in Nat \ {0} /\ Len(h) \in Nat
    BY BoundsAssumption
  <1> DEFINE a == Append(h, n)
  <1>2. a \in Seq(Numbers) /\ Len(a) = Len(h) + 1 /\ \A i \in 1..Len(h) : a[i] = h[i]
    OBVIOUS
  <1> HIDE DEF a
  <1>3. CASE Len(h) >= MaxHistory[k]
    <2>1. Len(Tail(a)) >= MaxHistory[k] /\ Len(a) > MaxHistory[k]
      BY <1>1, <1>2, <1>3
    <2> QED
      BY <2>1 DEF Trim, Holds, a
  <1>4. CASE ~(Len(h) >= MaxHistory[k])
    <2>1. PICK i \in DOMAIN h : h[i] = r
      BY <1>4 DEF Holds
    <2>2. i \in 1..Len(h) /\ i \in DOMAIN a /\ a[i] = r
      BY <1>1, <1>2, <2>1
    <2>3. Trim(k, a) = a
      BY <1>1, <1>2, <1>4 DEF Trim
    <2> QED
      BY <2>2, <2>3 DEF Holds, a
  <1> QED
    BY <1>3, <1>4

LEMMA ReadHistoryKeeps ==
    ASSUME Inv, HistoryInv, NEW w \in Workers, ReadHistory(w)
    PROVE  HistoryInv'
  <1>1. /\ pc[w] = "tool" /\ pc' = [pc EXCEPT ![w] = "save"] /\ request' = request
        /\ UNCHANGED <<m_sessions, generated, issued, saved, replaced>>
        /\ records' \in Numbers
    BY BoundsAssumption DEF ReadHistory, Goto, Inv, Typed, GhostsTyped, Numbers
  <1>2. PICK k \in Keys :
          /\ draft' = [draft EXCEPT ![w] =
                 [key |-> k, history |-> Trim(k, Append(Stored(Id(w), k), records'))]]
          /\ raced' = raced \cup
                 {<<Id(v), k>> : v \in {u \in Workers : /\ pc[u] = "save"
                                                        /\ Id(u) = Id(w)
                                                        /\ draft[u].key = k}}
    BY Zenon DEF ReadHistory
  <1> DEFINE h == Trim(k, Append(Stored(Id(w), k), records'))
             d == [key |-> k, history |-> h]
  <1>3. d.key = k /\ d.history = h
    OBVIOUS
  <1>4. draft' = [draft EXCEPT ![w] = d] /\ raced \subseteq raced'
    BY <1>2, Zenon
  <1>5. /\ draft'[w].key = k /\ draft'[w].history = h
        /\ \A v \in Workers \ {w} : draft'[v] = draft[v] /\ pc'[v] = pc[v]
        /\ \A v \in Workers : Id(v)' = Id(v)
    BY <1>1, <1>3, <1>4 DEF Inv, Typed, ControlTyped, DraftsTyped, Id
  <1>6. \A v \in Workers \ {w} :
            pc[v] = "save" /\ Id(v) = Id(w) /\ draft[v].key = k => <<Id(w), k>> \in raced'
    BY <1>2
  <1> HIDE DEF h, d
  <1>7. Alone'
    BY <1>1, <1>4, <1>5, <1>6 DEF HistoryInv, Alone
  <1>8. OldIds'
    BY <1>1, <1>5 DEF HistoryInv, OldIds, Served, Admitting, Inv, Typed, ControlTyped
  <1>9. HistoryKept'
    BY <1>1, <1>4 DEF HistoryInv, HistoryKept, Kept, Live
  <1>10. ASSUME NEW v \in Workers, NEW e \in saved, Stores(v, e[1], e[2])'
         PROVE  Holds(e[2], draft'[v].history, e[3])
    <2>1. CASE v # w
      <3>1. Stores(v, e[1], e[2]) /\ draft'[v] = draft[v]
        BY <1>1, <1>4, <1>5, <1>10, <2>1 DEF Stores, Live
      <3> QED
        BY <3>1 DEF HistoryInv, CopiesWhole
    <2>2. CASE v = w
      <3>1. e[1] = Id(w) /\ e[2] = k /\ Id(w) \in Live /\ <<e[1], k>> \notin raced
        BY <1>1, <1>4, <1>5, <1>10, <2>2 DEF Stores, Live
      <3>2. Kept(Id(w), k, e[3])
        BY <3>1 DEF HistoryInv, HistoryKept
      <3>3. Stored(Id(w), k) = m_sessions[Id(w)].metadata[k]
        BY <3>1 DEF Stored
      <3>4. Holds(k, Stored(Id(w), k), e[3])
        BY <3>2, <3>3, KeptHolds
      <3>5. m_sessions[Id(w)] \in Session
        BY <3>1 DEF Inv, Typed, SessionsTyped
      <3>6. Stored(Id(w), k) \in Seq(Numbers)
        BY <3>3, <3>5 DEF Session, History, Numbers
      <3>7. Holds(k, h, e[3])
        BY <1>1, <3>4, <3>6, TrimHolds DEF h
      <3> QED
        BY <1>5, <2>2, <3>1, <3>7
    <2> QED
      BY <2>1, <2>2
  <1>11. CopiesWhole'
    BY <1>1, <1>10, Zenon DEF CopiesWhole, Holds
  <1> QED
    BY <1>7, <1>8, <1>9, <1>11 DEF HistoryInv

LEMMA SaveHistoryKeeps ==
    ASSUME Inv, HistoryInv, NEW w \in Workers, SaveHistory(w)
    PROVE  HistoryInv'
  <1> DEFINE s == Id(w)
             k == draft[w].key
             h == draft[w].history
  <1>1. /\ pc[w] = "save"
        /\ pc' = [pc EXCEPT ![w] = IF k = "history" THEN "tool" ELSE "latest"]
        /\ request' = request
        /\ UNCHANGED <<issued, raced>>
        /\ draft' = [draft EXCEPT ![w] = NoDraft]
    BY DEF SaveHistory, Goto
  <1>2. Live' = Live /\ s \in issued
    BY <1>1, SaveHistoryTyped DEF Inv, HistoryInv, OldIds, Served, Admitting
  <1>3. draft[w] \in WholeDraft
    BY <1>1 DEF Inv, Typed, DraftsTyped
  <1>4. k \in Keys /\ h \in Seq(Numbers) /\ h # <<>>
    BY <1>3 DEF WholeDraft, Draft
  <1>5. /\ pc'[w] \in {"tool", "latest"}
        /\ \A v \in Workers \ {w} : pc'[v] = pc[v] /\ draft'[v] = draft[v]
        /\ \A v \in Workers : Id(v)' = Id(v)
    BY <1>1 DEF Inv, Typed, ControlTyped, DraftsTyped, Id
  <1>6. Alone'
    BY <1>1, <1>5 DEF HistoryInv, Alone
  <1>7. CASE s \notin Live
    <2>1. m_sessions' = m_sessions /\ saved' = saved
      BY <1>7, Zenon DEF SaveHistory
    <2>2. OldIds'
      BY <1>1, <1>5, <2>1 DEF HistoryInv, OldIds, Served, Admitting
    <2>3. HistoryKept'
      BY <1>1, <2>1 DEF HistoryInv, HistoryKept, Kept, Live
    <2>4. ASSUME NEW v \in Workers, NEW e \in saved, Stores(v, e[1], e[2])'
          PROVE  Stores(v, e[1], e[2]) /\ draft'[v] = draft[v]
      BY <1>1, <1>2, <1>5, <2>4 DEF Stores
    <2>5. CopiesWhole'
      BY <2>1, <2>4 DEF HistoryInv, CopiesWhole, Holds
    <2> QED
      BY <1>6, <2>2, <2>3, <2>5 DEF HistoryInv
  <1>8. CASE s \in Live
    <2> DEFINE n == h[Len(h)]
               x == [m_sessions[s] EXCEPT !.idle = 0, !.metadata[k] = h]
    <2>1. m_sessions' = [m_sessions EXCEPT ![s] = x] /\ saved' = saved \cup {<<s, k, n>>}
      BY <1>8, Zenon DEF SaveHistory
    <2>2. Holds(k, h, n)
      BY <1>4 DEF Holds
    <2>3. m_sessions[s] \in Session
      BY <1>8 DEF Inv, Typed, SessionsTyped
    <2>4. x.metadata[k] = h /\ \A j \in Keys \ {k} : x.metadata[j] = m_sessions[s].metadata[j]
      <3> HIDE DEF h, k, s
      <3> QED
        BY <1>4, <2>3 DEF Session
    <2> HIDE DEF x, n
    <2>5. /\ m_sessions'[s] = x
          /\ \A t \in Live \ {s} : m_sessions'[t] = m_sessions[t]
      BY <1>8, <2>1 DEF Inv, Typed, SessionsTyped
    <2> HIDE DEF h, k, s
    <2>6. ASSUME NEW e \in saved'
          PROVE  e[1] \in SessionIds /\ e[2] \in Keys /\ (e \in saved \/ e = <<s, k, n>>)
      <3>1. saved \subseteq SessionIds \X Keys \X Numbers /\ s \in SessionIds
        BY <1>1, <1>8 DEF Inv, Typed, GhostsTyped, SessionsTyped, s
      <3> QED
        BY <1>4, <2>1, <2>6, <3>1
    <2>7. OldIds'
      <3>1. \A v \in Workers : pc'[v] \in Served => Id(v)' \in issued'
        BY <1>1, <1>5 DEF HistoryInv, OldIds, Served, Admitting
      <3>2. \A e \in saved' : e[1] \in issued'
        BY <1>1, <1>2, <2>1 DEF HistoryInv, OldIds
      <3> QED
        BY <3>1, <3>2 DEF OldIds
    <2>8. CopiesWhole'
      <3> SUFFICES ASSUME NEW v \in Workers, NEW e \in saved', Stores(v, e[1], e[2])'
                   PROVE  Holds(e[2], draft'[v].history, e[3])
        BY Zenon DEF CopiesWhole, Holds
      <3>1. v # w /\ Stores(v, e[1], e[2]) /\ draft'[v] = draft[v]
        BY <1>1, <1>2, <1>5 DEF Stores
      <3>2. ~(e[1] = s /\ e[2] = k)
        BY <1>1, <3>1 DEF Stores, HistoryInv, Alone, s, k
      <3>3. e \in saved
        BY <2>6, <3>2
      <3> QED
        BY <3>1, <3>3 DEF HistoryInv, CopiesWhole
    <2>9. HistoryKept'
      <3> SUFFICES ASSUME NEW e \in saved', e[1] \in Live, <<e[1], e[2]>> \notin raced
                   PROVE  Kept(e[1], e[2], e[3])'
        BY <1>1, <1>2, Zenon DEF HistoryKept
      <3>1. CASE e[1] = s /\ e[2] = k
        <4>1. Holds(k, h, e[3])
          <5>1. CASE e \in saved
            <6>1. Stores(w, e[1], e[2])
              BY <1>1, <1>8, <3>1 DEF Stores, s, k
            <6> QED
              BY <3>1, <5>1, <6>1 DEF HistoryInv, CopiesWhole, h
          <5>2. CASE e = <<s, k, n>>
            BY <2>2, <5>2
          <5> QED
            BY <2>6, <5>1, <5>2
        <4> QED
          BY <2>4, <2>5, <3>1, <4>1 DEF Kept, Holds
      <3>2. CASE ~(e[1] = s /\ e[2] = k)
        <4>1. e \in saved /\ e[2] \in Keys
          BY <2>6, <3>2
        <4>2. Kept(e[1], e[2], e[3])
          BY <4>1 DEF HistoryInv, HistoryKept
        <4>3. m_sessions'[e[1]].metadata[e[2]] = m_sessions[e[1]].metadata[e[2]]
          BY <2>4, <2>5, <3>2, <4>1
        <4> QED
          BY <4>2, <4>3 DEF Kept
      <3> QED
        BY <3>1, <3>2
    <2> QED
      BY <1>6, <2>7, <2>8, <2>9 DEF HistoryInv
  <1> QED
    BY <1>7, <1>8

(* The other sections leave the metadata of the sessions that stay alone.  *)
LEMMA MetadataSpared ==
    ASSUME Inv, NEW w \in Workers, Serve(w), ~SaveHistory(w), ~SetMetadata(w),
           NEW s \in Live'
    PROVE  \/ s \in Live /\ m_sessions'[s].metadata = m_sessions[s].metadata
           \/ s \notin issued /\ m_sessions'[s] = NewSession
  <1>1. CASE m_sessions' = m_sessions
    BY <1>1 DEF Live
  <1>2. CASE m_sessions' = Touched(Id(w))
    <2>1. s \in Live /\ m_sessions[s] \in Session
      BY <1>2, TouchedTyped DEF Inv, Typed, SessionsTyped
    <2> QED
      BY <1>2, <2>1 DEF Touched, Inv, Typed, SessionsTyped, Session
  <1>3. CASE \E S \in SUBSET Live : m_sessions' = Keep(S)
    BY <1>3 DEF Keep, Live
  <1>4. CASE m_sessions' = Put(Id(w), NewSession) /\ pc[w] \in Registering
    <2>1. Id(w) \notin issued
      BY <1>4 DEF Inv, Fresh
    <2>2. Live' = Live \cup {Id(w)}
      BY <1>4 DEF Put, Live
    <2>3. CASE s = Id(w)
      BY <1>4, <2>1, <2>2, <2>3, Zenon DEF Put
    <2>4. CASE s # Id(w)
      BY <1>4, <2>2, <2>4 DEF Put
    <2> QED
      BY <2>3, <2>4
  <1> QED
    BY <1>1, <1>2, <1>3, <1>4, ServeMap DEF Inv

LEMMA MetadataStays ==
    ASSUME Inv, CleanupExpired \/ Tick \/ UNCHANGED vars, NEW s \in Live'
    PROVE  s \in Live /\ m_sessions'[s].metadata = m_sessions[s].metadata
  <1>1. CASE CleanupExpired
    BY <1>1 DEF CleanupExpired, Keep, Live
  <1>2. CASE Tick
    <2>1. \A t \in Live : m_sessions[t] \in Session
      BY DEF Inv, Typed, SessionsTyped
    <2>2. Live' = Live /\ m_sessions' = [t \in Live |->
            [m_sessions[t] EXCEPT !.idle = IF @ > Timeout THEN @ ELSE @ + 1]]
      BY <1>2, TickTyped DEF Inv, Typed, Tick
    <2> QED
      BY <2>1, <2>2 DEF Session
  <1>3. CASE UNCHANGED vars
    BY <1>3 DEF vars, Live
  <1> QED
    BY <1>1, <1>2, <1>3

(* A request that is past its registration or on its way in has an id that *)
(* was issued.                                                             *)
LEMMA ServeIds ==
    ASSUME Inv, OldIds, NEW w \in Workers, Serve(w), ~ServeHistory(w)
    PROVE  /\ issued \subseteq issued'
           /\ \A v \in Workers : pc'[v] = "save" => pc[v] = "save" /\ Id(v)' = Id(v)
           /\ \A v \in Workers : pc'[v] \in Served => Id(v)' \in issued'
  <1>1. /\ \A v \in Workers \ {w} : pc'[v] = pc[v] /\ request'[v] = request[v]
        /\ issued \subseteq issued'
    BY ServeIssues DEF Inv, Typed
  <1>2. PICK from \in Stages \ {"idle"}, to \in Stages \ {"save"} : Goto(w, from, to)
    BY ServeMoves
  <1>3. pc'[w] = to /\ (to # "idle" => Id(w)' = Id(w))
    BY <1>2 DEF Goto, Id, Inv, Typed, ControlTyped
  <1>4. to \in Served => Id(w) \in issued'
    <2>1. CASE pc[w] \in Served
      BY <1>1, <2>1 DEF OldIds
    <2>2. CASE Register(w)
      BY <1>1, <1>3, <2>2 DEF Register, Goto, Served, Admitting, Inv, Typed, ControlTyped, Fresh
    <2>3. CASE Insert(w)
      BY <2>3 DEF Insert
    <2>4. CASE Cleanup(w) \/ Recheck(w)
      BY <1>3, <2>4 DEF Cleanup, Recheck, Goto, Served, Admitting, Inv, Typed, ControlTyped
    <2>5. pc[w] \in Served \/ Register(w) \/ Insert(w) \/ Cleanup(w) \/ Recheck(w)
      BY Zenon DEF Serve, ServeHistory, Validate, Touch, ServeReading, ServeTouching, ServeUnregister, CallTool,
         SaveLatest, Goto, Served, Admitting
    <2> QED
      BY <2>1, <2>2, <2>3, <2>4, <2>5
  <1>5. \A v \in Workers \ {w} : pc'[v] = pc[v] /\ Id(v)' = Id(v)
    BY <1>1 DEF Id
  <1>6. to # "save" /\ (to \in Served => to # "idle")
    BY <1>2 DEF Served, Admitting
  <1>7. \A v \in Workers : pc'[v] = "save" => pc[v] = "save" /\ Id(v)' = Id(v)
    BY <1>3, <1>5, <1>6
  <1>8. ASSUME NEW v \in Workers, pc'[v] \in Served
        PROVE  Id(v)' \in issued'
    <2>1. CASE v = w
      BY <1>3, <1>4, <1>6, <1>8, <2>1
    <2>2. CASE v # w
      BY <1>1, <1>5, <1>8, <2>2 DEF OldIds
    <2> QED
      BY <2>1, <2>2
  <1> QED
    BY <1>1, <1>7, <1>8

(* The client's array takes the records' place, and nothing else.          *)
LEMMA SetMetadataStores ==
    ASSUME Inv, NEW w \in Workers, SetMetadata(w)
    PROVE  /\ UNCHANGED <<draft, raced, issued>>
           /\ pc' = [pc EXCEPT ![w] = "idle"]
           /\ request' = [request EXCEPT ![w] = NoRequest]
           /\ Live' = Live /\ saved' \subseteq saved /\ replaced \subseteq replaced'
           /\ \E k \in Keys :
                 /\ Id(w) \in Live => <<Id(w), k>> \in replaced'
                 /\ \A e \in saved' : Id(w) \in Live => ~(e[1] = Id(w) /\ e[2] = k)
                 /\ \A s \in Live, j \in Keys : ~(s = Id(w) /\ j = k) =>
                        m_sessions'[s].metadata[j] = m_sessions[s].metadata[j]
  <1> DEFINE s == Id(w)
  <1>1. /\ Goto(w, "dispatch", "idle") /\ UNCHANGED <<draft, generated, issued, raced>>
        /\ Live' = Live
    BY SetMetadataTyped, Zenon DEF SetMetadata, Inv
  <1>2. PICK k \in Keys, n \in ArrayLengths :
            IF s \in Live
            THEN /\ m_sessions' = [m_sessions EXCEPT ![s] =
                        [@ EXCEPT !.idle = 0, !.metadata[k] = FromClient(n)]]
                 /\ saved' = {e \in saved : ~(e[1] = s /\ e[2] = k)}
                 /\ replaced' = replaced \cup {<<s, k>>}
            ELSE UNCHANGED <<m_sessions, saved, replaced>>
    BY Zenon DEF SetMetadata
  <1>3. pc' = [pc EXCEPT ![w] = "idle"] /\ request' = [request EXCEPT ![w] = NoRequest]
    BY <1>1 DEF Goto
  <1>4. CASE s \in Live
    <2> DEFINE x == [m_sessions[s] EXCEPT !.idle = 0, !.metadata[k] = FromClient(n)]
    <2>1. m_sessions[s] \in Session
      BY <1>4 DEF Inv, Typed, SessionsTyped
    <2>2. \A j \in Keys \ {k} : x.metadata[j] = m_sessions[s].metadata[j]
      BY <2>1 DEF Session
    <2>3. m_sessions' = [m_sessions EXCEPT ![s] = x]
      BY <1>2, <1>4, Zenon
    <2> HIDE DEF x
    <2>4. \A t \in Live, j \in Keys : ~(t = s /\ j = k) =>
              m_sessions'[t].metadata[j] = m_sessions[t].metadata[j]
      BY <1>4, <2>2, <2>3 DEF Inv, Typed, SessionsTyped
    <2> QED
      BY <1>1, <1>2, <1>3, <1>4, <2>4
  <1>5. CASE s \notin Live
    BY <1>1, <1>2, <1>3, <1>5
  <1> QED
    BY <1>4, <1>5

LEMMA SetMetadataKeeps ==
    ASSUME Inv, HistoryInv, NEW w \in Workers, SetMetadata(w)
    PROVE  HistoryInv'
  <1>1. /\ UNCHANGED <<draft, raced, issued>> /\ Live' = Live /\ saved' \subseteq saved
        /\ pc' = [pc EXCEPT ![w] = "idle"]
        /\ request' = [request EXCEPT ![w] = NoRequest]
    BY SetMetadataStores
  <1>2. PICK k \in Keys :
            /\ \A e \in saved' : Id(w) \in Live => ~(e[1] = Id(w) /\ e[2] = k)
            /\ \A s \in Live, j \in Keys : ~(s = Id(w) /\ j = k) =>
                   m_sessions'[s].metadata[j] = m_sessions[s].metadata[j]
    BY SetMetadataStores
  <1>3. /\ pc'[w] = "idle"
        /\ \A v \in Workers \ {w} : pc'[v] = pc[v] /\ Id(v)' = Id(v)
    BY <1>1 DEF Inv, Typed, ControlTyped, Id
  <1>4. \A v \in Workers : pc'[v] = "save" => pc[v] = "save" /\ Id(v)' = Id(v)
    BY <1>3
  <1>5. \A v \in Workers : pc'[v] \in Served => Id(v)' \in issued'
    BY <1>1, <1>3 DEF HistoryInv, OldIds, Served, Admitting
  <1>6. \A e \in saved' : e[2] \in Keys
    BY <1>1 DEF Inv, Typed, GhostsTyped
  <1>7. \A e \in saved' : e[1] \in Live' =>
            /\ e[1] \in Live
            /\ m_sessions'[e[1]].metadata[e[2]] = m_sessions[e[1]].metadata[e[2]]
    BY <1>1, <1>2, <1>6
  <1> QED
    BY <1>1, <1>4, <1>5, <1>7, HistoriesStay

LEMMA StepHistory ==
    ASSUME Inv, HistoryInv, [Next]_vars
    PROVE  HistoryInv'
  <1>1. ASSUME NEW w \in Workers, Serve(w)
        PROVE  HistoryInv'
    <2>1. CASE ServeHistory(w)
      BY <2>1, ReadHistoryKeeps, SaveHistoryKeeps, SetMetadataKeeps DEF ServeHistory
    <2>2. CASE ~ServeHistory(w)
      <3>1. UNCHANGED <<draft, saved, raced>>
        BY <1>1, <2>2, ServeMoves
      <3>2. /\ issued \subseteq issued'
            /\ \A v \in Workers : pc'[v] = "save" => pc[v] = "save" /\ Id(v)' = Id(v)
            /\ \A v \in Workers : pc'[v] \in Served => Id(v)' \in issued'
        BY <1>1, <2>2, ServeIds DEF HistoryInv
      <3>3. \A s \in Live' : \/ s \in Live /\ m_sessions'[s].metadata = m_sessions[s].metadata
                             \/ s \notin issued
        BY <1>1, <2>2, MetadataSpared DEF ServeHistory
      <3> QED
        BY <3>1, <3>2, <3>3, HistoriesStay
    <2> QED
      BY <2>1, <2>2
  <1>2. ASSUME NEW w \in Workers, InitializeNew(w) \/ CarryId(w)
        PROVE  HistoryInv'
    <2>1. m_sessions' = m_sessions /\ issued' = issued /\ UNCHANGED <<draft, saved, raced>>
      BY <1>2, BeginFresh DEF Inv, InitializeNew, CarryId, Begin
    <2>2. \E stage \in {"register", "validate"}, m \in Methods, s \in SessionIds :
              Begin(w, stage, m, s) /\ (stage = "validate" => s \in issued)
      BY <1>2 DEF InitializeNew, CarryId, Methods, Inv, Typed, GhostsTyped
    <2>3. PICK stage \in {"register", "validate"}, m \in Methods, s \in SessionIds :
              Begin(w, stage, m, s) /\ (stage = "validate" => s \in issued)
      BY <2>2
    <2>4. /\ \A v \in Workers \ {w} : pc'[v] = pc[v] /\ Id(v)' = Id(v)
          /\ pc'[w] = stage /\ Id(w)' = s
      BY <2>3 DEF Begin, Inv, Typed, ControlTyped, Id
    <2>5. \A v \in Workers : pc'[v] = "save" => pc[v] = "save" /\ Id(v)' = Id(v)
      BY <2>4
    <2>6. \A v \in Workers : pc'[v] \in Served => Id(v)' \in issued'
      BY <2>1, <2>3, <2>4 DEF HistoryInv, OldIds, Served, Admitting
    <2> QED
      BY <2>1, <2>5, <2>6, HistoriesStay DEF Live
  <1>3. CASE CleanupExpired \/ Tick \/ UNCHANGED vars
    <2>1. UNCHANGED <<pc, request, draft, issued, saved, raced>>
      BY <1>3, Zenon DEF CleanupExpired, Tick, vars, ghosts
    <2>2. \A s \in Live' : s \in Live /\ m_sessions'[s].metadata = m_sessions[s].metadata
      BY <1>3, MetadataStays
    <2>3. \A v \in Workers : pc'[v] = "save" => pc[v] = "save" /\ Id(v)' = Id(v)
      BY <2>1 DEF Id
    <2>4. \A v \in Workers : pc'[v] \in Served => Id(v)' \in issued'
      BY <2>1 DEF HistoryInv, OldIds, Id
    <2> QED
      BY <2>1, <2>2, <2>3, <2>4, HistoriesStay
  <1> QED
    BY <1>1, <1>2, <1>3 DEF Next

LEMMA InitHistory == Init => HistoryInv
  <1> SUFFICES ASSUME Init PROVE HistoryInv
    OBVIOUS
  <1>1. saved = {} /\ \A w \in Workers : pc[w] = "idle"
    BY DEF Init
  <1> QED
    BY <1>1 DEF HistoryInv, Alone, CopiesWhole, OldIds, HistoryKept, Served, Admitting

(* Whatever requests, cleanups and unregistrations interleave, a record    *)
(* that was stored stays until newer ones push it out, unless two tools of *)
(* one session kept records at the same time, or the client has written    *)
(* the history itself.                                                     *)
THEOREM RecordsKept == Spec => []HistoryKept
  <1>1. Inv /\ HistoryInv /\ [Next]_vars => HistoryInv'
    BY StepHistory
  <1>2. HistoryInv => HistoryKept
    BY DEF HistoryInv
  <1> QED
    BY <1>1, <1>2, InitHistory, InvHolds, PTL DEF Spec

-----------------------------------------------------------------------------
(* The limit of the histories *)

(* A history that its client has not written is within the limit, in the   *)
(* session and in a worker's copy.                                         *)
Limited ==
    \A s \in Live, k \in Keys :
        <<s, k>> \in replaced \/ Len(m_sessions[s].metadata[k]) <= MaxHistory[k]
CopiesLimited ==
    \A w \in Workers : pc[w] = "save" =>
        \/ <<Id(w), draft[w].key>> \in replaced
        \/ Len(draft[w].history) <= MaxHistory[draft[w].key]
LimitInv == Limited /\ CopiesLimited

(* A step that copies and stores no history. *)
LEMMA LimitsStay ==
    ASSUME Inv, LimitInv, draft' = draft, replaced \subseteq replaced',
           \A w \in Workers : pc'[w] = "save" => pc[w] = "save" /\ Id(w)' = Id(w),
           \A s \in Live', k \in Keys :
               \/ s \in Live /\ m_sessions'[s].metadata[k] = m_sessions[s].metadata[k]
               \/ m_sessions'[s] = NewSession
               \/ <<s, k>> \in replaced'
    PROVE  LimitInv'
  <1>1. \A k \in Keys : Len(NewSession.metadata[k]) <= MaxHistory[k]
    BY BoundsAssumption DEF NewSession
  <1>2. Limited'
    BY <1>1 DEF LimitInv, Limited
  <1>3. CopiesLimited'
    BY DEF LimitInv, CopiesLimited
  <1> QED
    BY <1>2, <1>3 DEF LimitInv

LEMMA ReadHistoryLimited ==
    ASSUME Inv, LimitInv, NEW w \in Workers, ReadHistory(w)
    PROVE  LimitInv'
  <1>1. /\ pc[w] = "tool" /\ pc' = [pc EXCEPT ![w] = "save"] /\ request' = request
        /\ UNCHANGED <<m_sessions, replaced>>
        /\ records' \in Numbers
    BY BoundsAssumption DEF ReadHistory, Goto, Inv, Typed, GhostsTyped, Numbers
  <1>2. PICK k \in Keys : draft' = [draft EXCEPT ![w] =
            [key |-> k, history |-> Trim(k, Append(Stored(Id(w), k), records'))]]
    BY Zenon DEF ReadHistory
  <1> DEFINE h == Trim(k, Append(Stored(Id(w), k), records'))
             d == [key |-> k, history |-> h]
  <1>3. d.key = k /\ d.history = h
    OBVIOUS
  <1>4. draft' = [draft EXCEPT ![w] = d]
    BY <1>2, Zenon
  <1>5. Stored(Id(w), k) \in Seq(Numbers)
    <2>1. CASE Id(w) \in Live
      <3>1. m_sessions[Id(w)] \in Session
        BY <2>1 DEF Inv, Typed, SessionsTyped
      <3> QED
        BY <2>1, <3>1 DEF Stored, Session, History, Numbers
    <2>2. CASE Id(w) \notin Live
      BY <2>2 DEF Stored
    <2> QED
      BY <2>1, <2>2
  <1>6. <<Id(w), k>> \in replaced \/ Len(Stored(Id(w), k)) <= MaxHistory[k]
    <2>1. CASE Id(w) \in Live
      BY <2>1 DEF LimitInv, Limited, Stored
    <2>2. CASE Id(w) \notin Live
      BY <2>2, BoundsAssumption DEF Stored
    <2> QED
      BY <2>1, <2>2
  <1>7. <<Id(w), k>> \in replaced \/ Len(h) <= MaxHistory[k]
    BY <1>1, <1>5, <1>6, TrimKeepsBound
  <1> HIDE DEF h, d
  <1>8. Limited'
    BY <1>1 DEF LimitInv, Limited, Live
  <1>9. \A v \in Workers : Id(v)' = Id(v)
    BY <1>1 DEF Id
  <1>10. /\ draft'[w] = d
         /\ \A v \in Workers \ {w} : draft'[v] = draft[v] /\ pc'[v] = pc[v]
    BY <1>1, <1>4 DEF Inv, Typed, ControlTyped, DraftsTyped
  <1>11. CopiesLimited'
    BY <1>1, <1>3, <1>7, <1>9, <1>10 DEF LimitInv, CopiesLimited
  <1> QED
    BY <1>8, <1>11 DEF LimitInv

LEMMA SaveHistoryLimited ==
    ASSUME Inv, LimitInv, NEW w \in Workers, SaveHistory(w)
    PROVE  LimitInv'
  <1> DEFINE s == Id(w)
             k == draft[w].key
             h == draft[w].history
  <1>1. /\ pc[w] = "save"
        /\ pc' = [pc EXCEPT ![w] = IF k = "history" THEN "tool" ELSE "latest"]
        /\ request' = request /\ replaced' = replaced
        /\ draft' = [draft EXCEPT ![w] = NoDraft]
    BY DEF SaveHistory, Goto
  <1>2. Live' = Live
    BY SaveHistoryTyped DEF Inv
  <1>3. k \in Keys /\ h \in Seq(Numbers)
    BY <1>1 DEF Inv, Typed, DraftsTyped, WholeDraft, Draft
  <1>4. CopiesLimited'
    BY <1>1 DEF LimitInv, CopiesLimited, Id, Inv, Typed, ControlTyped, DraftsTyped
  <1>5. <<s, k>> \in replaced \/ Len(h) <= MaxHistory[k]
    BY <1>1 DEF LimitInv, CopiesLimited
  <1>6. CASE s \notin Live
    <2>1. m_sessions' = m_sessions
      BY <1>6, Zenon DEF SaveHistory
    <2> QED
      BY <1>1, <1>2, <1>4, <2>1 DEF LimitInv, Limited
  <1>7. CASE s \in Live
    <2> DEFINE x == [m_sessions[s] EXCEPT !.idle = 0, !.metadata[k] = h]
    <2>1. m_sessions' = [m_sessions EXCEPT ![s] = x]
      BY <1>7, Zenon DEF SaveHistory
    <2>2. m_sessions[s] \in Session
      BY <1>7 DEF Inv, Typed, SessionsTyped
    <2>3. x.metadata[k] = h /\ \A j \in Keys \ {k} : x.metadata[j] = m_sessions[s].metadata[j]
      <3> HIDE DEF h, k, s
      <3> QED
        BY <1>3, <2>2 DEF Session
    <2> HIDE DEF x
    <2>4. m_sessions'[s] = x /\ \A t \in Live \ {s} : m_sessions'[t] = m_sessions[t]
      BY <1>7, <2>1 DEF Inv, Typed, SessionsTyped
    <2> HIDE DEF s, k, h
    <2>5. Limited'
      <3> SUFFICES ASSUME NEW t \in Live, NEW j \in Keys
                   PROVE  <<t, j>> \in replaced \/ Len(m_sessions'[t].metadata[j]) <= MaxHistory[j]
        BY <1>1, <1>2, Zenon DEF Limited
      <3>1. CASE t = s /\ j = k
        BY <1>5, <2>3, <2>4, <3>1
      <3>2. CASE ~(t = s /\ j = k)
        <4>1. m_sessions'[t].metadata[j] = m_sessions[t].metadata[j]
          BY <2>3, <2>4, <3>2
        <4> QED
          BY <4>1 DEF LimitInv, Limited
      <3> QED
        BY <3>1, <3>2
    <2> QED
      BY <1>4, <2>5 DEF LimitInv
  <1> QED
    BY <1>6, <1>7

LEMMA SetMetadataLimited ==
    ASSUME Inv, LimitInv, NEW w \in Workers, SetMetadata(w)
    PROVE  LimitInv'
  <1>1. /\ draft' = draft /\ Live' = Live /\ replaced \subseteq replaced'
        /\ pc' = [pc EXCEPT ![w] = "idle"]
        /\ request' = [request EXCEPT ![w] = NoRequest]
    BY SetMetadataStores
  <1>2. PICK k \in Keys :
            /\ Id(w) \in Live => <<Id(w), k>> \in replaced'
            /\ \A s \in Live, j \in Keys : ~(s = Id(w) /\ j = k) =>
                   m_sessions'[s].metadata[j] = m_sessions[s].metadata[j]
    BY SetMetadataStores
  <1>3. \A v \in Workers : pc'[v] = "save" => pc[v] = "save" /\ Id(v)' = Id(v)
    BY <1>1 DEF Inv, Typed, ControlTyped, Id
  <1>4. \A s \in Live', j \in Keys :
            \/ s \in Live /\ m_sessions'[s].metadata[j] = m_sessions[s].metadata[j]
            \/ <<s, j>> \in replaced'
    BY <1>1, <1>2
  <1> QED
    BY <1>1, <1>3, <1>4, LimitsStay

LEMMA StepLimit ==
    ASSUME Inv, LimitInv, [Next]_vars
    PROVE  LimitInv'
  <1>1. ASSUME NEW w \in Workers, Serve(w)
        PROVE  LimitInv'
    <2>1. CASE ServeHistory(w)
      BY <2>1, ReadHistoryLimited, SaveHistoryLimited, SetMetadataLimited DEF ServeHistory
    <2>2. CASE ~ServeHistory(w)
      <3>1. UNCHANGED <<draft, replaced>>
        BY <1>1, <2>2, ServeMoves
      <3>2. PICK from \in Stages \ {"idle"}, to \in Stages \ {"save"} : Goto(w, from, to)
        BY <1>1, <2>2, ServeMoves
      <3>3. \A v \in Workers : pc'[v] = "save" => pc[v] = "save" /\ Id(v)' = Id(v)
        BY <3>2 DEF Goto, Id, Inv, Typed, ControlTyped
      <3>4. \A s \in Live' : \/ s \in Live /\ m_sessions'[s].metadata = m_sessions[s].metadata
                             \/ m_sessions'[s] = NewSession
        BY <1>1, <2>2, MetadataSpared DEF ServeHistory
      <3> QED
        BY <3>1, <3>3, <3>4, LimitsStay
    <2> QED
      BY <2>1, <2>2
  <1>2. ASSUME NEW w \in Workers, InitializeNew(w) \/ CarryId(w)
        PROVE  LimitInv'
    <2>1. m_sessions' = m_sessions /\ UNCHANGED <<draft, replaced>>
      BY <1>2, BeginFresh DEF Inv, InitializeNew, CarryId, Begin
    <2>2. /\ pc'[w] \in {"register", "validate"}
          /\ \A v \in Workers \ {w} : pc'[v] = pc[v] /\ request'[v] = request[v]
      BY <1>2 DEF InitializeNew, CarryId, Begin, Inv, Typed, ControlTyped
    <2>3. \A v \in Workers : pc'[v] = "save" => pc[v] = "save" /\ Id(v)' = Id(v)
      BY <2>2 DEF Id
    <2> QED
      BY <2>1, <2>3, LimitsStay DEF Live
  <1>3. CASE CleanupExpired \/ Tick \/ UNCHANGED vars
    <2>1. UNCHANGED <<pc, request, draft, replaced>>
      BY <1>3, Zenon DEF CleanupExpired, Tick, vars, ghosts
    <2>2. \A s \in Live' : s \in Live /\ m_sessions'[s].metadata = m_sessions[s].metadata
      BY <1>3, MetadataStays
    <2>3. \A v \in Workers : pc'[v] = "save" => pc[v] = "save" /\ Id(v)' = Id(v)
      BY <2>1 DEF Id
    <2> QED
      BY <2>1, <2>2, <2>3, LimitsStay
  <1> QED
    BY <1>1, <1>2, <1>3 DEF Next

LEMMA InitLimit == Init => LimitInv
  BY DEF Init, LimitInv, Limited, CopiesLimited, Live

(* The variables have their types, and a stored history stays within its   *)
(* limit as long as the client does not write it itself: the histories of  *)
(* the tools only grow through copies that were trimmed.                   *)
THEOREM TypeCorrect == Spec => []TypeOK
  <1>1. Typed /\ LimitInv => TypeOK
    <2> SUFFICES ASSUME Typed, LimitInv PROVE TypeOK
      OBVIOUS
    <2>1. /\ Live \subseteq SessionIds
          /\ \A s \in Live :
                 /\ m_sessions[s] \in Session
                 /\ \A k \in Keys : \/ Len(m_sessions[s].metadata[k]) <= MaxHistory[k]
                                   \/ <<s, k>> \in replaced
      BY DEF Typed, SessionsTyped, LimitInv, Limited
    <2>2. /\ pc \in [Workers -> Stages]
          /\ request \in [Workers -> {NoRequest} \cup [method : Methods, id : SessionIds]]
      BY DEF Typed, ControlTyped, Request
    <2>3. draft \in [Workers -> {NoDraft} \cup [key : Keys, history : History]]
      BY DEF Typed, DraftsTyped, Draft, Numbers, History
    <2>4. /\ records \in 0..MaxRecords
          /\ generated \subseteq SessionIds
          /\ issued \subseteq generated
          /\ raced \subseteq SessionIds \X Keys
          /\ replaced \subseteq SessionIds \X Keys
      BY DEF Typed, GhostsTyped
    <2>5. saved \subseteq SessionIds \X Keys \X (0..MaxRecords)
      BY DEF Typed, GhostsTyped, Numbers
    <2> QED
      BY <2>1, <2>2, <2>3, <2>4, <2>5 DEF TypeOK
  <1>2. Inv /\ LimitInv /\ [Next]_vars => LimitInv'
    BY StepLimit
  <1> QED
    BY <1>1, <1>2, InitLimit, InvHolds, PTL DEF Inv, Spec
=============================================================================
