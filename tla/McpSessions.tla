----------------------------- MODULE McpSessions -----------------------------
(***************************************************************************)
(* The MCP sessions: mcp/SessionManager.h, used by the requests that       *)
(* mcp/McpHandle.cpp and mcp/McpService.cpp serve.                         *)
(*                                                                         *)
(* Every request is a coroutine on one of the server's threads.  One       *)
(* action is one section under SessionManager's mutex (or the one read     *)
(* outside it); between two sections the steps of other requests, of the   *)
(* cleanup task and of the clock interleave.  A session's last_active is   *)
(* represented by the time since then, in ticks.                           *)
(***************************************************************************)
EXTENDS Integers, Sequences, FiniteSets

CONSTANTS Workers,      \* requests in service at the same time
          SessionIds,   \* the ids generateSessionId() returns, each once
          MaxSessions,  \* m_max_sessions
          Timeout,      \* m_timeout_seconds, in ticks
          MaxHistory,   \* longest history under each key
          ArrayLengths, \* bound: of the arrays a client stores as a history
          MaxRecords    \* bound: records and such arrays in a behaviour

Keys == {"history", "progress_history"}

ASSUME SetsAssumption ==
    /\ Workers # {} /\ IsFiniteSet(Workers)
    /\ IsFiniteSet(SessionIds)
ASSUME BoundsAssumption ==
    /\ MaxSessions \in Nat /\ Timeout \in Nat /\ MaxRecords \in Nat
    /\ MaxHistory \in [Keys -> Nat \ {0}]
    /\ ArrayLengths \subseteq Nat

VARIABLES
    m_sessions,  \* the map: session id to last activity and metadata
    pc, request, \* what each worker serves
    draft,       \* the history a worker is about to store
    records,     \* records (numbered from 1) and clients' arrays so far
    generated,   \* history: ids generateSessionId has returned
    issued,      \* history: ids whose registration succeeded
    saved,       \* history: where which record was stored with success
    raced,       \* history: where two copies of a history overlapped
    replaced     \* history: which histories a client has written itself

ghosts == <<generated, issued, saved, raced, replaced>>
vars == <<m_sessions, pc, request, draft, records, ghosts>>

Methods == {"initialize", "ping", "tools/call", "session/info",
            "session/set_metadata", "session/unregister"}
Stages == {"idle", "register", "cleanup", "recheck", "insert", "validate",
           "touch", "dispatch", "tool", "save", "latest"}

Live == DOMAIN m_sessions
Expired(s) == m_sessions[s].idle > Timeout
Id(w) == request[w].id

NoRequest == [method |-> "none"]
NoDraft == [key |-> "none"]

NewSession == [idle |-> 0, metadata |-> [k \in Keys |-> <<>>]]
Put(s, session) ==
    [t \in Live \cup {s} |-> IF t = s THEN session ELSE m_sessions[t]]
Keep(S) == [t \in S |-> m_sessions[t]]

(* What a client stores as a history itself: entries that are no records.  *)
FromClient(n) == [i \in 1..n |-> 0]

(* A call that finds the session refreshes it; one that does not returns   *)
(* false and changes nothing.                                              *)
Touched(s) ==
    IF s \in Live THEN [m_sessions EXCEPT ![s].idle = 0] ELSE m_sessions

Goto(w, from, to) ==
    /\ pc[w] = from
    /\ pc' = [pc EXCEPT ![w] = to]
    /\ request' = IF to = "idle" THEN [request EXCEPT ![w] = NoRequest] ELSE request

Init ==
    /\ m_sessions = <<>>
    /\ pc = [w \in Workers |-> "idle"]
    /\ request = [w \in Workers |-> NoRequest]
    /\ draft = [w \in Workers |-> NoDraft]
    /\ records = 0
    /\ generated = {}
    /\ issued = {}
    /\ saved = {}
    /\ raced = {}
    /\ replaced = {}

-----------------------------------------------------------------------------
(* McpHandle::run up to the dispatch *)

Begin(w, stage, m, s) ==
    /\ pc[w] = "idle"
    /\ pc' = [pc EXCEPT ![w] = stage]
    /\ request' = [request EXCEPT ![w] = [method |-> m, id |-> s]]
    /\ UNCHANGED <<m_sessions, draft, records, issued, saved, raced, replaced>>

(* initialize without an id: generate one. *)
InitializeNew(w) ==
    \E s \in SessionIds \ generated :
        /\ Begin(w, "register", "initialize", s)
        /\ generated' = generated \cup {s}

(* Any method with an id that a client was given.  (A request without an   *)
(* id, or with an unknown one, is refused and changes nothing.)            *)
CarryId(w) ==
    /\ \E m \in Methods, s \in issued : Begin(w, "validate", m, s)
    /\ UNCHANGED generated

(* Fault: a session is accepted whether or not it has expired. *)
Validate_Unexpired(w) ==
    /\ Goto(w, "validate", IF Id(w) \in Live THEN "touch" ELSE "idle")
    /\ UNCHANGED <<m_sessions, draft, records, ghosts>>

(* getSession: a missing or expired session refuses the request. *)
Validate(w) ==
    /\ Goto(w, "validate",
            IF Id(w) \in Live /\ ~Expired(Id(w)) THEN "touch" ELSE "idle")
    /\ UNCHANGED <<m_sessions, draft, records, ghosts>>

(* touchSession, in a second section; its result is not looked at. *)
Touch(w) ==
    /\ Goto(w, "touch", "dispatch")
    /\ m_sessions' = Touched(Id(w))
    /\ UNCHANGED <<draft, records, ghosts>>

-----------------------------------------------------------------------------
(* registerSession *)

Register(w) ==
    /\ \/ /\ Goto(w, "register", "dispatch")
          /\ Id(w) \in Live
          /\ m_sessions' = Touched(Id(w))
          /\ issued' = issued \cup {Id(w)}
       \/ /\ Goto(w, "register", "cleanup")
          /\ Id(w) \notin Live
          /\ Cardinality(Live) >= MaxSessions
          /\ UNCHANGED <<m_sessions, issued>>
       \/ /\ Goto(w, "register", "dispatch")
          /\ Id(w) \notin Live
          /\ Cardinality(Live) < MaxSessions
          /\ m_sessions' = Put(Id(w), NewSession)
          /\ issued' = issued \cup {Id(w)}
    /\ UNCHANGED <<draft, records, generated, saved, raced, replaced>>

(* At the limit the mutex is released, and cleanupExpiredSessions takes it. *)
Cleanup(w) ==
    /\ Goto(w, "cleanup", "recheck")
    /\ m_sessions' = Keep({s \in Live : ~Expired(s)})
    /\ UNCHANGED <<draft, records, ghosts>>

(* Fault: one session too many passes. *)
Recheck_OffByOne(w) ==
    /\ Goto(w, "recheck", IF Cardinality(Live) > MaxSessions THEN "idle" ELSE "insert")
    /\ UNCHANGED <<m_sessions, draft, records, ghosts>>

(* The size is read again without the mutex ... *)
Recheck(w) ==
    /\ Goto(w, "recheck", IF Cardinality(Live) >= MaxSessions THEN "idle" ELSE "insert")
    /\ UNCHANGED <<m_sessions, draft, records, ghosts>>

(* ... and the session inserted after taking it, whatever happened since.  *)
Insert(w) ==
    /\ Goto(w, "insert", "dispatch")
    /\ m_sessions' = Put(Id(w), NewSession)
    /\ issued' = issued \cup {Id(w)}
    /\ UNCHANGED <<draft, records, generated, saved, raced, replaced>>

-----------------------------------------------------------------------------
(* dispatchMethod *)

(* session/info, and the other two when they carry no metadata. *)
ServeReading(w) ==
    /\ request[w].method \in {"session/info", "initialize", "session/set_metadata"}
    /\ Goto(w, "dispatch", "idle")
    /\ UNCHANGED <<m_sessions, draft, records, ghosts>>

(* ping, and the two methods that store metadata, under a key that is not  *)
(* one of the histories': it refreshes the session.                        *)
ServeTouching(w) ==
    /\ request[w].method \in {"ping", "initialize", "session/set_metadata"}
    /\ Goto(w, "dispatch", "idle")
    /\ m_sessions' = Touched(Id(w))
    /\ UNCHANGED <<draft, records, ghosts>>

(* session/set_metadata under the key of a history: what the client sends  *)
(* takes the place of the records, and is not cut to any length.  (A value *)
(* that is no array reads as an empty history.)                            *)
SetMetadata(w) ==
    LET s == Id(w)
    IN  /\ request[w].method = "session/set_metadata"
        /\ records < MaxRecords
        /\ records' = records + 1
        /\ Goto(w, "dispatch", "idle")
        /\ \E k \in Keys, n \in ArrayLengths :
               IF s \in Live
               THEN /\ m_sessions' = [m_sessions EXCEPT ![s] =
                           [@ EXCEPT !.idle = 0, !.metadata[k] = FromClient(n)]]
                    /\ saved' = {e \in saved : ~(e[1] = s /\ e[2] = k)}
                    /\ replaced' = replaced \cup {<<s, k>>}
               ELSE UNCHANGED <<m_sessions, saved, replaced>>
        /\ UNCHANGED <<draft, generated, issued, raced>>

ServeUnregister(w) ==
    /\ request[w].method = "session/unregister"
    /\ Goto(w, "dispatch", "idle")
    /\ m_sessions' = Keep(Live \ {Id(w)})
    /\ UNCHANGED <<draft, records, ghosts>>

(* A tool runs, may keep any number of records, and returns. *)
CallTool(w) ==
    /\ \/ request[w].method = "tools/call" /\ Goto(w, "dispatch", "tool")
       \/ Goto(w, "tool", "idle")
    /\ UNCHANGED <<m_sessions, draft, records, ghosts>>

-----------------------------------------------------------------------------
(* recordToolUsage and pushProgress *)

Stored(s, k) == IF s \in Live THEN m_sessions[s].metadata[k] ELSE <<>>

(* Fault: one record more than the limit is kept. *)
Trim_Late(k, h) == IF Len(h) > MaxHistory[k] + 1 THEN Tail(h) ELSE h

Trim(k, h) == IF Len(h) > MaxHistory[k] THEN Tail(h) ELSE h

(* The history is copied out of the session, a record added to the copy,   *)
(* and the oldest one dropped beyond the limit ...                         *)
ReadHistory(w) ==
    /\ records < MaxRecords
    /\ Goto(w, "tool", "save")
    /\ records' = records + 1
    /\ \E k \in Keys :
           /\ draft' = [draft EXCEPT ![w] =
                  [key |-> k, history |-> Trim(k, Append(Stored(Id(w), k), records'))]]
           /\ raced' = raced \cup
                  {<<Id(v), k>> : v \in {u \in Workers : /\ pc[u] = "save"
                                                         /\ Id(u) = Id(w)
                                                         /\ draft[u].key = k}}
    /\ UNCHANGED <<m_sessions, generated, issued, saved, replaced>>

(* Fault: storing metadata creates the session that is not there. *)
SaveHistory_Creates(w) ==
    LET s == Id(w)
        k == draft[w].key
        h == draft[w].history
        session == IF s \in Live THEN m_sessions[s] ELSE NewSession
    IN  /\ Goto(w, "save", IF k = "history" THEN "tool" ELSE "latest")
        /\ m_sessions' = Put(s, [session EXCEPT !.idle = 0, !.metadata[k] = h])
        /\ saved' = saved \cup {<<s, k, h[Len(h)]>>}
        /\ draft' = [draft EXCEPT ![w] = NoDraft]
        /\ UNCHANGED <<records, generated, issued, raced, replaced>>

(* Fault: the record replaces the history instead of extending it. *)
SaveHistory_Replaces(w) ==
    LET s == Id(w)
        k == draft[w].key
        h == draft[w].history
    IN  /\ Goto(w, "save", IF k = "history" THEN "tool" ELSE "latest")
        /\ IF s \in Live
           THEN /\ m_sessions' = [m_sessions EXCEPT ![s].idle = 0,
                                      ![s].metadata[k] = <<h[Len(h)]>>]
                /\ saved' = saved \cup {<<s, k, h[Len(h)]>>}
           ELSE UNCHANGED <<m_sessions, saved>>
        /\ draft' = [draft EXCEPT ![w] = NoDraft]
        /\ UNCHANGED <<records, generated, issued, raced, replaced>>

(* ... and the copy is stored in a second section, if the session is there *)
SaveHistory(w) ==
    LET s == Id(w)
        k == draft[w].key
        h == draft[w].history
    IN  /\ Goto(w, "save", IF k = "history" THEN "tool" ELSE "latest")
        /\ IF s \in Live
           THEN /\ m_sessions' = [m_sessions EXCEPT ![s] = [@ EXCEPT !.idle = 0, !.metadata[k] = h]]
                /\ saved' = saved \cup {<<s, k, h[Len(h)]>>}
           ELSE UNCHANGED <<m_sessions, saved>>
        /\ draft' = [draft EXCEPT ![w] = NoDraft]
        /\ UNCHANGED <<records, generated, issued, raced, replaced>>

(* pushProgress also stores the latest progress, in a section of its own.  *)
SaveLatest(w) ==
    /\ Goto(w, "latest", "tool")
    /\ m_sessions' = Touched(Id(w))
    /\ UNCHANGED <<draft, records, ghosts>>

-----------------------------------------------------------------------------
(* The cleanup task and the clock *)

(* Fault: sessions are removed as soon as they have been idle for Timeout. *)
CleanupExpired_Early ==
    /\ m_sessions' = Keep({s \in Live : m_sessions[s].idle < Timeout})
    /\ UNCHANGED <<pc, request, draft, records, ghosts>>

CleanupExpired ==
    /\ m_sessions' = Keep({s \in Live : ~Expired(s)})
    /\ UNCHANGED <<pc, request, draft, records, ghosts>>

(* Longer than expired makes no difference. *)
Tick ==
    /\ m_sessions' = [s \in Live |->
           [m_sessions[s] EXCEPT !.idle = IF @ > Timeout THEN @ ELSE @ + 1]]
    /\ UNCHANGED <<pc, request, draft, records, ghosts>>

-----------------------------------------------------------------------------
Serve(w) ==
    \/ Register(w) \/ Cleanup(w) \/ Recheck(w) \/ Insert(w)
    \/ Validate(w) \/ Touch(w)
    \/ ServeReading(w) \/ ServeTouching(w) \/ SetMetadata(w) \/ ServeUnregister(w)
    \/ CallTool(w) \/ ReadHistory(w) \/ SaveHistory(w) \/ SaveLatest(w)

Next ==
    \/ \E w \in Workers : InitializeNew(w) \/ CarryId(w) \/ Serve(w)
    \/ CleanupExpired
    \/ Tick

Spec == Init /\ [][Next]_vars

-----------------------------------------------------------------------------
(* Properties *)

At(stage) == {w \in Workers : pc[w] = stage}

History == Seq(0..MaxRecords)
Session == [idle : 0..(Timeout + 1), metadata : [Keys -> History]]

(* The variables keep their types, and no history grows beyond its limit,  *)
(* unless its client has written it: recordToolUsage and pushProgress drop *)
(* one entry for the one they add, so an array that was too long when the  *)
(* client stored it stays so.                                              *)
TypeOK ==
    /\ Live \subseteq SessionIds
    /\ \A s \in Live :
           /\ m_sessions[s] \in Session
           /\ \A k \in Keys : \/ Len(m_sessions[s].metadata[k]) <= MaxHistory[k]
                             \/ <<s, k>> \in replaced
    /\ pc \in [Workers -> Stages]
    /\ request \in [Workers -> {NoRequest} \cup [method : Methods, id : SessionIds]]
    /\ draft \in [Workers -> {NoDraft} \cup [key : Keys, history : History]]
    /\ records \in 0..MaxRecords
    /\ generated \subseteq SessionIds
    /\ issued \subseteq generated
    /\ saved \subseteq SessionIds \X Keys \X (0..MaxRecords)
    /\ raced \subseteq SessionIds \X Keys
    /\ replaced \subseteq SessionIds \X Keys

(* The limit on sessions can be overrun, because registerSession lets go   *)
(* of the mutex between the check and the insertion, but never by more     *)
(* than one session for each request in service except one.                *)
OverrunByWorkers ==
    Cardinality(Live) + Cardinality(At("insert")) <=
        MaxSessions + Cardinality(Workers) - 1

(* A session that was unregistered or cleaned up never comes back, though  *)
(* requests that were admitted before go on touching it and storing        *)
(* metadata in it.                                                         *)
Ended == issued \ Live
NoResurrection == [][\A s \in Ended : s \notin Live']_vars

(* A request that is in a session was let in while the session was valid,  *)
(* and may refresh it long after; but a session that has expired with no   *)
(* request in it is dead: nothing makes it valid, or lets a request in.    *)
Admitted(s) ==
    \E w \in Workers : /\ pc[w] \in {"touch", "dispatch", "tool", "save", "latest"}
                       /\ Id(w) = s
Dead(s) == s \in Live /\ Expired(s) /\ ~Admitted(s)
DeadStaysDead == [][\A s \in Live : Dead(s) => (Dead(s) \/ s \notin Live)']_vars

(* A session disappears only after its timeout or because a request with   *)
(* its id unregisters it.                                                  *)
RemovedWhenDue ==
    [][\A s \in Live \ Live' :
           \/ Expired(s)
           \/ \E w \in Workers : /\ pc[w] = "dispatch"
                                 /\ request[w] = [method |-> "session/unregister", id |-> s]
      ]_vars

(* A record that was stored stays in the history until newer ones push it  *)
(* out (the history is then full), unless two calls of the same session    *)
(* kept records at one time, or the client has written the history since.  *)
Kept(s, k, r) ==
    LET h == m_sessions[s].metadata[k]
    IN  Len(h) >= MaxHistory[k] \/ \E i \in DOMAIN h : h[i] = r
HistoryKept ==
    \A e \in saved :
        e[1] \in Live /\ <<e[1], e[2]>> \notin raced => Kept(e[1], e[2], e[3])
=============================================================================
