----------------------- MODULE ConnectionManagerProofs -----------------------
(***************************************************************************)
(* Proofs about ConnectionManager for every finite set of connections,     *)
(* every limit and every int width.                                        *)
(***************************************************************************)
EXTENDS ConnectionManagerRefinement, TLAPS, FiniteSetTheorems, SequenceTheorems

-----------------------------------------------------------------------------
(* Moving one connection between stages. *)

(* A set of connections is finite. *)
LEMMA ConnSubset ==
    ASSUME NEW S, S \subseteq Conns
    PROVE  IsFiniteSet(S) /\ Cardinality(S) \in Nat
BY ConnsAssumption, FS_Subset, FS_CardinalityType

(* The connections at some stages are finitely many. *)
LEMMA AtFinite ==
    ASSUME NEW stages
    PROVE  IsFiniteSet(At(stages)) /\ Cardinality(At(stages)) \in Nat
BY ConnSubset DEF At

(* A connection that moves within some stages, or outside them, leaves the *)
(* number of connections there alone.                                      *)
LEMMA MoveAlong ==
    ASSUME NEW stages, NEW c \in Conns, NEW to,
           pc \in [Conns -> Stages],
           pc' = [pc EXCEPT ![c] = to],
           pc[c] \in stages <=> to \in stages
    PROVE  At(stages)' = At(stages)
BY DEF At

(* A connection that arrives at some stages adds one to their number. *)
LEMMA MoveIn ==
    ASSUME NEW stages, NEW c \in Conns, NEW to \in stages,
           pc \in [Conns -> Stages],
           pc' = [pc EXCEPT ![c] = to],
           pc[c] \notin stages
    PROVE  /\ At(stages)' = At(stages) \cup {c}
           /\ Cardinality(At(stages)') = Cardinality(At(stages)) + 1
<1>1. At(stages)' = At(stages) \cup {c} /\ c \notin At(stages)
  BY DEF At
<1>2. QED
  BY <1>1, AtFinite, FS_AddElement

(* A connection that leaves some stages takes one from their number. *)
LEMMA MoveOut ==
    ASSUME NEW stages, NEW c \in Conns, NEW to,
           pc \in [Conns -> Stages],
           pc' = [pc EXCEPT ![c] = to],
           pc[c] \in stages, to \notin stages
    PROVE  /\ At(stages)' = At(stages) \ {c}
           /\ Cardinality(At(stages)') = Cardinality(At(stages)) - 1
<1>1. At(stages)' = At(stages) \ {c} /\ c \in At(stages)
  BY DEF At
<1>2. QED
  BY <1>1, AtFinite, FS_RemoveElement

(* A set with at most one element more is larger by at most one. *)
LEMMA GrowByOne ==
    ASSUME NEW S, IsFiniteSet(S), NEW e, NEW T, T \subseteq S \cup {e}
    PROVE  /\ Cardinality(T) \in Nat /\ Cardinality(S) \in Nat
           /\ Cardinality(T) <= Cardinality(S) + 1
<1>1. /\ IsFiniteSet(S \cup {e}) /\ Cardinality(S) \in Nat
      /\ Cardinality(S \cup {e}) = IF e \in S THEN Cardinality(S) ELSE Cardinality(S) + 1
  BY FS_AddElement, FS_CardinalityType
<1>2. Cardinality(S \cup {e}) <= Cardinality(S) + 1
  BY <1>1
<1>3. /\ Cardinality(T) <= Cardinality(S \cup {e})
      /\ Cardinality(T) \in Nat /\ Cardinality(S \cup {e}) \in Nat
  BY <1>1, FS_Subset, FS_CardinalityType
<1>4. QED
  BY <1>1, <1>2, <1>3

(* Unlinking a timer leaves a queue of connections. *)
LEMMA UnlinkType ==
    ASSUME NEW q \in Seq(Conns), NEW c
    PROVE  Unlink(q, c) \in Seq(Conns)
<1>1. CASE \E i \in DOMAIN q : q[i] = c
  <2> DEFINE i == CHOOSE j \in DOMAIN q : q[j] = c
  <2>1. i \in 1..Len(q)
    BY <1>1, LenProperties
  <2> HIDE DEF i
  <2>2. SubSeq(q, 1, i - 1) \in Seq(Conns) /\ SubSeq(q, i + 1, Len(q)) \in Seq(Conns)
    BY <2>1, LenProperties, SubSeqProperties
  <2>3. Unlink(q, c) = SubSeq(q, 1, i - 1) \o SubSeq(q, i + 1, Len(q))
    BY <1>1 DEF Unlink, i
  <2>4. QED
    BY <2>2, <2>3, ConcatProperties
<1>2. CASE ~ \E i \in DOMAIN q : q[i] = c
  BY <1>2 DEF Unlink
<1>3. QED
  BY <1>1, <1>2

-----------------------------------------------------------------------------
(* Types and the count of permits in use. *)

CountInv == TypeOK /\ CountIsHolders

(* Each step of a connection keeps the types and the count.  The stage     *)
(* names are distinct strings, so a step either moves within the holders,  *)
(* within the others, or changes the count with the move.                  *)
LEMMA ConnKeepsCount ==
    ASSUME CountInv, NEW c \in Conns, ConnStep(c) \/ Expire(c) \/ Release(c)
    PROVE  CountInv'
<1> DEFINE H == {"issue", "held", "stranded"}
<1>h. Holders = At(H) /\ Holders' = At(H)' /\ Cardinality(At(H)) \in Nat
  BY AtFinite DEF Holders
<1>t. pc \in [Conns -> Stages] /\ timer \in [Conns -> TimerStates]
  BY DEF CountInv, TypeOK
<1> USE DEF CountInv
<1>1. CASE CheckShutdown(c)
  <2>1. Holders' = Holders
    BY <1>1, <1>h, <1>t, MoveAlong DEF CheckShutdown, Goto
  <2>2. TypeOK'
    BY <1>1 DEF TypeOK, CheckShutdown, Goto, Stages, TimerStates, counters, stopVars
  <2>3. QED
    BY <1>1, <2>1, <2>2 DEF CountIsHolders, CheckShutdown, counters
<1>2. CASE LoadCount(c)
  <2>1. Holders' = Holders
    BY <1>2, <1>h, <1>t, MoveAlong DEF LoadCount, Goto
  <2>2. TypeOK'
    BY <1>2 DEF TypeOK, LoadCount, Goto, Stages, TimerStates, counters, stopVars
  <2>3. QED
    BY <1>2, <2>1, <2>2 DEF CountIsHolders, LoadCount, counters
<1>3. CASE CasFails(c)
  <2>1. Holders' = Holders
    BY <1>3, <1>h, <1>t, MoveAlong DEF CasFails, Goto
  <2>2. TypeOK'
    BY <1>3 DEF TypeOK, CasFails, Goto, Stages, TimerStates, counters, stopVars
  <2>3. QED
    BY <1>3, <2>1, <2>2 DEF CountIsHolders, CasFails, counters
<1>4. CASE CountWaiter(c)
  <2>1. Holders' = Holders
    BY <1>4, <1>h, <1>t, MoveAlong DEF CountWaiter, Goto
  <2>2. TypeOK'
    BY <1>4 DEF TypeOK, CountWaiter, Goto, Stages, TimerStates, counters, stopVars
  <2>3. QED
    BY <1>4, <2>1, <2>2 DEF CountIsHolders, CountWaiter, counters
<1>5. CASE PushTimer(c)
  <2>1. Holders' = Holders
    BY <1>5, <1>h, <1>t, MoveAlong DEF PushTimer, Goto
  <2>2. TypeOK'
    BY <1>5, AppendProperties DEF TypeOK, PushTimer, Goto, Stages, TimerStates, counters, stopVars
  <2>3. QED
    BY <1>5, <2>1, <2>2 DEF CountIsHolders, PushTimer, counters
<1>6. CASE AsyncWait(c)
  <2>1. Holders' = Holders
    BY <1>6, <1>h, <1>t, MoveAlong DEF AsyncWait, Goto
  <2>2. TypeOK'
    BY <1>6 DEF TypeOK, AsyncWait, Goto, Stages, TimerStates, counters, stopVars
  <2>3. QED
    BY <1>6, <2>1, <2>2 DEF CountIsHolders, AsyncWait, counters
<1>7. CASE Resume(c)
  <2>1. Holders' = Holders
    BY <1>7, <1>h, <1>t, MoveAlong DEF Resume, Goto
  <2>2. TypeOK'
    BY <1>7, UnlinkType DEF TypeOK, Resume, Goto, Stages, TimerStates, counters, stopVars
  <2>3. QED
    BY <1>7, <2>1, <2>2 DEF CountIsHolders, Resume, counters
<1>8. CASE UncountWaiter(c)
  <2>1. Holders' = Holders
    BY <1>8, <1>h, <1>t, MoveAlong DEF UncountWaiter, Goto
  <2>2. TypeOK'
    BY <1>8 DEF TypeOK, UncountWaiter, Goto, Stages, TimerStates, counters, stopVars
  <2>3. QED
    BY <1>8, <2>1, <2>2 DEF CountIsHolders, UncountWaiter, counters
<1>9. CASE NotifyOne(c)
  <2>1. Holders' = Holders
    BY <1>9, <1>h, <1>t, MoveAlong DEF NotifyOne, Goto
  <2>2. TypeOK'
    <3>1. /\ pc' = [pc EXCEPT ![c] = "gone"]
          /\ UNCHANGED <<counters, stopVars, expected>>
      BY <1>9 DEF NotifyOne, Goto
    <3>2. pc' \in [Conns -> Stages]
      BY <1>t, <3>1 DEF Stages
    <3>3. m_wait_queue \in Seq(Conns)
      BY DEF TypeOK
    <3>4. m_wait_queue' \in Seq(Conns) /\ timer' \in [Conns -> TimerStates]
      <4>1. CASE m_wait_queue = <<>>
        BY <1>9, <1>t, <4>1, <3>3 DEF NotifyOne
      <4>2. CASE m_wait_queue # <<>>
        <5>1. /\ m_wait_queue' = Tail(m_wait_queue)
              /\ timer' = Cancelled(Head(m_wait_queue))
          BY <1>9, <4>2 DEF NotifyOne
        <5>2. Tail(m_wait_queue) \in Seq(Conns)
          BY <3>3, <4>2, HeadTailProperties
        <5>3. Cancelled(Head(m_wait_queue)) \in [Conns -> TimerStates]
          BY <1>t DEF Cancelled, TimerStates
        <5> QED
          BY <5>1, <5>2, <5>3
      <4> QED
        BY <4>1, <4>2
    <3> QED
      BY <3>1, <3>2, <3>4 DEF TypeOK, counters, stopVars
  <2>3. QED
    BY <1>9, <2>1, <2>2 DEF CountIsHolders, NotifyOne, counters
<1>10. CASE CasSucceeds(c)
  <2>1. Cardinality(Holders') = Cardinality(Holders) + 1
    BY <1>10, <1>h, <1>t, MoveIn DEF CasSucceeds, Goto
  <2>2. TypeOK'
    BY <1>10 DEF TypeOK, CasSucceeds, Goto, Stages, stopVars
  <2>3. QED
    BY <1>10, <2>1, <2>2 DEF CountIsHolders, CasSucceeds
<1>11. CASE GrabSlot(c)
  <2>1. Cardinality(Holders') = Cardinality(Holders) + 1
    BY <1>11, <1>h, <1>t, MoveIn DEF GrabSlot, Goto
  <2>2. TypeOK'
    BY <1>11 DEF TypeOK, GrabSlot, Goto, Stages, stopVars
  <2>3. QED
    BY <1>11, <2>1, <2>2 DEF CountIsHolders, GrabSlot
<1>12. CASE IssuePermit(c)
  <2>1. Holders' = Holders
    BY <1>12, <1>h, <1>t, MoveAlong DEF IssuePermit, Goto
  <2>2. NextId(m_next_permit_id) \in (-IntMax - 1)..IntMax
    BY LimitsAssumption DEF NextId, TypeOK
  <2>3. TypeOK'
    BY <1>12, <2>2 DEF TypeOK, IssuePermit, Goto, Stages, stopVars
  <2>4. QED
    BY <1>12, <2>1, <2>3 DEF CountIsHolders, IssuePermit
<1>13. CASE Expire(c)
  <2>1. Holders' = Holders
    BY <1>13 DEF Expire, Holders, At
  <2>2. TypeOK'
    BY <1>13 DEF TypeOK, Expire, TimerStates, counters, stopVars
  <2>3. QED
    BY <1>13, <2>1, <2>2 DEF CountIsHolders, Expire, counters
<1>14. CASE Release(c)
  <2>1. Cardinality(Holders') = Cardinality(Holders) - 1
    BY <1>14, <1>h, <1>t, MoveOut DEF Release, Goto
  <2>2. Cardinality(Holders') \in Nat
    BY <1>h, ConnSubset DEF At
  <2>3. m_current_count' = Cardinality(Holders')
    BY <1>14, <2>1 DEF CountIsHolders, Release
  <2>4. TypeOK'
    BY <1>14, <2>2, <2>3 DEF TypeOK, Release, Goto, Stages, stopVars
  <2>5. QED
    BY <2>3, <2>4 DEF CountIsHolders
<1>15. QED
  BY <1>1, <1>2, <1>3, <1>4, <1>5, <1>6, <1>7, <1>8, <1>9, <1>10, <1>11, <1>12, <1>13, <1>14 DEF ConnStep

(* shutdown() moves no connection and leaves the count alone. *)
LEMMA ShutdownKeepsCount ==
    ASSUME CountInv, Shutdown
    PROVE  CountInv'
<1> USE DEF CountInv
<1>1. Holders' = Holders /\ m_current_count' = m_current_count
  BY DEF Shutdown, SetShutdown, DrainQueue, CancelDrained, ResetWaiting, Holders, At,
         counters
<1>2. TypeOK'
  <2>1. CASE SetShutdown
    BY <2>1 DEF SetShutdown, TypeOK, counters
  <2>2. CASE DrainQueue
    BY <2>2, EmptySeq DEF DrainQueue, TypeOK, counters
  <2>3. CASE CancelDrained
    BY <2>3, HeadTailProperties DEF CancelDrained, Cancelled, TypeOK, TimerStates, counters
  <2>4. CASE ResetWaiting
    BY <2>4 DEF ResetWaiting, TypeOK
  <2>5. QED
    BY <2>1, <2>2, <2>3, <2>4 DEF Shutdown
<1>3. QED
  BY <1>1, <1>2 DEF CountIsHolders

(* The count starts at no holder. *)
LEMMA InitCount ==
    ASSUME Init PROVE CountInv
<1>1. 0 \in (-IntMax - 1)..IntMax
  BY LimitsAssumption
<1>2. TypeOK
  <2>1. <<>> \in Seq(Conns)
    BY EmptySeq
  <2>2. m_is_shutdown \in BOOLEAN
    BY Zenon DEF Init
  <2>3. m_wait_queue \in Seq(Conns) /\ timers_to_cancel \in Seq(Conns)
    BY <2>1, Zenon DEF Init
  <2>4. /\ m_current_count = 0 /\ m_waiting_count = 0 /\ m_next_permit_id = 0
        /\ stopper = "idle"
        /\ pc = [c \in Conns |-> "new"]
        /\ timer = [c \in Conns |-> "none"]
        /\ expected = [c \in Conns |-> 0]
    BY Zenon DEF Init
  <2>5. QED
    BY <1>1, <2>2, <2>3, <2>4 DEF TypeOK, Stages, TimerStates
<1>3. Holders = {}
  BY DEF Init, Holders, At
<1>4. QED
  BY <1>2, <1>3, FS_EmptySet DEF CountInv, CountIsHolders, Init

(* Every step keeps the types and the count. *)
LEMMA StepKeepsCount ==
    ASSUME CountInv, [Next]_vars PROVE CountInv'
<1>1. CASE Next
  BY <1>1, ConnKeepsCount, ShutdownKeepsCount
  DEF Next, Terminated, vars, counters, stopVars, CountInv, TypeOK, CountIsHolders, Holders, At
<1>2. CASE UNCHANGED vars
  BY <1>2 DEF vars, counters, stopVars, CountInv, TypeOK, CountIsHolders, Holders, At
<1>3. QED
  BY <1>1, <1>2

(* The types hold and the count is the number of holders in every state.   *)
THEOREM TypesAndCount == Spec => [](TypeOK /\ CountIsHolders)
<1>1. Init => CountInv
  BY InitCount
<1>2. CountInv /\ [Next]_vars => CountInv'
  BY StepKeepsCount
<1>3. QED
  BY <1>1, <1>2, PTL DEF Spec, CountInv

-----------------------------------------------------------------------------
(* The fast path stays within the limit. *)

(* The state of a connection's timer follows from its stage, and a         *)
(* connection about to exchange has seen a count below the limit.          *)
StageInv ==
    \A c \in Conns :
        /\ pc[c] \in {"new", "load", "cas", "enter", "push"} => timer[c] = "none"
        /\ pc[c] = "arm" => timer[c] = "set"
        /\ pc[c] = "wait" => timer[c] \in {"armed", "expired", "aborted"}
        /\ pc[c] = "uncount" => timer[c] \in {"expired", "aborted"}
        /\ pc[c] = "grab" => timer[c] = "aborted"
        /\ pc[c] \in {"issue", "held", "stranded", "notify", "gone"} =>
               timer[c] \in {"none", "aborted"}
        /\ pc[c] = "denied" => timer[c] \in {"none", "expired"}
        /\ pc[c] = "cas" => expected[c] < MaxConcurrent

(* Cancelling any timer keeps the agreement of stages and timers. *)
LEMMA CancelKeepsStage ==
    ASSUME TypeOK, StageInv, NEW d \in Conns, timer' = Cancelled(d),
           UNCHANGED expected,
           \A c \in Conns : pc'[c] = pc[c] \/ (pc[c] = "notify" /\ pc'[c] = "gone")
    PROVE  StageInv'
BY DEF TypeOK, StageInv, Cancelled

(* Each step keeps the agreement of stages and timers. *)
LEMMA StepKeepsStage ==
    ASSUME TypeOK, TypeOK', StageInv, [Next]_vars
    PROVE  StageInv'
<1> USE DEF StageInv
<1>1. ASSUME NEW c \in Conns, ConnStep(c) \/ Expire(c) \/ Release(c)
      PROVE  StageInv'
  <2>1. CASE CheckShutdown(c)
    BY <2>1, LimitsAssumption DEF CheckShutdown, Goto, TypeOK
  <2>2. CASE LoadCount(c)
    BY <2>2, LimitsAssumption DEF LoadCount, Goto, TypeOK
  <2>3. CASE CasSucceeds(c)
    BY <2>3, LimitsAssumption DEF CasSucceeds, Goto, TypeOK
  <2>4. CASE CasFails(c)
    BY <2>4, LimitsAssumption DEF CasFails, Goto, TypeOK
  <2>5. CASE CountWaiter(c)
    BY <2>5, LimitsAssumption DEF CountWaiter, Goto, TypeOK
  <2>6. CASE PushTimer(c)
    BY <2>6, LimitsAssumption DEF PushTimer, Goto, TypeOK
  <2>7. CASE AsyncWait(c)
    BY <2>7, LimitsAssumption DEF AsyncWait, Goto, TypeOK
  <2>8. CASE Expire(c)
    BY <2>8, LimitsAssumption DEF Expire, TypeOK
  <2>9. CASE Resume(c)
    BY <2>9, LimitsAssumption DEF Resume, Goto, TypeOK
  <2>10. CASE UncountWaiter(c)
    BY <2>10, LimitsAssumption DEF UncountWaiter, Goto, TypeOK
  <2>11. CASE GrabSlot(c)
    BY <2>11, LimitsAssumption DEF GrabSlot, Goto, TypeOK
  <2>12. CASE IssuePermit(c)
    BY <2>12, LimitsAssumption DEF IssuePermit, Goto, TypeOK
  <2>13. CASE Release(c)
    BY <2>13, LimitsAssumption DEF Release, Goto, TypeOK
  <2>14. CASE NotifyOne(c)
    <3>1. \A d \in Conns : pc'[d] = pc[d] \/ (pc[d] = "notify" /\ pc'[d] = "gone")
      BY <2>14 DEF NotifyOne, Goto, TypeOK
    <3>2. CASE m_wait_queue = <<>>
      BY <2>14, <3>1, <3>2 DEF NotifyOne
    <3>3. CASE m_wait_queue # <<>>
      <4>1. Head(m_wait_queue) \in Conns
        BY <3>3, HeadTailProperties DEF TypeOK
      <4>2. QED
        BY <2>14, <3>1, <3>3, <4>1, CancelKeepsStage DEF NotifyOne
    <3>4. QED
      BY <3>2, <3>3
  <2>15. QED
    BY <1>1, <2>1, <2>2, <2>3, <2>4, <2>5, <2>6, <2>7, <2>8, <2>9, <2>10, <2>11, <2>12, <2>13, <2>14 DEF ConnStep
<1>2. CASE Shutdown
  <2>1. CASE CancelDrained
    <3>1. Head(timers_to_cancel) \in Conns
      BY <2>1, HeadTailProperties DEF CancelDrained, TypeOK
    <3>2. QED
      BY <2>1, <3>1, CancelKeepsStage DEF CancelDrained
  <2>2. CASE SetShutdown \/ DrainQueue \/ ResetWaiting
    BY <2>2 DEF SetShutdown, DrainQueue, ResetWaiting
  <2>3. QED
    BY <1>2, <2>1, <2>2 DEF Shutdown
<1>3. CASE UNCHANGED vars
  BY <1>3 DEF vars
<1>4. QED
  BY <1>1, <1>2, <1>3 DEF Next, Terminated

(* Only an exchange of the fast path adds a holder without a timer. *)
LEMMA FastHoldersGrow ==
    ASSUME TypeOK, StageInv, [Next]_vars,
           \A c \in Conns : ~CasSucceeds(c)
    PROVE  FastHolders' \subseteq FastHolders
<1> USE DEF FastHolders, Holders, At
<1>1. ASSUME NEW c \in Conns, ConnStep(c) \/ Expire(c) \/ Release(c)
      PROVE  FastHolders' \subseteq FastHolders
  <2>1. \A d \in Conns : timer'[d] = "none" => timer[d] = "none"
    BY <1>1 DEF ConnStep, CheckShutdown, LoadCount, CasSucceeds, CasFails, CountWaiter, PushTimer, AsyncWait, Expire, Resume, UncountWaiter, GrabSlot, IssuePermit, Release, NotifyOne, Cancelled, Goto, TypeOK, stopVars
  <2>2. \A d \in Conns \ {c} : pc'[d] = pc[d]
    BY <1>1 DEF ConnStep, CheckShutdown, LoadCount, CasSucceeds, CasFails, CountWaiter, PushTimer, AsyncWait, Expire, Resume, UncountWaiter, GrabSlot, IssuePermit, Release, NotifyOne, Goto, TypeOK
  <2>3. c \in Holders' => c \in Holders \/ timer'[c] # "none"
    BY <1>1 DEF ConnStep, CheckShutdown, LoadCount, CasSucceeds, CasFails, CountWaiter, PushTimer, AsyncWait, Expire, Resume, UncountWaiter, GrabSlot, IssuePermit, Release, NotifyOne, Cancelled, Goto, TypeOK, StageInv
  <2>4. QED
    BY <2>1, <2>2, <2>3
<1>2. CASE Shutdown
  BY <1>2 DEF Shutdown, SetShutdown, DrainQueue, CancelDrained, ResetWaiting, Cancelled,
      TypeOK
<1>3. CASE UNCHANGED vars
  BY <1>3 DEF vars
<1>4. QED
  BY <1>1, <1>2, <1>3 DEF Next, Terminated

(* The invariant under which the limit of the fast path is inductive. *)
LimitInv == CountInv /\ StageInv /\ FastPathWithinLimit

(* An exchange succeeds only against a count below the limit, and the      *)
(* count is at least the number of fast-path holders.                      *)
LEMMA ExchangeWithinLimit ==
    ASSUME LimitInv, NEW c \in Conns, CasSucceeds(c)
    PROVE  FastPathWithinLimit'
<1> USE DEF LimitInv, CountInv
<1>1. m_current_count + 1 <= MaxConcurrent
  BY LimitsAssumption DEF CasSucceeds, Goto, StageInv, TypeOK
<1>2. /\ FastHolders \subseteq Holders
      /\ IsFiniteSet(Holders) /\ Cardinality(Holders) \in Nat
  BY AtFinite DEF FastHolders, Holders
<1>3. Cardinality(FastHolders) <= m_current_count
  BY <1>2, FS_Subset DEF CountIsHolders
<1>4. /\ FastHolders' \subseteq FastHolders \cup {c}
      /\ IsFiniteSet(FastHolders) /\ Cardinality(FastHolders) \in Nat
  BY <1>2, FS_Subset, FS_CardinalityType
     DEF CasSucceeds, Goto, FastHolders, Holders, At, TypeOK
<1>5. /\ Cardinality(FastHolders') \in Nat
      /\ Cardinality(FastHolders') <= Cardinality(FastHolders) + 1
  BY <1>4, GrowByOne
<1>6. QED
  BY <1>1, <1>3, <1>4, <1>5, LimitsAssumption DEF FastPathWithinLimit, TypeOK

(* The invariant holds initially. *)
LEMMA InitLimit ==
    ASSUME Init PROVE LimitInv
<1>1. CountInv
  BY InitCount
<1>2. StageInv
  BY DEF Init, StageInv
<1>3. FastHolders = {}
  BY DEF Init, FastHolders, Holders, At
<1>4. QED
  BY <1>1, <1>2, <1>3, FS_EmptySet, LimitsAssumption DEF LimitInv, FastPathWithinLimit

(* Every step keeps the invariant. *)
LEMMA StepKeepsLimit ==
    ASSUME LimitInv, [Next]_vars PROVE LimitInv'
<1>1. CountInv'
  BY StepKeepsCount DEF LimitInv
<1>2. StageInv'
  BY <1>1, StepKeepsStage DEF LimitInv, CountInv
<1>3. FastPathWithinLimit'
  <2>1. CASE \E c \in Conns : CasSucceeds(c)
    BY <2>1, ExchangeWithinLimit
  <2>2. CASE \A c \in Conns : ~CasSucceeds(c)
    <3>1. FastHolders' \subseteq FastHolders
      BY <2>2, FastHoldersGrow DEF LimitInv, CountInv
    <3>2. IsFiniteSet(FastHolders) /\ Cardinality(FastHolders) \in Nat
      BY ConnSubset DEF FastHolders, Holders, At
    <3>3. /\ Cardinality(FastHolders') <= Cardinality(FastHolders)
          /\ Cardinality(FastHolders') \in Nat
      BY <3>1, <3>2, FS_Subset, FS_CardinalityType
    <3>4. QED
      BY <3>2, <3>3, LimitsAssumption DEF LimitInv, FastPathWithinLimit
  <2>3. QED
    BY <2>1, <2>2
<1>4. QED
  BY <1>1, <1>2, <1>3 DEF LimitInv

(* The fast path never brings more holders in than the limit, whatever     *)
(* happens between its load and its exchange.                              *)
THEOREM FastPathLimit == Spec => []FastPathWithinLimit
<1>1. Init => LimitInv
  BY InitLimit
<1>2. LimitInv /\ [Next]_vars => LimitInv'
  BY StepKeepsLimit
<1>3. QED
  BY <1>1, <1>2, PTL DEF Spec, LimitInv

-----------------------------------------------------------------------------
(* Wake-ups are paid for, so the overrun of the limit is bounded. *)

(* shutdown() has begun exactly when its flag is set. *)
StopInv == stopper = "idle" <=> ~m_is_shutdown

(* The invariant under which the payment of wake-ups is inductive. *)
PaidInv == LimitInv /\ StopInv /\ WakesArePaid

(* Before a shutdown only notifyOne() wakes a waiter, and no connection    *)
(* that has returned its permit leaves.                                    *)
LEMMA OnlyNotifyWakes ==
    ASSUME TypeOK, StopInv, [Next]_vars, ~m_is_shutdown',
           \A c \in Conns : ~NotifyOne(c)
    PROVE  ~m_is_shutdown /\ Woken' \subseteq Woken /\ Returned' = Returned
<1> USE DEF Woken, Returned, At
<1>1. ASSUME NEW c \in Conns, ConnStep(c) \/ Expire(c) \/ Release(c)
      PROVE  ~m_is_shutdown /\ Woken' \subseteq Woken /\ Returned' = Returned
  <2>1. ~m_is_shutdown
    BY <1>1 DEF ConnStep, CheckShutdown, LoadCount, CasSucceeds, CasFails, CountWaiter, PushTimer, AsyncWait, Expire, Resume, UncountWaiter, GrabSlot, IssuePermit, Release, stopVars
  <2>2. Woken' \subseteq Woken
    BY <1>1 DEF ConnStep, CheckShutdown, LoadCount, CasSucceeds, CasFails, CountWaiter, PushTimer, AsyncWait, Expire, Resume, UncountWaiter, GrabSlot, IssuePermit, Release, TypeOK
  <2>3. Returned' = Returned
    BY <1>1 DEF ConnStep, CheckShutdown, LoadCount, CasSucceeds, CasFails, CountWaiter, PushTimer, AsyncWait, Expire, Resume, UncountWaiter, GrabSlot, IssuePermit, Release, Goto, TypeOK
  <2>4. QED
    BY <2>1, <2>2, <2>3
<1>2. CASE Shutdown
  BY <1>2 DEF Shutdown, SetShutdown, DrainQueue, CancelDrained, ResetWaiting, StopInv
<1>3. CASE UNCHANGED vars
  BY <1>3 DEF vars, stopVars
<1>4. QED
  BY <1>1, <1>2, <1>3 DEF Next, Terminated

(* notifyOne() wakes at most one waiter and completes one release. *)
LEMMA NotifyIsPaid ==
    ASSUME TypeOK, WakesArePaid, NEW c \in Conns, NotifyOne(c)
    PROVE  WakesArePaid'
<1>1. /\ Cardinality(Returned') = Cardinality(Returned) + 1
      /\ Cardinality(Returned) \in Nat
  <2>1. pc' = [pc EXCEPT ![c] = "gone"] /\ pc[c] \notin {"gone"}
    BY DEF NotifyOne, Goto
  <2>2. QED
    BY <2>1, MoveIn, AtFinite DEF Returned, TypeOK
<1>2. IsFiniteSet(Woken)
  BY ConnSubset DEF Woken
<1>3. \E d : Woken' \subseteq Woken \cup {d}
  <2>1. CASE m_wait_queue = <<>>
    BY <2>1 DEF NotifyOne, Woken
  <2>2. CASE m_wait_queue # <<>>
    <3>1. timer' = Cancelled(Head(m_wait_queue))
      BY <2>2 DEF NotifyOne
    <3>2. Woken' \subseteq Woken \cup {Head(m_wait_queue)}
      BY <3>1 DEF Cancelled, Woken, TypeOK
    <3>3. QED
      BY <3>2
  <2>3. QED
    BY <2>1, <2>2
<1>4. /\ Cardinality(Woken') <= Cardinality(Woken) + 1
      /\ Cardinality(Woken') \in Nat /\ Cardinality(Woken) \in Nat
  BY <1>2, <1>3, GrowByOne
<1>5. m_is_shutdown' = m_is_shutdown
  BY DEF NotifyOne, stopVars
<1>6. QED
  BY <1>1, <1>4, <1>5 DEF WakesArePaid

(* The invariant holds initially. *)
LEMMA InitPaid ==
    ASSUME Init PROVE PaidInv
<1>1. Woken = {} /\ Returned = {}
  BY DEF Init, Woken, Returned, At
<1>2. stopper = "idle" /\ ~m_is_shutdown
  BY Zenon DEF Init
<1>3. QED
  BY <1>1, <1>2, InitLimit, FS_EmptySet DEF PaidInv, StopInv, WakesArePaid

(* Every step keeps the invariant. *)
LEMMA StepKeepsPaid ==
    ASSUME PaidInv, [Next]_vars PROVE PaidInv'
<1> USE DEF PaidInv
<1>1. TypeOK
  BY DEF LimitInv, CountInv
<1>2. LimitInv'
  BY StepKeepsLimit
<1>3. StopInv'
  BY DEF StopInv, Next, Terminated, ConnStep, CheckShutdown, LoadCount, CasSucceeds, CasFails, CountWaiter, PushTimer, AsyncWait, Expire, Resume, UncountWaiter, GrabSlot, IssuePermit, Release, NotifyOne, Shutdown,
         SetShutdown, DrainQueue, CancelDrained, ResetWaiting, vars, stopVars
<1>4. WakesArePaid'
  <2>1. CASE \E c \in Conns : NotifyOne(c)
    BY <1>1, <2>1, NotifyIsPaid
  <2>2. CASE m_is_shutdown'
    BY <2>2 DEF WakesArePaid
  <2>3. CASE ~m_is_shutdown' /\ \A c \in Conns : ~NotifyOne(c)
    <3>1. ~m_is_shutdown /\ Woken' \subseteq Woken /\ Returned' = Returned
      BY <1>1, <2>3, OnlyNotifyWakes
    <3>2. /\ Cardinality(Woken') <= Cardinality(Woken)
          /\ Cardinality(Woken') \in Nat /\ Cardinality(Woken) \in Nat
      BY <3>1, ConnSubset, FS_Subset, FS_CardinalityType DEF Woken
    <3>3. Cardinality(Returned) \in Nat
      BY AtFinite DEF Returned
    <3>4. QED
      BY <3>1, <3>2, <3>3 DEF WakesArePaid
  <2>4. QED
    BY <2>1, <2>2, <2>3
<1>5. QED
  BY <1>2, <1>3, <1>4

(* Before a shutdown there are never more wake-ups than returned permits.  *)
THEOREM WakesPaid == Spec => []WakesArePaid
<1>1. Init => PaidInv
  BY InitPaid
<1>2. PaidInv /\ [Next]_vars => PaidInv'
  BY StepKeepsPaid
<1>3. QED
  BY <1>1, <1>2, PTL DEF Spec, PaidInv

(* A holder came through the fast path or was woken. *)
LEMMA PaidBoundsOverrun ==
    ASSUME PaidInv PROVE OverrunIsBounded
<1> USE DEF PaidInv, LimitInv, CountInv
<1>1. Holders \subseteq FastHolders \cup Woken
  BY DEF StageInv, FastHolders, Holders, At, Woken
<1>2. /\ IsFiniteSet(FastHolders) /\ IsFiniteSet(Woken) /\ IsFiniteSet(Holders)
      /\ Cardinality(FastHolders) \in Nat /\ Cardinality(Woken) \in Nat
      /\ Cardinality(Holders) \in Nat /\ Cardinality(Returned) \in Nat
  BY ConnSubset DEF FastHolders, Holders, At, Woken, Returned
<1>3. /\ IsFiniteSet(FastHolders \cup Woken)
      /\ Cardinality(FastHolders \cup Woken)
           <= Cardinality(FastHolders) + Cardinality(Woken)
      /\ Cardinality(FastHolders \cup Woken) \in Nat
  <2>1. /\ IsFiniteSet(FastHolders \cup Woken)
        /\ Cardinality(FastHolders \cup Woken) =
             Cardinality(FastHolders) + Cardinality(Woken)
               - Cardinality(FastHolders \cap Woken)
    BY <1>2, FS_Union
  <2>2. Cardinality(FastHolders \cap Woken) \in Nat
    BY ConnSubset DEF Woken
  <2>3. QED
    BY <1>2, <2>1, <2>2, FS_CardinalityType
<1>4. Cardinality(Holders) <= Cardinality(FastHolders \cup Woken)
  BY <1>1, <1>3, FS_Subset
<1>5. QED
  BY <1>2, <1>3, <1>4, LimitsAssumption
     DEF OverrunIsBounded, CountIsHolders, FastPathWithinLimit, WakesArePaid

(* Before a shutdown the limit is overrun by at most one slot for each     *)
(* permit that has been returned.                                          *)
THEOREM OverrunBounded == Spec => []OverrunIsBounded
<1>1. Init => PaidInv
  BY InitPaid
<1>2. PaidInv /\ [Next]_vars => PaidInv'
  BY StepKeepsPaid
<1>3. PaidInv => OverrunIsBounded
  BY PaidBoundsOverrun
<1>4. QED
  BY <1>1, <1>2, <1>3, PTL DEF Spec

-----------------------------------------------------------------------------
(* The count of waiters. *)

(* The types of the variables, by themselves. *)
THEOREM TypeCorrect == Spec => []TypeOK
BY TypesAndCount, PTL

(* A step of a connection moves the count of waiters with the waiters. *)
LEMMA ConnKeepsWaiting ==
    ASSUME TypeOK, WaitingIsWaiters, NEW c \in Conns,
           ConnStep(c) \/ Expire(c) \/ Release(c)
    PROVE  WaitingIsWaiters'
<1> DEFINE W == {"push", "arm", "wait", "uncount"}
<1>h. Waiters = At(W) /\ Waiters' = At(W)' /\ Cardinality(At(W)) \in Nat
  BY AtFinite DEF Waiters
<1>t. pc \in [Conns -> Stages] /\ m_waiting_count \in Int
  BY DEF TypeOK
<1>1. CASE CheckShutdown(c) \/ LoadCount(c) \/ CasSucceeds(c) \/ CasFails(c)
           \/ GrabSlot(c) \/ IssuePermit(c) \/ Release(c) \/ NotifyOne(c)
  <2>1. /\ pc' = [pc EXCEPT ![c] = pc'[c]]
        /\ pc[c] \notin W /\ pc'[c] \notin W
    BY <1>1, <1>t DEF CheckShutdown, LoadCount, CasSucceeds, CasFails, GrabSlot, IssuePermit,
       Release, NotifyOne, Goto
  <2>2. Waiters' = Waiters
    BY <2>1, <1>h, <1>t, MoveAlong
  <2>3. m_waiting_count' = m_waiting_count /\ stopper' = stopper
    BY <1>1 DEF CheckShutdown, LoadCount, CasSucceeds, CasFails, GrabSlot, IssuePermit,
       Release, NotifyOne, counters, stopVars
  <2> QED
    BY <2>2, <2>3 DEF WaitingIsWaiters
<1>2. CASE PushTimer(c) \/ AsyncWait(c) \/ Resume(c)
  <2>1. /\ pc' = [pc EXCEPT ![c] = pc'[c]]
        /\ pc[c] \in W /\ pc'[c] \in W
    BY <1>2, <1>t DEF PushTimer, AsyncWait, Resume, Goto
  <2>2. Waiters' = Waiters
    BY <2>1, <1>h, <1>t, MoveAlong
  <2>3. m_waiting_count' = m_waiting_count /\ stopper' = stopper
    BY <1>2 DEF PushTimer, AsyncWait, Resume, counters, stopVars
  <2> QED
    BY <2>2, <2>3 DEF WaitingIsWaiters
<1>3. CASE CountWaiter(c)
  <2>1. Cardinality(Waiters') = Cardinality(Waiters) + 1
    BY <1>3, <1>h, <1>t, MoveIn DEF CountWaiter, Goto
  <2> QED
    BY <1>3, <2>1 DEF WaitingIsWaiters, CountWaiter, stopVars
<1>4. CASE UncountWaiter(c)
  <2>0. /\ pc' = [pc EXCEPT ![c] = pc'[c]]
        /\ pc[c] \in W /\ pc'[c] \notin W
    BY <1>4, <1>t DEF UncountWaiter, Goto
  <2>1. Cardinality(Waiters') = Cardinality(Waiters) - 1
    BY <2>0, <1>h, <1>t, MoveOut
  <2> QED
    BY <1>4, <2>1 DEF WaitingIsWaiters, UncountWaiter, stopVars
<1>5. CASE Expire(c)
  BY <1>5 DEF Expire, WaitingIsWaiters, Waiters, At, counters, stopVars
<1> QED
  BY <1>1, <1>2, <1>3, <1>4, <1>5 DEF ConnStep

(* shutdown() overwrites the count in its last step, and does not return   *)
(* to an earlier one.                                                      *)
LEMMA ShutdownKeepsWaiting ==
    ASSUME WaitingIsWaiters, Shutdown PROVE WaitingIsWaiters'
<1>1. Waiters' = Waiters
  BY DEF Shutdown, SetShutdown, DrainQueue, CancelDrained, ResetWaiting, Waiters, At
<1>2. stopper' = "down" \/ (stopper # "down" /\ m_waiting_count' = m_waiting_count)
  BY DEF Shutdown, SetShutdown, DrainQueue, CancelDrained, ResetWaiting, counters
<1> QED
  BY <1>1, <1>2 DEF WaitingIsWaiters

LEMMA StepKeepsWaiting ==
    ASSUME TypeOK, WaitingIsWaiters, [Next]_vars PROVE WaitingIsWaiters'
<1>1. CASE UNCHANGED vars
  BY <1>1 DEF vars, counters, stopVars, WaitingIsWaiters, Waiters, At
<1> QED
  BY <1>1, ConnKeepsWaiting, ShutdownKeepsWaiting DEF Next, Terminated

LEMMA InitWaiting == Init => WaitingIsWaiters
<1> SUFFICES ASSUME Init PROVE WaitingIsWaiters
  OBVIOUS
<1>1. Waiters = {}
  BY DEF Init, Waiters, At
<1> QED
  BY <1>1, FS_EmptySet DEF Init, WaitingIsWaiters

(* Until shutdown() overwrites it, the count is that of the connections    *)
(* between its two updates.                                                *)
THEOREM WaitersCounted == Spec => []WaitingIsWaiters
<1>1. TypeOK /\ WaitingIsWaiters /\ [Next]_vars => WaitingIsWaiters'
  BY StepKeepsWaiting
<1> QED
  BY <1>1, InitWaiting, TypeCorrect, PTL DEF Spec

-----------------------------------------------------------------------------
(* The wait queue. *)

Distinct(q) == \A i, j \in 1..Len(q) : q[i] = q[j] => i = j

(* A sequence without its head has the other elements, each once. *)
LEMMA TailElements ==
    ASSUME NEW q \in Seq(Conns), q # <<>>, Distinct(q)
    PROVE  /\ Distinct(Tail(q))
           /\ \A i \in 1..Len(Tail(q)) :
                 Tail(q)[i] # Head(q) /\ \E j \in 1..Len(q) : Tail(q)[i] = q[j]
<1>1. /\ Len(q) \in Nat \ {0} /\ Len(Tail(q)) = Len(q) - 1
      /\ Head(q) = q[1]
      /\ \A i \in 1..(Len(q) - 1) : Tail(q)[i] = q[i + 1]
  OBVIOUS
<1>2. ASSUME NEW i \in 1..(Len(q) - 1)
      PROVE  i + 1 \in 1..Len(q) /\ Tail(q)[i] = q[i + 1] /\ i + 1 # 1 /\ 1 \in 1..Len(q)
  BY <1>1
<1>3. Distinct(Tail(q))
  BY <1>1, <1>2 DEF Distinct
<1> QED
  BY <1>1, <1>2, <1>3 DEF Distinct

(* Unlinking leaves the other elements, each once. *)
LEMMA UnlinkElements ==
    ASSUME NEW q \in Seq(Conns), NEW c, Distinct(q)
    PROVE  /\ Distinct(Unlink(q, c))
           /\ \A i \in 1..Len(Unlink(q, c)) :
                 Unlink(q, c)[i] # c /\ \E j \in 1..Len(q) : Unlink(q, c)[i] = q[j]
<1> DEFINE r == Unlink(q, c)
<1>n. Len(q) \in Nat /\ DOMAIN q = 1..Len(q)
  BY LenProperties
<1>1. CASE \E i \in DOMAIN q : q[i] = c
  <2> DEFINE k == CHOOSE j \in DOMAIN q : q[j] = c
  <2>1. k \in 1..Len(q) /\ q[k] = c /\ k \in Int
    BY <1>1, <1>n
  <2>r. r = SubSeq(q, 1, k - 1) \o SubSeq(q, k + 1, Len(q))
    BY <1>1 DEF Unlink
  <2> HIDE DEF k, r
  <2> DEFINE a == SubSeq(q, 1, k - 1)
             b == SubSeq(q, k + 1, Len(q))
  <2>2. a \in Seq(Conns) /\ Len(a) = k - 1 /\ \A i \in 1..(k - 1) : a[i] = q[i]
    BY <1>n, <2>1
  <2>3. /\ b \in Seq(Conns) /\ Len(b) = Len(q) - k
        /\ \A i \in 1..(Len(q) - k) : b[i] = q[k + 1 + i - 1]
    <3> DEFINE f == k + 1
               l == Len(q)
    <3>1. /\ f \in Int /\ l \in Int /\ f \in 1..(l + 1) /\ l - f + 1 = Len(q) - k
          /\ \A i \in f..l : q[i] \in Conns
      BY <1>n, <2>1, ElementOfSeq
    <3> HIDE DEF f, l
    <3>2. /\ SubSeq(q, f, l) \in Seq(Conns) /\ Len(SubSeq(q, f, l)) = l - f + 1
          /\ \A i \in 1..(l - f + 1) : SubSeq(q, f, l)[i] = q[f + i - 1]
      BY <3>1, SubSeqProperties
    <3> QED
      BY <3>1, <3>2 DEF f, l
  <2> HIDE DEF a, b
  <2>4. r = a \o b
    BY <2>r DEF a, b
  <2>5. Len(r) = Len(a) + Len(b)
    BY <2>2, <2>3, <2>4, ConcatProperties
  <2>6. Len(r) = Len(q) - 1
    BY <1>n, <2>1, <2>2, <2>3, <2>5
  <2>7. \A i \in 1..(k - 1) : r[i] = q[i]
    <3>1. ASSUME NEW i \in 1..(k - 1) PROVE r[i] = q[i]
      <4>1. i \in 1..(Len(a) + Len(b)) /\ i <= Len(a)
        BY <1>n, <2>1, <2>2, <2>3
      <4>2. r[i] = a[i]
        BY <2>2, <2>3, <2>4, <4>1, ConcatProperties
      <4> QED
        BY <2>2, <4>2
    <3> QED
      BY <3>1
  <2>8. \A i \in k..(Len(q) - 1) : r[i] = q[i + 1]
    <3>1. ASSUME NEW i \in k..(Len(q) - 1) PROVE r[i] = q[i + 1]
      <4>1. i \in 1..(Len(a) + Len(b)) /\ ~(i <= Len(a)) /\ i - Len(a) = i - (k - 1)
        BY <1>n, <2>1, <2>2, <2>3
      <4>2. r[i] = b[i - (k - 1)]
        BY <2>2, <2>3, <2>4, <4>1, ConcatProperties
      <4>3. i - (k - 1) \in 1..(Len(q) - k) /\ k + 1 + (i - (k - 1)) - 1 = i + 1
        BY <1>n, <2>1
      <4>4. b[i - (k - 1)] = q[k + 1 + (i - (k - 1)) - 1]
        BY <2>3, <4>3
      <4> QED
        BY <4>2, <4>3, <4>4
    <3> QED
      BY <3>1
  <2>9. ASSUME NEW i \in 1..Len(r)
        PROVE  \E m \in 1..Len(q) : r[i] = q[m] /\ m = IF i < k THEN i ELSE i + 1
    <3>1. CASE i < k
      BY <1>n, <2>1, <2>6, <2>7, <3>1
    <3>2. CASE ~(i < k)
      <4>1. i \in k..(Len(q) - 1) /\ i + 1 \in 1..Len(q)
        BY <1>n, <2>1, <2>6, <3>2
      <4> QED
        BY <2>8, <3>2, <4>1
    <3> QED
      BY <3>1, <3>2
  <2>10. Distinct(r)
    <3> SUFFICES ASSUME NEW i \in 1..Len(r), NEW j \in 1..Len(r), r[i] = r[j] PROVE i = j
      BY DEF Distinct
    <3>1. PICK m \in 1..Len(q) : r[i] = q[m] /\ m = IF i < k THEN i ELSE i + 1
      BY <2>9
    <3>2. PICK n \in 1..Len(q) : r[j] = q[n] /\ n = IF j < k THEN j ELSE j + 1
      BY <2>9
    <3>3. m = n
      BY <3>1, <3>2 DEF Distinct
    <3> QED
      BY <1>n, <2>1, <2>6, <3>1, <3>2, <3>3
  <2>11. ASSUME NEW i \in 1..Len(r)
        PROVE  r[i] # c /\ \E j \in 1..Len(q) : r[i] = q[j]
    <3>1. PICK m \in 1..Len(q) : r[i] = q[m] /\ m = IF i < k THEN i ELSE i + 1
      BY <2>9
    <3>2. m # k
      BY <1>n, <2>1, <2>6, <3>1
    <3> QED
      BY <2>1, <3>1, <3>2 DEF Distinct
  <2> QED
    BY <2>10, <2>11 DEF r
<1>2. CASE ~ \E i \in DOMAIN q : q[i] = c
  <2>1. Unlink(q, c) = q
    BY <1>2 DEF Unlink
  <2> QED
    BY <1>n, <1>2, <2>1
<1> QED
  BY <1>1, <1>2

LEMMA AppendElements ==
    ASSUME NEW q \in Seq(Conns), NEW c \in Conns
    PROVE  LET r == Append(q, c) IN
           /\ Len(q) \in Nat /\ Len(r) = Len(q) + 1 /\ r[Len(q) + 1] = c
           /\ \A i \in 1..Len(q) : r[i] = q[i]
OBVIOUS

BeforeQueue == {"new", "load", "cas", "enter", "push"}

(* QueueIsSound by its two parts: a connection in the queue is about to    *)
(* wait or waits, and one that shutdown() is about to cancel has been      *)
(* through the queue.                                                      *)
QueueInv ==
    /\ Distinct(m_wait_queue) /\ Distinct(timers_to_cancel)
    /\ \A i \in 1..Len(m_wait_queue) :
          /\ pc[m_wait_queue[i]] \in {"arm", "wait"}
          /\ timer[m_wait_queue[i]] # "aborted"
    /\ \A j \in 1..Len(timers_to_cancel) : pc[timers_to_cancel[j]] \notin BeforeQueue
    /\ \A i \in 1..Len(m_wait_queue), j \in 1..Len(timers_to_cancel) :
          m_wait_queue[i] # timers_to_cancel[j]

(* A queue that lost elements is still sound, where connections only moved *)
(* on and no wait of a queued connection was aborted.                      *)
LEMMA QueueShrinks ==
    ASSUME QueueInv,
           Distinct(m_wait_queue'), Distinct(timers_to_cancel'),
           \A i \in 1..Len(m_wait_queue') : \E j \in 1..Len(m_wait_queue) :
               /\ m_wait_queue'[i] = m_wait_queue[j]
               /\ pc'[m_wait_queue[j]] \in {"arm", "wait"}
               /\ timer'[m_wait_queue[j]] # "aborted",
           \A i \in 1..Len(timers_to_cancel') : \E j \in 1..Len(timers_to_cancel) :
               /\ timers_to_cancel'[i] = timers_to_cancel[j]
               /\ pc'[timers_to_cancel[j]] \notin BeforeQueue
    PROVE  QueueInv'
<1>1. ASSUME NEW i \in 1..Len(m_wait_queue')
      PROVE  /\ pc'[m_wait_queue'[i]] \in {"arm", "wait"}
             /\ timer'[m_wait_queue'[i]] # "aborted"
  OBVIOUS
<1>2. ASSUME NEW i \in 1..Len(timers_to_cancel')
      PROVE  pc'[timers_to_cancel'[i]] \notin BeforeQueue
  OBVIOUS
<1>3. ASSUME NEW i \in 1..Len(m_wait_queue'), NEW j \in 1..Len(timers_to_cancel')
      PROVE  m_wait_queue'[i] # timers_to_cancel'[j]
  <2>1. PICK k \in 1..Len(m_wait_queue) : m_wait_queue'[i] = m_wait_queue[k]
    OBVIOUS
  <2>2. PICK n \in 1..Len(timers_to_cancel) : timers_to_cancel'[j] = timers_to_cancel[n]
    OBVIOUS
  <2> QED
    BY <2>1, <2>2 DEF QueueInv
<1> QED
  BY <1>1, <1>2, <1>3 DEF QueueInv, BeforeQueue

LEMMA ConnKeepsQueue ==
    ASSUME TypeOK, QueueInv, NEW c \in Conns, ConnStep(c) \/ Expire(c) \/ Release(c)
    PROVE  QueueInv'
<1> DEFINE q == m_wait_queue
           t == timers_to_cancel
<1>t. /\ pc \in [Conns -> Stages] /\ timer \in [Conns -> TimerStates]
      /\ q \in Seq(Conns) /\ t \in Seq(Conns)
  BY DEF TypeOK
<1>e. /\ \A i \in 1..Len(q) : q[i] \in Conns
      /\ \A i \in 1..Len(t) : t[i] \in Conns
  BY <1>t, ElementOfSeq
<1>1. CASE CheckShutdown(c) \/ LoadCount(c) \/ CasSucceeds(c) \/ CasFails(c) \/ CountWaiter(c)
           \/ UncountWaiter(c) \/ GrabSlot(c) \/ IssuePermit(c) \/ Release(c)
  <2>1. /\ UNCHANGED <<m_wait_queue, timers_to_cancel, timer>>
        /\ pc' = [pc EXCEPT ![c] = pc'[c]]
        /\ pc[c] \notin {"arm", "wait"}
        /\ pc'[c] \in BeforeQueue => pc[c] \in BeforeQueue
    BY <1>1, <1>t DEF CheckShutdown, LoadCount, CasSucceeds, CasFails, CountWaiter, UncountWaiter,
       GrabSlot, IssuePermit, Release, Goto, stopVars, BeforeQueue
  <2>2. \A i \in 1..Len(q) : q[i] # c
    BY <2>1 DEF QueueInv
  <2>3. \A i \in 1..Len(t) : pc'[t[i]] \notin BeforeQueue
    BY <1>e, <1>t, <2>1 DEF QueueInv
  <2>4. \A i \in 1..Len(q) : pc'[q[i]] = pc[q[i]]
    BY <1>e, <1>t, <2>1, <2>2
  <2> QED
    BY <2>1, <2>3, <2>4 DEF QueueInv
<1>2. CASE PushTimer(c)
  <2>1. /\ m_wait_queue' = Append(q, c) /\ timers_to_cancel' = t
        /\ pc[c] = "push" /\ pc' = [pc EXCEPT ![c] = "arm"]
        /\ timer' = [timer EXCEPT ![c] = "set"]
    BY <1>2 DEF PushTimer, Goto, stopVars
  <2>2. /\ Len(q) \in Nat /\ Len(m_wait_queue') = Len(q) + 1
        /\ m_wait_queue'[Len(q) + 1] = c
        /\ \A i \in 1..Len(q) : m_wait_queue'[i] = q[i]
    BY <1>t, <2>1, AppendElements
  <2>3. /\ \A i \in 1..Len(q) : q[i] # c
        /\ \A i \in 1..Len(t) : t[i] # c
    BY <2>1 DEF QueueInv, BeforeQueue
  <2>4. /\ \A i \in 1..Len(q) : pc'[q[i]] = pc[q[i]] /\ timer'[q[i]] = timer[q[i]]
        /\ \A i \in 1..Len(t) : pc'[t[i]] = pc[t[i]]
        /\ pc'[c] = "arm" /\ timer'[c] = "set"
    BY <1>e, <1>t, <2>1, <2>3
  <2>5. ASSUME NEW i \in 1..(Len(q) + 1)
        PROVE  \/ i \in 1..Len(q) /\ m_wait_queue'[i] = q[i]
               \/ i = Len(q) + 1 /\ m_wait_queue'[i] = c
    BY <2>2
  <2>6. Distinct(m_wait_queue')
    BY <2>2, <2>3, <2>5 DEF Distinct, QueueInv
  <2>7. \A i \in 1..Len(m_wait_queue') :
           pc'[m_wait_queue'[i]] \in {"arm", "wait"} /\ timer'[m_wait_queue'[i]] # "aborted"
    BY <2>2, <2>4, <2>5 DEF QueueInv
  <2>8. /\ \A i \in 1..Len(t) : pc'[t[i]] \notin BeforeQueue
        /\ \A i \in 1..Len(m_wait_queue'), j \in 1..Len(t) : m_wait_queue'[i] # t[j]
    BY <2>2, <2>3, <2>4, <2>5 DEF QueueInv
  <2> QED
    BY <2>1, <2>6, <2>7, <2>8 DEF QueueInv
<1>3. CASE AsyncWait(c) \/ Expire(c)
  <2>1. /\ UNCHANGED <<m_wait_queue, timers_to_cancel>>
        /\ \A d \in Conns :
              /\ pc'[d] = pc[d] \/ pc'[d] = "wait"
              /\ timer'[d] = timer[d] \/ timer'[d] # "aborted"
    BY <1>3, <1>t DEF AsyncWait, Expire, Goto, stopVars
  <2> QED
    BY <1>e, <2>1 DEF QueueInv, BeforeQueue
<1>4. CASE Resume(c)
  <2>1. /\ m_wait_queue' = Unlink(q, c) /\ timers_to_cancel' = t /\ timer' = timer
        /\ pc' = [pc EXCEPT ![c] = "uncount"]
    BY <1>4 DEF Resume, Goto, stopVars
  <2>2. /\ Distinct(m_wait_queue')
        /\ \A i \in 1..Len(m_wait_queue') :
              m_wait_queue'[i] # c /\ \E j \in 1..Len(q) : m_wait_queue'[i] = q[j]
    BY <1>t, <2>1, UnlinkElements DEF QueueInv
  <2>3. ASSUME NEW i \in 1..Len(m_wait_queue')
        PROVE  \E j \in 1..Len(q) : /\ m_wait_queue'[i] = q[j]
                                    /\ pc'[q[j]] \in {"arm", "wait"}
                                    /\ timer'[q[j]] # "aborted"
    BY <1>e, <1>t, <2>1, <2>2 DEF QueueInv
  <2>4. ASSUME NEW i \in 1..Len(t) PROVE pc'[t[i]] \notin BeforeQueue
    BY <1>e, <1>t, <2>1 DEF QueueInv, BeforeQueue
  <2>5. Distinct(timers_to_cancel')
    BY <2>1 DEF QueueInv
  <2> QED
    BY <2>1, <2>2, <2>3, <2>4, <2>5, QueueShrinks
<1>5. CASE NotifyOne(c)
  <2>1. /\ timers_to_cancel' = t
        /\ pc[c] = "notify" /\ pc' = [pc EXCEPT ![c] = "gone"]
    BY <1>5 DEF NotifyOne, Goto, stopVars
  <2>2. /\ \A i \in 1..Len(q) : pc'[q[i]] = pc[q[i]]
        /\ \A i \in 1..Len(t) : pc'[t[i]] \notin BeforeQueue
        /\ Distinct(t)
    BY <1>e, <1>t, <2>1 DEF QueueInv, BeforeQueue
  <2>3. CASE q = <<>>
    <3>1. UNCHANGED <<m_wait_queue, timer>>
      BY <1>5, <2>3 DEF NotifyOne
    <3> QED
      BY <2>1, <2>2, <3>1 DEF QueueInv
  <2>4. CASE q # <<>>
    <3>1. m_wait_queue' = Tail(q) /\ timer' = Cancelled(Head(q))
      BY <1>5, <2>4 DEF NotifyOne
    <3>2. /\ Distinct(Tail(q))
          /\ \A i \in 1..Len(Tail(q)) :
                Tail(q)[i] # Head(q) /\ \E j \in 1..Len(q) : Tail(q)[i] = q[j]
      BY <1>t, <2>4, TailElements DEF QueueInv
    <3>3. \A d \in Conns : d # Head(q) => timer'[d] = timer[d]
      BY <1>t, <3>1 DEF Cancelled
    <3>4. ASSUME NEW i \in 1..Len(m_wait_queue')
          PROVE  \E j \in 1..Len(q) : /\ m_wait_queue'[i] = q[j]
                                      /\ pc'[q[j]] \in {"arm", "wait"}
                                      /\ timer'[q[j]] # "aborted"
      BY <1>e, <2>2, <3>1, <3>2, <3>3 DEF QueueInv
    <3> QED
      BY <2>1, <2>2, <3>1, <3>2, <3>4, QueueShrinks
  <2> QED
    BY <2>3, <2>4
<1> QED
  BY <1>1, <1>2, <1>3, <1>4, <1>5 DEF ConnStep

LEMMA ShutdownKeepsQueue ==
    ASSUME TypeOK, QueueInv, Shutdown PROVE QueueInv'
<1>t. /\ pc \in [Conns -> Stages] /\ timer \in [Conns -> TimerStates]
      /\ m_wait_queue \in Seq(Conns) /\ timers_to_cancel \in Seq(Conns)
  BY DEF TypeOK
<1>1. CASE SetShutdown \/ ResetWaiting
  BY <1>1 DEF SetShutdown, ResetWaiting, QueueInv
<1>2. CASE DrainQueue
  <2>1. /\ timers_to_cancel' = m_wait_queue /\ m_wait_queue' = <<>>
        /\ pc' = pc /\ timer' = timer
    BY <1>2 DEF DrainQueue
  <2>2. Len(m_wait_queue') = 0
    BY <2>1, EmptySeq
  <2>3. \A i \in 1..Len(m_wait_queue') : FALSE
    BY <2>2
  <2> QED
    BY <2>1, <2>3 DEF QueueInv, Distinct, BeforeQueue
<1>3. CASE CancelDrained
  <2>1. /\ timers_to_cancel # <<>> /\ timers_to_cancel' = Tail(timers_to_cancel)
        /\ m_wait_queue' = m_wait_queue /\ pc' = pc
        /\ timer' = Cancelled(Head(timers_to_cancel))
    BY <1>3 DEF CancelDrained
  <2>2. /\ Distinct(timers_to_cancel')
        /\ \A i \in 1..Len(timers_to_cancel') :
              \E j \in 1..Len(timers_to_cancel) : timers_to_cancel'[i] = timers_to_cancel[j]
    BY <1>t, <2>1, TailElements DEF QueueInv
  <2>3. 1 \in 1..Len(timers_to_cancel) /\ Head(timers_to_cancel) = timers_to_cancel[1]
    BY <1>t, <2>1
  <2>4. \A i \in 1..Len(m_wait_queue) : m_wait_queue[i] # Head(timers_to_cancel)
    BY <2>3 DEF QueueInv
  <2>5. \A d \in Conns : d # Head(timers_to_cancel) => timer'[d] = timer[d]
    BY <1>t, <2>1 DEF Cancelled
  <2>6. \A i \in 1..Len(m_wait_queue) : timer'[m_wait_queue[i]] = timer[m_wait_queue[i]]
    BY <1>t, <2>4, <2>5, ElementOfSeq
  <2> QED
    BY <2>1, <2>2, <2>6, QueueShrinks DEF QueueInv
<1> QED
  BY <1>1, <1>2, <1>3 DEF Shutdown

LEMMA StepKeepsQueue ==
    ASSUME TypeOK, QueueInv, [Next]_vars PROVE QueueInv'
<1>1. CASE UNCHANGED vars
  BY <1>1 DEF vars, stopVars, QueueInv
<1> QED
  BY <1>1, ConnKeepsQueue, ShutdownKeepsQueue DEF Next, Terminated

LEMMA InitQueue == Init => QueueInv
<1> SUFFICES ASSUME Init PROVE QueueInv
  OBVIOUS
<1>1. m_wait_queue = <<>> /\ timers_to_cancel = <<>>
  BY DEF Init
<1>2. \A i \in 1..Len(<<>>) : FALSE
  OBVIOUS
<1> QED
  BY <1>1, <1>2 DEF QueueInv, Distinct

LEMMA QueueInvSound == TypeOK /\ QueueInv => QueueIsSound
<1> SUFFICES ASSUME TypeOK, QueueInv PROVE QueueIsSound
  OBVIOUS
<1> DEFINE q == m_wait_queue
           t == timers_to_cancel
           all == q \o t
<1>1. /\ q \in Seq(Conns) /\ t \in Seq(Conns)
      /\ Len(q) \in Nat /\ Len(t) \in Nat
      /\ DOMAIN q = 1..Len(q)
  BY LenProperties DEF TypeOK
<1>2. /\ DOMAIN all = 1..(Len(q) + Len(t))
      /\ \A i \in 1..(Len(q) + Len(t)) : all[i] = IF i <= Len(q) THEN q[i] ELSE t[i - Len(q)]
  BY <1>1
<1>3. ASSUME NEW i \in DOMAIN all, NEW j \in DOMAIN all, all[i] = all[j] PROVE i = j
  <2>1. CASE i <= Len(q) /\ j <= Len(q)
    <3>1. i \in 1..Len(q) /\ j \in 1..Len(q) /\ q[i] = q[j]
      BY <1>1, <1>2, <1>3, <2>1
    <3> QED
      BY <3>1 DEF QueueInv, Distinct
  <2>2. CASE i <= Len(q) /\ j > Len(q)
    <3>1. i \in 1..Len(q) /\ j - Len(q) \in 1..Len(t) /\ q[i] = t[j - Len(q)]
      BY <1>1, <1>2, <1>3, <2>2
    <3> QED
      BY <3>1 DEF QueueInv
  <2>3. CASE i > Len(q) /\ j <= Len(q)
    <3>1. j \in 1..Len(q) /\ i - Len(q) \in 1..Len(t) /\ q[j] = t[i - Len(q)]
      BY <1>1, <1>2, <1>3, <2>3
    <3> QED
      BY <3>1 DEF QueueInv
  <2>4. CASE i > Len(q) /\ j > Len(q)
    <3>1. /\ i - Len(q) \in 1..Len(t) /\ j - Len(q) \in 1..Len(t)
          /\ t[i - Len(q)] = t[j - Len(q)]
      BY <1>1, <1>2, <1>3, <2>4
    <3>2. i - Len(q) = j - Len(q)
      BY <3>1 DEF QueueInv, Distinct
    <3> QED
      BY <1>1, <1>2, <3>2
  <2>5. i \in Nat /\ j \in Nat
    BY <1>1, <1>2
  <2> QED
    BY <1>1, <2>1, <2>2, <2>3, <2>4, <2>5
<1> QED
  BY <1>1, <1>3 DEF QueueIsSound, QueueInv

(* No release ever spends its wake-up on a connection that was woken       *)
(* before or that went on, and no timer is queued twice.                   *)
THEOREM QueueSound == Spec => []QueueIsSound
<1>1. TypeOK /\ QueueInv /\ [Next]_vars => QueueInv'
  BY StepKeepsQueue
<1> QED
  BY <1>1, InitQueue, QueueInvSound, TypeCorrect, PTL DEF Spec

-----------------------------------------------------------------------------
(* The manager implements PermitPool, step by step. *)

(* The caller's view of all connections: the mapped variable phase. *)
View == [c \in Conns |-> PhaseOf(pc[c])]

(* The pool counts with the same cardinality. *)
LEMMA PoolCardinality ==
    ASSUME NEW S PROVE Pool!Cardinality(S) = Cardinality(S)
BY DEF Cardinality, Pool!Cardinality

(* Stages at which the caller is still asking. *)
LEMMA AskingStages ==
    \A stage \in {"load", "cas", "enter", "push", "arm", "wait", "uncount", "grab"} :
        PhaseOf(stage) = "asking"
BY DEF PhaseOf

(* A step that moves one connection and changes no handed-over grant shows *)
(* the caller exactly that connection's new phase.                         *)
LEMMA ViewMoves ==
    ASSUME TypeOK, NEW c \in Conns, NEW to, pc' = [pc EXCEPT ![c] = to]
    PROVE  View' = [View EXCEPT ![c] = PhaseOf(to)]
BY DEF View, TypeOK

(* Cancelling a timer hands over no grant: only waiting connections have   *)
(* armed timers, and they are still asking.                                *)
LEMMA CancelHandsNothing ==
    ASSUME TypeOK, StageInv, NEW d \in Conns, timer' = Cancelled(d),
           \A c \in Conns : pc'[c] = pc[c] \/ (pc[c] = "notify" /\ pc'[c] = "gone")
    PROVE  HandedOver' = HandedOver
BY DEF TypeOK, StageInv, Cancelled, HandedOver, Woken, PhaseOf

(* The variables of the pool, as the mapping gives them. *)
PoolUnchanged == View' = View /\ HandedOver' = HandedOver /\ m_is_shutdown' = m_is_shutdown

(* The steps inside acquire() and release() that the caller cannot see. *)
LEMMA SilentSteps ==
    ASSUME PaidInv, NEW c \in Conns,
           \/ LoadCount(c) \/ CasFails(c) \/ CountWaiter(c) \/ PushTimer(c)
           \/ AsyncWait(c) \/ Expire(c) \/ Resume(c) \/ IssuePermit(c)
    PROVE  PoolUnchanged
<1>1. TypeOK /\ StageInv
  BY DEF PaidInv, LimitInv, CountInv
<1>2. CASE LoadCount(c)
  BY <1>1, <1>2 DEF LoadCount, Goto, PoolUnchanged, View, HandedOver, Woken, PhaseOf, TypeOK,
     StageInv, stopVars
<1>3. CASE CasFails(c)
  BY <1>1, <1>3 DEF CasFails, Goto, PoolUnchanged, View, HandedOver, Woken, PhaseOf, TypeOK,
     StageInv, stopVars
<1>4. CASE CountWaiter(c)
  BY <1>1, <1>4 DEF CountWaiter, Goto, PoolUnchanged, View, HandedOver, Woken, PhaseOf, TypeOK,
     StageInv, stopVars
<1>5. CASE PushTimer(c)
  BY <1>1, <1>5 DEF PushTimer, Goto, PoolUnchanged, View, HandedOver, Woken, PhaseOf, TypeOK,
     StageInv, stopVars
<1>6. CASE AsyncWait(c)
  BY <1>1, <1>6 DEF AsyncWait, Goto, PoolUnchanged, View, HandedOver, Woken, PhaseOf, TypeOK,
     StageInv, stopVars
<1>7. CASE Expire(c)
  BY <1>1, <1>7 DEF Expire, PoolUnchanged, View, HandedOver, Woken, PhaseOf, TypeOK,
     StageInv, stopVars
<1>8. CASE Resume(c)
  BY <1>1, <1>8 DEF Resume, Goto, PoolUnchanged, View, HandedOver, Woken, PhaseOf, TypeOK,
     StageInv, stopVars
<1>9. CASE IssuePermit(c)
  BY <1>1, <1>9 DEF IssuePermit, Goto, PoolUnchanged, View, HandedOver, Woken, PhaseOf, TypeOK,
     StageInv, stopVars
<1>10. QED
  BY <1>2, <1>3, <1>4, <1>5, <1>6, <1>7, <1>8, <1>9

(* notifyOne() is silent too: the connection has already returned. *)
LEMMA NotifyIsSilent ==
    ASSUME PaidInv, NEW c \in Conns, NotifyOne(c)
    PROVE  PoolUnchanged
<1>1. TypeOK /\ StageInv
  BY DEF PaidInv, LimitInv, CountInv
<1>2. \A d \in Conns : pc'[d] = pc[d] \/ (pc[d] = "notify" /\ pc'[d] = "gone")
  BY <1>1 DEF NotifyOne, Goto, TypeOK
<1>3. View' = View
  BY <1>2 DEF View, PhaseOf
<1>4. HandedOver' = HandedOver
  <2>1. CASE m_wait_queue = <<>>
    BY <1>2, <2>1 DEF NotifyOne, HandedOver, Woken, PhaseOf
  <2>2. CASE m_wait_queue # <<>>
    <3>1. Head(m_wait_queue) \in Conns
      BY <1>1, <2>2, HeadTailProperties DEF TypeOK
    <3>2. QED
      BY <1>1, <1>2, <2>2, <3>1, CancelHandsNothing DEF NotifyOne
  <2>3. QED
    BY <2>1, <2>2
<1>5. QED
  BY <1>3, <1>4 DEF NotifyOne, PoolUnchanged, stopVars

(* The steps of shutdown() after the flag are silent. *)
LEMMA ShutdownIsSilent ==
    ASSUME PaidInv, DrainQueue \/ CancelDrained \/ ResetWaiting
    PROVE  PoolUnchanged
<1>1. TypeOK /\ StageInv
  BY DEF PaidInv, LimitInv, CountInv
<1>2. CASE DrainQueue \/ ResetWaiting
  BY <1>2 DEF DrainQueue, ResetWaiting, PoolUnchanged, View, HandedOver, Woken
<1>3. CASE CancelDrained
  <2>1. Head(timers_to_cancel) \in Conns
    BY <1>1, <1>3, HeadTailProperties DEF CancelDrained, TypeOK
  <2>2. HandedOver' = HandedOver
    BY <1>1, <1>3, <2>1, CancelHandsNothing DEF CancelDrained
  <2>3. QED
    BY <1>3, <2>2 DEF CancelDrained, PoolUnchanged, View
<1>4. QED
  BY <1>2, <1>3

(* A successful exchange is a grant of a free slot. *)
LEMMA ExchangeGrants ==
    ASSUME PaidInv, NEW c \in Conns, CasSucceeds(c)
    PROVE  Pool!GrantFree(c)
<1>1. TypeOK /\ StageInv /\ CountIsHolders
  BY DEF PaidInv, LimitInv, CountInv
<1>2. Pool!In("holding") = Holders
  BY <1>1 DEF Pool!In, Holders, At, PhaseOf, TypeOK, Stages
<1>3. Cardinality(Pool!In("holding")) < MaxConcurrent
  BY <1>1, <1>2, LimitsAssumption DEF CasSucceeds, Goto, StageInv, CountIsHolders, TypeOK
<1>4. View' = [View EXCEPT ![c] = "holding"] /\ View[c] = "asking"
  BY <1>1, ViewMoves DEF CasSucceeds, Goto, PhaseOf, View
<1>5. HandedOver' = HandedOver /\ m_is_shutdown' = m_is_shutdown
  BY <1>1 DEF CasSucceeds, Goto, HandedOver, Woken, PhaseOf, TypeOK, StageInv, stopVars
<1>6. QED
  BY <1>3, <1>4, <1>5, PoolCardinality DEF Pool!GrantFree, Pool!Enter, View

(* A woken waiter's increment is a grant handed over: of all the waiters   *)
(* woken it is one that has no grant yet, so a return is still unspent.    *)
LEMMA GrabHandsOver ==
    ASSUME PaidInv, NEW c \in Conns, GrabSlot(c)
    PROVE  Pool!HandOver(c)
<1>1. TypeOK /\ StageInv /\ WakesArePaid
  BY DEF PaidInv, LimitInv, CountInv
<1>2. c \in Woken \ HandedOver /\ HandedOver \subseteq Woken
  BY <1>1 DEF GrabSlot, Goto, StageInv, Woken, HandedOver, PhaseOf
<1>3. m_is_shutdown \/ Cardinality(HandedOver) < Cardinality(Pool!In("returned"))
  <2>1. IsFiniteSet(Woken) /\ IsFiniteSet(Pool!In("returned"))
    BY ConnSubset DEF Woken, Pool!In
  <2>2. /\ Cardinality(HandedOver) <= Cardinality(Woken)
        /\ Cardinality(HandedOver) # Cardinality(Woken)
        /\ Cardinality(HandedOver) \in Nat /\ Cardinality(Woken) \in Nat
    BY <1>2, <2>1, FS_Subset, FS_CardinalityType
  <2>3. Returned \subseteq Pool!In("returned")
    BY <1>1 DEF Returned, At, Pool!In, PhaseOf
  <2>4. /\ Cardinality(Returned) <= Cardinality(Pool!In("returned"))
        /\ Cardinality(Returned) \in Nat /\ Cardinality(Pool!In("returned")) \in Nat
    BY <2>1, <2>3, FS_Subset, FS_CardinalityType
  <2>5. QED
    BY <1>1, <2>2, <2>4 DEF WakesArePaid
<1>4. View' = [View EXCEPT ![c] = "holding"] /\ View[c] = "asking"
  BY <1>1, ViewMoves DEF GrabSlot, Goto, PhaseOf, View
<1>5. HandedOver' = HandedOver \cup {c} /\ m_is_shutdown' = m_is_shutdown
  BY <1>1, <1>2 DEF GrabSlot, Goto, HandedOver, Woken, PhaseOf, TypeOK, stopVars
<1>6. QED
  BY <1>3, <1>4, <1>5, PoolCardinality DEF Pool!HandOver, Pool!Enter, View

(* Entering, timing out and returning are steps of the pool. *)
LEMMA CheckIsAskOrRefuse ==
    ASSUME PaidInv, NEW c \in Conns, CheckShutdown(c)
    PROVE  Pool!Ask(c) \/ Pool!Refuse(c)
<1>1. TypeOK
  BY DEF PaidInv, LimitInv, CountInv
<1>2. HandedOver' = HandedOver /\ m_is_shutdown' = m_is_shutdown
  BY <1>1 DEF CheckShutdown, Goto, HandedOver, Woken, PhaseOf, TypeOK, stopVars
<1>3. View[c] = "outside"
  BY DEF CheckShutdown, Goto, View, PhaseOf
<1>4. CASE m_is_shutdown
  <2>1. View' = [View EXCEPT ![c] = "refused"]
    BY <1>1, <1>4, ViewMoves DEF CheckShutdown, Goto, PhaseOf
  <2>2. QED
    BY <1>2, <1>3, <1>4, <2>1 DEF Pool!Refuse, Pool!Enter, View
<1>5. CASE ~m_is_shutdown
  <2>1. View' = [View EXCEPT ![c] = "asking"]
    <3>1. pc' = [pc EXCEPT ![c] = "load"]
      BY <1>5 DEF CheckShutdown, Goto
    <3>2. PhaseOf("load") = "asking"
      BY AskingStages
    <3>3. View' = [View EXCEPT ![c] = PhaseOf("load")]
      BY <1>1, <3>1, ViewMoves
    <3>4. QED
      BY <3>2, <3>3
  <2>2. QED
    BY <1>2, <1>3, <1>5, <2>1 DEF Pool!Ask, Pool!Enter, View
<1>6. QED
  BY <1>4, <1>5

(* A waiter that leaves the queue has been woken, or is refused. *)
LEMMA TimeoutIsRefuse ==
    ASSUME PaidInv, NEW c \in Conns, UncountWaiter(c)
    PROVE  Pool!Refuse(c) \/ PoolUnchanged
<1>1. TypeOK /\ StageInv
  BY DEF PaidInv, LimitInv, CountInv
<1>2. HandedOver' = HandedOver /\ m_is_shutdown' = m_is_shutdown
  BY <1>1 DEF UncountWaiter, Goto, HandedOver, Woken, PhaseOf, TypeOK, StageInv, stopVars
<1>3. View[c] = "asking"
  BY DEF UncountWaiter, Goto, View, PhaseOf
<1>4. CASE timer[c] = "aborted"
  <2>1. View' = [View EXCEPT ![c] = "asking"]
    <3>1. pc' = [pc EXCEPT ![c] = "grab"]
      BY <1>4 DEF UncountWaiter, Goto
    <3>2. PhaseOf("grab") = "asking"
      BY AskingStages
    <3>3. View' = [View EXCEPT ![c] = PhaseOf("grab")]
      BY <1>1, <3>1, ViewMoves
    <3>4. QED
      BY <3>2, <3>3
  <2>2. QED
    BY <1>2, <1>3, <2>1 DEF PoolUnchanged, View
<1>5. CASE timer[c] # "aborted"
  <2>1. View' = [View EXCEPT ![c] = "refused"]
    BY <1>1, <1>5, ViewMoves DEF UncountWaiter, Goto, PhaseOf
  <2>2. QED
    BY <1>2, <1>3, <2>1 DEF Pool!Refuse, Pool!Enter, View
<1>6. QED
  BY <1>4, <1>5

(* The decrement is the return of the permit. *)
LEMMA ReleaseIsReturn ==
    ASSUME PaidInv, NEW c \in Conns, Release(c)
    PROVE  Pool!Return(c)
<1>1. TypeOK
  BY DEF PaidInv, LimitInv, CountInv
<1>2. HandedOver' = HandedOver /\ m_is_shutdown' = m_is_shutdown
  BY <1>1 DEF Release, Goto, HandedOver, Woken, PhaseOf, TypeOK, stopVars
<1>3. View' = [View EXCEPT ![c] = "returned"] /\ View[c] = "holding"
  BY <1>1, ViewMoves DEF Release, Goto, PhaseOf, View
<1>4. QED
  BY <1>2, <1>3 DEF Pool!Return, Pool!Enter, View

(* The manager implements the pool: every grant found a free slot, follows *)
(* a returned permit of its own, or follows shutdown().                    *)
THEOREM Implementation == Spec => ImplementsPermitPool
<1>1. Init => Pool!Init
  <2> SUFFICES ASSUME Init PROVE Pool!Init
    OBVIOUS
  <2>1. /\ pc = [c \in Conns |-> "new"] /\ timer = [c \in Conns |-> "none"]
        /\ m_is_shutdown = FALSE
    BY Zenon DEF Init
  <2>2. HandedOver = {}
    BY <2>1 DEF HandedOver, Woken
  <2>3. View = [c \in Conns |-> "outside"]
    BY <2>1 DEF View, PhaseOf
  <2>4. QED
    BY <2>1, <2>2, <2>3, Zenon DEF Pool!Init, View
<1>2. PaidInv /\ [Next]_vars => [Pool!Next]_(Pool!poolVars)
  <2> SUFFICES ASSUME PaidInv, [Next]_vars PROVE [Pool!Next]_(Pool!poolVars)
    OBVIOUS
  <2>1. PoolUnchanged => UNCHANGED Pool!poolVars
    BY DEF PoolUnchanged, Pool!poolVars, View
  <2>2. ASSUME NEW c \in Conns, ConnStep(c) \/ Expire(c) \/ Release(c)
        PROVE  [Pool!Next]_(Pool!poolVars)
    BY <2>1, <2>2, SilentSteps, NotifyIsSilent, ExchangeGrants, GrabHandsOver,
       CheckIsAskOrRefuse, TimeoutIsRefuse, ReleaseIsReturn DEF ConnStep, Pool!Next
  <2>3. CASE SetShutdown
    <3>1. View' = View /\ HandedOver' = HandedOver /\ m_is_shutdown' = TRUE
      BY <2>3 DEF SetShutdown, View, HandedOver, Woken
    <3>2. QED
      BY <3>1 DEF Pool!Next, Pool!Close, View
  <2>4. CASE DrainQueue \/ CancelDrained \/ ResetWaiting
    BY <2>1, <2>4, ShutdownIsSilent
  <2>5. CASE UNCHANGED vars
    <3>1. PoolUnchanged
      BY <2>5 DEF vars, stopVars, PoolUnchanged, View, HandedOver, Woken
    <3>2. QED
      BY <2>1, <3>1
  <2>6. QED
    BY <2>2, <2>3, <2>4, <2>5 DEF Next, Shutdown, Terminated
<1>3. Init => PaidInv
  BY InitPaid
<1>4. PaidInv /\ [Next]_vars => PaidInv'
  BY StepKeepsPaid
<1>5. QED
  BY <1>1, <1>2, <1>3, <1>4, PTL DEF Spec, ImplementsPermitPool, Pool!Spec
=============================================================================
