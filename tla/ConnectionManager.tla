------------------------- MODULE ConnectionManager -------------------------
(***************************************************************************)
(* The permit counter and FIFO wait queue of httpd/ConnectionManager.h.    *)
(*                                                                         *)
(* Every accepted connection runs one coroutine that calls acquire() once, *)
(* and its destructor calls release() once if the permit is valid; the     *)
(* coroutines run on several threads of one io_context, so the atomic      *)
(* operations, the sections under m_wait_mutex and the timer operations of *)
(* different connections interleave.  One action is one such indivisible   *)
(* operation.  A queued steady_timer is identified with the connection     *)
(* that created it.                                                        *)
(***************************************************************************)
EXTENDS Integers, Sequences, FiniteSets

CONSTANTS Conns,          \* the connections the acceptor ever hands over
          MaxConcurrent,  \* m_max_concurrent
          IntMax          \* largest value of the int that holds permit ids

ASSUME ConnsAssumption == IsFiniteSet(Conns)
ASSUME LimitsAssumption ==
    /\ MaxConcurrent \in Nat
    /\ IntMax \in Nat

VARIABLES
    m_current_count,   \* permits the manager believes are in use
    m_waiting_count,   \* waiters the manager believes it has
    m_next_permit_id,  \* id the next permit gets, a wrapping int
    m_is_shutdown,     \* set by shutdown(), read once by acquire()
    m_wait_queue,      \* timers of the waiters, oldest first
    pc,                \* where each connection is
    expected,          \* acquire()'s local copy of m_current_count
    timer,             \* state of the connection's steady_timer
    stopper,           \* progress of the one call of shutdown()
    timers_to_cancel   \* shutdown()'s local vector

counters == <<m_current_count, m_waiting_count, m_next_permit_id>>
stopVars == <<m_is_shutdown, stopper, timers_to_cancel>>
vars == <<counters, stopVars, m_wait_queue, pc, expected, timer>>

(* Positions of a connection; the last three are final. *)
Stages == {"new", "load", "cas", "enter", "push", "arm", "wait", "uncount",
           "grab", "issue", "held", "notify", "gone", "denied", "stranded"}
Ended == {"gone", "denied", "stranded"}
TimerStates == {"none", "set", "armed", "expired", "aborted"}

(* The int ids wrap around to the most negative value. *)
NextId(id) == IF id = IntMax THEN -IntMax - 1 ELSE id + 1

(* A queue without c's timer; a timer is pushed once. *)
Unlink(q, c) ==
    IF \E i \in DOMAIN q : q[i] = c
    THEN LET i == CHOOSE j \in DOMAIN q : q[j] = c
         IN  SubSeq(q, 1, i - 1) \o SubSeq(q, i + 1, Len(q))
    ELSE q

(* cancel() aborts a wait in progress and does nothing to a timer nobody   *)
(* waits on yet, or whose wait has already completed.                      *)
Cancelled(c) ==
    [timer EXCEPT ![c] = IF @ = "armed" THEN "aborted" ELSE @]

Goto(c, from, to) == pc[c] = from /\ pc' = [pc EXCEPT ![c] = to]

Init ==
    /\ m_current_count = 0
    /\ m_waiting_count = 0
    /\ m_next_permit_id = 0
    /\ m_is_shutdown = FALSE
    /\ m_wait_queue = <<>>
    /\ pc = [c \in Conns |-> "new"]
    /\ expected = [c \in Conns |-> 0]
    /\ timer = [c \in Conns |-> "none"]
    /\ stopper = "idle"
    /\ timers_to_cancel = <<>>

-----------------------------------------------------------------------------
(* acquire() *)

(* The shutdown flag is tested once, at entry. *)
CheckShutdown(c) ==
    /\ Goto(c, "new", IF m_is_shutdown THEN "denied" ELSE "load")
    /\ UNCHANGED <<counters, stopVars, m_wait_queue, expected, timer>>

(* Fast path: read the count ... *)
LoadCount(c) ==
    /\ Goto(c, "load", IF m_current_count < MaxConcurrent THEN "cas" ELSE "enter")
    /\ expected' = [expected EXCEPT ![c] = m_current_count]
    /\ UNCHANGED <<counters, stopVars, m_wait_queue, timer>>

(* Fault: a plain store of the incremented local copy. *)
CasSucceeds_PlainStore(c) ==
    /\ Goto(c, "cas", "issue")
    /\ m_current_count' = expected[c] + 1
    /\ UNCHANGED <<m_waiting_count, m_next_permit_id, stopVars, m_wait_queue,
                   expected, timer>>

(* ... and swap it in; a failed exchange reloads the local copy and tests  *)
(* it against the limit again.  A spurious failure of the weak exchange    *)
(* changes nothing and is a stuttering step.                               *)
CasSucceeds(c) ==
    /\ m_current_count = expected[c]
    /\ Goto(c, "cas", "issue")
    /\ m_current_count' = m_current_count + 1
    /\ UNCHANGED <<m_waiting_count, m_next_permit_id, stopVars, m_wait_queue,
                   expected, timer>>

(* Fault: the reloaded copy is not tested against the limit again. *)
CasFails_NoRetest(c) ==
    /\ m_current_count # expected[c]
    /\ Goto(c, "cas", "cas")
    /\ expected' = [expected EXCEPT ![c] = m_current_count]
    /\ UNCHANGED <<counters, stopVars, m_wait_queue, timer>>

CasFails(c) ==
    /\ m_current_count # expected[c]
    /\ Goto(c, "cas", IF m_current_count < MaxConcurrent THEN "cas" ELSE "enter")
    /\ expected' = [expected EXCEPT ![c] = m_current_count]
    /\ UNCHANGED <<counters, stopVars, m_wait_queue, timer>>

(* Slow path: announce the waiter, ... *)
CountWaiter(c) ==
    /\ Goto(c, "enter", "push")
    /\ m_waiting_count' = m_waiting_count + 1
    /\ UNCHANGED <<m_current_count, m_next_permit_id, stopVars, m_wait_queue,
                   expected, timer>>

(* ... create its timer and push it under the mutex, ... *)
PushTimer(c) ==
    /\ Goto(c, "push", "arm")
    /\ timer' = [timer EXCEPT ![c] = "set"]
    /\ m_wait_queue' = Append(m_wait_queue, c)
    /\ UNCHANGED <<counters, stopVars, expected>>

(* ... and only then start to wait on it. *)
AsyncWait(c) ==
    /\ Goto(c, "arm", "wait")
    /\ timer' = [timer EXCEPT ![c] = "armed"]
    /\ UNCHANGED <<counters, stopVars, m_wait_queue, expected>>

(* The deadline passes: the wait completes without an error. *)
Expire(c) ==
    /\ timer[c] = "armed"
    /\ timer' = [timer EXCEPT ![c] = "expired"]
    /\ UNCHANGED <<counters, stopVars, m_wait_queue, pc, expected>>

(* Fault: a timed-out waiter leaves its timer in the queue. *)
Resume_KeepsTimer(c) ==
    /\ timer[c] \in {"expired", "aborted"}
    /\ Goto(c, "wait", "uncount")
    /\ UNCHANGED <<counters, stopVars, m_wait_queue, expected, timer>>

(* Fault: only a wake-up resumes the coroutine, the deadline does not. *)
Resume_OnlyWoken(c) ==
    /\ timer[c] = "aborted"
    /\ Goto(c, "wait", "uncount")
    /\ m_wait_queue' = Unlink(m_wait_queue, c)
    /\ UNCHANGED <<counters, stopVars, expected, timer>>

(* The coroutine resumes and takes its timer out of the queue. *)
Resume(c) ==
    /\ timer[c] \in {"expired", "aborted"}
    /\ Goto(c, "wait", "uncount")
    /\ m_wait_queue' = Unlink(m_wait_queue, c)
    /\ UNCHANGED <<counters, stopVars, expected, timer>>

(* Fault: a timed-out waiter is not uncounted. *)
UncountWaiter_OnlyWoken(c) ==
    /\ Goto(c, "uncount", IF timer[c] = "aborted" THEN "grab" ELSE "denied")
    /\ m_waiting_count' = IF timer[c] = "aborted" THEN m_waiting_count - 1
                                                  ELSE m_waiting_count
    /\ UNCHANGED <<m_current_count, m_next_permit_id, stopVars, m_wait_queue,
                   expected, timer>>

(* An aborted wait is taken for a wake-up, an expired one for a timeout. *)
UncountWaiter(c) ==
    /\ Goto(c, "uncount", IF timer[c] = "aborted" THEN "grab" ELSE "denied")
    /\ m_waiting_count' = m_waiting_count - 1
    /\ UNCHANGED <<m_current_count, m_next_permit_id, stopVars, m_wait_queue,
                   expected, timer>>

(* Fault: the woken waiter takes the slot without counting it. *)
GrabSlot_Uncounted(c) ==
    /\ Goto(c, "grab", "issue")
    /\ UNCHANGED <<counters, stopVars, m_wait_queue, expected, timer>>

(* The woken waiter's exchange loop tests no limit: it ends in an increment. *)
GrabSlot(c) ==
    /\ Goto(c, "grab", "issue")
    /\ m_current_count' = m_current_count + 1
    /\ UNCHANGED <<m_waiting_count, m_next_permit_id, stopVars, m_wait_queue,
                   expected, timer>>

(* A permit with a negative id is invalid: its connection gives up, and    *)
(* its destructor does not release it.                                     *)
IssuePermit(c) ==
    /\ Goto(c, "issue", IF m_next_permit_id >= 0 THEN "held" ELSE "stranded")
    /\ m_next_permit_id' = NextId(m_next_permit_id)
    /\ UNCHANGED <<m_current_count, m_waiting_count, stopVars, m_wait_queue,
                   expected, timer>>

-----------------------------------------------------------------------------
(* release(), from the connection's destructor *)

Release(c) ==
    /\ Goto(c, "held", "notify")
    /\ m_current_count' = m_current_count - 1
    /\ UNCHANGED <<m_waiting_count, m_next_permit_id, stopVars, m_wait_queue,
                   expected, timer>>

(* Fault: a release wakes every waiter. *)
NotifyOne_WakesAll(c) ==
    /\ Goto(c, "notify", "gone")
    /\ m_wait_queue' = <<>>
    /\ timer' = [d \in Conns |->
                    IF timer[d] = "armed" /\ \E i \in DOMAIN m_wait_queue : m_wait_queue[i] = d
                    THEN "aborted" ELSE timer[d]]
    /\ UNCHANGED <<counters, stopVars, expected>>

NotifyOne(c) ==
    /\ Goto(c, "notify", "gone")
    /\ IF m_wait_queue = <<>>
       THEN UNCHANGED <<m_wait_queue, timer>>
       ELSE /\ m_wait_queue' = Tail(m_wait_queue)
            /\ timer' = Cancelled(Head(m_wait_queue))
    /\ UNCHANGED <<counters, stopVars, expected>>

-----------------------------------------------------------------------------
(* shutdown(), called by HttpServer::stop() *)

SetShutdown ==
    /\ stopper = "idle"
    /\ stopper' = "drain"
    /\ m_is_shutdown' = TRUE
    /\ UNCHANGED <<counters, m_wait_queue, timers_to_cancel, pc, expected, timer>>

DrainQueue ==
    /\ stopper = "drain"
    /\ stopper' = "cancel"
    /\ timers_to_cancel' = m_wait_queue
    /\ m_wait_queue' = <<>>
    /\ UNCHANGED <<counters, m_is_shutdown, pc, expected, timer>>

CancelDrained ==
    /\ stopper = "cancel"
    /\ timers_to_cancel # <<>>
    /\ timers_to_cancel' = Tail(timers_to_cancel)
    /\ timer' = Cancelled(Head(timers_to_cancel))
    /\ UNCHANGED <<counters, m_is_shutdown, stopper, m_wait_queue, pc, expected>>

ResetWaiting ==
    /\ stopper = "cancel"
    /\ timers_to_cancel = <<>>
    /\ stopper' = "down"
    /\ m_waiting_count' = 0
    /\ UNCHANGED <<m_current_count, m_next_permit_id, m_is_shutdown,
                   timers_to_cancel, m_wait_queue, pc, expected, timer>>

-----------------------------------------------------------------------------
(* Everything a connection does without waiting for anything outside. *)
ConnStep(c) ==
    \/ CheckShutdown(c)
    \/ LoadCount(c)
    \/ CasSucceeds(c)
    \/ CasFails(c)
    \/ CountWaiter(c)
    \/ PushTimer(c)
    \/ AsyncWait(c)
    \/ Resume(c)
    \/ UncountWaiter(c)
    \/ GrabSlot(c)
    \/ IssuePermit(c)
    \/ NotifyOne(c)

Shutdown == SetShutdown \/ DrainQueue \/ CancelDrained \/ ResetWaiting

(* Nothing is left to do; not a step of the program. *)
Terminated ==
    /\ \A c \in Conns : pc[c] \in Ended
    /\ stopper = "down"
    /\ UNCHANGED vars

Next ==
    \/ \E c \in Conns : ConnStep(c) \/ Expire(c) \/ Release(c)
    \/ Shutdown
    \/ Terminated

Spec == Init /\ [][Next]_vars

(* The executor runs ready coroutines and expires timers as long as the    *)
(* io_context runs: HttpServer::stop() first shuts the manager down and    *)
(* then stops the io_context, and from then on any step may be the last.   *)
(* Nothing is promised about when a connection ends or a stop comes.       *)
Running == stopper # "down"
Fairness ==
    \A c \in Conns :
        /\ WF_vars(Running /\ ConnStep(c))
        /\ WF_vars(Running /\ Expire(c))

FairSpec == Spec /\ Fairness

-----------------------------------------------------------------------------
(* Properties *)

(* The connections that have reached one of the given stages. *)
At(stages) == {c \in Conns : pc[c] \in stages}

Holders  == At({"issue", "held", "stranded"})       \* counted in, not out
Waiters  == At({"push", "arm", "wait", "uncount"})  \* announced waiters
Returned == At({"gone"})                            \* released and notified
Woken    == {c \in Conns : timer[c] = "aborted"}

(* Holders that came through the fast path never created a timer. *)
FastHolders == {c \in Holders : timer[c] = "none"}

(* The variables keep their types; the count of permits in use never goes *)
(* below zero.                                                             *)
TypeOK ==
    /\ m_current_count \in Nat
    /\ m_waiting_count \in Int
    /\ m_next_permit_id \in (-IntMax - 1)..IntMax
    /\ m_is_shutdown \in BOOLEAN
    /\ m_wait_queue \in Seq(Conns)
    /\ pc \in [Conns -> Stages]
    /\ expected \in [Conns -> Int]
    /\ timer \in [Conns -> TimerStates]
    /\ stopper \in {"idle", "drain", "cancel", "down"}
    /\ timers_to_cancel \in Seq(Conns)

(* m_current_count is at every moment the number of connections that were  *)
(* counted in and have not been counted out, whatever the races between    *)
(* the fast path, woken waiters, releases and shutdown().                  *)
CountIsHolders == m_current_count = Cardinality(Holders)

(* Until shutdown() overwrites it, getWaitingCount() is the number of      *)
(* connections between the two updates of the slow path.                   *)
WaitingIsWaiters ==
    stopper # "down" => m_waiting_count = Cardinality(Waiters)

(* The fast path alone never exceeds the limit, even when its load and its *)
(* exchange are separated by steps of other connections.                   *)
FastPathWithinLimit == Cardinality(FastHolders) <= MaxConcurrent

(* Before a shutdown every wake-up has been paid for by a connection that  *)
(* returned its permit: a release never wakes two waiters.                 *)
WakesArePaid == ~m_is_shutdown => Cardinality(Woken) <= Cardinality(Returned)

(* The limit can be overrun by at most one slot for each returned permit.  *)
OverrunIsBounded ==
    ~m_is_shutdown =>
        m_current_count <= MaxConcurrent + Cardinality(Returned)

(* A timer is in the wait queue or in shutdown()'s vector at most once and *)
(* never in both, and a queued timer belongs to a connection that has not  *)
(* been woken and has not resumed: no release spends its wake-up on a      *)
(* connection that another release woke, or that already went on.          *)
QueueIsSound ==
    LET all == m_wait_queue \o timers_to_cancel
    IN  /\ \A i, j \in DOMAIN all : all[i] = all[j] => i = j
        /\ \A i \in DOMAIN m_wait_queue :
               /\ pc[m_wait_queue[i]] \in {"arm", "wait"}
               /\ timer[m_wait_queue[i]] # "aborted"

(* While the io_context runs, a call of acquire() ends, with or without a  *)
(* permit, although wake-ups can be lost and no connection is obliged ever *)
(* to release.  It holds because every wait has a deadline in the code,    *)
(* also with wait_timeout_ms 0: expires_after(0) is due at once.  That is  *)
(* not the infinite wait line 141 and HttpServer.h:638 document for 0, in  *)
(* which a waiter whose wake-up is lost would stay behind.                 *)
AcquireReturns ==
    \A c \in Conns :
        pc[c] = "load" ~> pc[c] \in {"held"} \cup Ended \/ ~Running

-----------------------------------------------------------------------------
(* Statements of the source's comments that the code does not keep *)

(* Line 116: at most max_concurrent connections are processed at a time. *)
WithinLimit == m_current_count <= MaxConcurrent
=============================================================================
