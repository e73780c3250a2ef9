----------------------------- MODULE PermitPool -----------------------------
(***************************************************************************)
(* What ConnectionManager promises its callers, without queue, timers or   *)
(* counters: a connection asks for a permit and is granted or refused one. *)
(* A grant either finds the pool below its limit, or is handed over: each  *)
(* returned permit allows one grant that looks at no limit, and so does a  *)
(* closed pool.                                                            *)
(***************************************************************************)
EXTENDS Integers, FiniteSets

CONSTANTS Conns,         \* a finite set of connections
          MaxConcurrent  \* the limit of the pool

VARIABLES phase,   \* what each connection knows of its permit
          handed,  \* connections whose grant was handed over
          closed   \* shutdown() has been called

poolVars == <<phase, handed, closed>>

Phases == {"outside", "asking", "holding", "refused", "returned"}

In(p) == {c \in Conns : phase[c] = p}

Init ==
    /\ phase = [c \in Conns |-> "outside"]
    /\ handed = {}
    /\ closed = FALSE

Enter(c, from, to) == phase[c] = from /\ phase' = [phase EXCEPT ![c] = to]

Ask(c) ==
    /\ ~closed
    /\ Enter(c, "outside", "asking")
    /\ UNCHANGED <<handed, closed>>

GrantFree(c) ==
    /\ Cardinality(In("holding")) < MaxConcurrent
    /\ Enter(c, "asking", "holding")
    /\ UNCHANGED <<handed, closed>>

HandOver(c) ==
    /\ closed \/ Cardinality(handed) < Cardinality(In("returned"))
    /\ Enter(c, "asking", "holding")
    /\ handed' = handed \cup {c}
    /\ UNCHANGED closed

Refuse(c) ==
    /\ \/ Enter(c, "asking", "refused")
       \/ closed /\ Enter(c, "outside", "refused")
    /\ UNCHANGED <<handed, closed>>

Return(c) ==
    /\ Enter(c, "holding", "returned")
    /\ UNCHANGED <<handed, closed>>

Close ==
    /\ closed' = TRUE
    /\ UNCHANGED <<phase, handed>>

Next ==
    \/ \E c \in Conns :
           Ask(c) \/ GrantFree(c) \/ HandOver(c) \/ Refuse(c) \/ Return(c)
    \/ Close

Spec == Init /\ [][Next]_poolVars
=============================================================================
