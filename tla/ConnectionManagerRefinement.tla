--------------------- MODULE ConnectionManagerRefinement ---------------------
(* ConnectionManager implements PermitPool: the mapping of its state. *)
EXTENDS ConnectionManager

(* The caller's view of a connection.  A connection counts as holding from *)
(* the increment of m_current_count to its decrement.                      *)
PhaseOf(stage) ==
    CASE stage = "new" -> "outside"
      [] stage \in {"issue", "held", "stranded"} -> "holding"
      [] stage \in {"notify", "gone"} -> "returned"
      [] stage = "denied" -> "refused"
      [] OTHER -> "asking"

(* The grants that followed a wake-up. *)
HandedOver ==
    {c \in Woken : PhaseOf(pc[c]) \in {"holding", "returned"}}

Pool == INSTANCE PermitPool
            WITH phase <- [c \in Conns |-> PhaseOf(pc[c])],
                 handed <- HandedOver,
                 closed <- m_is_shutdown

(* Every behaviour of the manager is one of the pool: no interleaving of   *)
(* fast path, releases, timeouts and shutdown() grants a permit that       *)
(* neither found a free slot nor follows a release or the shutdown.        *)
ImplementsPermitPool == Pool!Spec
=============================================================================
