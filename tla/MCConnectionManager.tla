------------------------ MODULE MCConnectionManager ------------------------
(* Model values for checking ConnectionManager with TLC. *)
EXTENDS ConnectionManagerRefinement, TLC

CONSTANTS c1, c2, c3

ThreeConns == {c1, c2, c3}
Symmetry == Permutations(ThreeConns)
=============================================================================
