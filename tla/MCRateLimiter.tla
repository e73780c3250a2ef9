--------------------------- MODULE MCRateLimiter ---------------------------
(* Configurations for checking RateLimiter with TLC. *)
EXTENDS RateLimiter, TLC

CONSTANTS w1, w2, a, b

TwoWorkers == {w1, w2}
TwoClients == {a, b}

Slow == [enabled |-> TRUE, rps |-> 1, burst |-> 1, ips |-> {a}]
Fast == [enabled |-> TRUE, rps |-> 2, burst |-> 2, ips |-> {}]
Blocked == [enabled |-> TRUE, rps |-> 0, burst |-> 1, ips |-> {}]
Off == [enabled |-> FALSE, rps |-> 1, burst |-> 2, ips |-> {}]

SomeConfigs == {Slow, Fast, Blocked, Off}
Anything == {0, 7}
Symmetry == Permutations(TwoWorkers)
=============================================================================
