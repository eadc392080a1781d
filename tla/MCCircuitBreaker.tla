-------------------------- MODULE MCCircuitBreaker --------------------------
(* CircuitBreaker with a few concurrent requests. *)
EXTENDS CircuitBreaker, TLC

CONSTANTS c1, c2, c3, c4
Perms == Permutations(Callers)
=============================================================================
