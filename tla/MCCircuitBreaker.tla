-------------------------- MODULE MCCircuitBreaker --------------------------
(* TLC instance of CircuitBreaker. *)
EXTENDS CircuitBreaker, TLC

CONSTANTS r1, r2, r3

ThreeReqs == {r1, r2, r3}

Symm3 == Permutations(ThreeReqs)

=============================================================================
