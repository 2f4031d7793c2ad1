-------------------------- MODULE MCCircuitBreaker --------------------------
(* Instances of CircuitBreaker for TLC; one .cfg per run. *)
EXTENDS CircuitBreaker, TLC

CONSTANTS t1, t2

Symmetry == Permutations(Threads)

=============================================================================
