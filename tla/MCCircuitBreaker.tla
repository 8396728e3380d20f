-------------------------- MODULE MCCircuitBreaker --------------------------
(* Model-checking instance of CircuitBreaker. *)
EXTENDS CircuitBreaker, TLC

(* The callers are interchangeable: no property tells them apart. *)
Symmetry == Permutations(Callers)
=============================================================================
