-------------------------- MODULE MCCircuitBreaker --------------------------
(***************************************************************************)
(* CircuitBreaker for TLC: the callers are interchangeable.                *)
(***************************************************************************)
EXTENDS CircuitBreaker, TLC

Symmetry == Permutations(Callers)
=============================================================================
