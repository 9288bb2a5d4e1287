-------------------------- MODULE MCCircuitBreaker --------------------------
(* Instances of CircuitBreaker: the goroutines as interchangeable model values. *)
EXTENDS CircuitBreaker, TLC

CallerSymmetry == Permutations(Callers)
=============================================================================
