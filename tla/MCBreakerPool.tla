---------------------------- MODULE MCBreakerPool ----------------------------
(* BreakerPool on small instances.  Workers and targets are interchangeable. *)
EXTENDS BreakerPool, TLC

Symmetry == Permutations(Worker) \cup Permutations(Target)
=============================================================================
