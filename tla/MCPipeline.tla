------------------------------ MODULE MCPipeline ------------------------------
(* Pipeline on a small instance.  The jobs run in one process, so that they   *)
(* are interchangeable.                                                       *)
EXTENDS Pipeline, TLC

CONSTANT p1

OnePod == [j \in Job |-> p1]

Symmetry == Permutations(Job)
=============================================================================
