------------------------------ MODULE MCKQueue ------------------------------
(* Instances of the queue for TLC.                                         *)
EXTENDS KQueueProperties, TLC

CONSTANTS a, b, c, x, y, none

Symmetry == Permutations(Threads) \cup Permutations(Elements)
=============================================================================
