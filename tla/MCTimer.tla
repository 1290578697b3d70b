------------------------------- MODULE MCTimer -------------------------------
(* Instances of the timer subsystem for TLC.                               *)
EXTENDS TimerProperties, TLC

CONSTANTS t1, t2, t3

Symmetry == Permutations(Timers)
=============================================================================
