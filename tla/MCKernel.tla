------------------------------ MODULE MCKernel ------------------------------
(* Instances of the kernel for TLC: the values the .cfg files choose from. *)
EXTENDS KernelProperties, TLC

CONSTANTS main, idle, a, b, m1, m2, c1, none

(* main is created at priority 0, the idle thread below every other one.   *)
Of(f) == [t \in Threads |-> f[t]]
Rising == Of(main :> 0 @@ idle :> -1 @@ a :> 1 @@ b :> 2)
Equal  == Of(main :> 1 @@ idle :> -1 @@ a :> 1 @@ b :> 1)
Paired == Of(main :> 0 @@ idle :> -1 @@ a :> 1 @@ b :> 1)
Spread == Of(main :> 0 @@ idle :> -1 @@ a :> 1 @@ b :> 3)

(* The priorities that kthread_set_pri gives; none of them is in Spread,   *)
(* which HighestRuns relies on to know that there was no such call.        *)
NoPris == {}
Pris2  == {2}
=============================================================================
