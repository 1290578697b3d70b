--------------------------- MODULE CommandQueues ---------------------------
(***************************************************************************)
(* What the RSP command queue promises (include/rspq.h): two queues of     *)
(* commands, one of high priority.  Each command is executed once, in the  *)
(* order of its queue; a sequence of high priority, once begun, is not     *)
(* interrupted by commands of low priority.                                *)
(***************************************************************************)
EXTENDS Naturals

VARIABLES issued,   \* how many commands were issued to each queue
          done,     \* how many of them were executed
          running,  \* the queue the coprocessor executes from
          ends      \* the numbers of commands after which a sequence ends

aqvars == <<issued, done, running, ends>>

Queues == {"low", "high"}

Init == /\ issued = [q \in Queues |-> 0]
        /\ done = [q \in Queues |-> 0]
        /\ running = "low"
        /\ ends = {0}

Issue(q) == /\ issued' = [issued EXCEPT ![q] = @ + 1]
            /\ UNCHANGED <<done, running, ends>>

EndSequence == /\ ends' = ends \cup {issued["high"]}
               /\ UNCHANGED <<issued, done, running>>

Execute == /\ done[running] < issued[running]
           /\ done' = [done EXCEPT ![running] = @ + 1]
           /\ UNCHANGED <<issued, running, ends>>

Preempt == /\ running = "low"
           /\ running' = "high"
           /\ UNCHANGED <<issued, done, ends>>

GoBack == /\ running = "high"
          /\ done["high"] \in ends
          /\ running' = "low"
          /\ UNCHANGED <<issued, done, ends>>

Next == \/ \E q \in Queues : Issue(q)
        \/ EndSequence \/ Execute \/ Preempt \/ GoBack

Spec == Init /\ [][Next]_aqvars
=============================================================================
