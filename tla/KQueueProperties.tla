-------------------------- MODULE KQueueProperties --------------------------
(* What the queue promises.                                                *)
EXTENDS KQueue, Sequences

(* The elements in the queue, oldest first: a getter that has fetched one  *)
(* still has to count it.                                                  *)
Stored ==
  IF \E t \in Threads : pc[t] = "count" /\ op[t] = "get"
  THEN count - 1 ELSE count

(* The queue is a FIFO channel of Size elements: nothing is lost,          *)
(* duplicated, overwritten or reordered by puts and gets of any threads    *)
(* that are preempted, time out or are interrupted by a put from a handler.*)
Channel == INSTANCE BoundedQueue WITH
  contents <- [i \in 1 .. Stored |-> buffer[(head + i - 1) % Size]]

IsChannel == Channel!Spec

(* The threads that will test the ring once they get the mutex.            *)
OnTheWay(o) ==
  {t \in Threads \ timeout : op[t] = o /\ pc[t] \in {"woken", "relock"}}

(* No wake-up is lost: while a getter waits, every element in the ring has *)
(* another getter on its way to it, and while a putter waits every free    *)
(* slot has one, unless a thread timed out after it had been signaled.     *)
NoLostWakeup ==
  owner = None /\ ~wasted =>
    /\ not_empty # {} => count <= Cardinality(OnTheWay("get"))
    /\ not_full # {} => Size - count <= Cardinality(OnTheWay("put"))
=============================================================================
