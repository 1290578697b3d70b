---------------------------- MODULE KernelLists ----------------------------
(***************************************************************************)
(* The intrusive thread lists of src/src/kernel/kernel.c: th_ready and the *)
(* waiting lists of mutexes and condition variables.  A list is a sequence *)
(* of threads, head first.  P maps a thread to its priority at the moment  *)
(* the list is walked: the code compares th->pri of the nodes it meets, so *)
(* a list that was built under other priorities need not be sorted.        *)
(***************************************************************************)
EXTENDS Naturals, Sequences, SequencesExt

(* Mutant: a node is linked in front of those of its own priority.         *)
StopSetLifo(list, from, th, P) ==
  {k \in from .. Len(list) : k = Len(list) \/ P[list[k + 1]] <= P[th]}

(***************************************************************************)
(* Where __thlist_add_pri stops when it walks list from the link after     *)
(* position from: the number of nodes left before the new one.             *)
(***************************************************************************)
StopSet(list, from, th, P) ==
  {k \in from .. Len(list) : k = Len(list) \/ P[list[k + 1]] < P[th]}

AddPos(list, from, th, P) ==
  CHOOSE k \in StopSet(list, from, th, P) :
    \A j \in StopSet(list, from, th, P) : k <= j

(* __thlist_add_pri                                                        *)
AddPri(list, th, P) == InsertAt(list, AddPos(list, 0, th, P) + 1, th)

(* One round of the loop in __thlist_splice_pri: th is linked in x.list,    *)
(* and the next walk starts at the link behind it (dst = &th->next), that  *)
(* is, x.from counts the nodes of the destination it passes over.          *)
SpliceStep(x, th, P) ==
  LET k == AddPos(x.list, x.from, th, P)
  IN  [list |-> InsertAt(x.list, k + 1, th), from |-> k + 1]

(* __thlist_splice_pri after i rounds.                                     *)
SpliceRun(dst, src, P) ==
  LET run[i \in 0 .. Len(src)] ==
        IF i = 0 THEN [list |-> dst, from |-> 0]
                 ELSE SpliceStep(run[i - 1], src[i], P)
  IN  run

(* Mutant: only the first thread is moved.                                 *)
SpliceFirst(dst, src, P) ==
  IF src = <<>> THEN dst ELSE AddPri(dst, Head(src), P)

(* The destination list when __thlist_splice_pri(&dst, &src) returns.      *)
Splice(dst, src, P) == SpliceRun(dst, src, P)[Len(src)].list

(* Its result: did a thread of priority pri or higher move?                *)
MovedHighPri(src, pri, P) == \E i \in 1 .. Len(src) : P[src[i]] >= pri

(* __thlist_remove: the walk stops at the first node that is th.           *)
FirstAt(list, th) ==
  CHOOSE i \in 1 .. Len(list) :
    list[i] = th /\ \A j \in 1 .. (i - 1) : list[j] # th

Unlink(list, th) ==
  IF Contains(list, th) THEN RemoveAt(list, FirstAt(list, th)) ELSE list
=============================================================================
