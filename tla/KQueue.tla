------------------------------- MODULE KQueue -------------------------------
(***************************************************************************)
(* The thread-safe queue of src/src/kernel/kqueue.c: a ring of Size slots, *)
(* a mutex and the two condition variables not_empty and not_full, used by *)
(* threads and by interrupt handlers.  Mutexes and waits behave as module  *)
(* Kernel says; here a mutex that is free goes to any thread that asks and *)
(* a signal wakes any waiter, which covers every assignment of priorities. *)
(* The threads are preempted between any two steps.                        *)
(***************************************************************************)
EXTENDS Naturals, FiniteSets

CONSTANTS
  Threads,
  None,      \* NULL
  Elements,
  Size,      \* the argument of kqueue_new
  Calls      \* the optional calls the program of this instance makes

ASSUME KQueueAssumption ==
  /\ None \notin Threads \cup Elements /\ IsFiniteSet(Threads)
  /\ Size \in Nat \ {0}

VARIABLES
  buffer, head, tail, count,
  owner,                \* of the mutex
  not_empty, not_full,  \* the threads on the two waiting lists
  pc, op,               \* where each thread is, in a "put" or a "get"
  timed,                \* threads whose call has a timeout
  timeout,              \* threads whose timer has expired
  item,                 \* the element of the call
  wasted                \* history: a signaled thread has timed out

ring == <<buffer, head, tail, count>>
call == <<op, timed, item>>
vars == <<ring, owner, not_empty, not_full, pc, call, timeout, wasted>>

Slots == 0 .. (Size - 1)

TypeOK ==
  /\ buffer \in [Slots -> Elements \cup {None}]
  /\ head \in Slots /\ tail \in Slots /\ count \in 0 .. Size
  /\ owner \in Threads \cup {None}
  /\ not_empty \subseteq Threads /\ not_full \subseteq Threads
  /\ pc \in [Threads -> {"idle", "test", "count", "unlock", "waiting",
                         "woken", "relock"}]
  /\ op \in [Threads -> {"put", "get"}]
  /\ timed \subseteq Threads /\ timeout \subseteq Threads
  /\ item \in [Threads -> Elements \cup {None}]
  /\ wasted \in BOOLEAN

(* kqueue_new                                                              *)
Init ==
  /\ buffer = [i \in Slots |-> None] /\ head = 0 /\ tail = 0 /\ count = 0
  /\ owner = None /\ not_empty = {} /\ not_full = {}
  /\ pc = [t \in Threads |-> "idle"] /\ op = [t \in Threads |-> "get"]
  /\ timed = {} /\ timeout = {} /\ item = [t \in Threads |-> None]
  /\ wasted = FALSE

-----------------------------------------------------------------------------
Goto(t, where) == pc' = [pc EXCEPT ![t] = where]

(* Mutant: the index does not wrap.                                        *)
NextSlotUnwrapped(i) == i + 1

NextSlot(i) == (i + 1) % Size

(* A call locks the mutex.                                                 *)
Start(t, o, e) ==
  /\ pc[t] = "idle" /\ owner = None
  /\ owner' = t /\ Goto(t, "test")
  /\ op' = [op EXCEPT ![t] = o] /\ item' = [item EXCEPT ![t] = e]
  /\ UNCHANGED <<ring, not_empty, not_full, timeout, wasted>>

Untimed(t) == timed' = timed \ {t}
Timed(t)   == "timed" \in Calls /\ timed' = timed \cup {t}

KqueuePut(t, e)    == Start(t, "put", e) /\ Untimed(t)
KqueueTryPut(t, e) == Start(t, "put", e) /\ Timed(t)
KqueueGet(t)       == Start(t, "get", None) /\ Untimed(t)
KqueueTryGet(t)    == Start(t, "get", None) /\ Timed(t)

(* The loop of a put and of a get: wait while the ring is full or empty.   *)
WaitNotFull(t) ==
  /\ pc[t] = "test" /\ op[t] = "put" /\ count = Size
  /\ not_full' = not_full \cup {t} /\ owner' = None /\ Goto(t, "waiting")
  /\ UNCHANGED <<ring, not_empty, call, timeout, wasted>>

WaitNotEmpty(t) ==
  /\ pc[t] = "test" /\ op[t] = "get" /\ count = 0
  /\ not_empty' = not_empty \cup {t} /\ owner' = None /\ Goto(t, "waiting")
  /\ UNCHANGED <<ring, not_full, call, timeout, wasted>>

(* Behind the loop: the element is stored or fetched ...                   *)
Store(t) ==
  /\ pc[t] = "test" /\ op[t] = "put" /\ count < Size
  /\ buffer' = [buffer EXCEPT ![tail] = item[t]] /\ tail' = NextSlot(tail)
  /\ Goto(t, "count")
  /\ UNCHANGED <<head, count, owner, not_empty, not_full, call, timeout, wasted>>

Fetch(t) ==
  /\ pc[t] = "test" /\ op[t] = "get" /\ count > 0
  /\ item' = [item EXCEPT ![t] = buffer[head]] /\ head' = NextSlot(head)
  /\ Goto(t, "count")
  /\ UNCHANGED <<buffer, tail, count, owner, not_empty, not_full, op, timed,
                 timeout, wasted>>

(* kcond_signal: a waiter of the list S, if there is one, is made ready.   *)
(* Mutant: not if the ring was not empty.                                  *)
WakesOnFirst(S) == IF count = 0 /\ S # {} THEN {{w} : w \in S} ELSE {{}}

Wakes(S) == IF S # {} THEN {{w} : w \in S} ELSE {{}}

(* ... counted, and the other side signaled.                               *)
CountStored(t) ==
  /\ pc[t] = "count" /\ op[t] = "put"
  /\ count' = count + 1
  /\ \E W \in Wakes(not_empty) :
       /\ not_empty' = not_empty \ W
       /\ pc' = [u \in Threads |-> IF u = t THEN "unlock"
                                   ELSE IF u \in W THEN "woken" ELSE pc[u]]
  /\ UNCHANGED <<buffer, head, tail, owner, not_full, call, timeout, wasted>>

CountFetched(t) ==
  /\ pc[t] = "count" /\ op[t] = "get"
  /\ count' = count - 1
  /\ \E W \in Wakes(not_full) :
       /\ not_full' = not_full \ W
       /\ pc' = [u \in Threads |-> IF u = t THEN "unlock"
                                   ELSE IF u \in W THEN "woken" ELSE pc[u]]
  /\ UNCHANGED <<buffer, head, tail, owner, not_empty, call, timeout, wasted>>

(* kmutex_unlock and return.                                               *)
Return(t) ==
  /\ pc[t] = "unlock" /\ owner' = None /\ Goto(t, "idle")
  /\ item' = [item EXCEPT ![t] = None] /\ timed' = timed \ {t}
  /\ UNCHANGED <<ring, not_empty, not_full, op, timeout, wasted>>

(* A thread that was made ready runs: its timer is stopped.                *)
Resume(t) ==
  /\ pc[t] = "woken" /\ Goto(t, "relock")
  /\ UNCHANGED <<ring, owner, not_empty, not_full, call, timeout, wasted>>

(* It locks the mutex again, and gives up if its timer had expired.        *)
Relock(t) ==
  /\ pc[t] = "relock" /\ owner = None
  /\ owner' = t /\ Goto(t, IF t \in timeout THEN "unlock" ELSE "test")
  /\ timeout' = timeout \ {t}
  /\ UNCHANGED <<ring, not_empty, not_full, call, wasted>>

(* The timer of a wait expires: the thread still waits, or has been        *)
(* signaled and has not run yet.                                           *)
Expire(t) ==
  /\ t \in timed \ timeout /\ pc[t] \in {"waiting", "woken"}
  /\ timeout' = timeout \cup {t} /\ Goto(t, "woken")
  /\ not_empty' = not_empty \ {t} /\ not_full' = not_full \ {t}
  /\ wasted' = (wasted \/ pc[t] = "woken")
  /\ UNCHANGED <<ring, owner, call>>

(* Mutant: the mutex is not looked at.                                     *)
MayPutIsrAlways == count < Size

MayPutIsr == owner = None /\ count < Size

(* kqueue_try_put_isr, when it returns true.                               *)
KqueueTryPutIsr(e) ==
  /\ "isr" \in Calls /\ MayPutIsr
  /\ buffer' = [buffer EXCEPT ![tail] = e] /\ tail' = NextSlot(tail)
  /\ count' = count + 1
  /\ \E W \in Wakes(not_empty) :
       /\ not_empty' = not_empty \ W
       /\ pc' = [u \in Threads |-> IF u \in W THEN "woken" ELSE pc[u]]
  /\ UNCHANGED <<head, owner, not_full, call, timeout, wasted>>

-----------------------------------------------------------------------------
Next ==
  \/ \E t \in Threads :
       \/ KqueueGet(t) \/ KqueueTryGet(t)
       \/ WaitNotFull(t) \/ WaitNotEmpty(t) \/ Store(t) \/ Fetch(t)
       \/ CountStored(t) \/ CountFetched(t) \/ Return(t)
       \/ Resume(t) \/ Relock(t) \/ Expire(t)
       \/ \E e \in Elements : KqueuePut(t, e) \/ KqueueTryPut(t, e)
  \/ \E e \in Elements : KqueueTryPutIsr(e)

Spec == Init /\ [][Next]_vars
=============================================================================
