------------------------------- MODULE Kernel -------------------------------
(***************************************************************************)
(* The multi-threading kernel of libdragon (src/src/kernel/kernel.c): one  *)
(* CPU, strict priorities, threads that call the API with interrupts       *)
(* enabled, an interrupt handler that wakes threads and may ask for a      *)
(* switch when it ends.  An API call runs with interrupts disabled up to   *)
(* its next context switch, so it is one action up to there and one more   *)
(* action (named ...Resume) from where the thread is scheduled again.  A   *)
(* call that can be interrupted half-way has one action per part.          *)
(***************************************************************************)
EXTENDS Integers, FiniteSets, KernelLists

CONSTANTS
  Threads,     \* every thread control block, Main and Idle included
  Main, Idle,  \* th_main and th_idle
  Mutexes,     \* kmutex_t objects
  Conds,       \* kcond_t objects, the kirq ones included
  Recursive,   \* the mutexes initialised with KMUTEX_RECURSIVE
  HeapLock,    \* the newlib lock malloc/free take; None: never contended
  None,        \* NULL
  NewPri,      \* the priority each thread is created with
  Pris,        \* the priorities kthread_set_pri is called with
  CounterSpan, \* kmutex_t.counter is a bit field of 8 bits: 256
  MaxHeld,     \* bound: how often a thread locks a recursive mutex in a row
  Debug,       \* FALSE: an NDEBUG build, the assertions are compiled out
  Calls        \* the API calls the program of this instance makes

ASSUME KernelAssumption ==
  /\ Main \in Threads /\ Idle \in Threads /\ Main # Idle
  /\ Threads \cap Mutexes = {} /\ Mutexes \cap Conds = {}
  /\ None \notin Threads \cup Mutexes \cup Conds
  /\ Recursive \subseteq Mutexes
  /\ HeapLock \in Mutexes \cup {None}
  /\ NewPri \in [Threads -> Int] /\ Pris \subseteq Nat
  /\ CounterSpan \in Nat \ {0, 1} /\ MaxHeld \in Nat \ {0}
  /\ Debug \in BOOLEAN

VARIABLES
  th_cur, th_ready, th_count, all_threads,
  life,      \* "unborn", "live" or "freed": the memory of the kthread_t
  tls,       \* threads whose TLS area and reent pointer are initialised
  zombie, inlist, detached, waitforjoin, suspended,  \* the TH_FLAG_ bits
  pri, joiner,
  waiting,   \* kmutex_t.waiting and kcond_t.waiting
  owner, counter, original_pri,
  timer,     \* threads whose stack timer_t is linked in the timer list
  timeout,   \* threads whose local `timeout' the timer callback has set
  force,     \* __isr_force_schedule
  isr,       \* the CPU is inside the interrupt handler
  pc,        \* where each thread is; the objects of its call:
  mtx, cnd, peer,
  panic,     \* an assertion has failed or the CPU has crashed
  closed,    \* kernel_close has returned
  held       \* history: locks each thread was granted and has not released

runVars   == <<th_cur, th_ready, inlist, panic, life, all_threads>>
flagVars  == <<th_count, tls, zombie, detached, waitforjoin, suspended, joiner,
               closed>>
mutexVars == <<owner, counter, original_pri, held>>
timerVars == <<timer, timeout>>
isrVars   == <<force, isr>>
callVars  == <<pc, mtx, cnd, peer>>
vars == <<runVars, flagVars, mutexVars, timerVars, isrVars, callVars, pri,
          waiting>>

(* The places where a thread stands.  Interrupts are enabled at the first  *)
(* four; at the ...arm ones the thread is inside start_timer.              *)
Enabled == {"user", "newtls", "check", "yield"}
Arming  == {"sleeparm", "tryarm", "condarm"}
PCs == Enabled \cup Arming \cup
       {"lock", "trylock", "condwait", "condtimed", "sleep", "join", "dead"}

TypeOK ==
  /\ th_cur \in Threads /\ th_ready \in Seq(Threads)
  /\ th_count \in Int /\ all_threads \in Seq(Threads)
  /\ life \in [Threads -> {"unborn", "live", "freed"}]
  /\ tls \subseteq Threads /\ zombie \subseteq Threads
  /\ inlist \subseteq Threads /\ detached \subseteq Threads
  /\ waitforjoin \subseteq Threads /\ suspended \subseteq Threads
  /\ pri \in [Threads -> Int]
  /\ joiner \in [Threads -> Threads \cup {None}]
  /\ waiting \in [Mutexes \cup Conds -> Seq(Threads)]
  /\ owner \in [Mutexes -> Threads \cup {None}]
  /\ counter \in [Mutexes -> 0 .. (CounterSpan - 1)]
  /\ original_pri \in [Mutexes -> Int]
  /\ timer \subseteq Threads /\ timeout \subseteq Threads
  /\ force \in BOOLEAN /\ isr \in BOOLEAN
  /\ panic \in BOOLEAN /\ closed \in BOOLEAN
  /\ pc \in [Threads -> PCs]
  /\ mtx \in [Threads -> Mutexes \cup {None}]
  /\ cnd \in [Threads -> Conds \cup {None}]
  /\ peer \in [Threads -> Threads \cup {None}]
  /\ held \in [Threads -> [Mutexes -> Nat]]

(* kernel_init: the caller becomes the main thread, the idle one is ready. *)
Init ==
  /\ th_cur = Main /\ th_ready = <<Idle>> /\ inlist = {Idle}
  /\ th_count = 2
  /\ all_threads = IF Debug THEN <<Idle, Main>> ELSE <<>>
  /\ life = [t \in Threads |-> IF t \in {Main, Idle} THEN "live" ELSE "unborn"]
  /\ tls = {Main, Idle} /\ detached = {Main, Idle}
  /\ zombie = {} /\ waitforjoin = {} /\ suspended = {}
  /\ pri = NewPri
  /\ joiner = [t \in Threads |-> None]
  /\ waiting = [l \in Mutexes \cup Conds |-> <<>>]
  /\ owner = [m \in Mutexes |-> None]
  /\ counter = [m \in Mutexes |-> 0] /\ original_pri = [m \in Mutexes |-> 0]
  /\ held = [t \in Threads |-> [m \in Mutexes |-> 0]]
  /\ timer = {} /\ timeout = {}
  /\ force = FALSE /\ isr = FALSE /\ panic = FALSE /\ closed = FALSE
  /\ pc = [t \in Threads |-> "user"]
  /\ mtx = [t \in Threads |-> None] /\ cnd = [t \in Threads |-> None]
  /\ peer = [t \in Threads |-> None]

-----------------------------------------------------------------------------
(***************************************************************************)
(* __kthread_syscall_schedule, given the ready list r and the INLIST bits  *)
(* il at the moment of the switch.  syscall tells KTHREAD_SWITCH from a    *)
(* preemption at the end of an interrupt.  The flags and priorities are    *)
(* the ones the calling action leaves (primed); ok is FALSE when the       *)
(* caller has already failed an assertion of its own.                      *)
(***************************************************************************)
Parkable == th_cur \notin zombie' \cup waitforjoin'

Parked(r, syscall) ==
  IF Parkable /\ ~syscall THEN AddPri(r, th_cur, pri') ELSE r

ParkAsserts(il, syscall) ==
  CASE th_cur \in zombie' -> th_cur \notin il /\ th_cur \in detached'
    [] th_cur \in waitforjoin' \ zombie' ->
         th_cur \notin il /\ th_cur \notin detached'
    [] OTHER -> syscall <=> th_cur \in il

(* Mutant: suspended threads are not skipped.                              *)
RunnableSuspended(r) == {i \in 1 .. Len(r) : r[i] \notin waitforjoin'}

(* The scheduler pops th_ready up to the first thread that may run.        *)
Runnable(r) == {i \in 1 .. Len(r) : r[i] \notin waitforjoin' \cup suspended'}
NextAt(r) == CHOOSE i \in Runnable(r) : \A j \in Runnable(r) : i <= j

(* free() locks the heap mutex.  When it has to wait for it inside the     *)
(* scheduler, KTHREAD_SWITCH nests a syscall in an exception: a crash.     *)
FreeCrashes ==
  /\ th_cur \in zombie' /\ HeapLock # None
  /\ owner'[HeapLock] \notin {None, th_cur}

(***************************************************************************)
(* kthread_free on the debug list: the memory of th is cleared before its  *)
(* all_next link is read, so everything behind th is cut off too.          *)
(***************************************************************************)
CutAt(list, th) ==
  IF Contains(list, th) THEN SubSeq(list, 1, FirstAt(list, th) - 1) ELSE list

Free(th) ==
  /\ life' = [life EXCEPT ![th] = "freed"]
  /\ all_threads' = CutAt(all_threads, th)

Schedule(r, il, syscall, ok) ==
  \E s \in {Parked(r, syscall)} :
  LET il1 == IF Parkable /\ ~syscall THEN il \cup {th_cur} ELSE il
  IN  /\ panic' = \/ Debug /\ ~(ok /\ ParkAsserts(il, syscall))
                  \/ Runnable(s) = {} \/ FreeCrashes
      /\ IF Runnable(s) = {}
         THEN th_cur' = th_cur /\ th_ready' = s /\ inlist' = il1
         ELSE /\ th_cur' = s[NextAt(s)]
              /\ th_ready' = SubSeq(s, NextAt(s) + 1, Len(s))
              /\ inlist' = il1 \ {s[i] : i \in 1 .. NextAt(s)}
      /\ IF th_cur \in zombie' THEN Free(th_cur)
                               ELSE UNCHANGED <<life, all_threads>>

(* KTHREAD_SWITCH() by a thread that has been linked somewhere.            *)
Switch(r, il, ok) == Schedule(r, il, TRUE, ok)

(* No switch: the caller goes on with these lists.                         *)
Continue(r, il, ok) ==
  /\ th_ready' = r /\ inlist' = il /\ panic' = (Debug /\ ~ok)
  /\ UNCHANGED <<th_cur, life, all_threads>>

(* Mutant: the caller is not linked to th_ready before the switch.         *)
YieldUnlinked(r, il, ok) ==
  IF r # <<>> /\ pri'[Head(r)] >= pri'[th_cur]
  THEN Switch(r, il, ok) ELSE Continue(r, il, ok)

(* kthread_yield with interrupts disabled: switch unless every ready       *)
(* thread is of lower priority.                                            *)
Yield(r, il, ok) ==
  IF r # <<>> /\ pri'[Head(r)] >= pri'[th_cur]
  THEN Switch(AddPri(r, th_cur, pri'), il \cup {th_cur},
              ok /\ th_cur \notin il)
  ELSE Continue(r, il, ok)

(* The thread that may go on now: running, and not interrupted.            *)
Runs(t) == th_cur = t /\ t # Idle /\ ~isr /\ ~panic /\ ~closed
At(t, where) == Runs(t) /\ pc[t] = where

(* It calls the API from its own code, and about thread u: it has pointers *)
(* to the threads that kthread_new and kernel_init return, not to th_idle. *)
Caller(t, call) == At(t, "user") /\ call \in Calls
CallerOn(t, call, u) == Caller(t, call) /\ u # Idle /\ life[u] = "live"

(* Where th_cur will be when it runs next, with the mutex of its call.     *)
Goto(t, where, m) ==
  /\ pc' = [pc EXCEPT ![t] = where] /\ mtx' = [mtx EXCEPT ![t] = m]

-----------------------------------------------------------------------------
(* Life of a thread.                                                       *)

(***************************************************************************)
(* __kthread_new_internal up to its enable_interrupts(): the thread is     *)
(* ready, but its TLS area is still uninitialised.  The malloc before that *)
(* takes and releases HeapLock at a moment when it is free.                *)
(***************************************************************************)
KthreadNew(t, u) ==
  /\ Caller(t, "new") /\ life[u] = "unborn"
  /\ HeapLock # None => owner[HeapLock] = None
  /\ life' = [life EXCEPT ![u] = "live"]
  /\ th_count' = th_count + 1
  /\ all_threads' = IF Debug THEN <<u>> \o all_threads ELSE all_threads
  /\ th_ready' = AddPri(th_ready, u, pri) /\ inlist' = inlist \cup {u}
  /\ pc' = [pc EXCEPT ![t] = "newtls"] /\ peer' = [peer EXCEPT ![t] = u]
  /\ UNCHANGED <<th_cur, panic, tls, zombie, detached, waitforjoin, suspended,
                 joiner, closed, mutexVars, timerVars, isrVars, mtx, cnd, pri,
                 waiting>>

(* The rest of it, interrupts enabled: the writes go to freed memory when  *)
(* the new thread has already come and gone.                               *)
KthreadNewInit(t) ==
  /\ At(t, "newtls")
  /\ panic' = (life[peer[t]] = "freed")
  /\ tls' = tls \cup {peer[t]}
  /\ pc' = [pc EXCEPT ![t] =
              IF pri[peer[t]] >= pri[t] THEN "check" ELSE "user"]
  /\ peer' = [peer EXCEPT ![t] = None]
  /\ UNCHANGED <<th_cur, th_ready, inlist, life, all_threads, th_count, zombie,
                 detached, waitforjoin, suspended, joiner, closed, mutexVars,
                 timerVars, isrVars, mtx, cnd, pri, waiting>>

(***************************************************************************)
(* kthread_yield called with interrupts enabled: the head of th_ready is   *)
(* read first, and interrupts are only disabled after the test.            *)
(***************************************************************************)
KthreadYield(t) ==
  /\ At(t, "check") \/ Caller(t, "yield")
  /\ pc' = [pc EXCEPT ![t] =
              IF th_ready # <<>> /\ pri[Head(th_ready)] >= pri[t]
              THEN "yield" ELSE "user"]
  /\ UNCHANGED <<runVars, flagVars, mutexVars, timerVars, isrVars, mtx, cnd,
                 peer, pri, waiting>>

KthreadYieldSwitch(t) ==
  /\ At(t, "yield")
  /\ pc' = [pc EXCEPT ![t] = "user"]
  /\ UNCHANGED <<flagVars, mutexVars, timerVars, isrVars, mtx, cnd, peer, pri,
                 waiting>>
  /\ Switch(AddPri(th_ready, t, pri), inlist \cup {t}, t \notin inlist)

(* kthread_set_pri: the thread stays where it is linked; then it yields.   *)
KthreadSetPri(t, u, p) ==
  /\ CallerOn(t, "set_pri", u)
  /\ pri' = [pri EXCEPT ![u] = p]
  /\ pc' = [pc EXCEPT ![t] = "check"]
  /\ UNCHANGED <<runVars, flagVars, mutexVars, timerVars, isrVars, mtx, cnd,
                 peer, waiting>>

KthreadSuspend(t, u) ==
  /\ CallerOn(t, "suspend", u) /\ suspended' = suspended \cup {u}
  /\ UNCHANGED <<runVars, th_count, tls, zombie, detached, waitforjoin, joiner,
                 closed, mutexVars, timerVars, isrVars, callVars, pri, waiting>>

KthreadResume(t, u) ==
  /\ CallerOn(t, "suspend", u) /\ suspended' = suspended \ {u}
  /\ UNCHANGED <<runVars, th_count, tls, zombie, detached, waitforjoin, joiner,
                 closed, mutexVars, timerVars, isrVars, callVars, pri, waiting>>

KthreadDetach(t, u) ==
  /\ CallerOn(t, "detach", u) /\ u \notin waitforjoin
  /\ detached' = detached \cup {u}
  /\ UNCHANGED <<runVars, th_count, tls, zombie, waitforjoin, suspended, joiner,
                 closed, mutexVars, timerVars, isrVars, callVars, pri, waiting>>

(* Mutant: only detached threads are counted off.                          *)
TerminateUncounted(u) ==
  /\ th_count' = IF u \in detached THEN th_count - 1 ELSE th_count
  /\ zombie' = IF u \in detached THEN zombie \cup {u} ELSE zombie
  /\ waitforjoin' = IF u \notin detached /\ joiner[u] = None
                    THEN waitforjoin \cup {u} ELSE waitforjoin

(* The bookkeeping of kthread_kill(u).                                     *)
Terminate(u) ==
  /\ th_count' = th_count - 1
  /\ zombie' = IF u \in detached THEN zombie \cup {u} ELSE zombie
  /\ waitforjoin' = IF u \notin detached /\ joiner[u] = None
                    THEN waitforjoin \cup {u} ELSE waitforjoin

WakesJoiner(u) == u \notin detached /\ joiner[u] # None

ReadyAfterKill(u) ==
  IF WakesJoiner(u) THEN AddPri(th_ready, joiner[u], pri) ELSE th_ready

InlistAfterKill(u) == IF WakesJoiner(u) THEN inlist \cup {joiner[u]} ELSE inlist

KillAsserts(u) == WakesJoiner(u) => joiner[u] \notin inlist

(* kthread_exit, and the return of a thread's entry function.              *)
KthreadExit(t) ==
  /\ Caller(t, "exit") /\ t # Main /\ \A m \in Mutexes : held[t][m] = 0
  /\ Terminate(t)
  /\ pc' = [pc EXCEPT ![t] = "dead"]
  /\ UNCHANGED <<tls, detached, suspended, joiner, closed, mutexVars, timerVars,
                 isrVars, mtx, cnd, peer, pri, waiting>>
  /\ Switch(ReadyAfterKill(t), InlistAfterKill(t), KillAsserts(t))

(* kthread_kill of another thread, whatever that thread is doing.          *)
KthreadKill(t, u) ==
  /\ CallerOn(t, "kill", u) /\ u \notin {t, Main}
  /\ u \notin zombie \cup waitforjoin /\ pc[u] # "dead"
  /\ Terminate(u)
  /\ UNCHANGED <<tls, detached, suspended, joiner, closed, mutexVars, timerVars,
                 isrVars, callVars, pri, waiting>>
  /\ Continue(ReadyAfterKill(u), InlistAfterKill(u), KillAsserts(u))

(* Mutant: join frees the thread before it has exited.                     *)
KthreadJoinAtOnce(t, u) ==
  /\ CallerOn(t, "join", u) /\ u # t /\ u \notin detached
  /\ Free(u)
  /\ UNCHANGED <<th_cur, th_ready, inlist, panic, flagVars, mutexVars,
                 timerVars, isrVars, callVars, pri, waiting>>

(* kthread_join of a thread that has exited: its memory is freed.          *)
KthreadJoinExited(t, u) ==
  /\ CallerOn(t, "join", u) /\ u # t
  /\ u \notin detached /\ u \in waitforjoin
  /\ Free(u)
  /\ UNCHANGED <<th_cur, th_ready, inlist, panic, flagVars, mutexVars,
                 timerVars, isrVars, callVars, pri, waiting>>

(* Mutant: the joiner stays on th_ready.                                   *)
KthreadJoinReady(t, u) ==
  /\ CallerOn(t, "joinwait", u) /\ u # t
  /\ u \notin detached \cup waitforjoin /\ joiner[u] = None /\ pc[u] # "dead"
  /\ joiner' = [joiner EXCEPT ![u] = t]
  /\ pc' = [pc EXCEPT ![t] = "join"] /\ peer' = [peer EXCEPT ![t] = u]
  /\ UNCHANGED <<th_count, tls, zombie, detached, waitforjoin, suspended,
                 closed, mutexVars, timerVars, isrVars, mtx, cnd, pri, waiting>>
  /\ Switch(AddPri(th_ready, t, pri), inlist \cup {t}, TRUE)

(* kthread_join of a thread that runs on: the caller is in no list.        *)
KthreadJoinWait(t, u) ==
  /\ CallerOn(t, "joinwait", u) /\ u # t
  /\ u \notin detached \cup waitforjoin /\ joiner[u] = None /\ pc[u] # "dead"
  /\ joiner' = [joiner EXCEPT ![u] = t]
  /\ pc' = [pc EXCEPT ![t] = "join"] /\ peer' = [peer EXCEPT ![t] = u]
  /\ UNCHANGED <<th_count, tls, zombie, detached, waitforjoin, suspended,
                 closed, mutexVars, timerVars, isrVars, mtx, cnd, pri, waiting>>
  /\ Switch(th_ready, inlist, TRUE)

KthreadJoinResume(t) ==
  /\ At(t, "join")
  /\ pc' = [pc EXCEPT ![t] = "user"] /\ peer' = [peer EXCEPT ![t] = None]
  /\ UNCHANGED <<runVars, flagVars, mutexVars, timerVars, isrVars, mtx, cnd,
                 pri, waiting>>

(* kthread_try_join asserts that the thread is detached, where kthread_join *)
(* asserts that it is not.                                                  *)
KthreadTryJoin(t, u) ==
  /\ CallerOn(t, "try_join", u) /\ u # t
  /\ panic' = (Debug /\ u \notin detached)
  /\ IF u \in waitforjoin THEN Free(u) ELSE UNCHANGED <<life, all_threads>>
  /\ UNCHANGED <<th_cur, th_ready, inlist, flagVars, mutexVars, timerVars,
                 isrVars, callVars, pri, waiting>>

(* kernel_close: the main thread kills and frees the idle one.  A program  *)
(* calls it when all its threads have exited or were killed.               *)
KernelClose ==
  /\ Caller(Main, "close")
  /\ \A u \in Threads \ {Main, Idle} :
       life[u] # "live" \/ u \in zombie
         \/ (u \in waitforjoin /\ "unjoined" \in Calls)
  /\ th_count' = th_count - 1 /\ zombie' = zombie \cup {Idle}
  /\ Free(Idle)
  /\ panic' = (Debug /\ ~(th_count' = 1 /\ all_threads' = <<>>))
  /\ closed' = TRUE /\ force' = FALSE
  /\ UNCHANGED <<th_cur, th_ready, inlist, tls, detached, waitforjoin,
                 suspended, joiner, mutexVars, timerVars, isr, callVars, pri,
                 waiting>>

-----------------------------------------------------------------------------
(* Mutexes.                                                                *)

(* Mutant: the owner's priority is stored nowhere.                         *)
AcquireUnsaved(t, m) ==
  /\ owner' = [owner EXCEPT ![m] = t] /\ counter' = [counter EXCEPT ![m] = 1]
  /\ original_pri' = [original_pri EXCEPT ![m] = owner[m]]
  /\ held' = [held EXCEPT ![t][m] = 1]

(* The caller gets the free mutex m.                                       *)
Acquire(t, m) ==
  /\ owner' = [owner EXCEPT ![m] = t] /\ counter' = [counter EXCEPT ![m] = 1]
  /\ original_pri' = [original_pri EXCEPT ![m] = pri[t]]
  /\ held' = [held EXCEPT ![t][m] = 1]

Relock(t, m) ==
  /\ counter' = [counter EXCEPT ![m] = (counter[m] + 1) % CounterSpan]
  /\ held' = [held EXCEPT ![t][m] = held[t][m] + 1]
  /\ UNCHANGED <<owner, original_pri>>

(* Mutant: no priority inheritance.                                        *)
BoostNobody(t, m) == pri' = pri

(* The owner inherits the caller's priority; its place in a list stays.    *)
Boost(t, m) ==
  pri' = IF pri[t] > pri[owner[m]] THEN [pri EXCEPT ![owner[m]] = pri[t]]
                                   ELSE pri

(* One round of the loop "while (mutex->owner)": wait at `where'.          *)
WaitForMutex(t, m, where) ==
  /\ Boost(t, m)
  /\ waiting' = [waiting EXCEPT ![m] = AddPri(waiting[m], t, pri')]
  /\ Goto(t, where, m)
  /\ UNCHANGED <<flagVars, mutexVars, isrVars, cnd, peer>>
  /\ Switch(th_ready, inlist \cup {t},
            t \notin inlist /\ life[owner[m]] = "live")

(* The call of the running thread returns with m locked.                   *)
ReturnLocked(t, m) ==
  /\ Goto(t, "user", None) /\ cnd' = [cnd EXCEPT ![t] = None]
  /\ UNCHANGED <<runVars, flagVars, isrVars, peer, pri, waiting>>

LockLoop(t, m) ==
  \/ owner[m] = None /\ Acquire(t, m) /\ ReturnLocked(t, m)
  \/ owner[m] # None /\ WaitForMutex(t, m, "lock")

Lock(t, m) ==
  \/ owner[m] = t /\ Relock(t, m) /\ ReturnLocked(t, m)
  \/ owner[m] # t /\ LockLoop(t, m)

(* The program locks a mutex again only if it is recursive.                *)
MayLock(t, m) == held[t][m] = 0 \/ (m \in Recursive /\ held[t][m] < MaxHeld)

KmutexLock(t, m) ==
  /\ Caller(t, "lock") /\ MayLock(t, m)
  /\ Lock(t, m) /\ UNCHANGED timerVars

(* Mutant: "if (mutex->owner)" in place of "while".                        *)
KmutexLockOnce(t) ==
  /\ At(t, "lock") /\ Acquire(t, mtx[t]) /\ ReturnLocked(t, mtx[t])
  /\ UNCHANGED timerVars

KmutexLockResume(t) ==
  At(t, "lock") /\ LockLoop(t, mtx[t]) /\ UNCHANGED timerVars

(* kmutex_try_lock of a mutex that is free or the caller's own.            *)
KmutexTryLock(t, m) ==
  /\ Caller(t, "trylock") /\ MayLock(t, m)
  /\ owner[m] \in {None, t} /\ Lock(t, m) /\ UNCHANGED timerVars

(* Mutant: the timer of a call that succeeded stays armed.                 *)
StopNoTimer(t) == timer' = timer

StopTimer(t) == timer' = timer \ {t}

(* Its timed case: the timer is started first.                             *)
KmutexTryLockStart(t, m) ==
  /\ Caller(t, "trylock") /\ MayLock(t, m) /\ owner[m] \notin {None, t}
  /\ timer' = timer \cup {t} /\ timeout' = timeout \ {t}
  /\ Goto(t, "tryarm", m)
  /\ UNCHANGED <<runVars, flagVars, mutexVars, isrVars, cnd, peer,
                 pri, waiting>>

(* "while (mutex->owner && !timeout)": wait, lock or give up.              *)
KmutexTryLockLoop(t) ==
  /\ \/ At(t, "tryarm") \/ At(t, "trylock")
  /\ LET m == mtx[t] IN
     \/ /\ owner[m] # None /\ t \notin timeout
        /\ UNCHANGED timerVars /\ WaitForMutex(t, m, "trylock")
     \/ /\ owner[m] = None /\ t \notin timeout
        /\ StopTimer(t) /\ UNCHANGED timeout
        /\ Acquire(t, m) /\ ReturnLocked(t, m)
     \/ /\ t \in timeout
        /\ timeout' = timeout \ {t} /\ UNCHANGED timer
        /\ Goto(t, "user", None)
        /\ UNCHANGED <<runVars, flagVars, mutexVars, isrVars, cnd, peer, pri,
                       waiting>>

(* Mutant: the inherited priority is kept.                                 *)
ReleaseKeepsPri(t, m) ==
  /\ counter' = [counter EXCEPT ![m] = (counter[m] - 1) % CounterSpan]
  /\ owner' = [owner EXCEPT ![m] = IF counter[m] = 1 THEN None ELSE owner[m]]
  /\ UNCHANGED <<original_pri, pri>>

(* kmutex_unlock_internal: what it does to the mutex and the priority ...  *)
Release(t, m) ==
  /\ counter' = [counter EXCEPT ![m] = (counter[m] - 1) % CounterSpan]
  /\ owner' = [owner EXCEPT ![m] = IF counter[m] = 1 THEN None ELSE owner[m]]
  /\ pri' = [pri EXCEPT ![t] = IF counter[m] = 1 THEN original_pri[m]
                                                 ELSE pri[t]]
  /\ UNCHANGED original_pri

(* ... to the ready list, to the waiting list, and its result.             *)
ReadyAfterRelease(m) ==
  IF counter[m] = 1 THEN Splice(th_ready, waiting[m], pri') ELSE th_ready

(* Mutant: only the first waiter is taken off the waiting list.            *)
LeftWaitingTail(m) ==
  IF counter[m] = 1 /\ waiting[m] # <<>> THEN Tail(waiting[m]) ELSE waiting[m]

LeftWaiting(m) == IF counter[m] = 1 THEN <<>> ELSE waiting[m]

WokeHighPri(t, m) == counter[m] = 1 /\ MovedHighPri(waiting[m], pri'[t], pri')

KmutexUnlock(t, m) ==
  /\ Caller(t, "lock") /\ held[t][m] > 0
  /\ Release(t, m)
  /\ held' = [held EXCEPT ![t][m] = held[t][m] - 1]
  /\ waiting' = [waiting EXCEPT ![m] = LeftWaiting(m)]
  /\ UNCHANGED <<flagVars, timerVars, isrVars, callVars>>
  /\ \E r \in {ReadyAfterRelease(m)} :
       IF WokeHighPri(t, m)
       THEN Yield(r, inlist, owner[m] = t /\ counter[m] > 0)
       ELSE Continue(r, inlist, owner[m] = t /\ counter[m] > 0)

-----------------------------------------------------------------------------
(* Condition variables; the mutex of a wait may be NULL.                   *)

Unlinked(c) == [waiting EXCEPT ![c] = Tail(waiting[c])]

KcondSignal(t, c) ==
  /\ Caller(t, "signal") /\ waiting[c] # <<>>
  /\ waiting' = Unlinked(c)
  /\ UNCHANGED <<flagVars, mutexVars, timerVars, isrVars, callVars, pri>>
  /\ LET r == AddPri(th_ready, Head(waiting[c]), pri)
     IN  IF pri[t] < pri[Head(waiting[c])] THEN Yield(r, inlist, TRUE)
                                           ELSE Continue(r, inlist, TRUE)

KcondBroadcast(t, c) ==
  /\ Caller(t, "broadcast") /\ waiting[c] # <<>>
  /\ waiting' = [waiting EXCEPT ![c] = <<>>]
  /\ UNCHANGED <<flagVars, mutexVars, timerVars, isrVars, callVars, pri>>
  /\ LET r == Splice(th_ready, waiting[c], pri)
     IN  IF MovedHighPri(waiting[c], pri[t], pri) THEN Yield(r, inlist, TRUE)
                                                  ELSE Continue(r, inlist, TRUE)

(* The first half of both waits: unlock m, link the caller to c.           *)
UnlockAndLink(t, c, m) ==
  IF m = None
  THEN /\ waiting' = [waiting EXCEPT ![c] = AddPri(waiting[c], t, pri)]
       /\ UNCHANGED <<mutexVars, pri>>
  ELSE /\ held[t][m] = 1
       /\ Release(t, m)
       /\ held' = [held EXCEPT ![t][m] = 0]
       /\ waiting' = [waiting EXCEPT ![m] = LeftWaiting(m),
                                     ![c] = AddPri(waiting[c], t, pri')]

WaitReady(m) == IF m = None THEN th_ready ELSE ReadyAfterRelease(m)

WaitAsserts(t, m) ==
  t \notin inlist /\ (m # None => owner[m] = t /\ counter[m] = 1)

KcondWait(t, c, m) ==
  /\ Caller(t, "wait")
  /\ UnlockAndLink(t, c, m)
  /\ Goto(t, "condwait", m) /\ cnd' = [cnd EXCEPT ![t] = c]
  /\ UNCHANGED <<flagVars, timerVars, isrVars, peer>>
  /\ Switch(WaitReady(m), inlist \cup {t}, WaitAsserts(t, m))

(* Back from the switch: lock the mutex again, if there is one.            *)
Rewait(t) ==
  IF mtx[t] = None THEN ReturnLocked(t, None) /\ UNCHANGED mutexVars
                   ELSE Lock(t, mtx[t])

KcondWaitResume(t) == At(t, "condwait") /\ Rewait(t) /\ UNCHANGED timerVars

(* kcond_wait_timeout up to start_timer ...                                *)
KcondWaitTimeout(t, c, m) ==
  /\ Caller(t, "waittimeout")
  /\ UnlockAndLink(t, c, m)
  /\ timer' = timer \cup {t} /\ timeout' = timeout \ {t}
  /\ Goto(t, "condarm", m) /\ cnd' = [cnd EXCEPT ![t] = c]
  /\ UNCHANGED <<flagVars, isrVars, peer>>
  /\ Continue(WaitReady(m), inlist \cup {t}, WaitAsserts(t, m))

(* ... its context switch, and the way out; it returns t \notin timeout.   *)
KcondWaitTimeoutSwitch(t) ==
  /\ At(t, "condarm") /\ Goto(t, "condtimed", mtx[t])
  /\ UNCHANGED <<flagVars, mutexVars, timerVars, isrVars, cnd, peer, pri,
                 waiting>>
  /\ Switch(th_ready, inlist, TRUE)

KcondWaitTimeoutResume(t) ==
  /\ At(t, "condtimed")
  /\ IF t \in timeout THEN UNCHANGED timer ELSE StopTimer(t)
  /\ timeout' = timeout \ {t}
  /\ Rewait(t)

-----------------------------------------------------------------------------
(* kthread_sleep: start_timer, then INLIST is set and the switch made.     *)

KthreadSleep(t) ==
  /\ Caller(t, "sleep")
  /\ timer' = timer \cup {t} /\ Goto(t, "sleeparm", None)
  /\ UNCHANGED <<runVars, flagVars, mutexVars, timeout, isrVars, cnd,
                 peer, pri, waiting>>

KthreadSleepSwitch(t) ==
  /\ At(t, "sleeparm") /\ Goto(t, "sleep", None)
  /\ UNCHANGED <<flagVars, mutexVars, timerVars, isrVars, cnd, peer, pri,
                 waiting>>
  /\ Switch(th_ready, inlist \cup {t}, TRUE)

KthreadSleepResume(t) ==
  /\ At(t, "sleep") /\ Goto(t, "user", None)
  /\ UNCHANGED <<runVars, flagVars, mutexVars, timerVars, isrVars, cnd, peer,
                 pri, waiting>>

-----------------------------------------------------------------------------
(* The interrupt handler.                                                  *)

Interrupt ==
  /\ ~isr /\ ~panic /\ ~closed /\ pc[th_cur] \in Enabled
  /\ \/ force \/ timer # {} \/ {"isrsignal", "isrbroadcast"} \cap Calls # {}
  /\ isr' = TRUE
  /\ UNCHANGED <<runVars, flagVars, mutexVars, timerVars, force, callVars, pri,
                 waiting>>

(* timer_poll runs in the timer interrupt and inside start_timer.          *)
Polling == ~panic /\ ~closed /\ (isr \/ pc[th_cur] \in Arming)

(* The list the callback of t's timer looks in; kthread_sleep's has none.  *)
Sleeps(t) == pc[t] \in {"sleeparm", "sleep"}
FireList(t) == IF pc[t] \in {"tryarm", "trylock"} THEN mtx[t] ELSE cnd[t]

(* Mutants: the callback does not look, or forgets to make the waiter ready. *)
FireAlwaysWakes(t) == TRUE
FireWakesWaiters(t) == ~Sleeps(t) /\ Contains(waiting[FireList(t)], t)

(* Does the callback put t on the ready list?  A waiter only when it is    *)
(* still on the waiting list.                                              *)
FireWakes(t) == Sleeps(t) \/ Contains(waiting[FireList(t)], t)

(* The one-shot timer of t expires: its callback makes t ready and asks    *)
(* for a switch.  The timer_t is on t's stack.                             *)
TimerFire(t) ==
  /\ Polling /\ t \in timer
  /\ timer' = timer \ {t} /\ force' = TRUE
  /\ timeout' = IF Sleeps(t) THEN timeout ELSE timeout \cup {t}
  /\ waiting' = IF Sleeps(t) THEN waiting
                ELSE [waiting EXCEPT ![FireList(t)] = Unlink(@, t)]
  /\ IF FireWakes(t)
     THEN th_ready' = AddPri(th_ready, t, pri) /\ inlist' = inlist \cup {t}
     ELSE UNCHANGED <<th_ready, inlist>>
  /\ panic' = (life[t] = "freed")
  /\ UNCHANGED <<th_cur, life, all_threads, flagVars, mutexVars, isr,
                 callVars, pri>>

(* Mutant: the test is the wrong way round.                                *)
PreemptsLower(th) == pri[th] < pri[th_cur]

(* Is the thread that a signal wakes more urgent than the running one?     *)
Preempts(th) == pri[th_cur] < pri[th]

(* __kcond_signal_isr and __kcond_broadcast_isr                            *)
KcondSignalIsr(c) ==
  /\ isr /\ ~panic /\ "isrsignal" \in Calls /\ waiting[c] # <<>>
  /\ waiting' = Unlinked(c)
  /\ th_ready' = AddPri(th_ready, Head(waiting[c]), pri)
  /\ force' = (force \/ Preempts(Head(waiting[c])))
  /\ UNCHANGED <<th_cur, inlist, panic, life, all_threads, flagVars, mutexVars,
                 timerVars, isr, callVars, pri>>

KcondBroadcastIsr(c) ==
  /\ isr /\ ~panic /\ "isrbroadcast" \in Calls /\ waiting[c] # <<>>
  /\ waiting' = [waiting EXCEPT ![c] = <<>>]
  /\ th_ready' = Splice(th_ready, waiting[c], pri)
  /\ force' = (force \/ MovedHighPri(waiting[c], pri[th_cur], pri))
  /\ UNCHANGED <<th_cur, inlist, panic, life, all_threads, flagVars, mutexVars,
                 timerVars, isr, callVars, pri>>

(* The end of the handler: a forced switch preempts th_cur.                *)
InterruptEnd ==
  /\ isr /\ ~panic
  /\ isr' = FALSE /\ force' = FALSE
  /\ UNCHANGED <<flagVars, mutexVars, timerVars, callVars, pri, waiting>>
  /\ IF force THEN Schedule(th_ready, inlist, FALSE, TRUE)
              ELSE UNCHANGED runVars

-----------------------------------------------------------------------------
(* Every step of thread t.                                                 *)
Life(t) ==
  \/ KthreadNewInit(t) \/ KthreadYield(t) \/ KthreadYieldSwitch(t)
  \/ KthreadExit(t) \/ KthreadJoinResume(t)
  \/ KthreadSleep(t) \/ KthreadSleepSwitch(t) \/ KthreadSleepResume(t)
  \/ \E u \in Threads :
       \/ KthreadNew(t, u) \/ KthreadSuspend(t, u) \/ KthreadResume(t, u)
       \/ KthreadDetach(t, u) \/ KthreadKill(t, u) \/ KthreadJoinExited(t, u)
       \/ KthreadJoinWait(t, u) \/ KthreadTryJoin(t, u)
       \/ \E p \in Pris : KthreadSetPri(t, u, p)

Sync(t) ==
  \/ KmutexLockResume(t) \/ KmutexTryLockLoop(t)
  \/ KcondWaitResume(t)
  \/ KcondWaitTimeoutSwitch(t) \/ KcondWaitTimeoutResume(t)
  \/ \E m \in Mutexes :
       \/ KmutexLock(t, m) \/ KmutexUnlock(t, m)
       \/ KmutexTryLock(t, m) \/ KmutexTryLockStart(t, m)
  \/ \E c \in Conds :
       \/ KcondSignal(t, c) \/ KcondBroadcast(t, c)
       \/ \E m \in Mutexes \cup {None} :
            KcondWait(t, c, m) \/ KcondWaitTimeout(t, c, m)

Handler ==
  \/ Interrupt \/ InterruptEnd
  \/ \E t \in Threads : TimerFire(t)
  \/ \E c \in Conds : KcondSignalIsr(c) \/ KcondBroadcastIsr(c)

Next ==
  \/ \E t \in Threads : Life(t) \/ Sync(t)
  \/ KernelClose \/ Handler

Spec == Init /\ [][Next]_vars
=============================================================================
