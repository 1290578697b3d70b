-------------------------- MODULE KernelProperties --------------------------
(***************************************************************************)
(* What the kernel promises, and the fairness under which it keeps its     *)
(* liveness promises.                                                      *)
(***************************************************************************)
EXTENDS Kernel

(* No assertion of kernel.c fails, the scheduler always finds a thread to  *)
(* run and no memory of a freed thread is written, whatever the order of   *)
(* calls, expiring timers and interrupts.                                  *)
NoPanic == ~panic

(* A thread that has neither exited nor been killed.                       *)
Working(t) ==
  life[t] = "live" /\ t \notin zombie \cup waitforjoin /\ pc[t] # "dead"

(* The nodes that hold t: None stands for th_ready.                        *)
Links(t) ==
  {<<None, i>> : i \in {j \in 1 .. Len(th_ready) : th_ready[j] = t}}
  \cup UNION {{<<l, i>> : i \in {j \in 1 .. Len(waiting[l]) : waiting[l][j] = t}}
              : l \in Mutexes \cup Conds}

(* Nothing but its timer will wake t.                                      *)
Asleep(t) == pc[t] = "sleep" /\ t \in timer

(***************************************************************************)
(* Every thread has one `next' link: it is a node of at most one list, and *)
(* TH_FLAG_INLIST says whether it is one.  kthread_sleep sets the flag for *)
(* a thread that only its timer refers to.                                 *)
(***************************************************************************)
LinkedOnce ==
  \A t \in Threads :
    Cardinality(Links(t)) = IF t \in inlist /\ ~Asleep(t) THEN 1 ELSE 0

(***************************************************************************)
(* No thread is lost: one that works and is not running is ready, waits in *)
(* a list, sleeps with its timer armed or waits for a thread that works.   *)
(* (Whoever joins a thread that is detached meanwhile is forgotten.)       *)
(***************************************************************************)
NoLostThread ==
  \A t \in Threads :
    Working(t) /\ t # th_cur =>
      \/ Links(t) # {} \/ Asleep(t)
      \/ /\ pc[t] = "join" /\ joiner[peer[t]] = t
         /\ Working(peer[t]) \/ peer[t] \in detached

(* Nobody sleeps on a free mutex: kmutex_unlock leaves no waiter behind,   *)
(* however many lock attempts time out in between.                         *)
NoWaiterOnFreeMutex ==
  \A m \in Mutexes : waiting[m] # <<>> => owner[m] # None

(* A mutex belongs to the one thread that was granted it and has not       *)
(* released it, and its counter is the number of unlocks still due.        *)
MutualExclusion ==
  \A m \in Mutexes, t \in Threads :
    held[t][m] = IF owner[m] = t THEN counter[m] ELSE 0

(* Priority inheritance: whoever holds a mutex has at least the priority   *)
(* of every thread that waits for it.                                      *)
OwnerInherits ==
  \A m \in Mutexes : \A i \in 1 .. Len(waiting[m]) :
    pri[owner[m]] >= pri[waiting[m][i]]

(* An inherited priority ends with the lock it was inherited for: a thread *)
(* that holds no mutex has the priority it was created with.               *)
PriorityRestored ==
  \A t \in Threads :
    (\A m \in Mutexes : held[t][m] = 0) => pri[t] = NewPri[t]

(* An armed timer_t lies on the stack of a live thread that is still in    *)
(* the call that started it: timer_poll never follows a dangling pointer.  *)
TimersOnLiveStacks ==
  \A t \in timer :
    /\ life[t] = "live"
    /\ pc[t] \in Arming \cup {"trylock", "condtimed", "sleep"}

(* "Any thread with high priority that is ready will always have priority  *)
(* over lower priority threads": no ready thread has a higher priority     *)
(* than the one that runs its own code, unless a switch is already due.    *)
(* kthread_set_pri neither sorts th_ready again nor switches, so this is   *)
(* said of the states before the first such call.                          *)
HighestRuns ==
  /\ pri = [t \in Threads |-> NewPri[t]]
  /\ pc[th_cur] = "user" /\ ~isr /\ ~force /\ ~panic
  =>
    \A i \in 1 .. Len(th_ready) : pri[th_ready[i]] <= pri[th_cur]

(* th_count is the number of threads that kernel_close still waits for.    *)
CountIsExact ==
  ~closed => th_count = Cardinality({t \in Threads : Working(t)})

(* No list and no CPU holds a thread whose memory was freed.               *)
NoFreedThreadLinked ==
  ~closed => \A t \in Threads :
    life[t] = "freed" => Links(t) = {} /\ th_cur # t

(* kthread_join returns no earlier than the thread it waits for has ended. *)
JoinWaitsForExit ==
  \A t \in Threads : th_cur = t /\ pc[t] = "join" => ~Working(peer[t])

(* A context switch goes to a live thread that has not exited and is not   *)
(* suspended, and the running thread is in no list.                        *)
SwitchesToRunnable ==
  [][/\ ~panic' /\ th_cur' # th_cur =>
          /\ life'[th_cur'] = "live"
          /\ th_cur' \notin waitforjoin' \cup suspended'
     /\ ~panic' => th_cur' \notin inlist' \/ pc'[th_cur'] \in Arming]_vars

-----------------------------------------------------------------------------
(* What the documentation says and the code does not do.                   *)

(* kernel.h: a suspended thread is not scheduled "until it is resumed":    *)
(* once resumed it can be scheduled again.                                 *)
ResumedComesBack ==
  \A t \in Threads \ suspended :
    Working(t) /\ t # th_cur => Links(t) # {} \/ Asleep(t)

-----------------------------------------------------------------------------
(* Liveness.                                                               *)

(* What the CPU does once thread t runs: it finishes the call t is in.     *)
Finishes(t) ==
  /\ Runs(t) /\ pc[t] # "user"
  /\ \/ KthreadNewInit(t) \/ (pc[t] = "check" /\ KthreadYield(t))
     \/ KthreadYieldSwitch(t) \/ KthreadJoinResume(t)
     \/ KthreadSleepSwitch(t) \/ KthreadSleepResume(t)
     \/ KmutexLockResume(t) \/ KmutexTryLockLoop(t) \/ KcondWaitResume(t)
     \/ KcondWaitTimeoutSwitch(t) \/ KcondWaitTimeoutResume(t)

(***************************************************************************)
(* A thread that is given the CPU again and again executes, for interrupts *)
(* do not come faster than instructions; a pending interrupt is taken when *)
(* interrupts are enabled (strong fairness: short sections with interrupts *)
(* disabled do not hide it for ever), and handlers end.  Time passes: the  *)
(* deadline of an armed timer is reached, and as the timer interrupt stays *)
(* pending until then, a poll fires it.                                    *)
(***************************************************************************)
Hardware ==
  /\ \A t \in Threads \ {Idle} : SF_vars(Finishes(t))
  /\ SF_vars(Interrupt) /\ WF_vars(InterruptEnd)
  /\ \A t \in Threads \ {Idle} : []<>(t \notin timer \/ panic \/ closed)

(***************************************************************************)
(* The program: a thread that runs its own code yields sooner or later,    *)
(* and one that does so again and again unlocks the mutex it holds.        *)
(***************************************************************************)
Program ==
  /\ WF_vars(\E t \in Threads : Caller(t, "yield") /\ KthreadYield(t))
  /\ \A m \in Mutexes : SF_vars(\E t \in Threads : KmutexUnlock(t, m))

LiveSpec == Spec /\ Hardware /\ Program

(* No thread was created with a higher priority.                           *)
Top(t) == t # Idle /\ \A u \in Threads : NewPri[t] >= NewPri[u]

(* Threads of highest priority take turns: none of them, once ready, waits *)
(* for the CPU for ever, and whoever waits for a mutex is woken and runs   *)
(* to try again, whichever others lock it meanwhile.  (That it then gets   *)
(* the mutex is not promised: two threads that lock and unlock it in turn  *)
(* can keep a third one from it for ever, see kmutex_unlock_internal.)     *)
RoundRobin ==
  \A t \in Threads :
    Top(t) => (Contains(th_ready, t) \/ pc[t] = "lock") ~> th_cur = t

(* Such a thread comes out of a sleep, a lock with a timeout or a wait with *)
(* a timeout some time: it is back in its own code, or at most waits for   *)
(* the mutex that the wait gave up.                                        *)
TopWakesUp ==
  \A t \in Threads :
    Top(t) =>
      pc[t] \in {"sleep", "condtimed", "trylock"} ~> pc[t] \in {"user", "lock"}
=============================================================================
