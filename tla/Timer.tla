-------------------------------- MODULE Timer --------------------------------
(***************************************************************************)
(* The timer subsystem (src/src/timer.c): a list of timers served by the   *)
(* one hardware comparator of the CPU, which requests an interrupt when    *)
(* the free-running COUNT register reaches COMPARE.  Time passes in ticks, *)
(* in user code, while callbacks run, between the passes of timer_poll and *)
(* in the sections of the program with interrupts disabled.                *)
(***************************************************************************)
EXTENDS Integers, FiniteSets, SequencesExt

CONSTANTS
  Timers,   \* timer_link_t objects
  None,     \* NULL
  Span,     \* COUNT and COMPARE are registers of 32 bits: 2^32
  Window,   \* TIMER_TICKS(5), the window that clusters timers
  Delays,   \* delays and periods, in ticks
  Latency,  \* bound: ticks between the last pass of a poll and its end
  Slow,     \* bound: ticks spent in a row with interrupts disabled
  Calls     \* the optional calls the program of this instance makes

ASSUME TimerAssumption ==
  /\ None \notin Timers
  /\ Span \in Nat /\ Span % 2 = 0 /\ Span > 0
  /\ Window \in Nat /\ Latency \in Nat /\ Slow \in Nat
  /\ Latency <= Window
  /\ Latency + Window < Span \div 2
  /\ 2 * Slow + Window < Span \div 2
  /\ Delays \subseteq 1 .. (Span \div 2 - 1)

VARIABLES
  count, compare, \* the COP0 registers
  pending,        \* the timer interrupt is requested
  enabled,        \* interrupts are enabled in user code
  TI_timers,
  left, set, continuous, disabled,  \* the fields of the timers
  stage,          \* "user", or where timer_poll is: "pass", "callback",
                  \* "read" or "write", or stop_timer: "stopping", "stopped"
  head, last,     \* the two timers __proc_timers holds on to in a callback
  now,            \* the time they pass to timer_update_compare
  masked,         \* ticks since interrupts were disabled
  lag,            \* ticks since the last pass
  remaining,      \* history: ticks until a set timer is due
  missed          \* history: a timer that was due was overlooked when COMPARE
                  \* was written, and the list has not been empty since

hardware == <<count, compare, pending>>
fields   == <<left, set, continuous, disabled>>
walk     == <<stage, head, last, now>>
delay    == <<masked, lag>>
vars == <<hardware, enabled, TI_timers, fields, walk, delay, remaining, missed>>

Ticks == 0 .. (Span - 1)

TypeOK ==
  /\ count \in Ticks /\ compare \in Ticks /\ pending \in BOOLEAN
  /\ enabled \in BOOLEAN
  /\ TI_timers \in Seq(Timers)
  /\ left \in [Timers -> Ticks] /\ set \in [Timers -> Delays \cup {0}]
  /\ continuous \subseteq Timers /\ disabled \subseteq Timers
  /\ stage \in {"user", "pass", "callback", "read", "write",
                "stopping", "stopped"}
  /\ head \in Timers \cup {None} /\ last \in Timers \cup {None}
  /\ now \in Ticks /\ masked \in 0 .. Slow /\ lag \in 0 .. Latency
  /\ remaining \in [Timers -> Int] /\ missed \in BOOLEAN

(* timer_init                                                              *)
Init ==
  /\ count = 0 /\ compare = 0 /\ pending = FALSE /\ enabled = TRUE
  /\ TI_timers = <<>>
  /\ left = [t \in Timers |-> 0] /\ set = [t \in Timers |-> 0]
  /\ continuous = {} /\ disabled = {}
  /\ stage = "user" /\ head = None /\ last = None /\ now = 0
  /\ masked = 0 /\ lag = 0
  /\ remaining = [t \in Timers |-> 0] /\ missed = FALSE

-----------------------------------------------------------------------------
(* Time.                                                                   *)

(* TICKS_DISTANCE: the difference as a signed integer.                     *)
TICKS_DISTANCE(from, to) ==
  LET d == (to - from) % Span IN IF d < Span \div 2 THEN d ELSE d - Span

Linked(t) == Contains(TI_timers, t)

(* t is set: its deadline is still to come or has been overlooked.  A      *)
(* one-shot timer whose callback runs is still linked, but no longer set.  *)
IsSet(t) ==
  Linked(t) /\ ~(stage = "callback" /\ head = t /\ t \notin continuous)

TickDown(r) == IF r > -(Span \div 2) THEN r - 1 ELSE r

Tick ==
  /\ \/ stage = "user" /\ enabled /\ ~pending /\ UNCHANGED delay
     \/ /\ \/ stage = "user" /\ ~enabled
           \/ stage \in {"pass", "callback", "stopping", "stopped"}
        /\ masked < Slow /\ masked' = masked + 1 /\ UNCHANGED lag
     \/ /\ stage \in {"read", "write"}
        /\ lag < Latency /\ lag' = lag + 1 /\ UNCHANGED masked
  /\ count' = (count + 1) % Span
  /\ pending' = (pending \/ count' = compare)
  /\ remaining' = [t \in Timers |->
                     IF IsSet(t) THEN TickDown(remaining[t]) ELSE 0]
  /\ UNCHANGED <<compare, enabled, TI_timers, fields, walk, missed>>

-----------------------------------------------------------------------------
(* timer_update_compare(list, at): COMPARE is set to the deadline that     *)
(* comes first after `at'; writing it withdraws a pending request.         *)

Lefts(list, lefts, at) == {(lefts[list[i]] - at) % Span : i \in 1 .. Len(list)}

Smallest(S) == CHOOSE d \in S : \A e \in S : d <= e

UpdateCompare(list, lefts, at) ==
  /\ compare' = (at + Smallest(Lefts(list, lefts, at) \cup {Span - 1})) % Span
  /\ pending' = FALSE

(* A deadline that has passed is taken for one almost Span ticks away: it  *)
(* is overlooked if there is another one to come.  If no pass of timer_poll*)
(* follows, one that has come when COMPARE is written is overlooked in any *)
(* case: COUNT is past it.                                                 *)
Overdue(list, rem) == \E i \in 1 .. Len(list) : rem[list[i]] < 0
ToCome(list, rem)  == \E i \in 1 .. Len(list) : rem[list[i]] >= 0
DueNow(list, rem)  == \E i \in 1 .. Len(list) : rem[list[i]] = 0

Overlooks(list, rem) == Overdue(list, rem) /\ ToCome(list, rem)
Late(list, rem) == Overdue(list, rem) \/ DueNow(list, rem)

(* User code runs: an enabled pending interrupt is taken first.            *)
InUser == stage = "user" /\ ~(enabled /\ pending)

(* The fields of t are set and t is linked at the head of the list; then   *)
(* COMPARE is updated and timer_poll runs.  The ticks between the read of  *)
(* COUNT and the write of COMPARE are those of the pass that follows: it   *)
(* tests the deadlines against the value written, whenever that was.       *)
LinkAndPoll(t, d) ==
  /\ left' = [left EXCEPT ![t] = (count + d) % Span]
  /\ set' = [set EXCEPT ![t] = d]
  /\ disabled' = disabled \ {t}
  /\ TI_timers' = <<t>> \o TI_timers
  /\ UpdateCompare(TI_timers', left', count)
  /\ stage' = "pass"
  /\ remaining' = [remaining EXCEPT ![t] = d]
  /\ missed' = (missed \/ Overlooks(TI_timers', remaining'))
  /\ UNCHANGED <<count, enabled, head, last, now, delay>>

(* start_timer, and new_timer when t has just been allocated, of a timer   *)
(* that is not in the list.                                                *)
StartTimer(t, d, cont) ==
  /\ InUser /\ ~Linked(t)
  /\ continuous' = IF cont THEN continuous \cup {t} ELSE continuous \ {t}
  /\ LinkAndPoll(t, d)

(* The same with TF_DISABLED: only the fields are set.                     *)
StartDisabled(t, d, cont) ==
  /\ InUser /\ ~Linked(t) /\ "disabled" \in Calls
  /\ continuous' = IF cont THEN continuous \cup {t} ELSE continuous \ {t}
  /\ left' = [left EXCEPT ![t] = (count + d) % Span]
  /\ set' = [set EXCEPT ![t] = d]
  /\ disabled' = disabled \cup {t}
  /\ UNCHANGED <<hardware, enabled, TI_timers, walk, delay, remaining, missed>>

(* restart_timer of a timer that was stopped or has expired.               *)
RestartTimer(t) ==
  /\ InUser /\ ~Linked(t) /\ set[t] # 0 /\ "restart" \in Calls
  /\ LinkAndPoll(t, set[t])
  /\ UNCHANGED continuous

(* stop_timer; delete_timer, too, before it frees the memory.  The loop    *)
(* takes out the first node that is t.                                     *)
Unlink(t) ==
  /\ TI_timers' = RemoveFirst(TI_timers, t)
  /\ disabled' = disabled \cup {t}
  /\ remaining' = [remaining EXCEPT ![t] = 0]

StopTimer(t) ==
  /\ InUser /\ set[t] # 0 /\ Unlink(t)
  /\ stage' = "stopping"
  /\ missed' = (missed /\ TI_timers' # <<>>)
  /\ UNCHANGED <<hardware, enabled, left, set, continuous, head, last, now,
                 delay>>

(* It reads the time ...                                                   *)
StopReads ==
  /\ stage = "stopping" /\ stage' = "stopped" /\ now' = count
  /\ UNCHANGED <<hardware, enabled, TI_timers, fields, head, last, delay,
                 remaining, missed>>

(* ... walks the list and writes COMPARE, without a pass of timer_poll: a  *)
(* timer that has become due since interrupts were disabled is overlooked, *)
(* although it was not overdue when stop_timer was called.                 *)
StopWrites ==
  /\ stage = "stopped" /\ stage' = "user"
  /\ UpdateCompare(TI_timers, left, now)
  /\ missed' = (missed \/ Late(TI_timers, remaining))
  /\ now' = 0 /\ masked' = IF enabled THEN 0 ELSE masked
  /\ UNCHANGED <<count, enabled, TI_timers, fields, head, last, lag, remaining>>

(* The user's own critical sections.                                       *)
DisableInterrupts ==
  /\ InUser /\ enabled /\ "disable" \in Calls
  /\ enabled' = FALSE
  /\ UNCHANGED <<hardware, TI_timers, fields, walk, delay, remaining, missed>>

EnableInterrupts ==
  /\ stage = "user" /\ ~enabled
  /\ enabled' = TRUE /\ masked' = 0
  /\ UNCHANGED <<hardware, TI_timers, fields, walk, lag, remaining, missed>>

-----------------------------------------------------------------------------
(* The interrupt handler writes COMPARE to itself, which acknowledges the  *)
(* request, and calls timer_poll.                                          *)
Interrupt ==
  /\ stage = "user" /\ enabled /\ pending
  /\ pending' = FALSE /\ stage' = "pass"
  /\ UNCHANGED <<count, compare, enabled, TI_timers, fields, head, last, now,
                 delay, remaining, missed>>

(* Mutant: no window after COUNT.                                          *)
ExpiredLate(t) ==
  /\ t \notin disabled
  /\ TICKS_DISTANCE(compare, left[t]) >= 0
  /\ TICKS_DISTANCE(left[t], count) >= 0

(* The test of __proc_timers; start is the value of COMPARE.               *)
Expired(t) ==
  /\ t \notin disabled
  /\ TICKS_DISTANCE(compare, left[t]) >= 0
  /\ TICKS_DISTANCE(left[t], (count + Window) % Span) >= 0

ExpiredAt == {i \in 1 .. Len(TI_timers) : Expired(TI_timers[i])}

(* One pass that finds an expired timer, up to the call of its callback.   *)
CallBack ==
  /\ stage = "pass" /\ ExpiredAt # {}
  /\ stage' = "callback"
  /\ LET i == Smallest(ExpiredAt)
         t == TI_timers[i]
     IN  /\ head' = t
         /\ last' = IF i = 1 THEN None ELSE TI_timers[i - 1]
         /\ remaining' = [remaining EXCEPT ![t] =
                            IF t \in continuous THEN @ + set[t] ELSE 0]
  /\ UNCHANGED <<hardware, enabled, TI_timers, fields, now, delay, missed>>

(* The callback stops a timer: its own, or another one.  A pass follows,   *)
(* and the last one is followed by WriteCompare: the ticks between the read*)
(* of COUNT and the write of COMPARE are those of the callback.            *)
StopInCallback(t) ==
  /\ stage = "callback" /\ set[t] # 0 /\ t \notin disabled
  /\ \/ t = head /\ "selfstop" \in Calls
     \/ "cbstop" \in Calls
  /\ Unlink(t) /\ UpdateCompare(TI_timers', left, count)
  /\ missed' = /\ TI_timers' # <<>>
               /\ (missed \/ Overlooks(TI_timers', remaining))
  /\ UNCHANGED <<count, enabled, left, set, continuous, walk, delay>>

(* What is left when the one-shot timer head is taken off: last->next is   *)
(* set, whether last is still in the list or not.                          *)
WithoutHead ==
  IF last = None \/ Linked(last)
  THEN RemoveFirst(TI_timers, head) ELSE TI_timers

(* Mutants: the next deadline is counted from now, or does not wrap.       *)
NextDrifts(t) == (count + set[t]) % Span
NextUnwrapped(t) == left[t] + set[t]

NextDeadline(t) == (left[t] + set[t]) % Span

(* The callback returns.                                                   *)
CallBackReturns ==
  /\ stage = "callback"
  /\ \/ /\ head \in disabled /\ UNCHANGED <<TI_timers, left>>
     \/ /\ head \notin disabled /\ head \in continuous
        /\ left' = [left EXCEPT ![head] = NextDeadline(head)]
        /\ UNCHANGED TI_timers
     \/ /\ head \notin disabled \cup continuous
        /\ TI_timers' = WithoutHead /\ UNCHANGED left
  /\ stage' = "pass" /\ head' = None /\ last' = None
  /\ missed' = (missed /\ TI_timers' # <<>>)
  /\ UNCHANGED <<hardware, enabled, set, continuous, disabled, now, delay,
                 remaining>>

(* A pass that finds none is the last one: timer_poll reads the time ...   *)
LastPass ==
  /\ stage = "pass" /\ ExpiredAt = {}
  /\ stage' = "read"
  /\ UNCHANGED <<hardware, enabled, TI_timers, fields, head, last, now, delay,
                 remaining, missed>>

ReadTime ==
  /\ stage = "read" /\ stage' = "write" /\ now' = count
  /\ UNCHANGED <<hardware, enabled, TI_timers, fields, head, last, delay,
                 remaining, missed>>

(* ... and writes COMPARE.                                                 *)
WriteCompare ==
  /\ stage = "write" /\ stage' = "user"
  /\ UpdateCompare(TI_timers, left, now)
  /\ now' = 0 /\ lag' = 0 /\ masked' = IF enabled THEN 0 ELSE masked
  /\ UNCHANGED <<count, enabled, TI_timers, fields, head, last, remaining,
                 missed>>

-----------------------------------------------------------------------------
Next ==
  \/ Tick \/ Interrupt \/ CallBack \/ CallBackReturns
  \/ LastPass \/ ReadTime \/ WriteCompare \/ StopReads \/ StopWrites
  \/ DisableInterrupts \/ EnableInterrupts
  \/ \E t \in Timers :
       \/ RestartTimer(t) \/ StopTimer(t) \/ StopInCallback(t)
       \/ \E d \in Delays, cont \in BOOLEAN :
            StartTimer(t, d, cont) \/ StartDisabled(t, d, cont)

Spec == Init /\ [][Next]_vars
=============================================================================
