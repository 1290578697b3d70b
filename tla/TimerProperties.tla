--------------------------- MODULE TimerProperties ---------------------------
(* What the timer subsystem promises: the deadlines, and the abstract      *)
(* alarm clock it implements.                                              *)
EXTENDS Timer

(* The program is in its own code and no interrupt is due.                 *)
Quiet == stage = "user" /\ enabled /\ ~pending

(***************************************************************************)
(* No deadline is missed: when the program goes on with interrupts enabled *)
(* after timer_poll or stop_timer, every timer in the list is due later,   *)
(* although callbacks were slow, other timers expired meanwhile and COMPARE*)
(* was written after the time was read.  Excepted is `missed': a timer was *)
(* overdue when start_timer wrote COMPARE, or due when stop_timer did.     *)
(***************************************************************************)
DeadlinesMet ==
  Quiet /\ ~missed => \A t \in Timers : Linked(t) => remaining[t] > 0

(***************************************************************************)
(* The abstract clock: a timer rings no earlier than Window ticks before   *)
(* its deadline, never after it was stopped, once per start if it is a     *)
(* one-shot timer and at multiples of its period otherwise.                *)
(***************************************************************************)
Alarm == INSTANCE AlarmClock WITH
  mode <- [t \in Timers |->
             CASE ~IsSet(t) -> "off"
               [] IsSet(t) /\ t \in continuous -> "again"
               [] OTHER -> "once"],
  period <- set,
  Behind <- Span \div 2

KeepsAlarmClock == Alarm!Spec
=============================================================================
