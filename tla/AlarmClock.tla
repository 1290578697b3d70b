----------------------------- MODULE AlarmClock -----------------------------
(***************************************************************************)
(* What the timer subsystem promises, whatever COUNT, COMPARE and the list *)
(* of timers look like: a timer that is set rings no earlier than Window   *)
(* ticks before its deadline, once or periodically without drift, and not  *)
(* at all after it has been stopped.                                       *)
(***************************************************************************)
EXTENDS Integers

CONSTANTS
  Timers,
  Delays,  \* the delays and periods timers are set with
  Window,  \* ticks a timer may ring early, to cluster timers
  Behind   \* a timer that is this late is not told from a later one

VARIABLES
  mode,      \* "off", "once" or "again"
  remaining, \* ticks until the deadline of a timer that is set; negative: late
  period

vars == <<mode, remaining, period>>

(* The time left, one tick later.                                          *)
TickDown(r) == IF r > -Behind THEN r - 1 ELSE r

Init ==
  /\ mode = [t \in Timers |-> "off"]
  /\ remaining = [t \in Timers |-> 0] /\ period = [t \in Timers |-> 0]

Set(t, d, m) ==
  /\ mode[t] = "off"
  /\ mode' = [mode EXCEPT ![t] = m]
  /\ remaining' = [remaining EXCEPT ![t] = d]
  /\ period' = [period EXCEPT ![t] = d]

(* A timer can be given its period without being set.                      *)
Prepare(t, d) ==
  /\ mode[t] = "off" /\ period' = [period EXCEPT ![t] = d]
  /\ UNCHANGED <<mode, remaining>>

Stop(t) ==
  /\ mode' = [mode EXCEPT ![t] = "off"]
  /\ remaining' = [remaining EXCEPT ![t] = 0]
  /\ UNCHANGED period

Ring(t) ==
  /\ mode[t] # "off" /\ remaining[t] <= Window
  /\ \/ /\ mode[t] = "once"
        /\ mode' = [mode EXCEPT ![t] = "off"]
        /\ remaining' = [remaining EXCEPT ![t] = 0]
     \/ /\ mode[t] = "again" /\ UNCHANGED mode
        /\ remaining' = [remaining EXCEPT ![t] = @ + period[t]]
  /\ UNCHANGED period

Tick ==
  /\ remaining' = [t \in Timers |->
       IF mode[t] = "off" THEN 0 ELSE TickDown(remaining[t])]
  /\ UNCHANGED <<mode, period>>

Next ==
  \/ Tick
  \/ \E t \in Timers :
       \/ Stop(t) \/ Ring(t)
       \/ \E d \in Delays :
            Set(t, d, "once") \/ Set(t, d, "again") \/ Prepare(t, d)

Spec == Init /\ [][Next]_vars
=============================================================================
