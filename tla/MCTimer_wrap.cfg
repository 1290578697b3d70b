SPECIFICATION Spec
CONSTANTS
  t1 = t1
  t2 = t2
  t3 = t3
  None = None
  Timers = {t1, t2}
  Span = 8
  Window = 1
  Delays = {1, 3}
  Latency = 1
  Slow = 1
  Calls = {"disable", "restart", "disabled", "selfstop"}
INVARIANTS TypeOK DeadlinesMet
PROPERTIES KeepsAlarmClock
SYMMETRY Symmetry
