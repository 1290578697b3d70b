SPECIFICATION Spec
CONSTANTS
  main = main
  idle = idle
  a = a
  b = b
  m1 = m1
  m2 = m2
  c1 = c1
  none = none
  Threads = {main, idle, a, b}
  Main = main
  Idle = idle
  Mutexes = {m1}
  Conds = {c1}
  Recursive = {}
  HeapLock = m1
  None = none
  NewPri <- Rising
  Pris <- NoPris
  CounterSpan = 256
  MaxHeld = 1
  Debug = TRUE
  Calls = {"new", "kill", "detach", "lock", "wait", "signal", "exit", "suspend"}
CHECK_DEADLOCK FALSE
PROPERTIES SwitchesToRunnable
