SPECIFICATION Spec
CONSTANTS
  main = main
  idle = idle
  a = a
  b = b
  m1 = m1
  m2 = m2
  c1 = c1
  none = none
  Threads = {main, idle, a}
  Main = main
  Idle = idle
  Mutexes = {}
  Conds = {}
  Recursive = {}
  HeapLock = none
  None = none
  NewPri <- Equal
  Pris <- NoPris
  CounterSpan = 256
  MaxHeld = 1
  Debug = TRUE
  Calls = {"new", "suspend", "yield"}
CHECK_DEADLOCK FALSE
INVARIANTS ResumedComesBack
