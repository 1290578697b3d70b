SPECIFICATION Spec
CONSTANTS
  main = main
  idle = idle
  a = a
  b = b
  m1 = m1
  m2 = m2
  c1 = c1
  none = none
  Threads = {main, idle, a, b}
  Main = main
  Idle = idle
  Mutexes = {}
  Conds = {c1}
  Recursive = {}
  HeapLock = none
  None = none
  NewPri <- Spread
  Pris <- Pris2
  CounterSpan = 256
  MaxHeld = 1
  Debug = FALSE
  Calls = {"new", "set_pri", "yield", "wait", "waittimeout", "sleep", "isrsignal", "isrbroadcast", "signal", "exit", "detach", "join", "joinwait", "try_join", "close"}
CHECK_DEADLOCK FALSE
INVARIANTS NoLostThread HighestRuns CountIsExact NoFreedThreadLinked JoinWaitsForExit
