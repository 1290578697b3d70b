SPECIFICATION LiveSpec
CONSTANTS
  main = main
  idle = idle
  a = a
  b = b
  m1 = m1
  m2 = m2
  c1 = c1
  none = none
  Threads = {main, idle, a, b}
  Main = main
  Idle = idle
  Mutexes = {m1}
  Conds = {c1}
  Recursive = {}
  HeapLock = none
  None = none
  NewPri <- Equal
  Pris <- NoPris
  CounterSpan = 256
  MaxHeld = 1
  Debug = FALSE
  Calls = {"new", "yield", "sleep", "lock", "trylock", "waittimeout"}
CHECK_DEADLOCK FALSE
PROPERTIES TopWakesUp RoundRobin
