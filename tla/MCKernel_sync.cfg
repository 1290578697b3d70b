SPECIFICATION Spec
CONSTANTS
  main = main
  idle = idle
  a = a
  b = b
  m1 = m1
  m2 = m2
  c1 = c1
  none = none
  Threads = {main, idle, a, b}
  Main = main
  Idle = idle
  Mutexes = {m1}
  Conds = {c1}
  Recursive = {m1}
  HeapLock = none
  None = none
  NewPri <- Paired
  Pris <- NoPris
  CounterSpan = 256
  MaxHeld = 2
  Debug = TRUE
  Calls = {"new", "lock", "trylock", "wait", "waittimeout", "signal", "broadcast", "isrsignal"}
CHECK_DEADLOCK FALSE
INVARIANTS TypeOK NoPanic MutualExclusion NoWaiterOnFreeMutex OwnerInherits PriorityRestored LinkedOnce TimersOnLiveStacks
