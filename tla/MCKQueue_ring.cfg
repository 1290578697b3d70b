SPECIFICATION Spec
CONSTANTS
  a = a
  b = b
  c = c
  x = x
  y = y
  none = none
  None = none
  Threads = {a, b, c}
  Elements = {x, y}
  Size = 2
  Calls = {"timed", "isr"}
INVARIANTS TypeOK NoLostWakeup
PROPERTIES IsChannel
SYMMETRY Symmetry
CHECK_DEADLOCK FALSE
