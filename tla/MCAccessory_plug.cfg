SPECIFICATION Spec
CONSTANTS
  Paks = {"single", "multi", "rumble", "transfer", "snap"}
  Calls = {"read", "write", "edit", "bank1"}
  RetryLimit = 1
  MaxRumbles = 1
  MaxHands = 2
  Careful = TRUE
CHECK_DEADLOCK FALSE
INVARIANTS Recognised PakAsFound AwaitedIsUnderWay
PROPERTIES WrittenIsStored
