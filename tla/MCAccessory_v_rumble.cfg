SPECIFICATION Spec
CONSTANTS
  Paks = {"multi", "rumble"}
  Calls = {}
  RetryLimit = 1
  MaxRumbles = 1
  MaxHands = 2
  Careful = TRUE
CHECK_DEADLOCK FALSE
INVARIANTS SupportedMeansRumble
