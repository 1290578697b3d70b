SPECIFICATION Spec
CONSTANTS
    LowSize = 21
    HighSize = 18
    MaxShort = 11
    MaxCommand = 16
    CmdWords = 6
    LowCommands = 2
    HighCommands = 2
    MaxIssued <- Issues
    Modest = TRUE
    Prompt = TRUE
INVARIANTS TypeOK ClearedUnused SyncpointsExact SleepsOnlyDone
PROPERTIES HighSyncWaits ImplementsQueues
