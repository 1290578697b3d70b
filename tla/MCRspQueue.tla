----------------------------- MODULE MCRspQueue -----------------------------
EXTENDS RspQueueProperties

CONSTANTS LowCommands, HighCommands
Issues == [low |-> LowCommands, high |-> HighCommands]
=============================================================================
