SPECIFICATION FairSpec
CONSTANTS
    MaxCmds = 3
    MaxInputs = 1
    CmdBlocks = 2
    EvtBlocks = 8
    Actions <- RouteActions
    Alarms <- OnlyBms
INVARIANTS WakeupPending StatusAgrees
PROPERTIES AgvStartsInOrder EveryCommandTaken
CHECK_DEADLOCK FALSE
