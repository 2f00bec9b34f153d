SPECIFICATION Spec
CONSTANTS
    MaxCmds = 3
    MaxInputs = 1
    CmdBlocks = 1
    EvtBlocks = 2
    Actions <- OneOfEachKind
    Alarms <- AllAlarms
INVARIANTS PoolsConserved OnePlace
CHECK_DEADLOCK FALSE
