SPECIFICATION FairTurnSpec
CONSTANTS
    Quarter = 8
    StopAt = 1
    SlowAt = 4
    MissLimit = 3
    MaxTurns = 3
INVARIANTS TurnInv
PROPERTIES SilenceSlows TurnEnds
CHECK_DEADLOCK FALSE
