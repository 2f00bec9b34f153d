SPECIFICATION FairSpec
CONSTANTS
    Queriers <- BmsAgvcp
    MaxCharges = 1
    Limit = 3
    Period = 1
    Wrap = 6
    MaxEvts = 2
INVARIANTS WatchInv FlagAgrees
PROPERTIES AlarmTakenBack SilenceAlarmed
CHECK_DEADLOCK FALSE
