SPECIFICATION FairSpec
CONSTANTS
    MaxCmds = 4
    MaxPath = 2
    Acts <- RoutesTurns
    Window = 2
    MaxStrays = 1
    WpSlots = 8
INVARIANTS CodesChecked RouteLocked ContiguousAccepted
PROPERTIES EveryActionOver
CHECK_DEADLOCK FALSE
