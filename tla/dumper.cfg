SPECIFICATION FairSpec
CONSTANTS
    Angle = 2
    Hold = 2
    Wrap = 16
    MaxCmds = 5
INVARIANTS DumperInv StandsWhileUp
PROPERTIES UnloadsEnd
CHECK_DEADLOCK FALSE
