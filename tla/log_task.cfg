SPECIFICATION FairSpec
CONSTANTS
    Writers <- HighAndLow
    Cap = 5
    Chunk = 2
    MaxLen = 2
    MaxTexts = 3
INVARIANTS LogInv WakeupNotLost
PROPERTIES Emptied
CHECK_DEADLOCK FALSE
