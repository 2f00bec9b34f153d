SPECIFICATION FairSpec
CONSTANTS
    D = 10
    Near = 6
    MaxRoutes = 3
    MaxCodes = 2
    Dirty <- OneDirty
    MaxSlips = 1
    Size = 2
INVARIANTS RunInv StopsAtDestination LostTrackJudged FilterInv
PROPERTIES RunEnds
CHECK_DEADLOCK FALSE
