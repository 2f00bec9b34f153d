SPECIFICATION FairSpec
CONSTANTS
    Size = 2
    FifoDepth = 3
    MaxFrames = 7
INVARIANTS RingInv InOrder
PROPERTIES DropsOldestOnly EveryFrameServed
CHECK_DEADLOCK FALSE
