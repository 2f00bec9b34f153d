SPECIFICATION Spec
CONSTANTS
    RxSize = 2
    Size = 6
    MAX_ARGS = 2
    Keys <- Keyboard
    MaxKeys = 8
PROPERTIES AsTyped
CHECK_DEADLOCK FALSE
