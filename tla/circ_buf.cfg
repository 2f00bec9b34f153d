SPECIFICATION RingSpec
CONSTANTS
    Size = 8
    MaxWrite = 9
    MaxRead = 5
    MaxBytes = 40
PROPERTIES DropsOldestOnly
CHECK_DEADLOCK FALSE
