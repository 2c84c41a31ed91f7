SPECIFICATION FairSpec
CONSTANTS
    Timeout = 3
    MaxQueue = 2
INVARIANTS TypeOK StaleNotForgotten
PROPERTY SilenceDetected
CHECK_DEADLOCK FALSE
