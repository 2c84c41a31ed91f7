SPECIFICATION FairSpec
CONSTANTS
    OneThread = TRUE
    Groups = {"panel", "language_bank"}
    Values = {v1, v2}
    Default = default
    Garbage = garbage
INVARIANTS TypeOK StoppedMeansQuiet ConfigTrusted CalibrationFollows
PROPERTY StopReturns
CHECK_DEADLOCK FALSE
