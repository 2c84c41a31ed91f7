SPECIFICATION Spec
CONSTANTS
    Callers = {c1, c2}
    MaxRetries = 2
    Fds = {3, 4, 5}
    NULL = NULL
SYMMETRY CallerSymmetry
INVARIANT AssertsHold
CHECK_DEADLOCK FALSE
