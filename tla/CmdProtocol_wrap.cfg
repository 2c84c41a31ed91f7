SPECIFICATION Spec
CONSTANTS
    NumQueries = 2
    SeqIdMod = 1
    MaxRetries = 2
    Fds = {f1, f2, f3}
    NULL = NULL
SYMMETRY FdSymmetry
INVARIANT CallbackOnce
CHECK_DEADLOCK FALSE
