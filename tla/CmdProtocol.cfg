SPECIFICATION FairSpec
CONSTANTS
    NumQueries = 2
    SeqIdMod = 2
    MaxRetries = 2
    Fds = {f1, f2, f3}
    NULL = NULL
INVARIANTS TypeOK TimersMatch CallbackOnce AnswersMatch SendBudget NoAssertFails
PROPERTIES QueryAnswered ImplementsQueryService
CHECK_DEADLOCK FALSE
