SPECIFICATION FairSpec
CONSTANTS
    Repeated = {timer}
    OneShot = {first, second, third}
    Stop = stop
    NULL = null
    Fds = {3, 4, 5, 6}
    StopFd = 3
    MaxFirings = 2
    MaxStarts = 1
INVARIANT TypeOK
PROPERTIES StopReturns ReadyHandled RunsOnlyWhenDue QuietAfterStop
CHECK_DEADLOCK FALSE
