SPECIFICATION Spec
CONSTANTS
    NumWorkers = 2
    RestartLimit = 1
    MaxFd = 10
    MaxClient = 0
    MaxForkFail = 0
INVARIANTS HoldsOwnEnds
CHECK_DEADLOCK FALSE
