\* Three workers, so that a restart of one can leave a low number free that a
\* client of another is given, and a batch of events that is not of this moment;
\* numbers for a restart while a client of another worker is connected.
SPECIFICATION Spec
CONSTANTS
    NumWorkers = 3
    RestartLimit = 1
    MaxFd = 12
    MaxClient = 1
    MaxForkFail = 1
INVARIANTS EndsKept HoldsOwnEndsAtFirst HangupMeansDeath
CHECK_DEADLOCK FALSE
