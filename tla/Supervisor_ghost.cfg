SPECIFICATION FairSpec
CONSTANTS
    NumWorkers = 1
    RestartLimit = 0
    FiniAnswers <- AtOnce
    CntMod = 256
    MaxPid = 1
    LosesTo = {}
    StaleFor = {}
PROPERTIES WaitEnds
CHECK_DEADLOCK FALSE
