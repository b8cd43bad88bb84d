\* Two workers that die at any time; processes enough for the second to be given
\* up, and the first to lose an end by it and be replaced alive, or the second to
\* be by an event that is not its own.  Requests to stop; fini_service may ask
\* for time.
SPECIFICATION FairSpec
CONSTANTS
    NumWorkers = 2
    RestartLimit = 2
    FiniAnswers <- InTime
    CntMod = 256
    MaxPid = 6
    LosesTo <- FirstToSecond
    StaleFor <- SecondOnly
INVARIANTS KnownUntilDead IInv NoneLeft RestartsKept
PROPERTIES StopEnds HeardWithTraffic
CHECK_DEADLOCK FALSE
