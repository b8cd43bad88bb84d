\* One fd given to three clients, a worker that crashes and is started again.
SPECIFICATION FairSpec
CONSTANTS
    Fd = {4}
    MaxId = 3
    CAP = 2
    MaxCrash = 2
    RestartLimit = 1
INVARIANTS ServedOwnSession ReplyReachesOwner TablesKept
PROPERTIES ClosedIsReported
