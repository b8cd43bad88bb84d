SPECIFICATION Spec
CONSTANTS
    Fd = {4}
    MaxId = 2
    CAP = 2
    MaxCrash = 0
    RestartLimit = 1
INVARIANTS ServedBySender
