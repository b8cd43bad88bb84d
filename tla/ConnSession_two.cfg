\* Two fds that compete for queues of one block: the invariant of the proofs.
SPECIFICATION Spec
CONSTANTS
    Fd = {4, 5}
    MaxId = 3
    CAP = 1
    MaxCrash = 1
    RestartLimit = 1
INVARIANTS IInv
