SPECIFICATION FairSpec
CONSTANTS
    Request = {r1, r2, r3}
    CAP = 2
    PIPECAP = 2
INVARIANTS WorkerWoken
PROPERTIES RequestHandled LeftOnlyAsleep
