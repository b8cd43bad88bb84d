\* A ring of three pages: every block fits into an empty one.
SPECIFICATION Spec
CONSTANTS
    HDR = 1
    BLK = 2
    PAGE = 3
    LEN = 10
    TRIES = 2
    PIPECAP = 1
    Val = {v1, v2}
    NoVal = NoVal
INVARIANTS NeverCorrupt EmptyRingHasRoom IInv
PROPERTIES HeldIntact FifoSpec
