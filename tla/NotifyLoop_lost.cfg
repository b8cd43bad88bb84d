SPECIFICATION FairSpec
CONSTANTS
    Request = {r1, r2}
    CAP = 2
    PIPECAP = 2
PROPERTIES ReplyDelivered
