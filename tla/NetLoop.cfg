SPECIFICATION FairSpec
CONSTANTS MaxFd = 2 page_size = 2 SendLimit = 2 Room = 2
CONSTANT Budget <- MCBudget
CHECK_DEADLOCK FALSE
INVARIANTS QueuesKept InputKept OutputKept ConnectKept
PROPERTIES UnreadRead ConnectAnswered
