SPECIFICATION FairSpec
CONSTANTS
    ServerKeys <- MCServerKeys
    TextKeys <- MCTextKeys
    DefaultThreads = 2
    ThreadCounts <- MCThreadCounts
    Blocks = {b1, b2}
    MaxPackets = 2
INVARIANTS MemoryReused PoolInv ConfigFollowsFile
PROPERTIES StartsOrExits EarlyPacketsHandled
CHECK_DEADLOCK FALSE
