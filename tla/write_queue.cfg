SPECIFICATION FairSpec
CONSTANTS
    IO = IO
    Threads = {IO}
    MaxMessages = 7
INVARIANTS IInv InOrderOnce
PROPERTIES EveryMessageWritten
CHECK_DEADLOCK FALSE
