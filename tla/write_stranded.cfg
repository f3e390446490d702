SPECIFICATION Spec
CONSTANTS
    IO = IO
    Threads = {IO, w1}
    MaxMessages = 3
INVARIANTS NothingStranded
CHECK_DEADLOCK FALSE
