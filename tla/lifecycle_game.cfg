SPECIFICATION Spec
CONSTANTS
    Sessions = {s1}
    Workers = {w1, w2}
    IO = io
    Main = main
    NoSession = none
    IsGameSession = TRUE
    HasTimerManager = TRUE
    MayStop = TRUE
    MayBroadcast = TRUE
    MaxTasks = 1
    MaxGraceful = 2
    MaxWrites = 1
    MaxWriteFailures = 2
SYMMETRY Symmetry
INVARIANTS IInv
PROPERTIES ContractSpec
CHECK_DEADLOCK FALSE
