SPECIFICATION Spec
CONSTANTS
    Sessions = {s1}
    Workers = {w1}
    IO = io
    Main = main
    NoSession = none
    IsGameSession = TRUE
    HasTimerManager = TRUE
    MayStop = TRUE
    MayBroadcast = FALSE
    MaxTasks = 0
    MaxGraceful = 0
    MaxWrites = 1
    MaxWriteFailures = 1
INVARIANTS NoUpgrade
