SPECIFICATION Spec
CONSTANTS
    Sessions = {s1, s2}
    Workers = {w1}
    IO = io
    Main = main
    NoSession = none
    IsGameSession = FALSE
    HasTimerManager = FALSE
    MayStop = FALSE
    MayBroadcast = FALSE
    MaxTasks = 1
    MaxGraceful = 1
    MaxWrites = 1
    MaxWriteFailures = 1
SYMMETRY Symmetry
INVARIANTS RegistryFaithful RegisteredHasReader LiveSessionRegistered IteratorsValid
