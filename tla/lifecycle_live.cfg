SPECIFICATION FairSpec
CONSTANTS
    Sessions = {s1}
    Workers = {w1}
    IO = io
    Main = main
    NoSession = none
    IsGameSession = TRUE
    HasTimerManager = TRUE
    MayStop = FALSE
    MayBroadcast = FALSE
    MaxTasks = 1
    MaxGraceful = 1
    MaxWrites = 1
    MaxWriteFailures = 1
PROPERTIES LostPeerIsReleased DeadSessionIsReleased GracefulDisconnectEnds
