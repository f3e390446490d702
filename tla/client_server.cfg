SPECIFICATION FairSpec
CONSTANTS
    Programs = {"ClientStruct", "ClientProto", "Echo"}
    Timeout = 3
    Interval = 2
    Grace = 1
    MaxLate = 1
    MaxDelay = 0
    ServerThreads = 2
INVARIANTS FarewellComesLast
PROPERTIES GivenUpOnlyByRace ForcedOnlyIfUnheard RequestIsSettled StrandedIsReleased BothEndsLearn
CHECK_DEADLOCK FALSE
