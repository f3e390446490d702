SPECIFICATION FairSpec
CONSTANTS
    Workers = {w1, w2}
    Repeating = {r1}
    Once = {o1}
    NoJob = NoJob
    MaxPackets = 3
INVARIANTS NoJobTwice FewOvertaken
PROPERTIES CancelledInTimeStops EveryPacketHandled RepeatsForever
CHECK_DEADLOCK FALSE
