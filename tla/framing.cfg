SPECIFICATION FairSpec
CONSTANTS
    HeaderSize = 2
    MaxSize = 4
    BufferSize = 4
    StreamLength = 44
    Sizes = {0, 1, 3, 4}
    Period = 2
    Streams <- MCStreams
INVARIANTS ContentInOrder RoomForNextRead
PROPERTIES DeliverySpec ParseTerminates EveryPacketDelivered
CHECK_DEADLOCK FALSE
