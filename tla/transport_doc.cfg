SPECIFICATION TransportSpec
CONSTANTS
    MaxKeys = 2
    MaxPackets = 2
    NoPub = NoPub
INVARIANT PacketsAreRead
CHECK_DEADLOCK FALSE
