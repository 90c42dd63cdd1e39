SPECIFICATION NetworksSpec
CONSTANTS
    Nodes = {1, 2, 3}
    Here = 0
    Advertised <- HostsUsed
    Distance <- DistanceUsed
    Bucket <- BucketUsed
    K = 1
    Alpha = 1
    Rounds = 1
    PacketRoom = 1
    DhtWindow = 1
    SeenMax = 2
    Ttl = 1
    Values = {1}
    Commanded = {1}
    HexKeys = {"h"}
    OtherKeys = {"o"}
    Skews <- SkewsUsed
    MaxNow = 2
    Quotas <- QuotasUsed
    MaxEvents = 1
    MaxKeys = 2
    MaxPackets = 2
    NoPub = NoPub
    Stations = {1, 2}
    Receivers = {1, 2}
    At <- AtUsed
    Keepers = {1}
    EntryExpiry = 0
    ClockSkew <- ClockSkewUsed
    MaxMesh = 1
    MaxProcess <- ProcessesUsed
    MaxAir = 1
    NoEntry = NoEntry
    NoPair = NoPair
    Probes = {1, 2}
    LinkUsers = {f1, f2}
    NoFrequency = NoFrequency
    NoProbe = NoProbe
INVARIANTS
    HandledOnce
    EntryLeadsHome
    ValuesAreYoung
    HeardOfLately
    ToldIsTrue
CHECK_DEADLOCK FALSE
