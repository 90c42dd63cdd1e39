SPECIFICATION ServicesSpec
CONSTANTS
    Visitors = {w1, w2, w3, a1}
    Admins = {a1}
    MaxOnline = 3
    HeartbeatTimeout = 1
    Hysteresis = 40
    Clients = {v1}
    Setters = {s1, s2}
    Rates = {1, 2}
    Bursts = {1, 2}
    NoRate = NoRate
    NoCommand = NoCommand
    Logins = {l1, l2}
    Addresses = {ip1}
    Tokens = {x1, x2}
    MaxAttempts = 2
    MaxPins = 2
    p1 = p1
    p2 = p2
    k1 = k1
    k2 = k2
    k3 = k3
    People = {p1, p2}
    Links = {c1, c2}
    Operators = {o1}
    PublicKeys = {k1, k2, k3}
    KeysOf <- KeysTried
    MaxTable = 1
    NoRow = NoRow
    NoLink = NoLink
    NoOne = NoOne
    NoKey = NoKey
    TcpPorts = {1, 2}
    MaxSetups = 1
    Participants = {u1, u2, u3}
    Texts = {t1}
    Partners = {r1}
    MaxSessions = 2
    NoSession = 0
    NoPerson = NoPerson
    Nodes = {n1}
    NodeKeys = {q1, q2}
    Handshakes = {h1, h2}
    MaxRestarts = 2
    NoPin = NoPin
    Servers = {z1, z2}
    Users = {y1, y2}
    Msgs = {m1, m2}
    Traffic <- TrafficUsed
    Rate <- RateUsed
    DefaultRate = 1
    MaxLine = 1
    NoServer = NoServer
    Callers = {d1, d2}
    Loops = {l3, l4}
    Peers = {r1}
    MaxKeys = 2
    NoLoop = NoLoop
    Writers = {wa, wb}
    Wires = {e1, e2, e3}
    MaxSent = 2
    MaxSecond = 2
    NoWire = NoWire
    NoWriter = NoWriter
SYMMETRY LinkSymmetry
INVARIANTS
    LevelTracksLoad
    RatesAgree
    OldPinsEnd
    BannedAreOut
    EntriesEnd
    IdentityComplete
    RightAudience
    HomesWereTrue
    OffSilences
    ReceiptToSender
PROPERTY FirstKeyStays
CHECK_DEADLOCK FALSE
