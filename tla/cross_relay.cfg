SPECIFICATION Spec
CONSTANTS
    Servers = {s1, s2}
    Conns = {c1, c2}
    Msgs = {m1}
    MaxFaults = 1
    NoServer = NoServer
    NoConn = NoConn
SYMMETRY Symmetry
INVARIANTS
    RelayedOnce
    AnswerHolds
    EntryIsServed
CHECK_DEADLOCK FALSE
