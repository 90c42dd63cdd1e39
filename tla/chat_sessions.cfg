SPECIFICATION Spec
CONSTANTS
    Users = {u1, u2}
    Conns = {c1, c2, c3}
    Msgs = {m1}
    NoUser = NoUser
    NoConn = NoConn
    MaxBanned = 1
SYMMETRY Symmetry
INVARIANTS
    NoGhostSession
    OpenSessionIsReachable
    DeliveredOrSocketLost
PROPERTY
    ClearedOnlyAfterPush
CHECK_DEADLOCK FALSE
