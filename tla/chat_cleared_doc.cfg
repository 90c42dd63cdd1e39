SPECIFICATION Spec
CONSTANTS
    Users = {u1, u2}
    Conns = {c1, c2}
    Msgs = {m1, m2}
    NoUser = NoUser
    NoConn = NoConn
    MaxBanned = 1
PROPERTY
    ClearedMeansArrived
CHECK_DEADLOCK FALSE
