SPECIFICATION FairSpec
CONSTANTS
    Users = {u1, u2}
    Conns = {c1, c2}
    Msgs = {m1}
    NoUser = NoUser
    NoConn = NoConn
    MaxBanned = 1
PROPERTIES
    DeadSessionForgotten
CHECK_DEADLOCK FALSE
