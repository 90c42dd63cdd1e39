SPECIFICATION MCSpec
CONSTANTS
    Users = {u1, u2}
    Groups = {g1, g2}
    Threads = {t1, t2}
    MaxLogins = 2
    NoUser = NoUser
    NoGroup = NoGroup
INVARIANTS
    NoForgottenMember
PROPERTY
    DatabaseReleased
CHECK_DEADLOCK FALSE
