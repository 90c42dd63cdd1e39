SPECIFICATION ForumSpec
CONSTANTS
    Authors = {u1, u2}
    Posts = {p1, p2}
    Comments = {c1, c2}
    Threads = {t1, t2}
    NoUser = NoUser
    NoVote = NoVote
    NoTarget = NoTarget
    MaxRequests = 4
SYMMETRY Symmetry
INVARIANTS
    CountersAgree
    AnsweredIsStored
CHECK_DEADLOCK FALSE
