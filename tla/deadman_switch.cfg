SPECIFICATION FairSpec
CONSTANTS
    Users = {u1, u2}
    Grace = 1
    MaxTime = 3
    MaxFaults = 1
    NoRow = NoRow
    NoUser = NoUser
INVARIANTS
    NoHastyTrigger
    TriggeredThenBanned
PROPERTY WarningComes
CHECK_DEADLOCK FALSE
