SPECIFICATION ClientSpec
CONSTANTS
    Writers = {"gui", "api"}
    Window = "gui"
    Cooldown = 2
    MaxSeconds = 4
    MaxSaves = 2
    Torn = Torn
    NoTime = NoTime
    Base = 2
    Lengths = {2, 3}
    OtherFiles = {"profile", "settings"}
    MaxUsers = 2
    NoFile = NoFile
    Garbage = Garbage
    NoPin = NoPin
    Nobody = Nobody
    Contacts = {"a", "b"}
    MaxRows = 2
    MaxLoaded = 1
    Burnt = {"a"}
    Nothing = Nothing
    Near = {p, q}
    Offers = {{}, {"public"}}
    Callers = {c1, c2}
    MaxCalls = 3
    NoStation = NoStation
    NoCaller = NoCaller
    ApiKeys = {k1, k2}
    Permissions = {"read", "write"}
    Grants = {{"read"}, {"read", "write"}}
    MaxHours = 2
    NoRequest = NoRequest
    NoSave = NoSave
SYMMETRY DirectSymmetry
INVARIANTS
    SearchMeetsTrigger
    GatewaysAreCurrent
    RevokedStaysOut
PROPERTIES
    OnlySeenIsBurnt
    SwitchedOnInOrder
    ErasedStaysShut
CHECK_DEADLOCK FALSE
