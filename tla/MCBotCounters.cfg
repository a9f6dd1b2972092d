CONSTANTS
    Deliveries = {d1, d2, d3}
    UpdateIds = {u1, u2}
    alice = alice
    chat = chat
    Users = {alice}
    Owners = {}
    Groups = {chat}
    Private = Private
    None = None
    Messages <- BusyMessages
    Settings <- BusySettings
    Automated = {}
    AiModerates = FALSE
    Limit <- TwoOne
    Window <- TwoOneTwo
    DedupeTtl = 1
    MuteAt = 2
    LongMuteAt = 3
    BanAt = 4
    MaxTime = 1
    Events = {"crash"}
    MaxEvents = 1
SPECIFICATION Spec
SYMMETRY Symmetry
INVARIANTS
    OneHandlingPerUpdate
    CountersExpire
    AtMostTwiceTheLimit
    NoMilderSanction
CHECK_DEADLOCK FALSE
