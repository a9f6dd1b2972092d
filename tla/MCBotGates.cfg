CONSTANTS
    Deliveries = {d1}
    UpdateIds = {u1}
    alice = alice
    chat = chat
    Users = {alice}
    Owners = {}
    Groups = {chat}
    Private = Private
    None = None
    Messages <- EveryMessage
    Settings <- EverySetting
    Automated = {chat}
    AiModerates = TRUE
    Limit <- One
    Window <- Two
    DedupeTtl = 1
    MuteAt = 2
    LongMuteAt = 3
    BanAt = 4
    MaxTime = 0
    Events = {"failure", "crash", "edit", "raid"}
    MaxEvents = 2
SPECIFICATION Spec
SYMMETRY Symmetry
INVARIANTS
    UnwelcomeMessagesAreNotAnswered
    NoSilence
CHECK_DEADLOCK FALSE
