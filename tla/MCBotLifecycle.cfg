SPECIFICATION FairSpec
CONSTANTS
    good = good
    bad = bad
    panel = panel
    EnvTokens = {good, bad, None}
    PanelTokens = {panel}
    Accepted = {good, panel}
    None = None
    Threshold = 1
    Mixes <- MCMixes
INVARIANTS
    StatusFollowsMembership
    SpikeArmsRaidMode
PROPERTIES
    TokenTakesOver
    MaintenanceIsHonoured
CHECK_DEADLOCK FALSE
