CONSTANTS
    None = None
    Calls = {c1, c2}
    MaxSessions = 3
    p1 = p1
    p2 = p2
    Providers = {p1, p2}
    First = p1
    Catalogue <- OneCatalogue
    MaxAsks = 2
    MaxRows = 2
    Groups = {g1, g2}
    v1 = v1
    v2 = v2
    t1 = t1
    t2 = t2
    Values = {v1, v2}
    Templates = {t1, t2}
    Preset <- TwoPresets
    Personas = {s1, s2}
    Fields = {prompt, rest}
    Contents = {x, y}
    Jobs = {j1, j2}
    MaxVersions = 3
    Api = api
    Scripts = {o1, o2}
    Files = 2
    MaxStarts = 5
SPECIFICATION Spec
INVARIANTS
    NoNeedlessLogout
    ForcedDeletesWereWarned
    SettingsGoToTheirGroup
    EditsAreAllKept
    EveryMigrationOnce
CHECK_DEADLOCK FALSE
