CONSTANTS
    Requests = {r1, r2}
    Admins = {a1, a2}
    Sessions = {s1, s2, s3}
    Passwords = {pw1, pw2}
    Secrets = {}
    RecoveryCodes = {}
    Operations = {"login", "refresh", "logout", "revokeOne", "revokeOthers", "reset", "disable"}
    None = None
    LockThreshold = 2
    LockDuration = 1
    AccessTtl = 0
    RefreshTtl = 1
    MaxTime = 2
SPECIFICATION Spec
SYMMETRY Symmetry
INVARIANTS
    EndedSessionsAreRefused
    ResetEndsOldSessions
PROPERTY OnlyOwnersRevoke
CHECK_DEADLOCK FALSE
