CONSTANTS
    Requests = {r1, r2, r3}
    Admins = {a1}
    Sessions = {s1, s2}
    Passwords = {pw1, pw2}
    Secrets = {k1}
    RecoveryCodes = {c1}
    Operations = {"login", "setup2fa", "enable2fa", "disable2fa"}
    None = None
    LockThreshold = 2
    LockDuration = 1
    AccessTtl = 0
    RefreshTtl = 0
    MaxTime = 1
SPECIFICATION Spec
SYMMETRY Symmetry
INVARIANTS
    BarredLoginsGetNoSession
    ConsecutiveFailuresLock
CHECK_DEADLOCK FALSE
