CONSTANTS
    Requests = {r1}
    Admins = {a1}
    Sessions = {s1}
    Passwords = {pw1, pw2}
    Secrets = {k1}
    RecoveryCodes = {c1}
    Operations = {"login"}
    None = None
    LockThreshold = 2
    LockDuration = 1
    AccessTtl = 0
    RefreshTtl = 1
    MaxTime = 1
SPECIFICATION Spec
SYMMETRY Symmetry
PROPERTY RecoveryCodesAreAccepted
CHECK_DEADLOCK FALSE
