SPECIFICATION SanctionSpec
CONSTANTS
    m1 = m1
    b = b
    Handlers = {h1, h2}
    Members = {m1}
    OtherKeys = {}
    KeyPos <- MCKeyPos
    Durations = {1, 2}
    MaxTime = 2
    JobPages = 2
    JobPageSize = 2
    Failures = TRUE
    NoRecord = NoRecord
    Idle = Idle
    NoHook = NoHook
    Unsure = Unsure
    Admins = {a1, a2}
    Rebans = TRUE
    Outside = TRUE
    Faulty = {"account", "record", "addition", "profile"}
    MaxFaults = 2
    NoBan = NoBan
    NoIdentity = NoIdentity
    MaxPosts = 4
    PageSize = 2
    ScanLimit = 4
    MaxShifts = 1
    ScanFailures = TRUE
INVARIANTS EnforcementTypeOK TimeoutBounded StopsMessages StopsOnlyRestricted BoxAgrees
INVARIANTS BanTypeOK Consistent IdentityKept
INVARIANTS ScanTypeOK MissesOnlyShifted
PROPERTIES MuteKept TimeoutKept
SYMMETRY Symmetry
CHECK_DEADLOCK FALSE
