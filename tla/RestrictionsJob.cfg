SPECIFICATION FairHistorySpec
CONSTANTS
    m1 = m1
    m2 = m2
    b = b
    r = r
    Handlers = {h1}
    Members = {m1, m2}
    OtherKeys = {b, r}
    KeyPos <- MCKeyPos
    Durations = {1}
    MaxTime = 2
    JobPages = 2
    JobPageSize = 1
    MaxShifts = 2
    Failures = FALSE
    NoRecord = NoRecord
    Idle = Idle
INVARIANTS HistoryTypeOK JobMissesOnlyShifted
PROPERTIES JobDeletesOnlyExpired ExpiredRemoved
