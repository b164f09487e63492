SPECIFICATION HistorySpec
CONSTANTS
    Admins = {a1}
    Rebans = TRUE
    Outside = FALSE
    Faulty = {}
    MaxFaults = 0
    NoBan = NoBan
    NoIdentity = NoIdentity
INVARIANT IdentityRecorded
