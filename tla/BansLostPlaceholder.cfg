SPECIFICATION HistorySpec
CONSTANTS
    Admins = {a1}
    Rebans = FALSE
    Outside = FALSE
    Faulty = {"addition"}
    MaxFaults = 1
    NoBan = NoBan
    NoIdentity = NoIdentity
INVARIANT RestoredOrWarned
