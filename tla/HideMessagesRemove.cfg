SPECIFICATION ScanSpec
CONSTANTS
    MaxPosts = 4
    PageSize = 2
    ScanLimit = 4
    MaxShifts = 0
    ScanFailures = FALSE
INVARIANT MissesNothing
CHECK_DEADLOCK FALSE
