SPECIFICATION FairHistorySpec
CONSTANTS
    b = b
    r = r
    o = o
    Nodes = {n1, n2}
    Handlers = {h1}
    Bans = {}
    Restricted = {r}
    OtherKeys = {o}
    KeyPos <- MCKeyPos
    PageSize = 1
    KVErrors = TRUE
    Idle = Idle
INVARIANTS HistoryTypeOK RebuildInv
PROPERTIES LoadedIndexDropsOnlyAbsent Converges
