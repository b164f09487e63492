SPECIFICATION Spec
CONSTANTS
    b = b
    r = r
    o = o
    Nodes = {n1}
    Handlers = {h1}
    Bans = {b}
    Restricted = {}
    OtherKeys = {}
    KeyPos <- MCKeyPos
    PageSize = 1
    KVErrors = TRUE
    Idle = Idle
INVARIANT NeverMisses
