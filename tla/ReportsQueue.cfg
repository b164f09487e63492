SPECIFICATION FairSpec
CONSTANTS
    c1 = c1
    p = p
    t = t
    peer = peer
    Handlers = {h1, h2}
    Channels = {c1}
    Reporters = {u1}
    Subjects = {p, t, peer}
    Posts = {p}
    ChannelsOf <- MCChannelsOf
    Target <- MCTarget
    MaxStored = 2
    RateLimits = {0, 1}
    Window = 0
    MaxTime = 2
    MaxReports = 3
    Failures = TRUE
    Free = Free
    NoRequest = NoRequest
INVARIANTS TypeOK MutexInv NoDuplicateOpen
PROPERTIES QueueForward ChangesAtOnce RequestsReturn
