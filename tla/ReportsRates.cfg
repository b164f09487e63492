SPECIFICATION Spec
CONSTANTS
    c1 = c1
    p = p
    t = t
    peer = peer
    Handlers = {h1, h2}
    Channels = {c1, c2}
    Reporters = {u1}
    Subjects = {t}
    Posts = {}
    ChannelsOf <- MCChannelsOf
    Target <- MCTarget
    MaxStored = 2
    RateLimits = {1}
    Window = 1
    MaxTime = 1
    MaxReports = 2
    Failures = FALSE
    Free = Free
    NoRequest = NoRequest
INVARIANT RateRespected
