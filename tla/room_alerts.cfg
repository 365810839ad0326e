SPECIFICATION AlertSpec
CONSTANTS
    a = a
    b = b
    w1 = w1
    w2 = w2
    Users <- TwoMembers
    Pollers <- OnePolls
    Workers <- TwoHandlers
    Reporters = {a}
    Requests = {q}
    Host = b
    HardLock = FALSE
    ENDS = 3
    RETENTION = 1
    COOLDOWN = 1
    PAGE = 1
    AlertHorizon = 4
    MaxEvents = 2
    MaxFaults = 1
SYMMETRY HandlerSymmetry
INVARIANTS AlertTypeOK PollersMissNothing PushedOnce
CHECK_DEADLOCK FALSE
