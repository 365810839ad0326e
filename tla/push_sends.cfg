SPECIFICATION Spec
CONSTANTS
    t1 = t1
    t2 = t2
    h1 = h1
    h2 = h2
    Nothing = Nothing
    Tokens <- TwoTokens
    Handlers <- TwoHandlers
    DAY = 2
    Horizon = 3
    MaxCalls = 6
SYMMETRY Symmetry
INVARIANTS TypeOK WantedOnce StaysReachable
CHECK_DEADLOCK FALSE
