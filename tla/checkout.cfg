SPECIFICATION Spec
CONSTANTS
    Requests = {r1, r2}
    Plans <- RecurringAndLifetime
    Keys = {k}
    NoKey = NoKey
    NoOne = NoOne
    TTL = 2
    MARGIN = 1
    SKEW = 1
    Horizon = 5
SYMMETRY RequestSymmetry
INVARIANT OnePayable
PROPERTIES LockLeavesSafely ImplementsAcquisition
CHECK_DEADLOCK FALSE
