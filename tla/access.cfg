SPECIFICATION AccessSpec
CONSTANTS
    AccessHorizon = 4
    MaxChanges = 4
    PERIOD = 2
    TRIAL = 2
    GRACE = 2
    ROPE = 3
    TRIALROPE = 1
    SignupTrial = TRUE

INVARIANTS AccessTypeOK LeaseIsTrue ChargesAreSeen
PROPERTY AccessHasACause
CHECK_DEADLOCK FALSE
