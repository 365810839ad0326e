SPECIFICATION Spec
CONSTANTS
    u1 = u1
    p1 = p1
    h1 = h1
    h2 = h2
    Nobody = Nobody
    Users <- OneUser
    Partners <- OnePartner
    Handlers <- TwoHandlers
    MAX_OTP_ATTEMPTS = 2
    PerRecipient = 1
    Hour = 1
    Horizon = 1
    MaxCalls = 5
SYMMETRY Symmetry
INVARIANTS KeyIsPosted GuessesAreBounded CapHolds
CHECK_DEADLOCK FALSE
