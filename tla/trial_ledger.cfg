SPECIFICATION TrialSpec
CONSTANTS
    a = a
    b = b
    m = m
    n = n
    d1 = d1
    d2 = d2
    e1 = e1
    x = x
    h1 = h1
    h2 = h2
    None = None
    Accounts <- TwoAccounts
    Machines <- TwoMachines
    Ids <- ThreeIds
    MachineOf <- StoredOn
    Apples <- OneApple
    Callers <- TwoHandlers
    BINDING = FALSE
    Dates = {1}
    MaxClaims = 3
    MaxCalls = 3
SYMMETRY Symmetry
INVARIANTS TrialTypeOK OneWindowPerMachine
PROPERTY WindowStands
CHECK_DEADLOCK FALSE
