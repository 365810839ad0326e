SPECIFICATION SyncSpec
CONSTANTS
    a = a
    b = b
    w1 = w1
    w2 = w2
    Nobody = Nobody
    Users <- TwoAccounts
    Syncers <- TwoHandlers
    Clients <- OneClient
    MaxEvents = 3
SYMMETRY AccountSymmetry
INVARIANTS SyncTypeOK RestIsTrue
PROPERTIES PaidAccessStands
CHECK_DEADLOCK FALSE
