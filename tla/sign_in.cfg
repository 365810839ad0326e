SPECIFICATION Spec
CONSTANTS
    Requests = {r1, r2}
    Scopes = {ios, desktop}
    MAX_ATTEMPTS = 2
    MaxMails = 3
SYMMETRY RequestSymmetry
INVARIANTS TypeOK ProofReleases CodesAnswer LinksAreSpent
CHECK_DEADLOCK FALSE
