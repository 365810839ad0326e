SPECIFICATION FairSpec
CONSTANTS
    SelfDeletes = {me}
    AdminDeletes = {del}
    LifetimeBuys = {buy}
    AdminCancels = {adm}
    Drains = {d1}
    MAX_ATTEMPTS = 2
    MaxHandlers = 2
    MaxResumes = 1
    MaxReplays = 1
    MaxFaults = 1
INVARIANTS NeverLost AttemptsDoNotOverlap LeavingMeansRecorded RevokedMeansStopping
PROPERTY OwedIsSettled
CHECK_DEADLOCK FALSE
