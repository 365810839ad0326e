SPECIFICATION Spec
CONSTANTS
    Deliveries = {d1}
    Confirms = {c}
    Handlers = {h}
    MaxVersions = 3
    MaxFaults = 1
INVARIANTS DoneMeansMirrored TrialStaysCancelled
