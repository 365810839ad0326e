SPECIFICATION Spec
CONSTANTS
    desktop = desktop
    phone = phone
    tablet = tablet
    s1 = s1
    e1 = e1
    h1 = h1
    h2 = h2
    Nothing = Nothing
    Devices <- ThreeDevices
    Sessions <- OneSession
    From <- OnDesktop
    Events <- OneEvent
    By <- OfPhone
    Handlers <- TwoHandlers
    MAX_DEVICES = 2
    MaxCalls = 5
SYMMETRY HandlerSymmetry
INVARIANTS AnswersAreTrue EndSweeps CreditIsReleased
CHECK_DEADLOCK FALSE
