SPECIFICATION Spec
CONSTANTS
    h = h
    a = a
    b = b
    w1 = w1
    w2 = w2
    Users <- HostAndTwo
    Host <- TheHost
    Workers <- TwoHandlers
    CAPACITY = 2
    LIFETIME = 3
    DURATION = 1
    Horizon = 3
    MaxMembers = 4
SYMMETRY GuestAndHandlerSymmetry
INVARIANTS RoomFits
PROPERTIES StartsTogether LeavesAreMeant ImplementsSharedRoom
CHECK_DEADLOCK FALSE
