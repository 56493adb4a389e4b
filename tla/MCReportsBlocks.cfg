CONSTANTS
    u = u
    v = v
    w = w
    r1 = r1
    r2 = r2
    r3 = r3
    b1 = b1
    b2 = b2
    None = None
    User <- MCUser
    Report <- NoReport
    Block <- TwoBlocks
    From <- BlockFrom
    To <- BlockTo
    Threshold = 1
    MaxAdmin = 2
    MaxFaults = 1
CHECK_DEADLOCK FALSE
SPECIFICATION Spec
INVARIANT BlocksSucceed
