CONSTANTS
    ip1 = ip1
    r1 = r1
    r2 = r2
    r3 = r3
    r4 = r4
    Ip <- OneIp
    Request <- MCRequest
    Burst = 2
    Refill = 2
    IdleTTL = 6
    MaxStall = 2
    MaxTime = 14
CHECK_DEADLOCK FALSE
SYMMETRY Interchangeable
SPECIFICATION Spec
INVARIANT TypeOK
INVARIANT HeldIsMapped
INVARIANT TwiceBurstNever
PROPERTY CollectorUnnoticed
