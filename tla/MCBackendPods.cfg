CONSTANTS
    a = a
    b = b
    x = x
    j1 = j1
    j2 = j2
    j3 = j3
    j4 = j4
    pod1 = pod1
    pod2 = pod2
    None = None
    User <- MCUser
    Join <- MCJoin
    UserOf <- MCUserOf
    HomeOf <- HomeTwoPods
    Instance <- TwoPods
    BlockRows <- MCBlockRows
    InitialRows <- RowsBefore
    BlockCalls <- NoPairs
    Environments <- AcrossOnly
    MaxRejections = 2
    MaxFaults = 0
SPECIFICATION Spec
INVARIANT PairsAlwaysReachable
