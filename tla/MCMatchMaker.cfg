CONSTANTS
    a = a
    b = b
    j1 = j1
    j2 = j2
    j3 = j3
    pod1 = pod1
    pod2 = pod2
    None = None
    User <- MCUser
    Join <- MCJoin
    UserOf <- MCUserOf
    HomeOf <- MCHomeOf
    Instance <- MCInstance
    BlockRows <- MCBlockRows
    MaxRejections = 1
    MaxFaults = 1
SPECIFICATION Spec
INVARIANT TypeOK
INVARIANT NoJoinMatchedTwice
INVARIANT OnePlace
INVARIANT OnePairPerFault
PROPERTY ImplementsPairing
