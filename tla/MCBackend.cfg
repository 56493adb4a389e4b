CONSTANTS
    a = a
    b = b
    x = x
    j1 = j1
    j2 = j2
    j3 = j3
    j4 = j4
    pod1 = pod1
    pod2 = pod2
    None = None
    User <- MCUser
    Join <- MCJoin
    UserOf <- MCUserOf
    HomeOf <- HomeTwoPods
    Instance <- TwoPods
    BlockRows <- MCBlockRows
    InitialRows <- RowsBefore
    BlockCalls <- CallBlock
    Environments <- AllEnvironments
    MaxRejections = 1
    MaxFaults = 1
SPECIFICATION Spec
INVARIANT TypeOK
INVARIANT LoadedBlocksHonoured
INVARIANT BlockReachesLiveSet
INVARIANT NoStampLeaks
INVARIANT RegistryIsLive
INVARIANT PeersReachable
INVARIANT WaitingIsPooled
