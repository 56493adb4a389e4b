CONSTANTS
    a = a
    b = b
    c = c
    d = d
    pod1 = pod1
    pod2 = pod2
    None = None
    User <- FourUsers
    Join <- FourUsers
    UserOf <- SameUser
    HomeOf <- HomeOfAll
    Instance <- TwoPods
    BlockRows <- TwoPairs
    MaxRejections = 2
    MaxFaults = 0
SPECIFICATION DrainSpec
PROPERTY MatchablePairsDrain
