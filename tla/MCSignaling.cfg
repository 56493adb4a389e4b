CONSTANTS
    None = None
    User <- ThreeUsers
    Environments <- Calls
SPECIFICATION FairSpec
CHECK_DEADLOCK FALSE
INVARIANT TypeOK
INVARIANT SameExchange
INVARIANT CandidateKept
PROPERTY MatchedConnect
PROPERTY DeadCallEnds
