CONSTANTS
    None = None
    User <- ThreeUsers
    Environments <- Drained
SPECIFICATION Spec
CHECK_DEADLOCK FALSE
INVARIANT CandidatesKept
