CONSTANTS
    None = None
    User <- ThreeUsers
    Environments <- Swiped
SPECIFICATION FairSpec
CHECK_DEADLOCK FALSE
PROPERTY SwipedWaits
