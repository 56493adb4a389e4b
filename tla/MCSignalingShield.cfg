CONSTANTS
    None = None
    User <- ThreeUsers
    Environments <- Reported
SPECIFICATION Spec
CHECK_DEADLOCK FALSE
INVARIANT ConnectedIsLive
