CONSTANTS
    None = None
    User <- ThreeUsers
    Environments <- ReportedLate
SPECIFICATION Spec
CHECK_DEADLOCK FALSE
INVARIANT PrewarmedBeforeMatch
