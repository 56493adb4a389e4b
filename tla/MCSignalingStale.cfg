CONSTANTS
    None = None
    User <- ThreeUsers
    Environments <- KilledAndDrained
SPECIFICATION Spec
CHECK_DEADLOCK FALSE
INVARIANT AnswersFit
