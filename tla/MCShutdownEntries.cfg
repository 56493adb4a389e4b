CONSTANTS
    u = u
    v = v
    w = w
    c1 = c1
    c2 = c2
    d1 = d1
    e1 = e1
    None = None
    User <- MCUser
    Conn <- MCConn
    UserOf <- MCUserOf
    DrainPause = 3
    CloseGrace = 1
    WriteWait = 10
    Deadline = 25
CHECK_DEADLOCK FALSE
SPECIFICATION Spec
INVARIANT NoEntryOutlivesExit
