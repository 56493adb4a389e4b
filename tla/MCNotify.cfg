CONSTANTS
    u = u
    v = v
    w = w
    c1 = c1
    c2 = c2
    d1 = d1
    e1 = e1
    pod1 = pod1
    pod2 = pod2
    None = None
    User <- MCUser
    Conn <- MCConn
    UserOf <- MCUserOf
    Instance <- MCInstance
CHECK_DEADLOCK FALSE
SPECIFICATION Spec
INVARIANT TypeOK
INVARIANT HeardOnce
PROPERTY PromptSubscribersHear
