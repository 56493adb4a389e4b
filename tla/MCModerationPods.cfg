CONSTANTS
    u = u
    v = v
    w = w
    c1 = c1
    c2 = c2
    c3 = c3
    d1 = d1
    k1 = k1
    k2 = k2
    k3 = k3
    k4 = k4
    k5 = k5
    k6 = k6
    pod1 = pod1
    pod2 = pod2
    None = None
    User <- MCUser
    Conn <- MCConn
    UserOf <- MCUserOf
    HomeOf <- AllOnOnePod
    Instance <- TwoPods
    BanCall <- MCBanCall
    ReportCall <- MCReportCall
    ReporterOf <- MCReporterOf
    Target <- MCTarget
    ServedBy <- CallsOnOtherPod
    Limits <- OneAndTwo
    MaxUnbans = 2
    MayOverlap = FALSE
    MayTie = FALSE
    Environments <- LiveOnly
CHECK_DEADLOCK FALSE
SPECIFICATION ModSpec
INVARIANT BanClosesAll
