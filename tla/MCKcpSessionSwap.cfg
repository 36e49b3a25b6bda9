SPECIFICATION FairSpec
CONSTANTS
    p = p
    q = q
    r = r
    Ports <- ThreePorts
    Life = 0
    MaxTicks = 0
    NetCap = 1
    Failing = {}
INVARIANTS EpKcpsExact
CHECK_DEADLOCK FALSE
