SPECIFICATION FairSpec
CONSTANTS
    p = p
    q = q
    r = r
    Ports <- SameOrOther
    Life = 0
    MaxTicks = 1
    NetCap = 2
    Failing = {"dialing", "detached"}
INVARIANTS OnePortPerConv NoLateAnswer
PROPERTIES AcceptedOnce HandshakeEnds
CHECK_DEADLOCK FALSE
