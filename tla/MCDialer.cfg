SPECIFICATION FairSpec
CONSTANTS
    Addrs <- TcpTcpKcp
    Fds = {3, 4, 5, 6}
    Timeout = 2
    Peerless = {"tcp"}
    MaxDials = 3
INVARIANTS MappingExact OneAnswer NothingLeft BusyExact
PROPERTIES DialEnds
CHECK_DEADLOCK FALSE
