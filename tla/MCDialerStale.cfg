SPECIFICATION Spec
CONSTANTS
    Addrs <- TcpTcp
    Fds = {3, 4}
    Timeout = 1
    Peerless = {}
    MaxDials = 1
INVARIANTS NoStaleEvent
CHECK_DEADLOCK FALSE
