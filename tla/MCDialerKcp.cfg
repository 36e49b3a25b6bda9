SPECIFICATION Spec
CONSTANTS
    Addrs <- KcpTcp
    Fds = {3, 4}
    Timeout = 1
    Peerless = {}
    MaxDials = 1
INVARIANTS FindsItself
CHECK_DEADLOCK FALSE
