SPECIFICATION Spec
CONSTANTS
    Clients = {c1, c2}
    Services = {s0, s1}
    Zero = s0
    ClientTimeout = 2
    Now = now
    KickFrames <- AllKicks
    Chatty = {c1, c2}
    Orderly = FALSE
SYMMETRY Symmetry
INVARIANTS OneFarewell
CHECK_DEADLOCK FALSE
