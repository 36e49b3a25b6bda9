SPECIFICATION Spec
CONSTANTS
    Clients = {c1}
    Services = {s0, s1}
    Zero = s0
    ClientTimeout = 2
    Now = now
    KickFrames <- AtOnce
    Chatty = {}
    Orderly = TRUE
INVARIANTS NoGhostClients
