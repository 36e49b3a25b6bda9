SPECIFICATION FairSpec
CONSTANTS
    Clients = {c1, c2}
    Services = {s0, s1}
    Zero = s0
    ClientTimeout = 2
    Now = now
    KickFrames <- SomeFrames
    Chatty = {}
    Orderly = TRUE
INVARIANTS TypeOK MapExact NoGhostClients NeverCrashes
PROPERTIES KickTakesEffect ServiceComesBack
