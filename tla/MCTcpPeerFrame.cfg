SPECIFICATION Spec
CONSTANTS
    Raw = Raw
    Elements <- AllBuffers
    VsCap = 2
    SendLenPerFrame = 5
    ReadBufLen = 4
    MaxPackage = 3
    Header = 1
    Bodies = {1, 3}
    SockCap = 5
    Stray <- NoStray
    RingCap = 3
    MaxSends = 5
    Backlog = 8
INVARIANTS BytesExact
CHECK_DEADLOCK FALSE
