SPECIFICATION Spec
CONSTANTS
    Raw = Raw
    Elements <- AllBuffers
    VsCap = 3
    SendLenPerFrame = 8
    ReadBufLen = 3
    MaxPackage = 3
    Header = 1
    Bodies = {1, 3, 4}
    SockCap = 5
    Stray <- NoneOrOne
    RingCap = 4
    MaxSends = 6
    Backlog = 8
INVARIANTS OnlyQueuedBytes
CHECK_DEADLOCK FALSE
