SPECIFICATION FairSpec
CONSTANTS
    Callers = {c1, c2}
    NoCaller = NoCaller
    PacketSize = 1
    PacketsPerXfer = 1
    XfersPerQueue = 2
    BufferSize = 1
    ChunkSizes = {1, 2}
    MaxBytes = 3
    MaxFailures = 1
    MaxResets = 0
INVARIANTS InOrder MemoryBound
PROPERTIES CallsReturn
