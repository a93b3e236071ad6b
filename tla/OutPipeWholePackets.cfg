SPECIFICATION Spec
CONSTANTS
    Callers = {c1}
    NoCaller = NoCaller
    PacketSize = 2
    PacketsPerXfer = 2
    XfersPerQueue = 2
    BufferSize = 0
    ChunkSizes = {3}
    MaxBytes = 6
    MaxFailures = 0
    MaxResets = 0
INVARIANT WholePackets
