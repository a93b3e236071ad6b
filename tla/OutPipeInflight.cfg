SPECIFICATION Spec
CONSTANTS
    Callers = {c1}
    NoCaller = NoCaller
    PacketSize = 1
    PacketsPerXfer = 2
    XfersPerQueue = 2
    BufferSize = 4
    ChunkSizes = {2}
    MaxBytes = 4
    MaxFailures = 0
    MaxResets = 1
INVARIANT InflightExact
