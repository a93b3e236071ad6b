SPECIFICATION Spec
CONSTANTS
    Callers = {c1}
    NoCaller = NoCaller
    PacketSize = 1
    PacketsPerXfer = 2
    XfersPerQueue = 2
    BufferSize = 0
    ChunkSizes = {4}
    MaxBytes = 8
    MaxFailures = 0
    MaxResets = 0
INVARIANT FlushAssertion
