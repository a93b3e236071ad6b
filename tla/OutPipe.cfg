SPECIFICATION Spec
CONSTANTS
    Callers = {c1}
    NoCaller = NoCaller
    PacketSize = 2
    PacketsPerXfer = 1
    XfersPerQueue = 2
    BufferSize = 5
    ChunkSizes = {1, 4}
    MaxBytes = 6
    MaxFailures = 1
    MaxResets = 1
INVARIANTS TypeOK UsbMemoryBound InOrder InflightCovers
PROPERTIES FlushDelivers ResetQuiesces IsByteStream
