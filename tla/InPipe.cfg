SPECIFICATION Spec
CONSTANTS
    Callers = {c1, c2}
    NoCaller = NoCaller
    XferSize = 2
    XfersPerQueue = 2
    BufferSize = 1
    Bounded = TRUE
    RecvSizes = {3}
    Delimiters = {2, 3}
    MaxBytes = 3
    MaxTransfers = 3
    MaxFailures = 1
    MaxResets = 1
INVARIANTS TypeOK StreamOrder NoByteLost PushbackBound QueueDepth NoLostWakeup NotStuck
PROPERTIES RecvExact IsByteStream
CHECK_DEADLOCK FALSE
SYMMETRY Symmetry
