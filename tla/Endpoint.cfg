SPECIFICATION Spec
CONSTANTS
    QueueSizes = {0, 1, 2}
    RecvSizes = {0, 2}
    Separators = {2}
    Bounds <- MCBounds
INVARIANTS TypeOK NoCrossTalk StreamOrder WaiterWoken NoStall
CHECK_DEADLOCK FALSE
