SPECIFICATION Spec
CONSTANTS
    QueueSizes = {0}
    RecvSizes = {0}
    Separators = {1}
    Bounds <- MCReplyBounds
INVARIANT RepliesReach
CHECK_DEADLOCK FALSE
