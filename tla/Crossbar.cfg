SPECIFICATION Spec
CONSTANTS
    PacketSize = 2
    SkidDepth = 3
    Timer = 1
    Buffers = 2
    Uses <- MCUses
    MaxBytes <- MCMaxBytes
    MaxResets = 1
    Resettable = {0, 2}
    Settle = 3
INVARIANTS TypeOK Conserved LevelExact ZlpAfterFull
PROPERTY EverythingArrives
