SPECIFICATION Spec
CONSTANTS
    Hosts = {h1, h2, h3}
    NoHost = NoHost
    Builds = {b1, b2}
    NoId = NoId
    Chunks = 2
    Packets = 2
    RevC = TRUE
    BusFaults = {}
    FlashInterrupted = TRUE
    MaxReboots = 1
INVARIANT IdRunning
CHECK_DEADLOCK FALSE
SYMMETRY Symmetry
