SPECIFICATION Spec
CONSTANTS
    Hosts = {h1, h2, h3}
    NoHost = NoHost
    Builds = {b1, b2}
    NoId = NoId
    Chunks = 2
    Packets = 2
    RevC = TRUE
    BusFaults = {"eeprom", "pipe_rst"}
    FlashInterrupted = FALSE
    MaxReboots = 1
INVARIANTS TypeOK IdRunning OwnBuild ChunksLoaded PortsOff FreshData NoHang
CHECK_DEADLOCK FALSE
SYMMETRY Symmetry
