SPECIFICATION Spec
CONSTANTS
    Group = 3
    Depth = 4
    Bytes = {0, 1, 2}
INVARIANTS TypeOK StagedFits RoundTrip
PROPERTY PacketsArrive
