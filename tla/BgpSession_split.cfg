SPECIFICATION Spec
CONSTANTS
    HoldTime = 4
    KeepaliveTime = 3
    PeerHolds = {0, 3}
    Batches = 1
    Reloads = FALSE
    Splits = TRUE
    MaxWire = 2
INVARIANTS
    FramesIntact
