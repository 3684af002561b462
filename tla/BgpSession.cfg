SPECIFICATION FairSpec
CONSTANTS
    HoldTime = 4
    KeepaliveTime = 3
    PeerHolds = {0, 3}
    Batches = 1
    Reloads = TRUE
    Splits = TRUE
    MaxWire = 2
INVARIANTS
    HandshakeSound
    TimersSound
PROPERTIES
    HandshakeInOrder
    SilenceEndsSession
