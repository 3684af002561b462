SPECIFICATION FairExportSpec
CONSTANTS
    NFiles = 2
    NInline = 1
    Overlaps = FALSE
    Replaces = TRUE
    Outages = TRUE
    TakeOvers = TRUE
    MaxLines = 1
    Writes = 2
INVARIANTS
    PeerInSync
    WholeReloads
PROPERTIES
    ChangesReach
