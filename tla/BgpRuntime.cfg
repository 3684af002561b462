SPECIFICATION FairSpec
CONSTANTS
    InitialBackoff = 2
    MaxBackoff = 5
    HasListener = TRUE
    HoldTimer = TRUE
INVARIANTS
    AccountingSound
    DescriptorsMatch
    PacedRetries
PROPERTIES
    EstablishedKept
    RuntimeProgress
