SPECIFICATION FairSpec
CONSTANTS
    Targets = {left, right}
    Numbers = {n1, n2}
    MaxProbes = 3
    None = None
CHECK_DEADLOCK FALSE
INVARIANTS
    SamplesInOrder
    RepliesMatch
PROPERTIES
    OnlyLateDiscarded
    TargetsReleased
