SPECIFICATION FairSpec
CONSTANTS
    c1 = c1
    c2 = c2
    c3 = c3
    x1 = x1
    Conn = {c1, c2, c3, x1}
    Allowed = {c1, c2, c3}
    NoFd = NoFd
INVARIANTS
    DescriptorsSound
PROPERTIES
    HandoffKept
    ShutdownTerminates
    BacklogServed
