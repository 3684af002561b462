SPECIFICATION FairSpec
CONSTANTS
    Trackers <- MCTrackers
    Peers = {peer1}
    PeerOf <- MCPeerOf
    MaxEvents = 3
    MaxTime = 2
    Cap = 1
    Cooldown = 2
    None = None
    http1 = http1
    icmp1 = icmp1
    unmapped = unmapped
    peer1 = peer1
INVARIANTS
    SuppressionJustified
    UncapturedBounded
PROPERTIES
    ClearedOnlyEvicted
    AdmissionKept
    CapturesEnd
