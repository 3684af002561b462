SPECIFICATION Spec
CONSTANTS
    WarningMs = 4
    CriticalMs = 9
    Multiplier = 3
    MinSamples = 2
    MaxProbes = 3
    RecentSamples = 2
    TimeoutMs = 4
    Latencies <- MCLatencies
CHECK_DEADLOCK FALSE
INVARIANTS
    ProbeAccounted
    JudgedFairly
PROPERTIES
    MonitorKept
