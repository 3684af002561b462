SPECIFICATION Spec
CONSTANTS
    MaxSamples = 3
    Latencies = {0, 4, 7}
    Buckets <- MCBuckets
    MaxOutputPoints = 2
    MaxTime = 3
INVARIANTS
    CountersExact
    SummaryConsistent
    ReadersAgree
    EverySampleInOnePoint
PROPERTIES
    WindowKept
