SPECIFICATION FairSpec
CONSTANTS
    Multiplier = 2
    Restarts = 1
    MaxFlight = 1
INVARIANTS
    SessionSafe
PROPERTIES
    NoFalseAlarm
    SilenceDetected
    ThreadsLive
