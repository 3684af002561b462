SPECIFICATION FairRunSpec
INVARIANTS
    OutcomeProven
PROPERTIES
    LabKept
    RunEnds
