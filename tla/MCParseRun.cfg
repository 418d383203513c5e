SPECIFICATION FairSpec
CONSTANTS
    Jobs = {j1}
    Files = {f1, f2}
    Executors = {x1, x2, x3}
    NoJob = NoJob
    MaxRuns = 3
    MaxOverlap = 3
    MaxRecords = 1
    MaxCrashes = 1
INVARIANTS
    RunningHasDecider
    OutcomeConsistent
PROPERTIES
    BegunJobDecided
CHECK_DEADLOCK FALSE
