SPECIFICATION FairSpec
CONSTANTS
    Jobs = {j1}
    Workers = {w1, w2}
    NoJob = NoJob
    MaxFiles = 2
    MaxDeliveries = 2
    MaxCrashes = 1
INVARIANTS
    OneWorkerPerJob
    OutcomeConsistent
    SideEffectsCover
PROPERTIES
    FollowsLifecycle
    EveryJobEnds
CHECK_DEADLOCK FALSE
