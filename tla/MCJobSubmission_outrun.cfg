SPECIFICATION Spec
CONSTANTS
    Requests = {r1, r2, r3}
    Keys = {k1, k2}
    NoKey = NoKey
    NoJob = NoJob
    Scope = "parse_jobs.create"
SYMMETRY Interchangeable
INVARIANTS
    QueuedJobKeepsItsTask
CHECK_DEADLOCK FALSE
