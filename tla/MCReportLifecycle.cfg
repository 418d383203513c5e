SPECIFICATION FairSpec
CONSTANTS
    Reports = {p1}
    Formats = {"json", "csv"}
    Requested <- Listed
    Executors = {x1, x2}
    Retries = {q1}
    Cleaners = {c1}
    NoReport = NoReport
    MaxWorkers = 2
    MaxRaises = 1
    MaxCrashes = 1
INVARIANTS
    ArtifactsConsistent
    OfferedFileExists
PROPERTIES
    UnretriedKeptUntilPast
    UnretriedReportEnds
CHECK_DEADLOCK FALSE
