SPECIFICATION FairSpec
CONSTANTS
    Reports = {p1}
    Formats = {"json", "csv"}
    Requested <- Listed
    Executors = {x1, x2}
    Retries = {q1}
    Cleaners = {c1}
    NoReport = NoReport
    MaxWorkers = 2
    MaxRaises = 0
    MaxCrashes = 0
PROPERTIES
    DeletesOnlyPastRetention
CHECK_DEADLOCK FALSE
