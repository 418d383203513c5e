SPECIFICATION FairSpec
CONSTANTS
    j1 = j1  j2 = j2  r1 = r1  r2 = r2
    Jobs = {j1, j2}
    Reports = {r1, r2}
    Starts <- MCStarts
    Links <- MCLinks
    NoId = NoId
    MaxMoves = 2
    MaxCalls = 2
    MaxFaults = 1
INVARIANTS
    RunShowsOwnJob
PROPERTIES
    RunNeverRegresses
    PagesCatchUp
    ListSettles
CHECK_DEADLOCK FALSE
