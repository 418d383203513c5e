SPECIFICATION Spec
CONSTANTS
    NoAmount = NoAmount
    Jobs <- MCJobs
    Fold <- MCFold
    Unknown = 5
    Undated = 99
    MaxFiles = 3
INVARIANTS
    FiguresAgree
    SubtotalPerVendor
    OneSideSuffices
CHECK_DEADLOCK FALSE
