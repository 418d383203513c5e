SPECIFICATION FairSpec
CONSTANTS
    Requests = {r1, r2, r3}
    Keys = {k1}
    NoKey = NoKey
    NoJob = NoJob
    Scope = "reports.create"
INVARIANTS
    RecordsConsistent
    CommitMeetsNoRecord
    AnswersAgree
    QueuedJobHasTask
    LoserLeavesNoTask
PROPERTIES
    RequestsAnswered
CHECK_DEADLOCK FALSE
