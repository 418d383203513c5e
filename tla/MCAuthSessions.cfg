SPECIFICATION FairSpec
CONSTANTS
    Tabs = {a, b}
    MaxTokens = 3
    MaxMishaps = 2
INVARIANTS
    SessionsConsistent
    SoloTabIsSafe
PROPERTIES
    TabsSettle
CHECK_DEADLOCK FALSE
