SPECIFICATION FairSpec
CONSTANTS
    MaxCodingRounds = 2
    Issues = {1, 2}
    NoIssue = 0
    Waits <- NoWaits
    Subtree <- Alone
    Callers = {"worker"}
    Duties <- OnlyVolley
    Events = {"fail"}
    MaxRecords = 2
    MaxCommits = 4
PROPERTIES
    VolleyEnds
CHECK_DEADLOCK FALSE
