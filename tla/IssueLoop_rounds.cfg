SPECIFICATION Spec
CONSTANTS
    MaxCodingRounds = 2
    Issues = {1}
    NoIssue = 0
    Waits <- NoWaits
    Subtree <- Alone
    Callers = {"worker", "person"}
    Duties <- TickAndRequests
    Events = {"fail", "lose", "grant", "base-moves"}
    MaxRecords = 2
    MaxCommits = 3
INVARIANTS
    TypeOK
    CodingRationed
    RoundLimitFlagHonest
    PrIsApproved
    ApprovalMatchesBranch
CHECK_DEADLOCK FALSE
