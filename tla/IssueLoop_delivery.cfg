SPECIFICATION Spec
CONSTANTS
    MaxCodingRounds = 1
    Issues = {1, 2}
    NoIssue = 0
    Waits <- Chain
    Subtree <- ChainSubtree
    Callers = {"worker", "person"}
    Duties <- TickAndDelivery
    Events = {"fail", "lose", "crash"}
    MaxRecords = 2
    MaxCommits = 2
INVARIANTS
    MergedLanded
    CutFromDeliveredWork
    PhaseHasRecord
    DoneIsDelivered
PROPERTIES
    SettledForever
CHECK_DEADLOCK FALSE
