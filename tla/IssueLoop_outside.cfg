SPECIFICATION Spec
CONSTANTS
    MaxCodingRounds = 1
    Issues = {1}
    NoIssue = 0
    Waits <- NoWaits
    Subtree <- Alone
    Callers = {"worker", "person"}
    Duties <- TickAndMerge
    Events = {"fail", "lose", "crash", "create", "transition", "hand-push", "base-moves"}
    MaxRecords = 2
    MaxCommits = 3
INVARIANTS
    WorkingCopyHeld
    VerdictCoversRounds
PROPERTIES
    BranchOnlyGrows
CHECK_DEADLOCK FALSE
