SPECIFICATION FairSpec
CONSTANTS
    MaxCodingRounds = 1
    Issues = {1, 2}
    MaxRounds = 4
    MaxDraftingPasses = 2
    MaxRuns = 6
    MaxEvents = 2
INVARIANTS
    OneLiveRun
    AttemptsRationed
    OutcomeMatchesWork
PROPERTIES
    FailsOnlyWhenSpent
    DraftingEnds
CHECK_DEADLOCK FALSE
