CONSTANTS
    e1 = e1
    t1 = t1
    t2 = t2
    r1 = r1
    x = x
    y = y
    NoEpic = NoEpic
    Nothing = Nothing
    Epics <- OneEpic
    Callers <- TwoCallers
    Repositories <- OneRepository
    Roles <- TwoRoles
    Kinds <- EveryKind
    MaxCalls = 2
    MaxFailures = 1
    MaxCrashes = 1
SPECIFICATION Spec
INVARIANTS StatementsApply
PROPERTIES OneStep ProfilesKept EveryCallAnswered
CHECK_DEADLOCK FALSE
