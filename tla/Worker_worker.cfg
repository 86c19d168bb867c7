CONSTANTS
    p1 = p1
    p2 = p2
    a = a
    b = b
    c = c
    Projects <- TwoProjects
    Subjects <- ThreeSubjects
    EpicSubjects <- OneEpic
    ProjectOf <- ByProject
    Work <- OnceEach
    maxConcurrentRounds = 2
    hostFailureBreaker = 2
    MaxEvents = 1
SPECIFICATION FairSpec
INVARIANTS InFlightHonest ReconcileSpares
PROPERTIES FailureHolds WorkGetsDone ShutdownEnds
CHECK_DEADLOCK FALSE
