CONSTANTS
    p1 = p1
    s1 = s1
    s2 = s2
    Projects <- OneProject
    Sandboxes <- TwoSandboxes
    ProjectOf <- SameProject
    Rounds <- OnceEach
    MaxHeld = 2
    MaxProfiles = 1
    MaxEvents = 1
SPECIFICATION FairSpec
INVARIANTS WorksBehindFirewall OneEnsures
PROPERTIES LeaseKept LeftoverStops HostLetGo
CHECK_DEADLOCK FALSE
