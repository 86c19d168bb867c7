CONSTANTS
    d1 = d1
    d2 = d2
    g1 = g1
    Procs <- TwoLaunches
    OldProcs <- OneGoMerge
    Installed <- Anywhere
SPECIFICATION FairSpec
INVARIANTS OneOwner OwnedStaysPut
PROPERTIES HostsDownAlone QuitEnds
CHECK_DEADLOCK FALSE
