CONSTANTS
    i1 = i1
    i2 = i2
    i3 = i3
    r1 = r1
    r2 = r2
    Root = Root
    Nowhere = Nowhere
    Issues <- ThreeIssues
    Repositories <- TwoRepositories
    MaxEdits = 2
    MaxEvents = 3
SYMMETRY Symmetry
SPECIFICATION Spec
INVARIANTS SomethingIsUnblocked
PROPERTIES PlannedIsKept WaitsSurvive
CHECK_DEADLOCK FALSE
