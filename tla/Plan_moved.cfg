CONSTANTS
    i1 = i1
    i2 = i2
    i3 = i3
    r1 = r1
    r2 = r2
    Root = Root
    Nowhere = Nowhere
    Issues <- ThreeIssues
    Repositories <- OneRepositoryOnly
    MaxEdits = 2
    MaxEvents = 2
SYMMETRY Symmetry
SPECIFICATION Spec
INVARIANT WorkHasRecord
CHECK_DEADLOCK FALSE
