CONSTANTS
    p1 = p1
    p2 = p2
    low = low
    high = high
    home = home
    side = side
    None = None
    Runs <- TwoRuns
    Branches = {low, high}
    Base <- Stack
    Trees <- TwoTrees
    LastNumber = 2
    Changes = 1
SPECIFICATION Spec
CHECK_DEADLOCK FALSE
INVARIANTS
    TypeOK
    NothingLost
PROPERTY Pulled
SYMMETRY Symmetry
