CONSTANTS
    c1 = c1
    c2 = c2
    home = home
    code = code
    tree = tree
    d1 = d1
    d2 = d2
    NoChild = NoChild
    Children <- TwoChildren
    Workspaces <- ThreeSpaces
    Roots <- TwoRoots
    Root <- SpaceRoot
    EventCap = 1
SPECIFICATION FairSpec
INVARIANT
    OneLazygit
PROPERTIES
    Supervises
    FollowsFocus
    StopEnds
    QuitQuits
