CONSTANTS
    k1 = k1
    k2 = k2
    plain = plain
    main = main
    link1 = link1
    link2 = link2
    lone = lone
    wide = wide
    repo = repo
    None = None
    Procs <- Presses
    Ids = {1, 2, 3, 4}
    Begun = 2
    Dirs <- FiveDirs
    RepoKey <- KeyOf
    Linked <- Worktrees
    Tabs = {1, 2, 3}
    FirstTab = 2
    Labelled = {2, 3}
    Changes = 1
SPECIFICATION Spec
CHECK_DEADLOCK FALSE
INVARIANTS
    TypeOK
    Sidebar
    OneSpaceEach
PROPERTY GoesWhereMeant
SYMMETRY Symmetry
