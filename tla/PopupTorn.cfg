CONSTANTS
    t1 = t1
    t2 = t2
    t3 = t3
    lazygit = lazygit
    btop = btop
    None = None
    Empty = Empty
    Torn = Torn
    Toggles <- TwoToggles
    Names <- TwoNames
    Lazygit = lazygit
    AtOnce = 2
    Together <- TwoNames
    Faults = FALSE
SPECIFICATION Spec
SYMMETRY ToggleSymmetry
CHECK_DEADLOCK FALSE
INVARIANT FileWhole
