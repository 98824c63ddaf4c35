CONSTANTS
    g1 = g1
    g2 = g2
    default = default
    tablet = tablet
    TV = TV
    None = None
    Silent = {}
    MaxSwitches = 1
    Requesters <- GamePair
    Games <- GamePair
    Labels <- TwoLabels
    Default = default
    Tablet <- OneTablet
    Faults = TRUE
SPECIFICATION GMFairSpec
INVARIANTS
    AudioBack
    StateFileTells
    TabletServed
PROPERTIES
    GamesEnd
    ReloadKeepsProfile
    RequestsTaken
