CONSTANTS
    g1 = g1
    g2 = g2
    default = default
    tablet = tablet
    TV = TV
    None = None
    Silent = {}
    MaxSwitches = 1
    Requesters <- OneGame
    Games <- OneGame
    Labels <- TwoLabels
    Default = default
    Tablet <- OneTablet
    Faults = FALSE
SPECIFICATION GMSpec
INVARIANT RestoresDesktop
