CONSTANTS
    Reasons <- FourReasons
    Changes = 4
    Window = 3
    None = None
SPECIFICATION FairSpec
INVARIANTS
    ZeroMeansMerged
    OncePerRemoval
PROPERTIES
    RetriesOnlyCI
    EndsOrAsksAgain
CHECK_DEADLOCK FALSE
