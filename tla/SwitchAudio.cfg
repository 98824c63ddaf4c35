CONSTANTS
    w1 = w1
    w2 = w2
    m1 = m1
    tv = tv
    hdmi = hdmi
    None = None
    NoProfile = NoProfile
    Waiters <- WaiterPair
    Manuals <- OneManual
    Sinks <- TvOnly
    Removable <- TvOnly
    Profiles <- OneProfile
    ProfileOf <- TvProfile
    Retries = 1
SPECIFICATION FairSpec
INVARIANT
    NewestKeepsFile
PROPERTIES
    Arbitrates
    WaitersFinish
