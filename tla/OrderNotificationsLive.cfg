\* Runs die, Telegram fails; the jobs come again.
SPECIFICATION FairSpec
CONSTANTS
    s1 = s1  s2 = s2
    None = None
    Sessions = {s1}
    Orders = {1, 2}
    Fbo = {1, 2}
    Marketplace = "OZON"
    FboMode = "digest"
    Limit = 1
    FboFails = TRUE
    Crashes = TRUE
    MaxPoll = 1
    MaxTime = 1
INVARIANT DigestIsTrue
PROPERTIES EveryOrderAnnounced DigestComes
CHECK_DEADLOCK FALSE
