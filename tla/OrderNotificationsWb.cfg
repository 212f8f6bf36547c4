\* Two runs overlap, and one of them may last; the recovery request of WB fails at will.
SPECIFICATION HSpec
CONSTANTS
    s1 = s1  s2 = s2
    None = None
    Sessions = {s1, s2}
    Orders = {1, 2}
    Fbo = {2}
    Marketplace = "WB"
    FboMode = "off"
    Limit = 100
    FboFails = FALSE
    Crashes = TRUE
    MaxPoll = 2
    MaxTime = 2
SYMMETRY Symmetry
INVARIANTS OnlyTheseAreLost NotifiedIsTrue
CHECK_DEADLOCK FALSE
