\* Two sessions, two payments of one order: every overlap of two callers, and
\* a history of which payments two of them had in hand at once.
SPECIFICATION HSpec
CONSTANTS
    p1 = p1  p2 = p2  p3 = p3  u1 = u1  basic = basic  pro = pro  s1 = s1  s2 = s2  s3 = s3
    None = None
    Payments = {p1, p2}
    Sessions = {s1, s2}
    Workers = {s1, s2}
    Handlers = {s1, s2}
    Users = {u1}
    Tiers = {basic}
    UserOf <- OneUser
    TierOf <- SameTier
    SortOrder <- TierOrder
    Editable = {}
    Promo = {}
    MaxSubs = 2
    MaxGrants = 2
    MaxMessages = 1
    MaxUsed = 2
INVARIANTS PeriodsArePaid MessagesAreTrue PaidOnce OneOpenPerOrder
PROPERTIES FollowsLedger
CHECK_DEADLOCK FALSE
SYMMETRY Symmetry
