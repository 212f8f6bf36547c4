\* One payment, the job and one other session race while the tier may be
\* renamed; failures are unbounded.
SPECIFICATION FairSpec
CONSTANTS
    p1 = p1  p2 = p2  p3 = p3  u1 = u1  basic = basic  pro = pro  s1 = s1  s2 = s2  s3 = s3
    None = None
    Payments = {p1}
    Sessions = {s1, s2}
    Workers = {s1}
    Handlers = {s2}
    Users = {u1}
    Tiers = {basic}
    UserOf <- OneUser
    TierOf <- SameTier
    SortOrder <- TierOrder
    Editable = {basic}
    Promo = {p1}
    MaxSubs = 3
    MaxGrants = 2
    MaxMessages = 2
    MaxUsed = 3
INVARIANTS TypeOK AgreesWithProvider
PROPERTIES PaidIsSettled CancelIsRecorded
CHECK_DEADLOCK FALSE
