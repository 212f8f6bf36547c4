\* One session at a time: crashes, retries and late events, no overlap.
SPECIFICATION HSpec
CONSTANTS
    p1 = p1  p2 = p2  p3 = p3  u1 = u1  basic = basic  pro = pro  s1 = s1  s2 = s2  s3 = s3
    None = None
    Payments = {p1, p2, p3}
    Sessions = {s1}
    Workers = {s1}
    Handlers = {s1}
    Users = {u1}
    Tiers = {basic, pro}
    UserOf <- OneUser
    TierOf <- Upgrade
    SortOrder <- TierOrder
    Editable = {basic}
    Promo = {p3}
    MaxSubs = 2
    MaxGrants = 2
    MaxMessages = 1
    MaxUsed = 2
INVARIANTS PromoFollows
PROPERTIES LedgerSpec
CHECK_DEADLOCK FALSE
