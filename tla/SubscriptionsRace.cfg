\* Two transactions of one user overlap while a tier is switched off and on.
SPECIFICATION Spec
CONSTANTS
    u1 = u1  u2 = u2  basic = basic  pro = pro  s1 = s1  s2 = s2
    None = None
    Users = {u1}
    Tiers = {basic, pro}
    Sessions = {s1, s2}
    SortOrder <- TierOrder
    Enterprise = {pro}
    Switchable = {basic}
    Terms = {1}
    MaxDay = 1
    MaxRows = 3
SYMMETRY Symmetry
INVARIANTS TypeOK
PROPERTIES RetiredForGood BoughtTierCounts PurchaseGivesAccess
CHECK_DEADLOCK FALSE
