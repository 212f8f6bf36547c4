\* Updates of one chat overlap: a code that covers a tier, old buttons for another.
SPECIFICATION HSpec
CONSTANTS
    u1 = u1  u2 = u2  basic = basic  pro = pro  h1 = h1  h2 = h2
    None = None
    Users = {u1}
    Tiers = {basic, pro}
    Handlers = {h1, h2}
    Allowed = {basic}
    Remainder <- WholePrice
    MaxTotal = 2
    MaxPerUser = 1
    MaxUsages = 2
    MaxOrders = 2
INVARIANTS TypeOK  OneAtATime 
SYMMETRY Symmetry
CHECK_DEADLOCK FALSE
