\* One product, the job and a user, two attempts of the client, a discount of
\* 75 percent; the seller, a condition or a preview comes between once.
SPECIFICATION FairSpec
CONSTANTS
    p1 = p1  p2 = p2  cron = cron  web = web
    Products = {p1}
    Cron = {cron}
    Web = {web}
    Needs = {95010, 20000}
    Mrc <- MrcOne
    Deviation = 10
    Discount = 7500
    MaxRetries = 2
    Listed = {120000}
    MaxTasks = 2
    MaxMoves = 1
INVARIANTS TypeOK  AppliedIsTrue ChangesAreTold
PROPERTIES PriceReached
CHECK_DEADLOCK FALSE
