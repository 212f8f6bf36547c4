\* Two requests, two workers, retries, sweeps and failures overlap; the
\* workers may die for ever, the sweep ends what they leave.
SPECIFICATION FairSpec
CONSTANTS
    r1 = r1  r2 = r2  w1 = w1  w2 = w2
    None = None
    Requests = {r1, r2}
    Workers = {w1, w2}
    Slow = TRUE
    Faults = TRUE
    MaxTries = 2
    MaxRuns = 2
INVARIANTS OneActiveRun OneExecution EndIsRecorded
PROPERTY EveryRunEnds
CHECK_DEADLOCK FALSE
