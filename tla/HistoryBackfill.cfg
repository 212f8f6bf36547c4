\* Two overlapping runs, a WB job of two chunks and an Ozon job with an empty period; two
\* jobs a run; workers die and calls fail at will.
SPECIFICATION FairSpec
CONSTANTS
    w1 = w1  w2 = w2
    None = None
    MaxJobs = 2
    Workers = {w1, w2}
    Span <- Spans
    Ozon = {2}
    ChunkDays = 1
    Limit = 2
INVARIANTS TypeOK 
PROPERTIES EveryJobEnds
CHECK_DEADLOCK FALSE
