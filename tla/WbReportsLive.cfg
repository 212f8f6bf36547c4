\* The same files and limit; the worker alone must get every line linked.
SPECIFICATION FairSpec
CONSTANTS
    l1 = l1  l2 = l2  v1 = v1  v2 = v2
    None = None
    Lines = {l1, l2}
    Versions = {v1, v2}
    Files <- BothFiles
    Slots = {1, 2}
    MaxImports = 2
    Limit = 1
    Workers = {"worker"}
    Pages = {}
PROPERTIES EveryOrderIsLinked
CHECK_DEADLOCK FALSE
