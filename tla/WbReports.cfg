\* A report of two lines and a file that corrects the first of them, uploaded twice, while
\* the worker and a page link rows one at a time and imports are deleted and restored.
SPECIFICATION Spec
CONSTANTS
    l1 = l1  l2 = l2  v1 = v1  v2 = v2
    None = None
    Lines = {l1, l2}
    Versions = {v1, v2}
    Files <- BothFiles
    Slots = {1, 2}
    MaxImports = 2
    Limit = 1
    Workers = {"worker"}
    Pages = {"page"}
INVARIANTS TypeOK DeletedIsOut CurrentIsCounted
CHECK_DEADLOCK FALSE
