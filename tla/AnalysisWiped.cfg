SPECIFICATION Spec
CONSTANTS
    Threads = {t1, t2}
    MaxAnalyses = 2
    MaxGenerates = 2
CHECK_DEADLOCK FALSE
INVARIANT LatestIsPending
