SPECIFICATION Spec
CONSTANTS
    Procs = {p1}
    MaxKeys = 2
    MaxTokens = 0
    Faults = {}
CHECK_DEADLOCK FALSE
INVARIANT GraceKept
