SPECIFICATION Spec
CONSTANTS
    Threads = {t1, t2}
    Chunks = 2
    MaxPuts = 2
    Faults = {"timeout"}
CHECK_DEADLOCK FALSE
SYMMETRY ThreadSymmetry
INVARIANT DecryptsOnlyVerified
