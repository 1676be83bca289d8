SPECIFICATION Spec
CONSTANTS
    Digests = {d1, d2}
    Threads = {t1, t2}
    InactiveDays = {0}
    MaxDay = 1
    MaxRequests = 4
    Ops = {"import", "pull", "report", "execute"}
    Faults = {"write_error", "crash"}
CHECK_DEADLOCK FALSE
SYMMETRY ThreadSymmetry
INVARIANT TypeOK
INVARIANT ImportRepairs
INVARIANT PairedUnlessUpset
PROPERTY RemovedOnlyIfReported
PROPERTY KeepsPromise
