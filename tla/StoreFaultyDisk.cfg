SPECIFICATION FairSpec
CONSTANTS
    Digests = {d1}
    Threads = {t1, t2}
    InactiveDays = {0}
    MaxDay = 1
    MaxRequests = 4
    Ops = {"import", "pull", "report", "execute", "verify"}
    Faults = {"short_write", "write_error", "bit_rot"}
CHECK_DEADLOCK FALSE
INVARIANT ServedIntact
INVARIANT VerifyFindsRot
PROPERTY RequestsFinish
