SPECIFICATION Spec
CONSTANTS
    Threads = {t1}
    Chunks = 3
    MaxPuts = 4
    Faults = {"eof", "timeout", "garble", "crash", "import"}
CHECK_DEADLOCK FALSE
INVARIANT TypeOK
INVARIANT CompleteUploadDelivered
