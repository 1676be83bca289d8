SPECIFICATION FairSpec
CONSTANTS
    Digests = {d1, d2}
    Workers = {w1, w2}
    Twice = {d2}
    MaxRuns = 1
    MaxExpiries = 1
    Faults = {"garble", "busy", "refuse", "auth", "break", "write", "clean", "crash"}
CHECK_DEADLOCK FALSE
INVARIANT TypeOK
INVARIANT ResponseAccounts
INVARIANT ErrorMeansMissing
INVARIANT CacheVerified
INVARIANT RequestsBounded
INVARIANT ExpiryHarmless
PROPERTY FetchEnds
