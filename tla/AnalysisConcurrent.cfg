SPECIFICATION Spec
CONSTANTS
    Threads = {t1, t2, t3}
    MaxAnalyses = 3
    MaxGenerates = 3
CHECK_DEADLOCK FALSE
SYMMETRY ThreadSymmetry
INVARIANT TypeOK
INVARIANT RequestAsAsked
INVARIANT ReplacedTruthful
