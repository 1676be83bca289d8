SPECIFICATION Spec
CONSTANTS
    Procs = {p1, p2}
    MaxKeys = 2
    MaxTokens = 3
    Faults = {"kill", "key_material", "no_cert", "no_systemctl", "unreadable"}
CHECK_DEADLOCK FALSE
INVARIANT TypeOK
INVARIANT ExposedOnlyWithTokens
INVARIANT ShownKeyInEnv
INVARIANT RestartRevokes
