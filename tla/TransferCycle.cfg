SPECIFICATION Spec
CONSTANTS
    Tags <- MCTags
    Platforms <- MCPlatforms
    Importers = {i1, i2}
    Digests <- MCDigests
    Layers <- MCLayers
    MaxVersion = 1
    Canonical <- MCCanonical
    Dockerfiles <- MCDockerfiles
    MaxResponses = 2
    MaxTrouble = 2
    Faults = {"manifest", "blob", "short", "skip", "cache", "lose", "move", "crash", "gc"}
CHECK_DEADLOCK FALSE
SYMMETRY ImporterSymmetry
INVARIANT TypeOK
INVARIANT CleanImportDelivers
INVARIANT GapsAccounted
PROPERTY GcWarned
