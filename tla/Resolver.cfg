SPECIFICATION Spec
CONSTANTS
    Scenarios <- MCScenarios
    Tokens <- MCTokens
    Vars <- MCVars
    Dotted = {"reg.io", "docker.io"}
    LowerCase <- MCLowerCase
    Keys <- MCKeys
    Layers <- MCLayers
    SourceOf <- MCSourceOf
    Default <- Amd
    MaxChanges = 2
INVARIANT TypeOK
INVARIANT ImagesAsBuilt
INVARIANT NothingOverlooked
INVARIANT MissingTruthful
