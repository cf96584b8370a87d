\* Every backend, three releases.
CONSTANTS
    PreTags <- MCPreTags
    Raws <- MCRaws
    ParseOf <- MCParseOf
    Patterns <- NoPatterns
    FoldOf <- NoFolds
    Sources <- Everything
    MaxVersion = 3
SPECIFICATION Spec
INVARIANTS
    UpdatedIsThere
PROPERTIES
    MovesForward
    ComesToRest
    KeepsTrying
