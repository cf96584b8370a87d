\* A package manager whose scan does not tell what is installed.
CONSTANTS
    PreTags <- MCPreTags
    Raws <- MCRaws
    ParseOf <- MCParseOf
    Patterns <- NoPatterns
    FoldOf <- NoFolds
    Sources <- OnlyDnf
    MaxVersion = 2
SPECIFICATION Spec
PROPERTIES
    UpdatesArrive
