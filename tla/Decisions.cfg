\* One package through every history of at most MaxUpgrades updates; a session of two holds and
\* every setting a user has.  A history ends when nothing newer is on offer, or at the bound.
CONSTANTS
    PreTags <- MCPreTags
    Offers <- MCOffers
    MaxUpgrades = 2
    Raws <- MCRaws
    ParseOf <- MCParseOf
    Patterns <- MCPatterns
    FoldOf <- MCFoldOf
    Packages <- OnePackage
    NamesOf <- MCNamesOf
    FilterNamesOf <- MCFilterNamesOf
    LowerOf <- MCLowerOf
    ForbidsOf <- OnePackage
    RequiresOf = {}
    Profiles <- MCProfiles
    Settings <- MCSettings
    MaxHolds = 2
SPECIFICATION DecisionsSpec
INVARIANTS
    NeverReturns
    OrderingIsTheLoop
    TypeOK
PROPERTIES
    MovesForwardOnly
    OnlyToAPinnedVersion
CHECK_DEADLOCK FALSE
