\* Two packages, four version strings, at most two retries, a history of two lines.
CONSTANTS
    PreTags <- MCPreTags
    Raws <- MCRaws
    ParseOf <- MCParseOf
    Packages <- MCPackages
    Jobs <- MCJobs
    HistoryCap = 2
SPECIFICATION Spec
INVARIANTS
    TypeOK
    RetriesStop
    HistoryIsTheReport
PROPERTIES
    OnlyTheApproved
    KeepsThePromise
    Terminates
\* A run ends; afterwards only the world around it moves.
CHECK_DEADLOCK FALSE
