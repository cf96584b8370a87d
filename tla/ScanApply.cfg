\* One package that two pages apply and scan, with a restart.
CONSTANTS
    a = a
    b = b
    updates = updates
    dashboard = dashboard
    Packages <- OnePackage
    Pages <- TwoPages
    MaxVersion = 3
    MaxRestarts = 1
SPECIFICATION Spec
INVARIANTS
    ShownIsCurrent
    AppliesWhatWasSeen
PROPERTIES
    NeverBackwards
    CatchesUp
CHECK_DEADLOCK FALSE
