\* Two pages that apply a package each.
CONSTANTS
    a = a
    b = b
    updates = updates
    dashboard = dashboard
    Packages <- MCPackages
    Pages <- TwoPages
    MaxVersion = 2
    MaxRestarts = 0
SPECIFICATION Spec
INVARIANT
    HistoryKeepsAll
CHECK_DEADLOCK FALSE
