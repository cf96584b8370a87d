\* Two scans and an apply of one process.
CONSTANTS
    s1 = s1
    s2 = s2
    a1 = a1
    Updates <- MCUpdates
    Backends <- MCBackends
    Scans <- MCScans
    Applies <- MCApplies
SPECIFICATION Spec
INVARIANTS
    ScansSeeInstalls
    InstalledByItsOwner
PROPERTIES
    EveryoneIsServed
