\* One page, and a scan asked for while it applies.
CONSTANTS
    a = a
    b = b
    updates = updates
    dashboard = dashboard
    Packages <- OnePackage
    Pages <- OnePage
    MaxVersion = 2
    MaxRestarts = 0
SPECIFICATION Spec
INVARIANT
    AppliedInvalidates
CHECK_DEADLOCK FALSE
