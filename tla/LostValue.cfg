SPECIFICATION FixSpec
CONSTANTS
    Paths = {}
    Touchable = {}
    HostsTexts = {}
    Values = {w1}
    MaxSecond = 1
    OneFixASecond = TRUE
    Leaf = {}
INVARIANT
    DisableIsReversible
CHECK_DEADLOCK FALSE
