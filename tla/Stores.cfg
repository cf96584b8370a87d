SPECIFICATION Spec
CONSTANTS
    Items = {i1, i2}
    Versions = {v1}
    Sound = {good1}
    Broken = {bad1}
    Commands = {c1, c2}
    Packages = {k1, k2}
    Programs = {p1, p2}
    Seconds = 3
    KeptBackups = 1
    OneASecond = TRUE
    Paths = {f1, f2, f3}
    Touchable = {f1, f2}
    HostsTexts = {h1, h2}
    Values = {w1}
    MaxSecond = 3
    OneFixASecond = TRUE
    Keys = {e1}
    Shortcuts = {s1}
    Desktops = {e2}
    Agents = {e3}
    Own = {e1, e2, e3}
    Managers = {"schtasks", "launchd", "systemd"}
    Times = {t1, t2}
    Verbs = {"apply", "care"}
    Categories = {"temp", "browser", "old"}
    Default = {"temp"}
    ReportOnly = {"old"}
    Nodes <- MCNodes
    Dirs = {"d1", "d2"}
    Links = {"l1"}
    Parent <- MCParent
    Size <- MCSize
    Matching <- MCMatching
    Elsewhere = {"temp"}
    Busy = {"f1", "b1"}
    Later = {"g1"}
    Fleeting = {"f2"}
    LiveCaches = {"browser"}
    Leaf <- MCLeaf
INVARIANTS
    NothingUnchecked
    ListedCanBeRestored
    NothingIsDeleted
    ComesBack
    AnswersHold
    OnlyTheChosen
CHECK_DEADLOCK FALSE
SYMMETRY Alike
