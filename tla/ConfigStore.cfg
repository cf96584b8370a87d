\* One program and one command at a time; any call may fail, any program die.
CONSTANTS
    pkg = pkg
    g1 = g1
    g2 = g2
    c1 = c1
    Names <- OneName
    GuiTasks <- OneGui
    CliTasks <- OneCli
    Overlap = "never"
SPECIFICATION Spec
INVARIANTS
    TypeOK
    NeverTorn
    MemoryIsTheFile
    HoldsAreKept
    ProbeIsFresh
PROPERTIES
    ActsAsRegister
