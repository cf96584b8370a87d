\* A hold made with the CLI while the GUI is open, then any edit in the GUI.
CONSTANTS
    pkg = pkg
    g1 = g1
    g2 = g2
    c1 = c1
    Names <- OneName
    GuiTasks <- OneGui
    CliTasks <- OneCli
    Overlap = "programs"
SPECIFICATION Spec
INVARIANT
    HoldsAreKept
