SPECIFICATION StartupSpec
CONSTANTS
    Keys = {}
    Shortcuts = {s1}
    Desktops = {}
    Agents = {}
    Own = {}
INVARIANT
    AlwaysComesBack
