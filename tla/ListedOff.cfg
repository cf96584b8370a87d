SPECIFICATION StartupSpec
CONSTANTS
    Keys = {}
    Shortcuts = {}
    Desktops = {}
    Agents = {e3}
    Own = {}
INVARIANT
    ListIsTrue
