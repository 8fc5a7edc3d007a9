\* A TUI with an editor beside it, and two TUIs; restarts, failed reads and saves.
SPECIFICATION Spec
CONSTANTS
    a = a
    b = b
    Procs = {a, b}
    Families <- MCFamilies
    Labels <- MCLabels
    Highest = 4
    Warning = 2
    Critical = 3
    Environments <- MCWorlds
CHECK_DEADLOCK FALSE
INVARIANT SavedOrShown
INVARIANT HandWrittenKept
INVARIANT FocusOnRow
