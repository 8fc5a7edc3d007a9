\* A TUI and a one-shot process over two days: faults, changed rows, a moving clock.
SPECIFICATION Spec
CONSTANTS
    tui = tui
    main = main
    Procs = {tui, main}
    Tuis = {tui}
    Kinds <- MCKinds
    Limit = 3
    DayTicks = 2
    Environments <- MCWorlds
CHECK_DEADLOCK FALSE
INVARIANT IndexIsOneSnapshot
INVARIANT ReportIsExact
PROPERTY OnlyScansErase
PROPERTY OnlyStaleCrossesDays
