\* Two processes that die and fail to save, and a calm one over a longer time.
SPECIFICATION Spec
CONSTANTS
    session = session
    claude = claude
    Procs = {p1, p2}
    Providers = {claude}
    Windows = {session}
    provider <- MCOneWindow
    Resets = {1, 2}
    Environments <- MCStormOrCalm
SYMMETRY ProcSymmetry
INVARIANT RecordsWereSent
INVARIANT NoSilentWindow
INVARIANT AlertsSpaced
