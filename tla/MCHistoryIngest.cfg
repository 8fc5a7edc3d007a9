\* Two workers, or two sources, or live records around midnight.
SPECIFICATION FairSpec
CONSTANTS
    w1 = w1
    w2 = w2
    Workers = {w1, w2}
    AllSources = {"pi", "opencode", "claude"}
    MaxUse = 1
    Environments <- Sorted
INVARIANT CursorHidesNothing
INVARIANT DoneMeansIngested
INVARIANT FingerprintStandsForRows
PROPERTY BackfillCompletes
CHECK_DEADLOCK FALSE
