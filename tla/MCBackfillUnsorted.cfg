\* The days of Claude come in no order.
SPECIFICATION Spec
CONSTANTS
    w1 = w1
    w2 = w2
    Workers = {w1, w2}
    AllSources = {"pi", "opencode", "claude"}
    MaxUse = 1
    Environments <- Unsorted
INVARIANT DoneMeansIngested
CHECK_DEADLOCK FALSE
