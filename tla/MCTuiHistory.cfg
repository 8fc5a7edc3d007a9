\* One source, two graph threads, three keys, two writes.
SPECIFICATION FairSpec
CONSTANTS
    Sources = {"pi"}
    MaxReaders = 2
    MaxVersion = 2
    MaxKeys = 3
CHECK_DEADLOCK FALSE
INVARIANT RowsAreFinal
INVARIANT GraphIsCurrent
INVARIANT OneBackfill
PROPERTY GraphArrives
