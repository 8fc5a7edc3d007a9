\* One token panel whose scans may return, panic or hang, one after the other.
SPECIFICATION FairRefreshSpec
CONSTANTS
    TokenSources = {claude}
    MaxScans = 2
INVARIANT OneCollection
PROPERTY RequestsServed
PROPERTY LoadingEnds
