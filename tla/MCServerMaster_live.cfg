SPECIFICATION MFairSpec
CONSTANTS
    id1 = id1
    id2 = id2
    Ids <- MCOneId
    MaxConns = 2
    MaxDatagrams = 1
    MaxStale = 1
    MaxPdus = 1
    MaxCloses = 1
    Stops = TRUE
    MAX_CLIENTS_NUM = 1
INVARIANTS
    MTypeOK
PROPERTIES
    DiscoveryServed
    RequestServed
    SessionCleared
CHECK_DEADLOCK FALSE
