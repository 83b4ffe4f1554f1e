SPECIFICATION MSpec
CONSTANTS
    id1 = id1
    id2 = id2
    Ids <- MCTwoIds
    MaxConns = 2
    MaxDatagrams = 0
    MaxStale = 0
    MaxPdus = 1
    MaxCloses = 0
    Stops = FALSE
    MAX_CLIENTS_NUM = 2
INVARIANTS
    NeverLockedOut
CHECK_DEADLOCK FALSE
