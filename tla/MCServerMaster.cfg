SPECIFICATION MSpec
CONSTANTS
    id1 = id1
    id2 = id2
    Ids <- MCTwoIds
    MaxConns = 2
    MaxDatagrams = 0
    MaxStale = 1
    MaxPdus = 2
    MaxCloses = 1
    Stops = TRUE
    MAX_CLIENTS_NUM = 2
INVARIANTS
    ReadsDoNotBlock
    EntriesErased
    OwnConnection
\* The loop may lock itself out.
CHECK_DEADLOCK FALSE
