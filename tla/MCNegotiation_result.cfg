SPECIFICATION NSpec
CONSTANTS
    v1 = v1
    v2 = v2
    NoValue = NoValue
    Values <- MCValues
    LoopCounts <- MCLoopCountsOfTheCode
    FirstMsgs <- MCFirstMsgs
    ClientMsgs <- MCClientMsgs
    MaxMsgs = 4
    SockBuf = 2
    PROCESSING_TIMEOUT_SECOND = 1
    END_TIMEOUT_SECOND = 1
    MaxGarbage = 0
INVARIANTS
    ConfiguresResult
