SPECIFICATION FairSpec
CONSTANTS
    v1 = v1
    v2 = v2
    NoValue = NoValue
    Values <- MCValues
    FirstMsgs <- MCFirstMsgs
    ClientMsgs <- MCClientMsgs
    MaxMsgs = 3
    SockBuf = 2
    PROCESSING_TIMEOUT_SECOND = 1
    END_TIMEOUT_SECOND = 1
INVARIANTS
    TypeOK
    ProcessingOnlyInUpperCall
    AnsweredSessionIsTimed
    EndingIsLast
PROPERTIES
    IdleTimeoutIsFinal
    AnsweredSessionEnds
