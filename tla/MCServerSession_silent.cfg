SPECIFICATION FairSpec
CONSTANTS
    v1 = v1
    v2 = v2
    NoValue = NoValue
    Values <- MCTwoValues
    FirstMsgs <- MCOneFirstMsg
    ClientMsgs <- MCProposals
    MaxMsgs = 3
    SockBuf = 2
    PROCESSING_TIMEOUT_SECOND = 1
    END_TIMEOUT_SECOND = 1
PROPERTIES
    SilentSessionEnds
