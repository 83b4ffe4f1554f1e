SPECIFICATION DSpec
CONSTANTS
    Replies <- MCLocator
    MaxCalls = 3
    MaxReplies = 3
    MAX_TRY_TIMES = 2
INVARIANTS
    ReadyAfterDiscover
