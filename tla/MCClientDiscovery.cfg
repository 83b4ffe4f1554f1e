SPECIFICATION DFairSpec
CONSTANTS
    Replies <- MCReplies
    MaxCalls = 3
    MaxReplies = 3
    MAX_TRY_TIMES = 2
INVARIANTS
    DTypeOK
    TriesCounted
    BetweenCalls
PROPERTIES
    DiscoversAsSpecified
    DiscoverReturns
