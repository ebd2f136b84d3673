SPECIFICATION FairSpec
CONSTANTS
    CreatesMax = 2
    ChannelMax = 1
    TablesMax = 5
    AttemptsMax = 2
INVARIANTS PreparedIsDurable IdentitiesAreFresh
PROPERTY AttemptEnds
CHECK_DEADLOCK FALSE
