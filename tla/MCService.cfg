SPECIFICATION FairSpec
CONSTANTS
    k1 = k1
    k2 = k2
    p1 = p1
    c1 = c1
    None = None
    Paths = {p1}
    Configs = {c1}
    PathMax = 1
    Clients = {k1, k2}
    Asks <- AllAsks
    IngressMax = 1
    PendingMax = 2
    RequestsMax = 3
INVARIANTS DefiniteFailureHasNoEffect AnswersRespectRealTime ShutdownDrains
PROPERTIES EveryRequestAnswered RefusalGroundsSurface
CHECK_DEADLOCK FALSE
