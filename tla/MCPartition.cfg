SPECIFICATION FairSpec
CONSTANTS
    w0 = w0
    w1 = w1
    w2 = w2
    None = None
    Procs = {w0, w1}
    GenerationMax = 6
    CoordinateMax = 6
    SuffixMax = 4
    Trigger = 2
INVARIANTS TypeOK AckedIsRecoverable ReadyHoldsLanded HandoffIsComplete HeadTablesExist ClaimsAreUnique
PROPERTIES FencesStay OnlySuccessorsFence OpeningEnds
CHECK_DEADLOCK FALSE
