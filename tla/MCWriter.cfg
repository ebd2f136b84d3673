SPECIFICATION Spec
CONSTANTS
    p1 = p1
    p2 = p2
    c1 = c1
    None = None
    Paths = {p1, p2}
    Configs = {c1}
    PathMax = 2
    CoordinateMax = 6
    SuffixMax = 4
    Trigger = 2
    PendingMax = 2
    RunFactsMax = 2
    FlushFacts = 2
    CommandsMax = 3
INVARIANTS TypeOK NoPanic RecoveredIsDurable AckedIsRecoverable AckedIsVisible AckedInOrder
    BarrierHasWakeup FullBarrierInFlight DueCheckpointRuns RunLeavesRoom NothingAckedPastFence ShutdownIsQuiescent
SYMMETRY Symmetry
CHECK_DEADLOCK FALSE
