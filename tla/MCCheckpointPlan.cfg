SPECIFICATION Spec
CONSTANTS
    p1 = p1
    p2 = p2
    p3 = p3
    p4 = p4
    c1 = c1
    None = None
    Paths = {p1, p2, p3, p4}
    Configs = {c1}
    PathMax = 3
    TableRows = 2
    RunsMax = 2
    ObjectsMax = 4
    BytesMax = 11
    BatchMax = 6
INVARIANTS MergeRestoresBase ForestIsWellFormed WithinSourceBounds
PROPERTY OccupancyIsPermanent
CHECK_DEADLOCK FALSE
