SPECIFICATION Spec
CONSTANTS
    l1 = l1
    Base = 2
    Width = 3
    Top = 5
    Strays <- TwoStrays
    KeysMax = {1, 2}
    BackendMax = 2
    Listers = {l1}
    ChangesMax = 5
INVARIANTS NewestIsNewest ScanIsComplete
CHECK_DEADLOCK FALSE
