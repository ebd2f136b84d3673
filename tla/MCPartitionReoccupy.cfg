SPECIFICATION Spec
CONSTANTS
    w0 = w0
    w1 = w1
    w2 = w2
    None = None
    Procs = {w0, w1}
    GenerationMax = 4
    CoordinateMax = 5
    SuffixMax = 4
    Trigger = 2
PROPERTY CollectedStaysVacant
SYMMETRY Symmetry
CHECK_DEADLOCK FALSE
