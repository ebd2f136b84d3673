SPECIFICATION Spec
CONSTANTS
    w0 = w0
    w1 = w1
    w2 = w2
    None = None
    Procs = {w0, w1, w2}
    GenerationMax = 5
    CoordinateMax = 4
    SuffixMax = 4
    Trigger = 2
PROPERTY ImplementsRegistry
SYMMETRY Symmetry
CHECK_DEADLOCK FALSE
