SPECIFICATION Spec
CONSTANTS
    k1 = k1
    k2 = k2
    k3 = k3
    b1 = b1
    b2 = b2
    b3 = b3
    None = None
    Calls = {k1, k2, k3}
    Bodies = {b1, b2, b3}
    Fences = {b3}
    SizeOf <- Lengths
    ReadMax = 2
INVARIANTS EvidenceIsTrue ReadSeesSuccess
SYMMETRY Symmetry
CHECK_DEADLOCK FALSE
