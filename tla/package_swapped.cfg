SPECIFICATION Spec
CONSTANTS
    Proc = {p1, p2}
    Id = {i1, i2}
    None = None
    Part = Part
    FaultKinds = {}
    MaxFaults = 0
SYMMETRY Symmetry
INVARIANTS
    ExtractedIsValidated
