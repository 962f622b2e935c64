SPECIFICATION Spec
CONSTANTS
    Proc = {p1, p2}
    Id = {i1, i2}
    None = None
    Part = Part
    FaultKinds = {"exception", "kill"}
    MaxFaults = 1
SYMMETRY Symmetry
INVARIANTS
    TypeOK
    PublishedIsSound
