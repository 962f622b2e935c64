SPECIFICATION Spec
CONSTANTS
    Proc = {p1, p2}
    Release = {r1, r2}
    Tx = {t1, t2, t3}
    Content = {c1, c2}
    None = None
    Free = Free
    Stale = Stale
    FaultKinds = {"tail_exception", "kill"}
    MaxFaults = 2
    ExclusiveForce = TRUE
    TxReuse = FALSE
    Reasons = {"short"}
SYMMETRY Symmetry
INVARIANTS
    AcceptedIsConsistent
