SPECIFICATION RuntimeSpec
CONSTANTS
    Proc = {p1, p2}
    Release = {r1, r2}
    Tx = {t1, t2, t3}
    c1 = c1
    c2 = c2
    mixed = mixed
    x1 = x1
    x2 = x2
    Content = {c1, c2, mixed}
    Project = {x1, x2}
    receiptOf <- MCReceiptOf
    controlOf <- MCControlOf
    Edited = FALSE
    None = None
    Free = Free
    Stale = Stale
    FaultKinds = {"exception", "tail_exception", "kill"}
    MaxFaults = 2
    ExclusiveForce = TRUE
    TxReuse = FALSE
    Reasons = {"short"}
SYMMETRY Symmetry
INVARIANTS
    RuntimeTypeOK
    OneProject
    BindingHeld
    Recoverable
PROPERTIES
    BindingLasts
