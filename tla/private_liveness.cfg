SPECIFICATION FairRuntimeSpec
CONSTANTS
    Proc = {p1}
    Release = {r1, r2}
    Tx = {t1, t2}
    c1 = c1
    c2 = c2
    mixed = mixed
    x1 = x1
    x2 = x2
    Content = {c1, c2, mixed}
    Project = {x1, x2}
    receiptOf <- MCReceiptOf
    controlOf <- MCControlOf
    Edited = FALSE
    None = None
    Free = Free
    Stale = Stale
    FaultKinds = {"interrupt", "kill"}
    MaxFaults = 2
    ExclusiveForce = TRUE
    TxReuse = FALSE
    Reasons = {"short"}
INVARIANTS
    Recoverable
PROPERTIES
    CoreUsableAgain
