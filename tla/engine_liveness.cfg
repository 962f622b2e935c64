SPECIFICATION FairSpec
CONSTANTS
    Proc = {p1}
    Release = {r1, r2}
    Tx = {t1, t2}
    Content = {c1}
    None = None
    Free = Free
    Stale = Stale
    FaultKinds = {"exception", "tail_exception", "interrupt", "kill"}
    MaxFaults = 2
    ExclusiveForce = TRUE
    TxReuse = FALSE
    Reasons = {"short"}
PROPERTY UsableAgain
