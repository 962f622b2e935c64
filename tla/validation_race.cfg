SPECIFICATION ValidationSpec
CONSTANTS
    Proc = {p1}
    Release = {r1, r2}
    Tx = {t1, t2, t3}
    Content = {c1, c2}
    None = None
    Free = Free
    Stale = Stale
    FaultKinds = {"exception", "tail_exception"}
    MaxFaults = 1
    ExclusiveForce = TRUE
    TxReuse = FALSE
    Reasons = {"short"}
    MaxEntries = 2
    MaxDamage = 1
SYMMETRY Symmetry
INVARIANTS
    ReaderTypeOK
    TargetsAreWhole
    QuietReportIsRight
    TailAloneIsHarmless
