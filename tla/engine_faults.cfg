SPECIFICATION Spec
CONSTANTS
    Proc = {p1, p2}
    Release = {r1, r2}
    Tx = {t1, t2, t3}
    Content = {c1, c2}
    None = None
    Free = Free
    Stale = Stale
    FaultKinds = {"exception", "interrupt", "kill"}
    MaxFaults = 2
    ExclusiveForce = TRUE
    TxReuse = FALSE
    Reasons = {"short", "long"}
SYMMETRY Symmetry
INVARIANTS
    TypeOK
    SingleWriter
    AcceptedIsConsistent
    NothingLeftBehind
    DecidedJournalIsDone
    PointersHaveRecords
    SuccessIsCommitted
    EngineInv
PROPERTIES
    CallsAreAtomic
    ReleasesAreImmutable
    HistoryRemains
    NoLostUpdate
