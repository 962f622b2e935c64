SPECIFICATION ReplaySpec
CONSTANTS
    replay = replay
    Proc = {replay, p2}
    own = own
    foreign = foreign
    Project = {own, foreign}
    v1 = v1
    v2 = v2
    v3 = v3
    v4 = v4
    Release = {v1, v2, v3, v4}
    t1 = t1
    t2 = t2
    t3 = t3
    t4 = t4
    t5 = t5
    Tx = {t1, t2, t3, t4, t5, t6}
    replayTx <- MCReplayTx
    c1 = c1
    c2 = c2
    Content = {c1, c2}
    receiptOf <- MCOwner
    controlOf <- MCOwner
    Edited = FALSE
    None = None
    Free = Free
    Stale = Stale
    FaultKinds = {"exception", "tail_exception", "interrupt", "kill"}
    MaxFaults = 1
    ExclusiveForce = TRUE
    TxReuse = FALSE
    Reasons = {"short"}
    MaxCalls = 2
INVARIANTS
    PassIsEvidence
PROPERTIES
    UndisturbedPasses
CHECK_DEADLOCK FALSE
