SPECIFICATION Spec
CONSTANTS
    Candidate = {k1, k2}
    Code = {missing}
    Batch <- MCBatch
    Resolvable = {missing}
    BlockingOrphan = {x1}
    Unit = {u1}
    Consumer = {n1}
    User = {a1, a2}
    Operator = {o1, o2}
    k1 = k1
    k2 = k2
    missing = missing
    u1 = u1
    n1 = n1
    MaxReviews = 2
    MaxResolutions = 1
    MaxPlans = 2
    MaxCases = 2
    None = None
INVARIANTS TypeOK StoredNeverAheadOfCalculated ImportedAreAccepted SecondImportNeedsSecondPlan ExecutionTellsImport
PROPERTIES ReadinessOnlyGrows ExecutionsGoForward
SYMMETRY MCSymmetry
CHECK_DEADLOCK FALSE
