SPECIFICATION ImportSpec
CONSTANTS
    Case = {c1, c2}
    Unit = {u1}
    Consumer = {k1}
    Psjb = {p1, p2}
    Submission = {s1}
    BankProcess = {b1}
    Ppjb = {d1}
    Branch = {main}
    c1 = c1
    c2 = c2
    u1 = u1
    k1 = k1
    p1 = p1
    p2 = p2
    s1 = s1
    b1 = b1
    d1 = d1
    main = main
    UnitBranch <- MCUnitBranch
    Plans <- MCPlans
    MaxDate = 1
    MaxSequence = 1
    None = None
INVARIANTS ImportInvariant StageNeverAheadOfDocuments ImportedReferencesStayInCase StuckOnlyAsKnown UnitOnSaleOnlyWithClosedCandidate
CHECK_DEADLOCK FALSE
