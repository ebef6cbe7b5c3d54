SPECIFICATION Spec
CONSTANTS
    Case = {c1}
    Unit = {u1}
    Consumer = {k1}
    Psjb = {p1, p2, p3}
    Submission = {s1, s2}
    BankProcess = {b1, b2}
    Ppjb = {d1, d2}
    main = main
    other = other
    Branch = {main, other}
    u1 = u1
    u2 = u2
    u3 = u3
    u4 = u4
    UnitBranch <- MCUnitBranch
    ListLimit = 1
    MaxDate = 2
    MaxSequence = 2
    None = None
SYMMETRY DocumentSymmetry
INVARIANTS StageMatchesDocuments ApprovalClosesSubmission AkadRestsOnLiveChain StockAwaitsAkad StageHasItsRecords FinancingMatchesEvidence VisibleButtonIsAccepted HiddenButtonIsRefused PrimaryButtonIsVisible
PROPERTIES StageGoesBackOnlyByCorrection DocumentsAreHistory
CHECK_DEADLOCK FALSE
