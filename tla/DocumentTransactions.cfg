SPECIFICATION TxSpec
CONSTANTS
    Tx = {t1, t2}
    Handlers <- Documents
    Financings = {"KPR_SUBSIDI", "CASH"}
    Case = {c1}
    Unit = {u1}
    Consumer = {k1}
    Psjb = {p1, p2}
    Submission = {s1}
    BankProcess = {b1}
    Ppjb = {d1, d2}
    main = main
    Branch = {main}
    u1 = u1
    u2 = u2
    u3 = u3
    UnitBranch <- MCUnitBranch
    UnitRank <- MCUnitRank
    MaxDate = 1
    MaxSequence = 1
    None = None
SYMMETRY DocumentSymmetry
INVARIANTS TxInvariant DeadlocksNeedDocumentFirst
PROPERTIES HandlersAreAtomic
CHECK_DEADLOCK FALSE
