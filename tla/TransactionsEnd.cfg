SPECIFICATION FairTxSpec
CONSTANTS
    Tx = {t1, t2}
    Handlers <- Pemberkasan
    Financings = {"KPR_SUBSIDI", "CASH"}
    Case = {c1}
    Unit = {u1}
    Consumer = {k1}
    Psjb = {p1, p2}
    Submission = {s1}
    BankProcess = {}
    Ppjb = {}
    main = main
    Branch = {main}
    u1 = u1
    u2 = u2
    u3 = u3
    UnitBranch <- MCUnitBranch
    UnitRank <- MCUnitRank
    MaxDate = 0
    MaxSequence = 1
    None = None
PROPERTIES TransactionsEnd
CHECK_DEADLOCK FALSE
