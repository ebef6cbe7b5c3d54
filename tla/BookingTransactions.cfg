SPECIFICATION TxSpec
CONSTANTS
    Tx = {t1, t2}
    Handlers <- Bookings
    Financings = {"CASH"}
    Case = {c1, c2, c3, c4}
    Unit = {u1, u2}
    Consumer = {k1, k2}
    Psjb = {}
    Submission = {}
    BankProcess = {}
    Ppjb = {}
    main = main
    Branch = {main}
    u1 = u1
    u2 = u2
    u3 = u3
    UnitBranch <- MCUnitBranch
    UnitRank <- MCUnitRank
    MaxDate = 0
    MaxSequence = 0
    None = None
SYMMETRY BookingSymmetry
INVARIANTS DeadlocksNeedDocumentFirst MoveNeverViolatesIndex
PROPERTIES HandlersAreAtomic
CHECK_DEADLOCK FALSE
