SPECIFICATION Spec
CONSTANTS
    Case = {c1}
    Unit = {u1}
    Consumer = {k1}
    Psjb = {p1}
    Submission = {s1}
    BankProcess = {b1}
    Ppjb = {d1}
    main = main
    other = other
    Branch = {main, other}
    u1 = u1
    u2 = u2
    u3 = u3
    u4 = u4
    UnitBranch <- MCUnitBranch
    ListLimit = 1
    MaxDate = 1
    MaxSequence = 1
    None = None
SYMMETRY DocumentSymmetry
INVARIANTS ApprovalStartsPpjbStage
CHECK_DEADLOCK FALSE
