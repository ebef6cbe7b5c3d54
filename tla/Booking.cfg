SPECIFICATION Spec
CONSTANTS
    Case = {c1, c2, c3}
    Unit = {u1, u2, u3, u4}
    Consumer = {k1, k2}
    Psjb = {p1}
    Submission = {s1}
    BankProcess = {}
    Ppjb = {d1}
    main = main
    other = other
    Branch = {main, other}
    u1 = u1
    u2 = u2
    u3 = u3
    u4 = u4
    UnitBranch <- MCUnitBranch
    ListLimit = 1
    MaxDate = 0
    MaxSequence = 1
    None = None
SYMMETRY AllSymmetry
INVARIANTS UnitStatusMatchesCases MoveLinksCases OfferedUnitsAreAccepted
PROPERTIES AkadIsFinal ImplementsUnitSale
CHECK_DEADLOCK FALSE
