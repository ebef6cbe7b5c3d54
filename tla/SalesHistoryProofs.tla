------------------------- MODULE SalesHistoryProofs -------------------------
(***************************************************************************)
(* A unit's status and the chain of moves tell what happened to the cases, *)
(* and what is on record stays: under the handlers alone, the status of a  *)
(* unit follows its cases, a moved case has one successor, a stage goes    *)
(* back only by a correction, documents are history and an Akad is final.  *)
(***************************************************************************)
EXTENDS SalesEvidenceProofs

-----------------------------------------------------------------------------
(* What the handlers that write no booking leave alone. *)

\* Everything unit status and moves depend on, except the Akad's sale.
SameBooking(x) ==
    /\ status(x)' = status(x)
    /\ Exists(x)' <=> Exists(x)
    /\ sales_cases'[x].unit_id = sales_cases[x].unit_id
    /\ sales_cases'[x].previous_case_id = sales_cases[x].previous_case_id

DocumentNext ==
    \/ PsjbNext \/ BankNext \/ PpjbNext
    \/ \E c \in Case, d \in Ppjb : CreateAkad(c, d)

LEMMA DocumentsKeepBookings ==
    ASSUME TypeOK, DocumentNext, NEW x \in Case
    PROVE  SameBooking(x)
  <1>1. PICK c, s : SetStage(c, s)
    BY DocumentHandlersSetStage DEF DocumentNext
  <1>2. status(x)' = status(x)
    BY <1>1, SetStageKeepsSales, SharedType
  <1> QED
    BY <1>1, <1>2, SetStageKeepsSales, SharedType DEF SameBooking, Exists

LEMMA NextByKind ==
    ASSUME [Next]_vars
    PROVE  \/ LifecycleNext \/ DocumentNext
           \/ \E c, a \in Case : CreateBast(c, a)
           \/ UNCHANGED vars
  BY DEF Next, ClosingNext, PpjbNext, DocumentNext

\* A row not inserted yet has no Akad.
LEMMA AkadOnRecord ==
    ASSUME SalesInvariant, NEW c \in Case, hasAkad(c)
    PROVE  Exists(c)
  <1>1. Coherent(c) /\ AbsentRowsAreBlank
    BY ByParts DEF RowsInvariant
  <1> QED
    BY <1>1 DEF Coherent, AbsentRowsAreBlank, hasAkad

-----------------------------------------------------------------------------
(* Moves.  The formula is inductive once a row not inserted yet is known to *)
(* name no predecessor: a new case would give an old one a successor.       *)

Unlinked == \A c \in Case : ~ Exists(c) => sales_cases[c].previous_case_id = None

MoveInvariant == SalesInvariant /\ Unlinked /\ MoveLinksCases

\* MoveLinksCases of one case.
Linked(c) ==
    /\ status(c) = "PINDAH_KAVLING" <=> successors(c) # {}
    /\ OneOf(successors(c))
    /\ \A n \in successors(c) :
          /\ sales_cases[n].consumer_id = sales_cases[c].consumer_id
          /\ sales_cases[n].branch_id = sales_cases[c].branch_id
          /\ sales_cases[n].unit_id # sales_cases[c].unit_id

LEMMA MoveInit == Init => MoveInvariant
  BY SalesInvariantInit, TablesAssumption
     DEF Init, MoveInvariant, Unlinked, MoveLinksCases, OneOf, successors, NoCaseRow, status,
         Absent

\* A step that neither links nor moves a case keeps the chain of moves.
LEMMA LinkedStays ==
    ASSUME MoveInvariant, [Next]_vars, NEW c \in Case,
           \A x \in Case : sales_cases'[x].previous_case_id = sales_cases[x].previous_case_id,
           status(c)' = "PINDAH_KAVLING" <=> status(c) = "PINDAH_KAVLING"
    PROVE  Linked(c)'
  <1> USE TablesAssumption
  <1>1. Linked(c) /\ TypeOK
    BY DEF MoveInvariant, MoveLinksCases, Linked, SalesInvariant
  <1>2. successors(c)' = successors(c)
    BY DEF successors
  <1>3. ASSUME NEW n \in successors(c)
        PROVE  /\ SameSale(n) /\ SameSale(c)
    <2>1. n \in Case /\ Exists(n)
      BY <1>3 DEF successors, MoveInvariant, Unlinked
    <2>2. Exists(c)
      BY <1>1, <1>3 DEF Linked, Exists, Absent
    <2> QED
      BY <1>1, <2>1, <2>2, SalesStay, SharedType
  <1> QED
    BY <1>1, <1>2, <1>3 DEF Linked, SameSale

\* A move gives the case it closes its one successor.
LEMMA MoveLinks ==
    ASSUME MoveInvariant, [Next]_vars, NEW x \in Case,
           NEW c \in Case, NEW n \in Case, NEW u \in Unit, MoveSalesCaseUnit(c, n, u)
    PROVE  Linked(x)'
  <1> USE TablesAssumption
  <1> DEFINE old == sales_cases[c]
  <1>1. TypeOK /\ \A y \in Case : Linked(y)
    BY DEF MoveInvariant, MoveLinksCases, Linked, SalesInvariant
  <1>2. /\ status(c) = "ACTIVE" /\ status(n) = Absent /\ c # n
        /\ u # old.unit_id /\ UnitBranch[u] = old.branch_id
    BY DEF MoveSalesCaseUnit, IsActive, Found, Exists, Absent
  <1>3. sales_cases[n].previous_case_id = None
    BY <1>2 DEF MoveInvariant, Unlinked, Exists
  <1>4. /\ sales_cases'[n] = NewCase(u, old.consumer_id, old.financing_type, c)
        /\ sales_cases'[c] = [old EXCEPT !.case_status = "PINDAH_KAVLING"]
        /\ \A y \in Case \ {c, n} : sales_cases'[y] = sales_cases[y]
    BY <1>1, <1>2 DEF MoveSalesCaseUnit, TypeOK
  <1>5. /\ sales_cases'[c].previous_case_id = old.previous_case_id
        /\ sales_cases'[c].consumer_id = old.consumer_id
        /\ sales_cases'[c].branch_id = old.branch_id
        /\ sales_cases'[c].unit_id = old.unit_id
        /\ status(c)' = "PINDAH_KAVLING"
    BY <1>1, <1>4 DEF TypeOK, CaseRow, status
  <1>6. successors(c) = {}
    BY <1>1, <1>2 DEF Linked
  <1>a. /\ sales_cases'[n].previous_case_id = c
        /\ sales_cases'[n].consumer_id = old.consumer_id
        /\ sales_cases'[n].branch_id = UnitBranch[u]
        /\ sales_cases'[n].unit_id = u
    BY <1>4 DEF NewCase
  <1>b. \A y \in Case : y # n =>
           sales_cases'[y].previous_case_id = sales_cases[y].previous_case_id
    BY <1>4, <1>5
  <1>7. CASE x = c
    <2>1. successors(c)' = {n}
      BY <1>6, <1>a, <1>b DEF successors
    <2>2. OneOf(successors(c))'
      BY <2>1 DEF OneOf
    <2> QED
      BY <1>2, <1>5, <1>7, <1>a, <2>1, <2>2 DEF Linked
  <1>8. CASE x # c
    <2>1. successors(x)' = successors(x)
      BY <1>3, <1>8, <1>a, <1>b DEF successors
    <2>2. status(x)' = "PINDAH_KAVLING" <=> status(x) = "PINDAH_KAVLING"
      BY <1>2, <1>4, <1>8 DEF status, NewCase, Absent
    <2>3. ASSUME NEW y \in successors(x)
          PROVE  SameSale(y) /\ SameSale(x)
      <3>1. y \in Case /\ Exists(y)
        BY <2>3 DEF successors, MoveInvariant, Unlinked
      <3>2. Exists(x)
        BY <1>1, <2>3 DEF Linked, Exists, Absent
      <3> QED
        BY <1>1, <3>1, <3>2, SalesStay, SharedType
    <2> QED
      BY <1>1, <2>1, <2>2, <2>3 DEF Linked, SameSale
  <1> QED
    BY <1>7, <1>8

LEMMA MoveStep == MoveInvariant /\ [Next]_vars => MoveInvariant'
  <1> SUFFICES ASSUME MoveInvariant, [Next]_vars PROVE MoveInvariant'
    OBVIOUS
  <1>1. SalesInvariant' /\ TypeOK
    BY SalesInvariantStep DEF AnyNext, MoveInvariant, SalesInvariant
  <1>2. CASE \A x \in Case :
                /\ sales_cases'[x].previous_case_id = sales_cases[x].previous_case_id
                /\ status(x)' = "PINDAH_KAVLING" <=> status(x) = "PINDAH_KAVLING"
    <2>1. \A x \in Case : Linked(x)'
      BY <1>2, LinkedStays
    <2>2. Unlinked'
      <3>1. \A x \in Case : Exists(x) => Exists(x)'
        BY <1>1, SalesStay, SharedType DEF SameSale
      <3> QED
        BY <1>2, <3>1 DEF MoveInvariant, Unlinked
    <2> QED
      BY <1>1, <2>1, <2>2 DEF MoveInvariant, MoveLinksCases, Linked
  <1>3. ASSUME NEW c \in Case, NEW u \in Unit, NEW k \in Consumer, NEW f \in FinancingType,
               CreateSalesCase(c, u, k, f)
        PROVE  MoveInvariant'
    <2>1. /\ sales_cases[c].previous_case_id = None /\ status(c) = Absent
          /\ sales_cases' = [sales_cases EXCEPT ![c] = NewCase(u, k, f, None)]
      BY <1>3 DEF CreateSalesCase, MoveInvariant, Unlinked, Exists
    <2> QED
      BY <1>1, <1>2, <2>1 DEF TypeOK, NewCase, status, Absent
  <1>4. ASSUME NEW c \in Case, NEW z \in {"CANCELLED", "MUNDUR", "REJECT"},
               CloseSalesCase(c, z)
        PROVE  MoveInvariant'
    BY <1>1, <1>2, <1>4 DEF CloseSalesCase, IsActive, TypeOK, CaseRow, status
  <1>5. ASSUME NEW c \in Case, NEW n \in Case, NEW u \in Unit, MoveSalesCaseUnit(c, n, u)
        PROVE  MoveInvariant'
    <2>1. \A x \in Case : Linked(x)'
      BY <1>5, MoveLinks
    <2>2. Unlinked'
      <3>1. \A x \in Case : Exists(x) => Exists(x)'
        BY <1>1, SalesStay, SharedType DEF SameSale
      <3>2. Exists(n)' /\ \A x \in Case \ {c, n} : sales_cases'[x] = sales_cases[x]
        BY <1>1, <1>5 DEF MoveSalesCaseUnit, TypeOK, NewCase, Exists, status, Absent
      <3>3. Exists(c)
        BY <1>5 DEF MoveSalesCaseUnit, IsActive, Found
      <3> QED
        BY <3>1, <3>2, <3>3 DEF MoveInvariant, Unlinked
    <2> QED
      BY <1>1, <2>1, <2>2 DEF MoveInvariant, MoveLinksCases, Linked
  <1>6. CASE DocumentNext
    BY <1>1, <1>2, <1>6, DocumentsKeepBookings DEF SameBooking
  <1>7. ASSUME NEW c \in Case, NEW a \in Case, CreateBast(c, a) PROVE MoveInvariant'
    BY <1>1, <1>2, <1>7 DEF CreateBast, IsActive, TypeOK, CaseRow, status
  <1>8. CASE UNCHANGED vars
    BY <1>1, <1>2, <1>8 DEF vars, status
  <1> QED
    BY <1>3, <1>4, <1>5, <1>6, <1>7, <1>8, NextByKind
       DEF LifecycleNext, CancelSalesCase, MarkSalesCaseMundur, MarkSalesCaseRejected

\* MoveLinksCases: a case closed as PINDAH_KAVLING has exactly one successor, a case
\* of the same consumer and branch on another unit, and only such a case has one.
THEOREM MovesAreLinked == Spec => []MoveLinksCases
  <1>1. MoveInvariant => MoveLinksCases
    BY DEF MoveInvariant
  <1> QED
    BY MoveInit, MoveStep, <1>1, PTL DEF Spec

-----------------------------------------------------------------------------
(* Unit status.  It is inductive once OneActiveCase is known (a closing or  *)
(* an Akad writes the status of a unit no other ACTIVE case may hold) and   *)
(* every case on record names a unit.                                       *)

UnitsOfCases == \A c \in Case : Exists(c) => sales_cases[c].unit_id \in Unit

UnitInvariant == SalesInvariant /\ UnitsOfCases /\ UnitStatusMatchesCases

Booked(c, u) == sales_cases[c].unit_id = u /\ status(c) = "ACTIVE" /\ ~ hasAkad(c)
Sold(c, u) == sales_cases[c].unit_id = u /\ hasAkad(c)

\* UnitStatusMatchesCases of one unit.
Fits(u) ==
    /\ unit_status[u] = "BOOKING" <=> \E c \in Case : Booked(c, u)
    /\ unit_status[u] = "TERJUAL" => \E c \in Case : Sold(c, u)
    /\ \A c \in Case : Sold(c, u) /\ status(c) = "ACTIVE" => unit_status[u] = "TERJUAL"

LEMMA FitsDef == UnitStatusMatchesCases <=> \A u \in Unit : Fits(u)
  BY DEF UnitStatusMatchesCases, Fits, Booked, Sold, casesOn

LEMMA UnitInit == Init => UnitInvariant
  <1> SUFFICES ASSUME Init PROVE UnitInvariant
    OBVIOUS
  <1>1. \A c \in Case : status(c) = Absent /\ ~ hasAkad(c)
    BY DEF Init, NoCaseRow, status, hasAkad
  <1>2. \A u \in Unit : unit_status[u] = "TERSEDIA"
    BY DEF Init
  <1> QED
    BY <1>1, <1>2, SalesInvariantInit
       DEF UnitInvariant, UnitsOfCases, UnitStatusMatchesCases, casesOn, Exists, Absent

\* A unit keeps fitting while its status and what its cases say of it stay.
LEMMA FitsStays ==
    ASSUME NEW u \in Unit, Fits(u), unit_status'[u] = unit_status[u],
           \A x \in Case : /\ Booked(x, u)' <=> Booked(x, u)
                           /\ Sold(x, u) => Sold(x, u)'
                           /\ (Sold(x, u) /\ status(x) = "ACTIVE")'
                                 => Sold(x, u) /\ status(x) = "ACTIVE"
    PROVE  Fits(u)'
  BY DEF Fits

\* Two ACTIVE cases are on different units.
LEMMA NoOtherActiveCase ==
    ASSUME OneActiveCase, NEW c \in Case, status(c) = "ACTIVE",
           NEW x \in Case \ {c}, status(x) = "ACTIVE"
    PROVE  sales_cases[x].unit_id # sales_cases[c].unit_id
  BY DEF OneActiveCase

LEMMA CreateFits ==
    ASSUME UnitInvariant, NEW v \in Unit, NEW c \in Case, NEW u \in Unit, NEW k \in Consumer,
           NEW f \in FinancingType, CreateSalesCase(c, u, k, f)
    PROVE  Fits(v)'
  <1>1. TypeOK /\ Fits(v)
    BY FitsDef DEF UnitInvariant, SalesInvariant
  <1>2. /\ status(c) = Absent /\ UniqueActiveCase(u, k, Case) /\ akads' = akads
        /\ sales_cases' = [sales_cases EXCEPT ![c] = NewCase(u, k, f, None)]
        /\ unit_status' = [unit_status EXCEPT ![u] = "BOOKING"]
    BY DEF CreateSalesCase, Exists, documents
  <1>3. ~ hasAkad(c)
    BY <1>2, AkadOnRecord DEF UnitInvariant, Exists
  <1>4. /\ sales_cases'[c].unit_id = u /\ status(c)' = "ACTIVE"
        /\ \A x \in Case \ {c} : sales_cases'[x] = sales_cases[x]
        /\ \A x \in Case : hasAkad(x)' <=> hasAkad(x)
    BY <1>1, <1>2 DEF TypeOK, NewCase, status, hasAkad
  <1>5. CASE v = u
    <2>1. unit_status'[v] = "BOOKING" /\ Booked(c, v)'
      BY <1>1, <1>2, <1>3, <1>4, <1>5 DEF TypeOK, Booked
    <2>2. \A x \in Case : ~ (Sold(x, v)' /\ status(x)' = "ACTIVE")
      BY <1>2, <1>3, <1>4, <1>5 DEF UniqueActiveCase, Sold, status
    <2> QED
      BY <2>1, <2>2 DEF Fits
  <1>6. CASE v # u
    <2>1. unit_status'[v] = unit_status[v]
      BY <1>1, <1>2, <1>6 DEF TypeOK
    <2>2. ~ Booked(c, v) /\ ~ Booked(c, v)' /\ ~ Sold(c, v) /\ ~ Sold(c, v)'
      BY <1>2, <1>3, <1>4, <1>6 DEF Booked, Sold, Absent
    <2> QED
      BY <1>1, <1>4, <2>1, <2>2, FitsStays DEF Booked, Sold, status
  <1> QED
    BY <1>5, <1>6

LEMMA CloseFits ==
    ASSUME UnitInvariant, OneActiveCase, NEW v \in Unit, NEW c \in Case,
           NEW z \in {"CANCELLED", "MUNDUR", "REJECT"}, CloseSalesCase(c, z)
    PROVE  Fits(v)'
  <1> DEFINE u == sales_cases[c].unit_id
  <1>1. TypeOK /\ Fits(v)
    BY FitsDef DEF UnitInvariant, SalesInvariant
  <1>2. /\ status(c) = "ACTIVE" /\ ~ hasAkad(c) /\ akads' = akads /\ Exists(c)
        /\ sales_cases' = [sales_cases EXCEPT ![c].case_status = z]
        /\ releaseUnitIfNoActiveCase(c)
    BY DEF CloseSalesCase, IsActive, Found, documents
  <1>3. activeSalesCases(u) \ {c} = {}
    BY <1>2, NoOtherActiveCase DEF activeSalesCases, IsActive
  <1>4. unit_status' = [unit_status EXCEPT ![u] = "TERSEDIA"]
    BY <1>2, <1>3 DEF releaseUnitIfNoActiveCase
  <1>5. /\ sales_cases'[c].unit_id = u /\ status(c)' = z
        /\ \A x \in Case \ {c} : sales_cases'[x] = sales_cases[x]
        /\ \A x \in Case : hasAkad(x)' <=> hasAkad(x)
    BY <1>1, <1>2 DEF TypeOK, CaseRow, status, hasAkad
  <1>6. CASE v = u
    <2>1. unit_status'[v] = "TERSEDIA"
      BY <1>1, <1>4, <1>6 DEF TypeOK
    <2>2. \A x \in Case : ~ (sales_cases'[x].unit_id = v /\ status(x)' = "ACTIVE")
      <3>1. ASSUME NEW x \in Case \ {c}
            PROVE  ~ (sales_cases'[x].unit_id = v /\ status(x)' = "ACTIVE")
        BY <1>2, <1>5, <1>6, <3>1, NoOtherActiveCase DEF status
      <3> QED
        BY <1>5, <3>1
    <2> QED
      BY <2>1, <2>2 DEF Fits, Booked, Sold
  <1>7. CASE v # u
    <2>1. unit_status'[v] = unit_status[v]
      BY <1>1, <1>4, <1>7 DEF TypeOK
    <2>2. ~ Booked(c, v) /\ ~ Booked(c, v)' /\ ~ Sold(c, v) /\ ~ Sold(c, v)'
      BY <1>2, <1>5, <1>7 DEF Booked, Sold
    <2> QED
      BY <1>1, <1>5, <2>1, <2>2, FitsStays DEF Booked, Sold, status
  <1> QED
    BY <1>6, <1>7

LEMMA MoveFits ==
    ASSUME UnitInvariant, OneActiveCase, NEW v \in Unit, NEW c \in Case, NEW n \in Case,
           NEW u \in Unit, MoveSalesCaseUnit(c, n, u)
    PROVE  Fits(v)'
  <1> DEFINE old == sales_cases[c]
  <1>1. TypeOK /\ Fits(v)
    BY FitsDef DEF UnitInvariant, SalesInvariant
  <1>2. /\ status(c) = "ACTIVE" /\ ~ hasAkad(c) /\ status(n) = Absent /\ c # n
        /\ u # old.unit_id /\ UniqueActiveCase(u, old.consumer_id, Case \ {c})
        /\ unit_status' = [unit_status EXCEPT ![old.unit_id] = "TERSEDIA", ![u] = "BOOKING"]
        /\ akads' = akads
    BY DEF MoveSalesCaseUnit, IsActive, Found, Exists, Absent, documents
  <1>3. ~ hasAkad(n)
    BY <1>2, AkadOnRecord DEF UnitInvariant, Exists
  <1>4. /\ sales_cases'[n].unit_id = u /\ status(n)' = "ACTIVE"
        /\ sales_cases'[c].unit_id = old.unit_id /\ status(c)' = "PINDAH_KAVLING"
        /\ \A x \in Case \ {c, n} : sales_cases'[x] = sales_cases[x]
        /\ \A x \in Case : hasAkad(x)' <=> hasAkad(x)
    BY <1>1, <1>2 DEF MoveSalesCaseUnit, TypeOK, CaseRow, NewCase, status, hasAkad
  <1>5. CASE v = u
    <2>1. unit_status'[v] = "BOOKING" /\ Booked(n, v)'
      BY <1>1, <1>2, <1>3, <1>4, <1>5 DEF TypeOK, Booked
    <2>2. \A x \in Case : ~ (Sold(x, v)' /\ status(x)' = "ACTIVE")
      BY <1>2, <1>3, <1>4, <1>5 DEF UniqueActiveCase, Sold, status
    <2> QED
      BY <2>1, <2>2 DEF Fits
  <1>6. CASE v = old.unit_id
    <2>1. unit_status'[v] = "TERSEDIA"
      BY <1>1, <1>2, <1>6 DEF TypeOK
    <2>2. \A x \in Case : ~ (sales_cases'[x].unit_id = v /\ status(x)' = "ACTIVE")
      <3>1. ASSUME NEW x \in Case \ {c, n}
            PROVE  ~ (sales_cases'[x].unit_id = v /\ status(x)' = "ACTIVE")
        BY <1>2, <1>4, <1>6, <3>1, NoOtherActiveCase DEF status
      <3> QED
        BY <1>2, <1>4, <1>6, <3>1
    <2> QED
      BY <2>1, <2>2 DEF Fits, Booked, Sold
  <1>7. CASE v # u /\ v # old.unit_id
    <2>1. unit_status'[v] = unit_status[v]
      BY <1>1, <1>2, <1>7 DEF TypeOK
    <2>2. \A x \in {c, n} : ~ Booked(x, v) /\ ~ Booked(x, v)' /\ ~ Sold(x, v) /\ ~ Sold(x, v)'
      BY <1>2, <1>3, <1>4, <1>7 DEF Booked, Sold, Absent
    <2> QED
      BY <1>1, <1>4, <2>1, <2>2, FitsStays DEF Booked, Sold, status
  <1> QED
    BY <1>5, <1>6, <1>7

\* Akad and BAST both sell the unit of an ACTIVE case, the only one on the unit.
LEMMA SellFits ==
    ASSUME UnitInvariant, OneActiveCase, NEW v \in Unit, NEW c \in Case, status(c) = "ACTIVE",
           SellUnit(c), hasAkad(c)',
           \A x \in Case : sales_cases'[x].unit_id = sales_cases[x].unit_id,
           \A x \in Case \ {c} : status(x)' = status(x) /\ (hasAkad(x)' <=> hasAkad(x))
    PROVE  Fits(v)'
  <1>1. TypeOK /\ Fits(v) /\ sales_cases[c].unit_id \in Unit
    BY FitsDef DEF UnitInvariant, SalesInvariant, UnitsOfCases, Exists, Absent
  <1>2. unit_status' = [unit_status EXCEPT ![sales_cases[c].unit_id] = "TERJUAL"]
    BY DEF SellUnit
  <1>3. CASE v = sales_cases[c].unit_id
    <2>1. unit_status'[v] = "TERJUAL" /\ Sold(c, v)'
      BY <1>1, <1>2, <1>3 DEF TypeOK, Sold
    <2>2. \A x \in Case : ~ Booked(x, v)'
      BY <1>3, NoOtherActiveCase DEF Booked
    <2> QED
      BY <2>1, <2>2 DEF Fits
  <1>4. CASE v # sales_cases[c].unit_id
    <2>1. unit_status'[v] = unit_status[v]
      BY <1>1, <1>2, <1>4 DEF TypeOK
    <2> QED
      BY <1>1, <1>4, <2>1, FitsStays DEF Booked, Sold
  <1> QED
    BY <1>3, <1>4

LEMMA UnitStep == UnitInvariant /\ OneActiveCase /\ [Next]_vars => UnitInvariant'
  <1> SUFFICES ASSUME UnitInvariant, OneActiveCase, [Next]_vars PROVE UnitInvariant'
    OBVIOUS
  <1>1. SalesInvariant' /\ TypeOK
    BY SalesInvariantStep DEF AnyNext, UnitInvariant, SalesInvariant
  <1>2. UnitsOfCases'
    <2>1. ASSUME NEW x \in Case, Exists(x) PROVE sales_cases'[x].unit_id \in Unit
      BY <1>1, <2>1, SalesStay, SharedType DEF UnitInvariant, UnitsOfCases, SameSale
    <2>2. ASSUME NEW c \in Case, NEW u \in Unit, NEW k \in Consumer, NEW f \in FinancingType,
                 CreateSalesCase(c, u, k, f)
          PROVE  UnitsOfCases'
      <3>1. /\ sales_cases'[c].unit_id = u
            /\ \A x \in Case \ {c} : Exists(x)' <=> Exists(x)
        BY <1>1, <2>2 DEF CreateSalesCase, TypeOK, NewCase, Exists, status
      <3> QED
        BY <2>1, <3>1 DEF UnitsOfCases
    <2>3. ASSUME NEW c \in Case, NEW n \in Case, NEW u \in Unit, MoveSalesCaseUnit(c, n, u)
          PROVE  UnitsOfCases'
      <3>1. /\ sales_cases'[n].unit_id = u
            /\ Exists(c)
            /\ \A x \in Case \ {c, n} : Exists(x)' <=> Exists(x)
        BY <1>1, <2>3 DEF MoveSalesCaseUnit, IsActive, Found, TypeOK, NewCase, Exists, status
      <3> QED
        BY <2>1, <3>1 DEF UnitsOfCases
    <2>4. ASSUME NEW c \in Case, NEW z \in {"CANCELLED", "MUNDUR", "REJECT"},
                 CloseSalesCase(c, z)
          PROVE  UnitsOfCases'
      <3>1. Exists(c) /\ \A x \in Case \ {c} : Exists(x)' <=> Exists(x)
        BY <1>1, <2>4 DEF CloseSalesCase, IsActive, Found, TypeOK, Exists, status
      <3> QED
        BY <2>1, <3>1 DEF UnitsOfCases
    <2>5. CASE DocumentNext
      <3>1. \A x \in Case : Exists(x)' <=> Exists(x)
        BY <1>1, <2>5, DocumentsKeepBookings DEF SameBooking
      <3> QED
        BY <2>1, <3>1 DEF UnitsOfCases
    <2>6. ASSUME NEW c \in Case, NEW a \in Case, CreateBast(c, a) PROVE UnitsOfCases'
      <3>1. Exists(c) /\ \A x \in Case \ {c} : Exists(x)' <=> Exists(x)
        BY <1>1, <2>6 DEF CreateBast, IsActive, Found, TypeOK, Exists, status
      <3> QED
        BY <2>1, <3>1 DEF UnitsOfCases
    <2>7. CASE UNCHANGED vars
      BY <2>7 DEF vars, UnitInvariant, UnitsOfCases, Exists, status
    <2> QED
      BY <2>2, <2>3, <2>4, <2>5, <2>6, <2>7, NextByKind
         DEF LifecycleNext, CancelSalesCase, MarkSalesCaseMundur, MarkSalesCaseRejected
  <1>3. ASSUME NEW v \in Unit PROVE Fits(v)'
    <2>1. Fits(v)
      BY FitsDef DEF UnitInvariant
    <2>2. CASE LifecycleNext
      BY <2>2, CreateFits, CloseFits, MoveFits
         DEF LifecycleNext, CancelSalesCase, MarkSalesCaseMundur, MarkSalesCaseRejected
    <2>3. CASE PsjbNext \/ BankNext \/ PpjbNext
      <3>1. UNCHANGED << unit_status, akads >>
        BY <2>3 DEF PsjbNext, RecordBiCheck, CreatePsjb, ReissuePsjb, CancelPsjb, BankNext,
           CreateDocumentSubmission, CompleteCashPemberkasan, RecordBankResponse, PpjbNext,
           CreateDeveloperPpjb, ReissueDeveloperPpjb, CancelDeveloperPpjb
      <3>2. \A x \in Case : SameBooking(x)
        BY <1>1, <2>3, DocumentsKeepBookings DEF DocumentNext
      <3> QED
        BY <2>1, <3>1, <3>2, FitsStays DEF SameBooking, Booked, Sold, hasAkad
    <2>4. ASSUME NEW c \in Case, NEW d \in Ppjb, CreateAkad(c, d) PROVE Fits(v)'
      <3>1. \A x \in Case : SameBooking(x)
        BY <1>1, <2>4, DocumentsKeepBookings DEF DocumentNext
      <3>2. /\ status(c) = "ACTIVE" /\ SellUnit(c)
            /\ akads' = [akads EXCEPT ![c] = d]
        BY <2>4 DEF CreateAkad, IsActive
      <3>3. hasAkad(c)' /\ \A x \in Case \ {c} : hasAkad(x)' <=> hasAkad(x)
        BY <1>1, <3>2, TablesAssumption DEF TypeOK, hasAkad
      <3> QED
        BY <3>1, <3>2, <3>3, SellFits DEF SameBooking
    <2>5. ASSUME NEW c \in Case, NEW a \in Case, CreateBast(c, a) PROVE Fits(v)'
      <3>1. /\ status(c) = "ACTIVE" /\ SellUnit(c) /\ hasAkad(c) /\ akads' = akads
            /\ \A x \in Case \ {c} : sales_cases'[x] = sales_cases[x]
            /\ sales_cases'[c].unit_id = sales_cases[c].unit_id
        BY <1>1, <2>5 DEF CreateBast, IsActive, TypeOK, CaseRow
      <3> QED
        BY <3>1, SellFits DEF hasAkad, status
    <2>6. CASE UNCHANGED vars
      BY <2>1, <2>6, FitsStays DEF vars, documents, Booked, Sold, hasAkad, status
    <2> QED
      BY <2>2, <2>3, <2>4, <2>5, <2>6, NextByKind DEF DocumentNext
  <1>4. UnitStatusMatchesCases'
    BY <1>3, FitsDef DEF UnitStatusMatchesCases, Fits, Booked, Sold, casesOn
  <1> QED
    BY <1>1, <1>2, <1>4 DEF UnitInvariant

LEMMA HandlersAreUnique == Spec => []OneActiveCase
  <1>1. [Next]_vars => [AnyNext]_vars
    BY DEF AnyNext
  <1> QED
    BY <1>1, CasesAreUnique, PTL DEF Spec, EditSpec, AnyNext

LEMMA UnitInvariantHolds == Spec => []UnitInvariant
  BY UnitInit, UnitStep, HandlersAreUnique, PTL DEF Spec

\* UnitStatusMatchesCases: a unit is BOOKING exactly while an ACTIVE case before its
\* Akad holds it, TERJUAL only after an Akad, and while such a case is ACTIVE.
THEOREM UnitStatusIsRight == Spec => []UnitStatusMatchesCases
  BY UnitInvariantHolds, PTL DEF UnitInvariant

-----------------------------------------------------------------------------
(* Stages and documents, with the record edits as well. *)

LEMMA AdvanceNeverBack ==
    ASSUME NEW s \in Stage, NEW t \in Stage
    PROVE  ~ isBeyond(s, advanceStageTo(s, t))
  BY DEF advanceStageTo, isBeyond, order, Stage

BackOnlyByCorrection(s, t) == isBeyond(s, t) => << s, t >> \in Corrections

LEMMA StayIsNotBack == \A s \in Stage : BackOnlyByCorrection(s, s)
  BY DEF BackOnlyByCorrection, isBeyond, order, Stage

\* A check sends a case back from PSJB only.
LEMMA CheckGoesBack ==
    ASSUME NEW s \in Stage, NEW r
    PROVE  BackOnlyByCorrection(s, stageAfterBiCheck(s, r))
  <1>1. CASE r = "CLEAR"
    BY <1>1, AdvanceNeverBack DEF stageAfterBiCheck, BackOnlyByCorrection, Stage
  <1>2. CASE r # "CLEAR"
    BY <1>2 DEF stageAfterBiCheck, BackOnlyByCorrection, Corrections, isBeyond, order, Stage
  <1> QED
    BY <1>1, <1>2

\* A PSJB is cancelled at PEMBERKASAN: it is ACTIVE, and nothing was submitted yet.
LEMMA CancelPsjbGoesBack ==
    ASSUME SalesInvariant, NEW p \in Psjb, CancelPsjb(p)
    PROVE  stage(psjbs[p].sales_case_id) = "PEMBERKASAN"
  <1> DEFINE c == psjbs[p].sales_case_id
  <1>1. c \in Case /\ p \in activePsjb(c) /\ ~ isBeyond(stage(c), "PEMBERKASAN")
    BY DEF CancelPsjb, SalesInvariant, ReferencesStayInCase, PsjbLinks, activePsjb, Absent
  <1>2. Coherent(c) /\ stage(c) \in Stage
    BY <1>1, ByParts, StageType DEF SalesInvariant
  <1>3. stage(c) \notin BeforePemberkasan /\ stage(c) \in BeforeProsesBank
    BY <1>1, <1>2, StageOrder DEF Coherent
  <1> QED
    BY <1>3 DEF BeforePemberkasan, BeforeProsesBank

\* A PPJB is cancelled at AKAD: it is ACTIVE, and the case has no Akad.
LEMMA CancelPpjbGoesBack ==
    ASSUME SalesInvariant, NEW d \in Ppjb, CancelDeveloperPpjb(d)
    PROVE  stage(ppjbs[d].sales_case_id) = "AKAD"
  <1> DEFINE c == ppjbs[d].sales_case_id
  <1>1. c \in Case /\ d \in activePpjb(c) /\ akads[c] = None
    BY DEF CancelDeveloperPpjb, SalesInvariant, ReferencesStayInCase, PpjbLinks, activePpjb,
       hasAkad, Absent
  <1>2. Coherent(c)
    BY <1>1, ByParts
  <1> QED
    BY <1>1, <1>2 DEF Coherent

\* A handler that sets a stage changes one stage, or none.
LEMMA OneStageChanges ==
    ASSUME TypeOK, NEW c, NEW t, SetStage(c, t), NEW x \in Case,
           c \in Case => BackOnlyByCorrection(stage(c), t)
    PROVE  BackOnlyByCorrection(stage(x), stage(x)')
  <1>1. stage(x) \in Stage
    BY StageType
  <1>2. stage(x)' = stage(x) \/ (x = c /\ stage(x)' = t)
    BY DEF SetStage, TypeOK, CaseRow, stage
  <1> QED
    BY <1>1, <1>2, StayIsNotBack

LEMMA StageStep ==
    ASSUME SalesInvariant, [AnyNext]_vars, NEW x \in Case
    PROVE  BackOnlyByCorrection(stage(x), stage(x)')
  <1>1. TypeOK /\ AbsentRowsAreBlank /\ \A c \in Case : stage(c) \in Stage
    BY StageType DEF SalesInvariant
  <1>2. CASE stage(x)' = stage(x)
    BY <1>1, <1>2, StayIsNotBack
  <1>3. \A c \in Case, t \in Stage : BackOnlyByCorrection(stage(c), advanceStageTo(stage(c), t))
    BY <1>1, AdvanceNeverBack DEF BackOnlyByCorrection
  <1>4. CASE LifecycleNext
    <2>1. ASSUME NEW c \in Case, NEW u \in Unit, NEW k \in Consumer, NEW f \in FinancingType,
                 CreateSalesCase(c, u, k, f)
          PROVE  stage(x)' = stage(x)
      BY <1>1, <2>1 DEF CreateSalesCase, TypeOK, NewCase, AbsentRowsAreBlank, stage
    <2>2. ASSUME NEW c \in Case, NEW z, CloseSalesCase(c, z)
          PROVE  stage(x)' = stage(x)
      BY <1>1, <2>2 DEF CloseSalesCase, TypeOK, CaseRow, stage
    <2>3. ASSUME NEW c \in Case, NEW n \in Case, NEW u \in Unit, MoveSalesCaseUnit(c, n, u)
          PROVE  stage(x)' = stage(x)
      BY <1>1, <2>3 DEF MoveSalesCaseUnit, TypeOK, CaseRow, NewCase, AbsentRowsAreBlank, stage
    <2> QED
      BY <1>2, <1>4, <2>1, <2>2, <2>3
         DEF LifecycleNext, CancelSalesCase, MarkSalesCaseMundur, MarkSalesCaseRejected
  <1>5. CASE PsjbNext
    <2>1. ASSUME NEW c \in Case, NEW d, NEW r, RecordBiCheck(c, d, r)
          PROVE  BackOnlyByCorrection(stage(x), stage(x)')
      BY <1>1, <2>1, CheckGoesBack, OneStageChanges DEF RecordBiCheck
    <2>2. ASSUME NEW c \in Case, NEW old, NEW p, CreatePsjb(c, p) \/ ReissuePsjb(c, old, p)
          PROVE  BackOnlyByCorrection(stage(x), stage(x)')
      BY <1>1, <1>3, <2>2, OneStageChanges DEF CreatePsjb, ReissuePsjb, Stage
    <2>3. ASSUME NEW p \in Psjb, CancelPsjb(p)
          PROVE  BackOnlyByCorrection(stage(x), stage(x)')
      <3>1. SetStage(psjbs[p].sales_case_id, "PSJB")
        BY <2>3 DEF CancelPsjb
      <3>2. BackOnlyByCorrection(stage(psjbs[p].sales_case_id), "PSJB")
        BY <2>3, CancelPsjbGoesBack DEF BackOnlyByCorrection, Corrections
      <3> QED
        BY <1>1, <3>1, <3>2, OneStageChanges
    <2> QED
      BY <1>5, <2>1, <2>2, <2>3 DEF PsjbNext
  <1>6. CASE BankNext
    <2>1. PICK c \in Case, t \in Stage : SetStage(c, advanceStageTo(stage(c), t))
      BY <1>6 DEF BankNext, CreateDocumentSubmission, CompleteCashPemberkasan,
         RecordBankResponse, Stage
    <2> QED
      BY <1>1, <1>3, <2>1, OneStageChanges
  <1>7. CASE PpjbNext
    <2>1. ASSUME NEW c \in Case, NEW old, NEW d, NEW b,
                 CreateDeveloperPpjb(c, d, b) \/ ReissueDeveloperPpjb(c, old, d)
          PROVE  BackOnlyByCorrection(stage(x), stage(x)')
      BY <1>1, <1>3, <2>1, OneStageChanges DEF CreateDeveloperPpjb, ReissueDeveloperPpjb, Stage
    <2>2. ASSUME NEW d \in Ppjb, CancelDeveloperPpjb(d)
          PROVE  BackOnlyByCorrection(stage(x), stage(x)')
      <3>1. stage(ppjbs[d].sales_case_id) = "AKAD"
        BY <2>2, CancelPpjbGoesBack
      <3>2. SetStage(ppjbs[d].sales_case_id, "PPJB_DEV")
        BY <2>2, <3>1 DEF CancelDeveloperPpjb, isBeyond, order
      <3> QED
        BY <1>1, <3>1, <3>2, OneStageChanges DEF BackOnlyByCorrection, Corrections
    <2> QED
      BY <1>7, <2>1, <2>2 DEF PpjbNext
  <1>8. ASSUME NEW c \in Case, NEW d \in Ppjb, CreateAkad(c, d)
        PROVE  BackOnlyByCorrection(stage(x), stage(x)')
    BY <1>1, <1>3, <1>8, OneStageChanges DEF CreateAkad, Stage
  <1>9. ASSUME NEW c \in Case, NEW a \in Case, CreateBast(c, a)
        PROVE  BackOnlyByCorrection(stage(x), stage(x)')
    <2>1. stage(x)' = stage(x) \/ stage(x)' = "COMPLETED"
      BY <1>1, <1>9 DEF CreateBast, TypeOK, CaseRow, stage
    <2>2. BackOnlyByCorrection(stage(x), "COMPLETED")
      BY <1>1 DEF BackOnlyByCorrection, isBeyond, order, Stage
    <2> QED
      BY <1>2, <2>1, <2>2
  <1>10. CASE EditNext
    <2>1. \/ sales_cases' = sales_cases
          \/ \E c \in Case, f \in FinancingType :
                sales_cases' = [sales_cases EXCEPT ![c].financing_type = f]
          \/ \E c \in Case, t \in BOOLEAN :
                sales_cases' = [sales_cases EXCEPT ![c].trashed = t]
      BY <1>10 DEF EditNext, EditUnitStatus, EditFinancingType, DeleteSalesCase,
         RestoreSalesCase
    <2>2. stage(x)' = stage(x)
      BY <1>1, <2>1 DEF TypeOK, CaseRow, stage
    <2> QED
      BY <1>2, <2>2
  <1>11. CASE UNCHANGED vars
    BY <1>2, <1>11 DEF vars, stage
  <1> QED
    BY <1>4, <1>5, <1>6, <1>7, <1>8, <1>9, <1>10, <1>11
       DEF AnyNext, Next, ClosingNext, PpjbNext

\* StageGoesBackOnlyByCorrection: no handler and no edit takes a stage back but the
\* non-CLEAR check at PSJB and the cancellations of a PSJB and of a PPJB.
THEOREM StagesGoBackByCorrection == EditSpec => StageGoesBackOnlyByCorrection
  <1>1. SalesInvariant /\ [AnyNext]_vars
           => [\A c \in Case : isBeyond(stage(c), stage(c)') =>
                 << stage(c), stage(c)' >> \in Corrections]_vars
    BY StageStep DEF BackOnlyByCorrection
  <1> QED
    BY EditsKeepSalesInvariant, <1>1, PTL
       DEF EditSpec, AnyNext, StageGoesBackOnlyByCorrection

-----------------------------------------------------------------------------
(* Rows are history. *)

PsjbStays(p) ==
    psjbs[p].status # Absent =>
        /\ psjbs'[p].sales_case_id = psjbs[p].sales_case_id
        /\ psjbs[p].status # "ACTIVE" => psjbs'[p] = psjbs[p]

PpjbStays(d) ==
    ppjbs[d].status # Absent =>
        /\ ppjbs'[d].sales_case_id = ppjbs[d].sales_case_id
        /\ ppjbs'[d].bank_process_id = ppjbs[d].bank_process_id
        /\ ppjbs[d].status # "ACTIVE" => ppjbs'[d] = ppjbs[d]

SubmissionStays(s) ==
    submissions[s].status # Absent =>
        /\ submissions'[s] = [submissions[s] EXCEPT !.status = submissions'[s].status]
        /\ submissions[s].status = "CLOSED" => submissions'[s] = submissions[s]

ResponseStays(b) ==
    bank_processes[b].response_type # Absent => bank_processes'[b] = bank_processes[b]

AkadAndBastStay(c) ==
    /\ hasAkad(c) => akads'[c] = akads[c]
    /\ hasBast(c) => basts'[c] = basts[c]

LEMMA PsjbsStay ==
    ASSUME TypeOK, [Next]_vars, NEW x \in Psjb
    PROVE  PsjbStays(x)
  <1>1. psjbs' = psjbs \/ PsjbNext
    BY DEF Next, LifecycleNext, CreateSalesCase, CancelSalesCase, MarkSalesCaseMundur,
       MarkSalesCaseRejected, CloseSalesCase, MoveSalesCaseUnit, BankNext,
       CreateDocumentSubmission, CompleteCashPemberkasan, RecordBankResponse, ClosingNext,
       CreateDeveloperPpjb, ReissueDeveloperPpjb, CancelDeveloperPpjb, CreateAkad, CreateBast,
       vars, documents
  <1>2. ASSUME NEW c \in Case, NEW p \in Psjb, CreatePsjb(c, p) PROVE PsjbStays(x)
    BY <1>2 DEF CreatePsjb, TypeOK, PsjbStays
  <1>3. ASSUME NEW c \in Case, NEW old \in Psjb, NEW p \in Psjb, ReissuePsjb(c, old, p)
        PROVE  PsjbStays(x)
    BY <1>3 DEF ReissuePsjb, activePsjb, TypeOK, PsjbRow, PsjbStays, Absent
  <1>4. ASSUME NEW p \in Psjb, CancelPsjb(p) PROVE PsjbStays(x)
    BY <1>4 DEF CancelPsjb, TypeOK, PsjbRow, PsjbStays
  <1>5. CASE psjbs' = psjbs
    BY <1>5 DEF PsjbStays
  <1> QED
    BY <1>1, <1>2, <1>3, <1>4, <1>5 DEF PsjbNext, RecordBiCheck

LEMMA PpjbsStay ==
    ASSUME TypeOK, [Next]_vars, NEW x \in Ppjb
    PROVE  PpjbStays(x)
  <1>1. ASSUME NEW c \in Case, NEW d \in Ppjb, NEW b, CreateDeveloperPpjb(c, d, b)
        PROVE  PpjbStays(x)
    BY <1>1 DEF CreateDeveloperPpjb, TypeOK, PpjbStays
  <1>2. ASSUME NEW c \in Case, NEW old \in Ppjb, NEW d \in Ppjb,
               ReissueDeveloperPpjb(c, old, d)
        PROVE  PpjbStays(x)
    BY <1>2 DEF ReissueDeveloperPpjb, activePpjb, TypeOK, PpjbRow, PpjbStays, Absent
  <1>3. ASSUME NEW d \in Ppjb, CancelDeveloperPpjb(d) PROVE PpjbStays(x)
    BY <1>3 DEF CancelDeveloperPpjb, TypeOK, PpjbRow, PpjbStays
  <1>4. CASE ppjbs' = ppjbs
    BY <1>4 DEF PpjbStays
  <1> QED
    BY <1>1, <1>2, <1>3, <1>4, WhoWrites DEF PpjbNext

\* A response writes the status of its submission, and leaves it CLOSED.
LEMMA SubmissionsStay ==
    ASSUME TypeOK, [Next]_vars, NEW x \in Submission
    PROVE  SubmissionStays(x)
  <1>1. ASSUME submissions'[x] = submissions[x]
        PROVE  SubmissionStays(x)
    <2>1. submissions[x] \in SubmissionRow
      BY DEF TypeOK
    <2> QED
      BY <1>1, <2>1 DEF SubmissionRow, SubmissionStays
  <1>2. ASSUME NEW c \in Case, NEW p \in Psjb, NEW s \in Submission, NEW n \in 1..MaxSequence,
               NewSubmissionStepOf(c, p, s, n)
        PROVE  SubmissionStays(x)
    <2>1. submissions[s].status = Absent /\ \E r : submissions' = [submissions EXCEPT ![s] = r]
      BY <1>2 DEF NewSubmissionStepOf, CreateDocumentSubmission, CompleteCashPemberkasan
    <2>2. x # s => submissions'[x] = submissions[x]
      BY <2>1 DEF TypeOK
    <2> QED
      BY <1>1, <2>1, <2>2 DEF SubmissionStays
  <1>3. ASSUME NEW c \in Case, NEW s \in Submission, NEW b \in BankProcess,
               NEW r \in BankResponseType, RecordBankResponse(c, s, b, r)
        PROVE  SubmissionStays(x)
    <2>1. CASE x # s
      BY <1>1, <1>3, <2>1 DEF RecordBankResponse, TypeOK
    <2>2. CASE x = s
      <3>1. PICK z : /\ submissions' = [submissions EXCEPT ![s].status = z]
                     /\ submissions[s].status = "CLOSED" => z = "CLOSED"
        BY <1>3 DEF RecordBankResponse
      <3>2. submissions'[s] = [submissions[s] EXCEPT !.status = z] /\ submissions[s] \in SubmissionRow
        BY <3>1 DEF TypeOK
      <3>3. submissions'[s].status = z
        BY <3>2 DEF SubmissionRow
      <3>4. submissions[s].status = z => submissions'[s] = submissions[s]
        BY <3>2 DEF SubmissionRow
      <3> QED
        BY <2>2, <3>1, <3>2, <3>3, <3>4 DEF SubmissionStays
    <2> QED
      BY <2>1, <2>2
  <1>4. CASE submissions' = submissions
    BY <1>1, <1>4
  <1> QED
    BY <1>2, <1>3, <1>4, WhoWrites DEF NewSubmissionNext, BankAnswerNext

LEMMA ResponsesStay ==
    ASSUME TypeOK, [Next]_vars, NEW x \in BankProcess
    PROVE  ResponseStays(x)
  <1>1. ASSUME NEW c \in Case, NEW s \in Submission, NEW b \in BankProcess,
               NEW r \in BankResponseType, RecordBankResponse(c, s, b, r)
        PROVE  ResponseStays(x)
    BY <1>1 DEF RecordBankResponse, TypeOK, ResponseStays
  <1> QED
    BY <1>1, WhoWrites DEF BankAnswerNext, ResponseStays

\* Only CreateAkad and CreateBast write them, for a case that has none.
LEMMA AkadsAndBastsStay ==
    ASSUME TypeOK, [Next]_vars, NEW x \in Case
    PROVE  AkadAndBastStay(x)
  <1>1. ASSUME akads' = akads, basts' = basts PROVE AkadAndBastStay(x)
    BY <1>1 DEF AkadAndBastStay
  <1>2. CASE LifecycleNext \/ UNCHANGED vars
    BY <1>1, <1>2 DEF LifecycleNext, CreateSalesCase, CancelSalesCase, MarkSalesCaseMundur,
       MarkSalesCaseRejected, CloseSalesCase, MoveSalesCaseUnit, vars, documents
  <1>3. CASE PsjbNext \/ BankNext
    BY <1>1, <1>3 DEF PsjbNext, RecordBiCheck, CreatePsjb, ReissuePsjb, CancelPsjb, BankNext,
       CreateDocumentSubmission, CompleteCashPemberkasan, RecordBankResponse
  <1>4. ASSUME NEW c \in Case, NEW d \in Ppjb, CreateAkad(c, d) PROVE AkadAndBastStay(x)
    BY <1>4 DEF CreateAkad, TypeOK, AkadAndBastStay, hasAkad
  <1>5. ASSUME NEW c \in Case, NEW a \in Case, CreateBast(c, a) PROVE AkadAndBastStay(x)
    BY <1>5 DEF CreateBast, TypeOK, AkadAndBastStay, hasBast
  <1>6. CASE ClosingNext
    BY <1>1, <1>4, <1>5, <1>6 DEF ClosingNext, CreateDeveloperPpjb, ReissueDeveloperPpjb,
       CancelDeveloperPpjb
  <1> QED
    BY <1>2, <1>3, <1>6 DEF Next

LEMMA HistoryStep ==
    ASSUME TypeOK, [AnyNext]_vars
    PROVE  /\ \A p \in Psjb : PsjbStays(p)
           /\ \A d \in Ppjb : PpjbStays(d)
           /\ \A s \in Submission : SubmissionStays(s)
           /\ \A b \in BankProcess : ResponseStays(b)
           /\ \A c \in Case : AkadAndBastStay(c)
  <1>1. CASE [Next]_vars
    BY <1>1, PsjbsStay, PpjbsStay, SubmissionsStay, ResponsesStay, AkadsAndBastsStay
  <1>2. CASE EditNext
    <2>1. UNCHANGED documents
      BY <1>2 DEF EditNext, EditUnitStatus, EditFinancingType, DeleteSalesCase, RestoreSalesCase
    <2>2. \A s \in Submission : SubmissionStays(s)
      BY <2>1 DEF documents, TypeOK, SubmissionRow, SubmissionStays
    <2> QED
      BY <2>1, <2>2 DEF documents, PsjbStays, PpjbStays, ResponseStays, AkadAndBastStay
  <1> QED
    BY <1>1, <1>2 DEF AnyNext

\* DocumentsAreHistory: whatever handlers and edits do, a document keeps its links, a
\* SUPERSEDED, CANCELLED or CLOSED one never changes again, nor does a bank response,
\* an Akad or a BAST.
THEOREM DocumentsStay == EditSpec => DocumentsAreHistory
  <1>1. TypeOK /\ [AnyNext]_vars
           => [/\ \A p \in Psjb : PsjbStays(p)
               /\ \A d \in Ppjb : PpjbStays(d)
               /\ \A s \in Submission : SubmissionStays(s)
               /\ \A b \in BankProcess : ResponseStays(b)
               /\ \A c \in Case : AkadAndBastStay(c)]_vars
    BY HistoryStep
  <1>2. TypeOK /\ [AnyNext]_vars
           => [/\ \A p \in Psjb : psjbs[p].status # Absent =>
                     /\ psjbs'[p].sales_case_id = psjbs[p].sales_case_id
                     /\ psjbs[p].status # "ACTIVE" => psjbs'[p] = psjbs[p]
               /\ \A d \in Ppjb : ppjbs[d].status # Absent =>
                     /\ ppjbs'[d].sales_case_id = ppjbs[d].sales_case_id
                     /\ ppjbs'[d].bank_process_id = ppjbs[d].bank_process_id
                     /\ ppjbs[d].status # "ACTIVE" => ppjbs'[d] = ppjbs[d]
               /\ \A s \in Submission : submissions[s].status # Absent =>
                     /\ submissions'[s] = [submissions[s] EXCEPT !.status = submissions'[s].status]
                     /\ submissions[s].status = "CLOSED" => submissions'[s] = submissions[s]
               /\ \A b \in BankProcess : bank_processes[b].response_type # Absent =>
                     bank_processes'[b] = bank_processes[b]
               /\ \A c \in Case :
                     /\ hasAkad(c) => akads'[c] = akads[c]
                     /\ hasBast(c) => basts'[c] = basts[c]]_vars
    BY <1>1 DEF PsjbStays, PpjbStays, SubmissionStays, ResponseStays, AkadAndBastStay
  <1> QED
    BY EditTypeCorrect, <1>2, PTL DEF EditSpec, AnyNext, DocumentsAreHistory

-----------------------------------------------------------------------------
(* The Akad is final.  A PPJB yet to be inserted must not name a case.      *)

BlankPpjbs == \A d \in Ppjb : ppjbs[d].status = Absent => ppjbs[d].sales_case_id = None

LEMMA BlankPpjbsInit == Init => BlankPpjbs
  BY DEF Init, BlankPpjbs

LEMMA BlankPpjbsStep ==
    ASSUME TypeOK, BlankPpjbs, [Next]_vars
    PROVE  BlankPpjbs'
  <1>1. ASSUME NEW c \in Case, NEW d \in Ppjb, NEW b, CreateDeveloperPpjb(c, d, b)
        PROVE  BlankPpjbs'
    BY <1>1 DEF CreateDeveloperPpjb, NewPpjb, TypeOK, BlankPpjbs, Absent
  <1>2. ASSUME NEW c \in Case, NEW old \in Ppjb, NEW d \in Ppjb,
               ReissueDeveloperPpjb(c, old, d)
        PROVE  BlankPpjbs'
    BY <1>2 DEF ReissueDeveloperPpjb, NewPpjb, TypeOK, PpjbRow, BlankPpjbs, Absent
  <1>3. ASSUME NEW d \in Ppjb, CancelDeveloperPpjb(d) PROVE BlankPpjbs'
    BY <1>3 DEF CancelDeveloperPpjb, TypeOK, PpjbRow, BlankPpjbs, Absent
  <1>4. CASE ppjbs' = ppjbs
    BY <1>4 DEF BlankPpjbs
  <1> QED
    BY <1>1, <1>2, <1>3, <1>4, WhoWrites DEF PpjbNext

\* What AkadIsFinal says of one case.
FinalAfterAkad(c) ==
    hasAkad(c) =>
        /\ akads'[c] = akads[c]
        /\ status(c)' \in {status(c), "COMPLETED"}
        /\ \A d \in ppjbsOf(c) : ppjbs'[d] = ppjbs[d]
        /\ status(c) = "ACTIVE" => unit_status'[sales_cases[c].unit_id] = "TERJUAL"

\* The handlers that write a PPJB need a case without Akad, or without a PPJB.
LEMMA PpjbsAreFinal ==
    ASSUME SalesInvariant, BlankPpjbs, [Next]_vars, NEW c \in Case, hasAkad(c),
           NEW x \in ppjbsOf(c)
    PROVE  ppjbs'[x] = ppjbs[x]
  <1>1. TypeOK /\ x \in Ppjb /\ ppjbs[x].sales_case_id = c /\ c # None
    BY TablesAssumption DEF SalesInvariant, ppjbsOf
  <1>2. ppjbs[x].status # Absent
    BY <1>1 DEF BlankPpjbs
  <1>3. ASSUME NEW e \in Case, NEW d \in Ppjb, NEW b, CreateDeveloperPpjb(e, d, b)
        PROVE  ppjbs'[x] = ppjbs[x]
    BY <1>1, <1>2, <1>3 DEF CreateDeveloperPpjb, TypeOK
  <1>4. ASSUME NEW e \in Case, NEW old \in Ppjb, NEW d \in Ppjb,
               ReissueDeveloperPpjb(e, old, d)
        PROVE  ppjbs'[x] = ppjbs[x]
    BY <1>1, <1>2, <1>4 DEF ReissueDeveloperPpjb, activePpjb, TypeOK
  <1>5. ASSUME NEW d \in Ppjb, CancelDeveloperPpjb(d) PROVE ppjbs'[x] = ppjbs[x]
    BY <1>1, <1>5 DEF CancelDeveloperPpjb, TypeOK
  <1> QED
    BY <1>3, <1>4, <1>5, WhoWrites DEF PpjbNext

\* Closing and moving need a case without Akad; the BAST completes one.
LEMMA StatusIsFinal ==
    ASSUME SalesInvariant, [Next]_vars, NEW c \in Case, hasAkad(c)
    PROVE  /\ akads'[c] = akads[c]
           /\ status(c)' = status(c)
              \/ /\ status(c)' = "COMPLETED"
                 /\ SellUnit(c) /\ sales_cases'[c].unit_id = sales_cases[c].unit_id
  <1>1. TypeOK /\ Exists(c)
    BY AkadOnRecord DEF SalesInvariant
  <1>2. CASE LifecycleNext
    <2>1. akads' = akads
      BY <1>2 DEF LifecycleNext, CreateSalesCase, CancelSalesCase, MarkSalesCaseMundur,
         MarkSalesCaseRejected, CloseSalesCase, MoveSalesCaseUnit, documents
    <2>2. ASSUME NEW x \in Case, NEW u \in Unit, NEW k \in Consumer, NEW f \in FinancingType,
                 CreateSalesCase(x, u, k, f)
          PROVE  status(c)' = status(c)
      BY <1>1, <2>2 DEF CreateSalesCase, TypeOK, status, Exists
    <2>3. ASSUME NEW x \in Case, NEW z, CloseSalesCase(x, z)
          PROVE  status(c)' = status(c)
      BY <1>1, <2>3 DEF CloseSalesCase, TypeOK, status
    <2>4. ASSUME NEW x \in Case, NEW n \in Case, NEW u \in Unit, MoveSalesCaseUnit(x, n, u)
          PROVE  status(c)' = status(c)
      BY <1>1, <2>4 DEF MoveSalesCaseUnit, TypeOK, status, Exists
    <2> QED
      BY <1>2, <2>1, <2>2, <2>3, <2>4
         DEF LifecycleNext, CancelSalesCase, MarkSalesCaseMundur, MarkSalesCaseRejected
  <1>3. CASE DocumentNext
    <2>1. status(c)' = status(c)
      BY <1>1, <1>3, DocumentsKeepBookings DEF SameBooking
    <2>2. ASSUME NEW x \in Case, NEW d \in Ppjb, CreateAkad(x, d) PROVE akads'[c] = akads[c]
      BY <1>1, <2>2 DEF CreateAkad, TypeOK
    <2>3. ASSUME PsjbNext \/ BankNext \/ PpjbNext PROVE akads' = akads
      BY <2>3 DEF PsjbNext, RecordBiCheck, CreatePsjb, ReissuePsjb, CancelPsjb, BankNext,
         CreateDocumentSubmission, CompleteCashPemberkasan, RecordBankResponse, PpjbNext,
         CreateDeveloperPpjb, ReissueDeveloperPpjb, CancelDeveloperPpjb
    <2> QED
      BY <1>3, <2>1, <2>2, <2>3 DEF DocumentNext
  <1>4. ASSUME NEW x \in Case, NEW a \in Case, CreateBast(x, a)
        PROVE  /\ akads'[c] = akads[c]
               /\ status(c)' = status(c)
                  \/ /\ status(c)' = "COMPLETED"
                     /\ SellUnit(c) /\ sales_cases'[c].unit_id = sales_cases[c].unit_id
    BY <1>1, <1>4 DEF CreateBast, TypeOK, CaseRow, status
  <1>5. CASE UNCHANGED vars
    BY <1>5 DEF vars, documents, status
  <1> QED
    BY <1>2, <1>3, <1>4, <1>5, NextByKind

LEMMA AkadStep ==
    ASSUME UnitInvariant, UnitInvariant', BlankPpjbs, [Next]_vars, NEW c \in Case
    PROVE  FinalAfterAkad(c)
  <1> SUFFICES ASSUME hasAkad(c) PROVE FinalAfterAkad(c)
    BY DEF FinalAfterAkad
  <1> DEFINE u == sales_cases[c].unit_id
  <1>1. SalesInvariant /\ TypeOK /\ Exists(c) /\ u \in Unit
    BY AkadOnRecord DEF UnitInvariant, UnitsOfCases, SalesInvariant
  <1>2. \A d \in ppjbsOf(c) : ppjbs'[d] = ppjbs[d]
    BY <1>1, PpjbsAreFinal
  <1>3. CASE status(c)' = status(c) /\ status(c) = "ACTIVE"
    <2>1. hasAkad(c)' /\ sales_cases'[c].unit_id = u
      BY <1>1, StatusIsFinal, SalesStay, SharedType DEF hasAkad, SameSale
    <2>2. unit_status'[u] = "TERJUAL"
      <3>1. c \in casesOn(u)'
        BY <2>1 DEF casesOn
      <3> QED
        BY <1>1, <1>3, <2>1, <3>1 DEF UnitInvariant, UnitStatusMatchesCases
    <2> QED
      BY <1>1, <1>2, <1>3, <2>2, StatusIsFinal DEF FinalAfterAkad
  <1>4. CASE status(c)' = status(c) /\ status(c) # "ACTIVE"
    BY <1>1, <1>2, <1>4, StatusIsFinal DEF FinalAfterAkad
  <1>5. CASE status(c)' = "COMPLETED" /\ SellUnit(c)
    <2>1. unit_status'[u] = "TERJUAL"
      BY <1>1, <1>5 DEF SellUnit, TypeOK
    <2> QED
      BY <1>1, <1>2, <1>5, <2>1, StatusIsFinal DEF FinalAfterAkad
  <1> QED
    BY <1>1, <1>3, <1>4, <1>5, StatusIsFinal

\* AkadIsFinal: after the Akad no handler touches the Akad or a PPJB of the case, the
\* case can only complete, and until then its unit stays TERJUAL.
THEOREM AkadStays == Spec => AkadIsFinal
  <1>1. Spec => []BlankPpjbs
    <2>1. TypeOK /\ BlankPpjbs /\ [Next]_vars => BlankPpjbs'
      BY BlankPpjbsStep
    <2> QED
      BY TypeCorrect, BlankPpjbsInit, <2>1, PTL DEF Spec
  <1>2. UnitInvariant /\ UnitInvariant' /\ BlankPpjbs /\ [Next]_vars
           => [\A c \in Case : hasAkad(c) =>
                 /\ akads'[c] = akads[c]
                 /\ status(c)' \in {status(c), "COMPLETED"}
                 /\ \A d \in ppjbsOf(c) : ppjbs'[d] = ppjbs[d]
                 /\ status(c) = "ACTIVE" => unit_status'[sales_cases[c].unit_id] = "TERJUAL"]_vars
    BY AkadStep DEF FinalAfterAkad
  <1> QED
    BY UnitInvariantHolds, <1>1, <1>2, PTL DEF Spec, AkadIsFinal

-----------------------------------------------------------------------------
(* A closed case gains nothing.  Every handler but the cancellation of a    *)
(* PSJB works on an ACTIVE case; a row it inserts must not have counted for *)
(* another case before.                                                     *)

BlankPsjbs == \A p \in Psjb : psjbs[p].status = Absent => psjbs[p].sales_case_id = None

PsjbWriters ==
    \/ \E c \in Case, p \in Psjb : CreatePsjb(c, p)
    \/ \E c \in Case, old, p \in Psjb : ReissuePsjb(c, old, p)
    \/ \E p \in Psjb : CancelPsjb(p)

LEMMA WhoWritesPsjbs == ASSUME [Next]_vars PROVE psjbs' = psjbs \/ PsjbWriters
  BY DEF Next, LifecycleNext, CreateSalesCase, CancelSalesCase, MarkSalesCaseMundur,
     MarkSalesCaseRejected, CloseSalesCase, MoveSalesCaseUnit, PsjbNext, RecordBiCheck, BankNext,
     CreateDocumentSubmission, CompleteCashPemberkasan, RecordBankResponse, ClosingNext,
     CreateDeveloperPpjb, ReissueDeveloperPpjb, CancelDeveloperPpjb, CreateAkad, CreateBast,
     PsjbWriters, vars, documents

LEMMA BlankPsjbsInit == Init => BlankPsjbs
  BY DEF Init, BlankPsjbs

LEMMA BlankPsjbsStep ==
    ASSUME TypeOK, BlankPsjbs, [Next]_vars
    PROVE  BlankPsjbs'
  <1>1. ASSUME NEW c \in Case, NEW p \in Psjb, CreatePsjb(c, p) PROVE BlankPsjbs'
    BY <1>1 DEF CreatePsjb, NewPsjb, TypeOK, BlankPsjbs, Absent
  <1>2. ASSUME NEW c \in Case, NEW old \in Psjb, NEW p \in Psjb, ReissuePsjb(c, old, p)
        PROVE  BlankPsjbs'
    BY <1>2 DEF ReissuePsjb, NewPsjb, TypeOK, PsjbRow, BlankPsjbs, Absent
  <1>3. ASSUME NEW p \in Psjb, CancelPsjb(p) PROVE BlankPsjbs'
    BY <1>3 DEF CancelPsjb, TypeOK, PsjbRow, BlankPsjbs, Absent
  <1>4. CASE psjbs' = psjbs
    BY <1>4 DEF BlankPsjbs
  <1> QED
    BY <1>1, <1>2, <1>3, <1>4, WhoWritesPsjbs DEF PsjbWriters

HistoryInvariant == SalesInvariant /\ BlankPsjbs /\ BlankPpjbs

\* The rows of a case, told one by one.
PsjbsOfStay(c) ==
    \A p \in Psjb : /\ psjbs'[p].sales_case_id = c <=> psjbs[p].sales_case_id = c
                    /\ psjbs[p].sales_case_id = c => psjbs'[p] = psjbs[p]
SubmissionsOfStay(c) ==
    \A s \in Submission : /\ submissions'[s].sales_case_id = c <=> submissions[s].sales_case_id = c
                          /\ submissions[s].sales_case_id = c => submissions'[s] = submissions[s]
PpjbsOfStay(c) ==
    \A d \in Ppjb : /\ ppjbs'[d].sales_case_id = c <=> ppjbs[d].sales_case_id = c
                    /\ ppjbs[d].sales_case_id = c => ppjbs'[d] = ppjbs[d]

ProcessesOfStay(c) ==
    \A b \in BankProcess :
        /\ bank_processes'[b].sales_case_id = c <=> bank_processes[b].sales_case_id = c
        /\ bank_processes[b].sales_case_id = c => bank_processes'[b] = bank_processes[b]

LEMMA SubmissionRowsStay ==
    ASSUME NEW c, TypeOK, TypeOK', SubmissionsOfStay(c)
    PROVE  rowsOf(submissions, c)' = rowsOf(submissions, c)
  BY DEF TypeOK, SubmissionsOfStay, rowsOf

LEMMA ProcessRowsStay ==
    ASSUME NEW c, TypeOK, TypeOK', ProcessesOfStay(c)
    PROVE  rowsOf(bank_processes, c)' = rowsOf(bank_processes, c)
  BY DEF TypeOK, ProcessesOfStay, rowsOf

LEMMA PpjbRowsStay ==
    ASSUME NEW c, TypeOK, TypeOK', PpjbsOfStay(c)
    PROVE  rowsOf(ppjbs, c)' = rowsOf(ppjbs, c)
  BY DEF TypeOK, PpjbsOfStay, rowsOf

LEMMA HistoryStays ==
    ASSUME NEW c, TypeOK, TypeOK', PsjbsOfStay(c), SubmissionsOfStay(c), ProcessesOfStay(c),
           PpjbsOfStay(c),
           latest_bi'[c] = latest_bi[c], akads'[c] = akads[c], basts'[c] = basts[c]
    PROVE  history(c)' = history(c)
  <1>1. rowsOf(psjbs, c)' = rowsOf(psjbs, c)
    BY DEF TypeOK, PsjbsOfStay, rowsOf
  <1> QED
    BY <1>1, SubmissionRowsStay, ProcessRowsStay, PpjbRowsStay DEF history

LEMMA ClosedPsjbsStay ==
    ASSUME HistoryInvariant, [Next]_vars, NEW c \in Case, Closed(c),
           ~ \E p \in Psjb : CancelPsjb(p) /\ psjbs[p].sales_case_id = c
    PROVE  PsjbsOfStay(c)
  <1>1. TypeOK /\ BlankPsjbs /\ c # None
    BY TablesAssumption DEF HistoryInvariant, SalesInvariant
  <1>2. ASSUME NEW e \in Case, NEW p \in Psjb, CreatePsjb(e, p) PROVE PsjbsOfStay(c)
    BY <1>1, <1>2 DEF CreatePsjb, NewPsjb, IsActive, Closed, TypeOK, BlankPsjbs, PsjbsOfStay
  <1>3. ASSUME NEW e \in Case, NEW old \in Psjb, NEW p \in Psjb, ReissuePsjb(e, old, p)
        PROVE  PsjbsOfStay(c)
    <2>1. /\ e # c /\ psjbs[old].sales_case_id = e /\ psjbs[p].sales_case_id = None
          /\ psjbs' = [psjbs EXCEPT ![old].status = "SUPERSEDED", ![p] = NewPsjb(e)]
      BY <1>1, <1>3 DEF ReissuePsjb, activePsjb, IsActive, Closed, BlankPsjbs
    <2>2. \A q \in Psjb \ {old, p} : psjbs'[q] = psjbs[q]
      BY <1>1, <2>1 DEF TypeOK
    <2>3. psjbs'[p].sales_case_id = e /\ psjbs'[old].sales_case_id = e
      BY <1>1, <2>1 DEF TypeOK, PsjbRow, NewPsjb
    <2> QED
      BY <1>1, <2>1, <2>2, <2>3 DEF PsjbsOfStay
  <1>4. ASSUME NEW p \in Psjb, CancelPsjb(p) PROVE PsjbsOfStay(c)
    <2>1. psjbs[p].sales_case_id # c /\ psjbs' = [psjbs EXCEPT ![p].status = "CANCELLED"]
      BY <1>4 DEF CancelPsjb
    <2>2. \A q \in Psjb \ {p} : psjbs'[q] = psjbs[q]
      BY <1>1, <2>1 DEF TypeOK
    <2>3. psjbs'[p].sales_case_id = psjbs[p].sales_case_id
      BY <1>1, <2>1 DEF TypeOK, PsjbRow
    <2> QED
      BY <2>1, <2>2, <2>3 DEF PsjbsOfStay
  <1>5. CASE psjbs' = psjbs
    BY <1>5 DEF PsjbsOfStay
  <1> QED
    BY <1>2, <1>3, <1>4, <1>5, WhoWritesPsjbs DEF PsjbWriters

LEMMA ClosedSubmissionsStay ==
    ASSUME HistoryInvariant, [Next]_vars, NEW c \in Case, Closed(c)
    PROVE  SubmissionsOfStay(c)
  <1>1. TypeOK /\ AbsentRowsAreBlank /\ c # None
    BY TablesAssumption DEF HistoryInvariant, SalesInvariant
  <1>2. ASSUME NEW e \in Case, NEW p \in Psjb, NEW s \in Submission, NEW n \in 1..MaxSequence,
               NewSubmissionStepOf(e, p, s, n)
        PROVE  SubmissionsOfStay(c)
    <2>1. /\ e # c /\ submissions[s].sales_case_id = None
          /\ \E t : submissions' = [submissions EXCEPT ![s] = NewSubmission(e, p, t, n)]
      BY <1>1, <1>2 DEF NewSubmissionStepOf, CreateDocumentSubmission, CompleteCashPemberkasan,
         IsActive, Closed, AbsentRowsAreBlank
    <2>2. submissions'[s].sales_case_id = e /\ \A r \in Submission \ {s} : submissions'[r] = submissions[r]
      BY <1>1, <2>1 DEF TypeOK, NewSubmission
    <2> QED
      BY <1>1, <2>1, <2>2 DEF SubmissionsOfStay
  <1>3. ASSUME NEW e \in Case, NEW s \in Submission, NEW b \in BankProcess,
               NEW r \in BankResponseType, RecordBankResponse(e, s, b, r)
        PROVE  SubmissionsOfStay(c)
    <2>1. /\ e # c /\ submissions[s].sales_case_id = e
          /\ \E z : submissions' = [submissions EXCEPT ![s].status = z]
      BY <1>3 DEF RecordBankResponse, submissionsOf, IsActive, Closed
    <2>2. /\ submissions'[s].sales_case_id = e
          /\ \A x \in Submission \ {s} : submissions'[x] = submissions[x]
      BY <1>1, <2>1 DEF TypeOK, SubmissionRow
    <2> QED
      BY <2>1, <2>2 DEF SubmissionsOfStay
  <1>4. CASE submissions' = submissions
    BY <1>4 DEF SubmissionsOfStay
  <1> QED
    BY <1>2, <1>3, <1>4, WhoWrites DEF NewSubmissionNext, BankAnswerNext

\* A response is one of an ACTIVE case's submissions, under an id that named no case.
LEMMA ClosedProcessesStay ==
    ASSUME HistoryInvariant, [Next]_vars, NEW c \in Case, Closed(c)
    PROVE  ProcessesOfStay(c)
  <1>1. TypeOK /\ AbsentRowsAreBlank /\ c # None
    BY TablesAssumption DEF HistoryInvariant, SalesInvariant
  <1>2. ASSUME NEW e \in Case, NEW s \in Submission, NEW b \in BankProcess,
               NEW r \in BankResponseType, RecordBankResponse(e, s, b, r)
        PROVE  ProcessesOfStay(c)
    <2>1. /\ e # c /\ bank_processes[b].sales_case_id = None
          /\ bank_processes'[b].sales_case_id = e
      BY <1>1, <1>2 DEF RecordBankResponse, IsActive, Closed, AbsentRowsAreBlank, TypeOK
    <2>2. \A x \in BankProcess \ {b} : bank_processes'[x] = bank_processes[x]
      BY <1>1, <1>2 DEF RecordBankResponse, TypeOK
    <2> QED
      BY <1>1, <2>1, <2>2 DEF ProcessesOfStay
  <1>3. CASE bank_processes' = bank_processes
    BY <1>3 DEF ProcessesOfStay
  <1> QED
    BY <1>2, <1>3, WhoWrites DEF BankAnswerNext

LEMMA ClosedPpjbsStay ==
    ASSUME HistoryInvariant, [Next]_vars, NEW c \in Case, Closed(c)
    PROVE  PpjbsOfStay(c)
  <1>1. TypeOK /\ BlankPpjbs /\ c # None
    BY TablesAssumption DEF HistoryInvariant, SalesInvariant
  <1>2. ASSUME NEW e \in Case, NEW d \in Ppjb, NEW b, CreateDeveloperPpjb(e, d, b)
        PROVE  PpjbsOfStay(c)
    BY <1>1, <1>2
       DEF CreateDeveloperPpjb, NewPpjb, IsActive, Closed, TypeOK, BlankPpjbs, PpjbsOfStay
  <1>3. ASSUME NEW e \in Case, NEW old \in Ppjb, NEW d \in Ppjb, ReissueDeveloperPpjb(e, old, d)
        PROVE  PpjbsOfStay(c)
    <2>1. /\ e # c /\ ppjbs[old].sales_case_id = e /\ ppjbs[d].sales_case_id = None
          /\ \E b : ppjbs' = [ppjbs EXCEPT ![old].status = "SUPERSEDED", ![d] = NewPpjb(e, b)]
      BY <1>1, <1>3 DEF ReissueDeveloperPpjb, activePpjb, IsActive, Closed, BlankPpjbs
    <2>2. \A x \in Ppjb \ {old, d} : ppjbs'[x] = ppjbs[x]
      BY <1>1, <2>1 DEF TypeOK
    <2>3. ppjbs'[d].sales_case_id = e /\ ppjbs'[old].sales_case_id = e
      BY <1>1, <2>1 DEF TypeOK, PpjbRow, NewPpjb
    <2> QED
      BY <1>1, <2>1, <2>2, <2>3 DEF PpjbsOfStay
  <1>4. ASSUME NEW d \in Ppjb, CancelDeveloperPpjb(d) PROVE PpjbsOfStay(c)
    <2>1. ppjbs[d].sales_case_id # c /\ ppjbs' = [ppjbs EXCEPT ![d].status = "CANCELLED"]
      BY <1>4 DEF CancelDeveloperPpjb, IsActive, Closed
    <2>2. /\ ppjbs'[d].sales_case_id = ppjbs[d].sales_case_id
          /\ \A x \in Ppjb \ {d} : ppjbs'[x] = ppjbs[x]
      BY <1>1, <2>1 DEF TypeOK, PpjbRow
    <2> QED
      BY <2>1, <2>2 DEF PpjbsOfStay
  <1>5. CASE ppjbs' = ppjbs
    BY <1>5 DEF PpjbsOfStay
  <1> QED
    BY <1>2, <1>3, <1>4, <1>5, WhoWrites DEF PpjbNext

\* A handler other than CancelPsjb writes the case row, the BI check, the Akad and the
\* BAST of an ACTIVE case, or inserts a case.
RestOf(c) ==
    /\ sales_cases'[c] = sales_cases[c]
    /\ latest_bi'[c] = latest_bi[c] /\ akads'[c] = akads[c] /\ basts'[c] = basts[c]

LEMMA OtherCaseWritten ==
    ASSUME TypeOK, NEW c \in Case, NEW e, e # c, NEW s, SetStage(e, s)
    PROVE  sales_cases'[c] = sales_cases[c]
  BY DEF TypeOK, SetStage

LEMMA ClosedRestStays ==
    ASSUME TypeOK, [Next]_vars, NEW c \in Case, Closed(c),
           ~ \E p \in Psjb : CancelPsjb(p) /\ psjbs[p].sales_case_id = c
    PROVE  RestOf(c)
  <1>1. CASE LifecycleNext
    <2>1. UNCHANGED documents
      BY <1>1 DEF LifecycleNext, CreateSalesCase, CancelSalesCase, MarkSalesCaseMundur,
         MarkSalesCaseRejected, CloseSalesCase, MoveSalesCaseUnit
    <2>2. ASSUME NEW e \in Case, NEW u \in Unit, NEW k \in Consumer, NEW f \in FinancingType,
                 CreateSalesCase(e, u, k, f)
          PROVE  sales_cases'[c] = sales_cases[c]
      BY <2>2 DEF CreateSalesCase, Exists, Closed, TypeOK
    <2>3. ASSUME NEW e \in Case, NEW z, CloseSalesCase(e, z)
          PROVE  sales_cases'[c] = sales_cases[c]
      BY <2>3 DEF CloseSalesCase, IsActive, Closed, TypeOK
    <2>4. ASSUME NEW e \in Case, NEW n \in Case, NEW u \in Unit, MoveSalesCaseUnit(e, n, u)
          PROVE  sales_cases'[c] = sales_cases[c]
      BY <2>4 DEF MoveSalesCaseUnit, IsActive, Exists, Closed, TypeOK
    <2> QED
      BY <1>1, <2>1, <2>2, <2>3, <2>4 DEF LifecycleNext, CancelSalesCase, MarkSalesCaseMundur,
         MarkSalesCaseRejected, documents, RestOf
  <1>2. ASSUME NEW e \in Case, NEW date \in 1..MaxDate, NEW r \in BiCheckResult,
               RecordBiCheck(e, date, r)
        PROVE  RestOf(c)
    <2>1. e # c
      BY <1>2 DEF RecordBiCheck, IsActive, Closed
    <2> QED
      BY <1>2, <2>1, OtherCaseWritten DEF RecordBiCheck, TypeOK, RestOf
  <1>3. ASSUME NEW e \in Case, NEW d \in Ppjb, CreateAkad(e, d) PROVE RestOf(c)
    <2>1. e # c
      BY <1>3 DEF CreateAkad, IsActive, Closed
    <2> QED
      BY <1>3, <2>1, OtherCaseWritten DEF CreateAkad, TypeOK, RestOf
  <1>4. ASSUME NEW e \in Case, NEW a \in Case, CreateBast(e, a) PROVE RestOf(c)
    BY <1>4 DEF CreateBast, IsActive, Closed, TypeOK, RestOf
  <1>5. ASSUME UNCHANGED << latest_bi, akads, basts >>, NEW e, e # c, \E s : SetStage(e, s)
        PROVE  RestOf(c)
    BY <1>5, OtherCaseWritten DEF RestOf
  <1>6. CASE PsjbWriters
    <2>1. ASSUME NEW p \in Psjb, CancelPsjb(p) PROVE RestOf(c)
      BY <1>5, <2>1 DEF CancelPsjb
    <2> QED
      BY <1>5, <1>6, <2>1 DEF PsjbWriters, CreatePsjb, ReissuePsjb, IsActive, Closed
  <1>7. CASE BankNext
    BY <1>5, <1>7 DEF BankNext, CreateDocumentSubmission, CompleteCashPemberkasan,
       RecordBankResponse, IsActive, Closed
  <1>8. CASE PpjbNext
    BY <1>5, <1>8 DEF PpjbNext, CreateDeveloperPpjb, ReissueDeveloperPpjb, CancelDeveloperPpjb,
       IsActive, Closed
  <1>9. CASE UNCHANGED vars
    BY <1>9 DEF vars, documents, RestOf
  <1> QED
    BY <1>1, <1>2, <1>3, <1>4, <1>6, <1>7, <1>8, <1>9
       DEF Next, PsjbNext, PsjbWriters, ClosingNext, PpjbNext

\* The PSJB of a closed case can be cancelled only before its Pemberkasan, and that is
\* all that happens to the case.
LEMMA CancelledBeforePemberkasan ==
    ASSUME SalesInvariant, TypeOK', NEW p \in Psjb, CancelPsjb(p), NEW c \in Case,
           psjbs[p].sales_case_id = c
    PROVE  PsjbOfClosedCaseCancelled(c)
  <1>1. TypeOK /\ StageMatchesBank /\ StageMatchesPsjb /\ stage(c) \in Stage
    BY DEF SalesInvariant, StageMatchesDocuments, TypeOK, CaseRow, stage
  <1>2. /\ SetStage(c, "PSJB")
        /\ UNCHANGED << latest_bi, submissions, bank_processes, ppjbs, akads, basts >>
        /\ psjbs[p].status = "ACTIVE" /\ ~ isBeyond(stage(c), "PEMBERKASAN")
        /\ psjbs' = [psjbs EXCEPT ![p].status = "CANCELLED"]
    BY DEF CancelPsjb
  <1>3. p \in activePsjb(c)
    BY <1>2 DEF activePsjb
  <1>4. atOrBeyond(c, "PEMBERKASAN")
    BY <1>1, <1>3 DEF StageMatchesPsjb
  <1>5. stage(c) = "PEMBERKASAN"
    BY <1>1, <1>2, <1>4 DEF atOrBeyond, isBeyond, order, Stage
  <1>6. ~ atOrBeyond(c, "PROSES_BANK")
    BY <1>5 DEF atOrBeyond, isBeyond, order
  <1>7. submissionsOf(c) = {}
    BY <1>1, <1>6 DEF StageMatchesBank
  <1>8. sales_cases'[c] = [sales_cases[c] EXCEPT !.current_stage = "PSJB"]
    BY <1>1, <1>2 DEF SetStage, TypeOK
  <1>9. rowsOf(psjbs, c)' = [rowsOf(psjbs, c) EXCEPT ![p].status = "CANCELLED"]
    <2>1. /\ DOMAIN psjbs = Psjb /\ DOMAIN psjbs' = Psjb
          /\ psjbs'[p] = [psjbs[p] EXCEPT !.status = "CANCELLED"]
          /\ \A q \in Psjb \ {p} : psjbs'[q] = psjbs[q]
      BY <1>1, <1>2 DEF TypeOK
    <2>2. psjbs'[p].sales_case_id = c
      BY <1>1, <2>1 DEF TypeOK, PsjbRow
    <2>3. { q \in DOMAIN psjbs' : psjbs'[q].sales_case_id = c }
             = { q \in DOMAIN psjbs : psjbs[q].sales_case_id = c }
      BY <2>1, <2>2
    <2> QED
      BY <2>1, <2>3 DEF rowsOf
  <1>10. /\ rowsOf(submissions, c)' = rowsOf(submissions, c)
         /\ rowsOf(bank_processes, c)' = rowsOf(bank_processes, c)
         /\ rowsOf(ppjbs, c)' = rowsOf(ppjbs, c)
    BY <1>2 DEF rowsOf
  <1>11. history(c)' = [history(c) EXCEPT !.psjbs[p].status = "CANCELLED"]
    BY <1>2, <1>9, <1>10 DEF history
  <1> QED
    BY <1>3, <1>5, <1>7, <1>8, <1>11 DEF PsjbOfClosedCaseCancelled

LEMMA ClosedStep ==
    ASSUME HistoryInvariant, [Next]_vars, NEW c \in Case, Closed(c)
    PROVE  \/ sales_cases'[c] = sales_cases[c] /\ history(c)' = history(c)
           \/ PsjbOfClosedCaseCancelled(c)
  <1>1. SalesInvariant /\ TypeOK /\ TypeOK'
    BY TypeStep DEF HistoryInvariant, SalesInvariant, AnyNext
  <1>2. ASSUME NEW p \in Psjb, CancelPsjb(p), psjbs[p].sales_case_id = c
        PROVE  PsjbOfClosedCaseCancelled(c)
    BY <1>1, <1>2, CancelledBeforePemberkasan
  <1>3. CASE ~ \E p \in Psjb : CancelPsjb(p) /\ psjbs[p].sales_case_id = c
    <2>1. RestOf(c)
      BY <1>1, <1>3, ClosedRestStays
    <2>2. PsjbsOfStay(c) /\ SubmissionsOfStay(c) /\ ProcessesOfStay(c) /\ PpjbsOfStay(c)
      BY <1>3, ClosedPsjbsStay, ClosedSubmissionsStay, ClosedProcessesStay, ClosedPpjbsStay
    <2>3. history(c)' = history(c)
      BY <1>1, <2>1, <2>2, HistoryStays DEF RestOf
    <2> QED
      BY <2>1, <2>3 DEF RestOf
  <1> QED
    BY <1>2, <1>3

\* An edit writes no document, and of one case the two columns of its page.
LEMMA ClosedEditStep ==
    ASSUME TypeOK, EditNext, NEW c \in Case
    PROVE  \/ sales_cases'[c] = sales_cases[c] /\ history(c)' = history(c)
           \/ EditedOnItsPage(c)
  <1>1. UNCHANGED documents /\ history(c)' = history(c)
    BY DEF EditNext, EditUnitStatus, EditFinancingType, DeleteSalesCase, RestoreSalesCase,
       documents, history, rowsOf
  <1>2. ASSUME NEW u \in Unit, NEW s \in UnitStatus, EditUnitStatus(u, s)
        PROVE  sales_cases'[c] = sales_cases[c]
    BY <1>2 DEF EditUnitStatus
  <1>3. ASSUME NEW e \in Case, NEW f \in FinancingType, EditFinancingType(e, f)
        PROVE  sales_cases'[c] = sales_cases[c] \/ EditedOnItsPage(c)
    <2>1. sales_cases[e].trashed \in BOOLEAN
      BY DEF TypeOK, CaseRow
    <2>2. sales_cases' = [sales_cases EXCEPT ![e].financing_type = f,
                                             ![e].trashed = sales_cases[e].trashed]
      BY <1>3 DEF TypeOK, CaseRow, EditFinancingType
    <2> QED
      BY <1>3, <2>1, <2>2 DEF EditedOnItsPage, EditFinancingType, TypeOK
  <1>4. ASSUME NEW e \in Case, NEW t \in BOOLEAN, UNCHANGED unit_status,
               sales_cases' = [sales_cases EXCEPT ![e].trashed = t]
        PROVE  sales_cases'[c] = sales_cases[c] \/ EditedOnItsPage(c)
    <2>1. CASE e # c
      BY <1>4, <2>1 DEF TypeOK
    <2>2. CASE e = c
      <3>1. sales_cases[c].financing_type \in FinancingType
        BY DEF TypeOK, CaseRow
      <3>2. sales_cases' = [sales_cases EXCEPT ![c].financing_type = sales_cases[c].financing_type,
                                               ![c].trashed = t]
        BY <1>4, <2>2 DEF TypeOK, CaseRow
      <3> QED
        BY <1>1, <1>4, <3>1, <3>2 DEF EditedOnItsPage
    <2> QED
      BY <2>1, <2>2
  <1>5. ASSUME NEW e \in Case, DeleteSalesCase(e) \/ RestoreSalesCase(e)
        PROVE  sales_cases'[c] = sales_cases[c] \/ EditedOnItsPage(c)
    BY <1>4, <1>5 DEF DeleteSalesCase, RestoreSalesCase
  <1> QED
    BY <1>1, <1>2, <1>3, <1>5 DEF EditNext

LEMMA EditsKeepBlanks ==
    ASSUME BlankPsjbs, BlankPpjbs, EditNext
    PROVE  BlankPsjbs' /\ BlankPpjbs'
  BY DEF EditNext, EditUnitStatus, EditFinancingType, DeleteSalesCase, RestoreSalesCase,
     documents, BlankPsjbs, BlankPpjbs

\* ClosedCaseGainsNothing: a closed case keeps its row and every row that names it, and
\* no row comes to name it; only its edit page reaches it, and CancelPsjb before any
\* submission.
THEOREM ClosedCasesStay == EditSpec => ClosedCaseGainsNothing
  <1>1. EditSpec => [](BlankPsjbs /\ BlankPpjbs)
    <2>1. TypeOK /\ BlankPsjbs /\ BlankPpjbs /\ [AnyNext]_vars => BlankPsjbs' /\ BlankPpjbs'
      BY BlankPsjbsStep, BlankPpjbsStep, EditsKeepBlanks DEF AnyNext
    <2> QED
      BY EditTypeCorrect, BlankPsjbsInit, BlankPpjbsInit, <2>1, PTL DEF EditSpec, AnyNext
  <1>2. SalesInvariant /\ BlankPsjbs /\ BlankPpjbs /\ [AnyNext]_vars
           => [\A c \in Case : Closed(c) =>
                 \/ sales_cases'[c] = sales_cases[c] /\ history(c)' = history(c)
                 \/ PsjbOfClosedCaseCancelled(c)
                 \/ EditedOnItsPage(c)]_vars
    <2>1. ASSUME SalesInvariant, BlankPsjbs, BlankPpjbs, [AnyNext]_vars,
                 NEW c \in Case, Closed(c)
          PROVE  \/ sales_cases'[c] = sales_cases[c] /\ history(c)' = history(c)
                 \/ PsjbOfClosedCaseCancelled(c)
                 \/ EditedOnItsPage(c)
      <3>1. CASE [Next]_vars
        BY <2>1, <3>1, ClosedStep DEF HistoryInvariant
      <3>2. CASE EditNext
        BY <2>1, <3>2, ClosedEditStep DEF SalesInvariant
      <3> QED
        BY <2>1, <3>1, <3>2 DEF AnyNext
    <2> QED
      BY <2>1
  <1> QED
    BY EditsKeepSalesInvariant, <1>1, <1>2, PTL DEF EditSpec, AnyNext, ClosedCaseGainsNothing

-----------------------------------------------------------------------------
(* The handlers alone never trash a case: only the administration's pages  *)
(* do.                                                                     *)

Untrashed == \A c \in Case : ~ sales_cases[c].trashed

LEMMA UntrashedInit == Init => Untrashed
  BY DEF Init, Untrashed, NoCaseRow

LEMMA UntrashedStep ==
    ASSUME TypeOK, Untrashed, [Next]_vars
    PROVE  Untrashed'
  <1> SUFFICES ASSUME NEW x \in Case PROVE ~ sales_cases'[x].trashed
    BY DEF Untrashed
  <1>1. ~ sales_cases[x].trashed /\ sales_cases[x] \in CaseRow
    BY DEF Untrashed, TypeOK
  <1>2. CASE LifecycleNext
    <2>1. ASSUME NEW c \in Case, NEW u \in Unit, NEW k \in Consumer, NEW f \in FinancingType,
                 CreateSalesCase(c, u, k, f)
          PROVE  ~ sales_cases'[x].trashed
      BY <1>1, <2>1 DEF TypeOK, CreateSalesCase, NewCase
    <2>2. ASSUME NEW c \in Case, NEW z, CloseSalesCase(c, z) PROVE ~ sales_cases'[x].trashed
      BY <1>1, <2>2 DEF TypeOK, CaseRow, CloseSalesCase
    <2>3. ASSUME NEW c \in Case, NEW n \in Case, NEW u \in Unit, MoveSalesCaseUnit(c, n, u)
          PROVE  ~ sales_cases'[x].trashed
      BY <1>1, <2>3 DEF TypeOK, CaseRow, MoveSalesCaseUnit, NewCase
    <2> QED BY <1>2, <2>1, <2>2, <2>3
           DEF LifecycleNext, CancelSalesCase, MarkSalesCaseMundur, MarkSalesCaseRejected
  <1>3. CASE DocumentNext
    <2>1. PICK c, s : SetStage(c, s)
      BY <1>3, DocumentHandlersSetStage DEF DocumentNext
    <2> QED BY <1>1, <2>1 DEF TypeOK, CaseRow, SetStage
  <1>4. ASSUME NEW c \in Case, NEW a \in Case, CreateBast(c, a) PROVE ~ sales_cases'[x].trashed
    BY <1>1, <1>4 DEF TypeOK, CaseRow, CreateBast
  <1>5. CASE UNCHANGED vars
    BY <1>1, <1>5 DEF vars
  <1> QED BY <1>2, <1>3, <1>4, <1>5, NextByKind

LEMMA UntrashedHolds == Spec => []Untrashed
  <1>1. TypeOK /\ Untrashed /\ [Next]_vars => Untrashed'
    BY UntrashedStep
  <1> QED
    BY TypeCorrect, UntrashedInit, <1>1, PTL DEF Spec

=============================================================================
