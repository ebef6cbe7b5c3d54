--------------------------- MODULE CasePagesProofs ---------------------------
(***************************************************************************)
(* What pages and dashboards show of a case, for any number of cases and   *)
(* documents: the buttons and units a page offers against the handlers'    *)
(* conditions, and what reports derive from documents against the stage.   *)
(* Which requests a handler accepts is stated of its steps and conditions: *)
(* ENABLED itself is left to the model checker.                            *)
(***************************************************************************)
EXTENDS CaseWorkspace, CaseReports, SalesHistoryProofs, FiniteSetTheorems

-----------------------------------------------------------------------------
(* The page of a case. *)

\* A bank's approval is one of a KPR case: it answers a BANK submission.
LEMMA ApprovalIsKpr ==
    ASSUME FinancingInvariant, NEW c \in Case, approvalOf(c) # {}
    PROVE  isKpr(c)
  <1> USE TablesAssumption
  <1>1. SalesInvariant /\ FinancingMatchesEvidence /\ TypeOK
    BY DEF FinancingInvariant, SalesInvariant
  <1>2. PICK b \in BankProcess : b \in approvalOf(c)
    BY DEF approvalOf
  <1>3. bank_processes[b].response_type # Absent
    BY <1>1, <1>2 DEF SalesInvariant, AbsentRowsAreBlank, approvalOf
  <1> DEFINE s == bank_processes[b].document_submission_id
  <1>4. s \in Submission /\ submissions[s].sales_case_id = c /\ submissions[s].type = "BANK"
    BY <1>1, <1>2, <1>3 DEF SalesInvariant, ReferencesStayInCase, ProcessLinks, approvalOf
  <1> HIDE DEF s
  <1>5. submissions[s].status # Absent
    BY <1>1, <1>4 DEF SalesInvariant, AbsentRowsAreBlank
  <1>6. sales_cases[c].financing_type # "CASH"
    BY <1>1, <1>4, <1>5 DEF FinancingMatchesEvidence
  <1> QED
    BY <1>1, <1>6 DEF isKpr, TypeOK, CaseRow, FinancingType

\* A submission tells the financing of its case.
LEMMA SubmissionTellsFinancing ==
    ASSUME FinancingInvariant, NEW c \in Case, NEW s \in submissionsOf(c)
    PROVE  isKpr(c) <=> submissions[s].type # "CASH_INTERNAL"
  <1>1. SalesInvariant /\ FinancingMatchesEvidence /\ TypeOK
    BY DEF FinancingInvariant, SalesInvariant
  <1>2. submissions[s].status # Absent
    BY <1>1, TablesAssumption DEF SalesInvariant, AbsentRowsAreBlank, submissionsOf
  <1> QED
    BY <1>1, <1>2
       DEF FinancingMatchesEvidence, submissionsOf, isKpr, TypeOK, CaseRow, FinancingType

\* The stage of an ACTIVE case names a button its documents allow, one stage at a time:
\* what the button needs is what the invariant says of the stage, and where CASH and KPR
\* cases differ, what the evidence says of the financing.
LEMMA PrimaryFollowsInvariant ==
    ASSUME FinancingInvariant PROVE PrimaryButtonIsVisible
  <1> SUFFICES ASSUME NEW c \in Case, IsActive(c)
               PROVE  \/ visible(c, primary(c))
                      \/ stage(c) = "PSJB" /\ latest_bi[c].result # "CLEAR"
    BY DEF PrimaryButtonIsVisible
  <1>1. TypeOK /\ Coherent(c) /\ stage(c) \in Stage
    BY ByParts, StageType DEF FinancingInvariant
  <1>2. CASE stage(c) \in {"DATA_KONSUMEN", "BI_CHECKING"}
    BY <1>2 DEF visible, primary, condition
  <1>3. CASE stage(c) = "PSJB"
    <2>1. activePsjb(c) = {} /\ ~ hasAkad(c)
      BY <1>1, <1>3 DEF Coherent, BeforePemberkasan, hasAkad
    <2> QED
      BY <1>3, <2>1 DEF visible, primary, condition, mayCreatePsjb
  <1>4. CASE stage(c) = "PEMBERKASAN"
    <2>1. activePsjb(c) # {}
      BY <1>1, <1>4 DEF Coherent, BeforePemberkasan
    <2>2. CASE isKpr(c)
      BY <1>4, <2>1, <2>2 DEF visible, primary, condition
    <2>3. CASE ~ isKpr(c)
      BY <1>4, <2>1, <2>3 DEF visible, primary, condition
    <2> QED
      BY <2>2, <2>3
  <1>5. CASE stage(c) = "PROSES_BANK"
    <2>1. submissionsOf(c) # {} /\ cashPemberkasan(c) = {}
      BY <1>1, <1>5 DEF Coherent, BeforeProsesBank, BeforePpjbDev, BeforePemberkasan
    <2>2. isKpr(c)
      BY <2>1, SubmissionTellsFinancing DEF cashPemberkasan
    <2> QED
      BY <1>5, <2>1, <2>2 DEF visible, primary, condition
  <1>6. CASE stage(c) = "PPJB_DEV"
    <2>1. /\ approvalOf(c) # {} \/ cashPemberkasan(c) # {}
          /\ akads[c] = None /\ activePpjb(c) = {}
      BY <1>1, <1>6 DEF Coherent, BeforeProsesBank, BeforePpjbDev, BeforePemberkasan
    <2>2. isKpr(c) => approvalOf(c) # {}
      BY <2>1, SubmissionTellsFinancing DEF cashPemberkasan
    <2>3. ~ isKpr(c) => cashPemberkasan(c) # {}
      BY <2>1, ApprovalIsKpr
    <2>4. isBeyond(stage(c), "PEMBERKASAN")
      BY <1>6 DEF isBeyond, order
    <2>5. mayCreatePpjb(c)
      BY <2>1, <2>2, <2>3, <2>4 DEF mayCreatePpjb, hasAkad
    <2> QED
      BY <1>6, <2>5 DEF visible, primary, condition
  <1>7. CASE stage(c) = "AKAD"
    <2>1. activePpjb(c) # {} /\ ~ hasAkad(c)
      BY <1>1, <1>7 DEF Coherent, hasAkad
    <2> QED
      BY <1>7, <2>1 DEF visible, primary, condition
  <1>8. CASE stage(c) = "BAST"
    <2>1. hasAkad(c) /\ ~ hasBast(c)
      BY <1>1, <1>8 DEF Coherent, hasAkad, hasBast
    <2> QED
      BY <1>8, <2>1 DEF visible, primary, condition
  <1>9. stage(c) # "COMPLETED"
    BY <1>1 DEF Coherent, IsActive
  <1> QED
    BY <1>1, <1>2, <1>3, <1>4, <1>5, <1>6, <1>7, <1>8, <1>9 DEF Stage

\* PrimaryButtonIsVisible: the button the stage puts first is one the documents allow,
\* but for a back-dated CLEAR check.
THEOREM PrimaryIsVisible == Spec => []PrimaryButtonIsVisible
  BY FinancingInvariantHolds, PrimaryFollowsInvariant, PTL

-----------------------------------------------------------------------------
(* What the page hides is refused.  ENABLED is out of the provers' reach;   *)
(* the action form below says it of every request a handler can accept.     *)

LEMMA HiddenPsjbRequests ==
    ASSUME FinancingInvariant, NEW c \in Case,
           NEW button \in {"createPsjb", "reissuePsjb", "cancelPsjb"}, press(c, button)
    PROVE  visible(c, button) \/ PageIsStricter(c, button)
  <1>1. SalesInvariant /\ TypeOK /\ RowsInvariant /\ Coherent(c) /\ stage(c) \in Stage
    BY ByParts, StageType DEF FinancingInvariant, SalesInvariant
  <1>2. CASE button = "createPsjb"
    <2>1. PICK p \in Psjb : CreatePsjb(c, p)
      BY <1>2 DEF press
    <2>2. IsActive(c) /\ biAllowsPsjb(c) /\ activePsjb(c) = {}
      BY <2>1 DEF CreatePsjb
    <2>3. ~ hasAkad(c)
      BY <1>1, <2>2 DEF Coherent, BeforePemberkasan, hasAkad
    <2>4. CASE latest_bi[c].result = "CLEAR"
      BY <1>2, <2>2, <2>3, <2>4 DEF visible, condition, mayCreatePsjb
    <2>5. CASE latest_bi[c].result # "CLEAR"
      BY <1>2, <2>2, <2>5 DEF PageIsStricter, biAllowsPsjb, isKpr
    <2> QED
      BY <2>4, <2>5
  <1>3. CASE button = "reissuePsjb"
    <2>1. PICK old \in Psjb, p \in Psjb : ReissuePsjb(c, old, p)
      BY <1>3 DEF press
    <2>2. IsActive(c) /\ activePsjb(c) # {}
      BY <2>1 DEF ReissuePsjb
    <2> QED
      BY <1>3, <2>2 DEF visible, condition, PageIsStricter
  <1>4. CASE button = "cancelPsjb"
    <2>1. PICK p \in activePsjb(c) : CancelPsjb(p)
      BY <1>4 DEF press
    <2>2. /\ \A s \in Submission : submissions[s].psjb_id # p
          /\ ~ isBeyond(stage(c), "PEMBERKASAN")
      BY <2>1 DEF CancelPsjb, activePsjb
    <2>3. activePsjb(c) = {p}
      BY <1>1, <2>1 DEF RowsInvariant, OneActiveDocument, OneOf
    <2>4. stage(c) \in BeforeProsesBank
      BY <1>1, <2>2, StageOrder
    <2>5. ~ hasAkad(c)
      BY <1>1, <2>4 DEF Coherent, BeforeProsesBank, BeforePemberkasan, hasAkad
    <2>6. mayCancelPsjb(c)
      BY <2>2, <2>3, <2>5 DEF mayCancelPsjb
    <2> QED
      BY <1>4, <2>6 DEF visible, condition, PageIsStricter
  <1> QED
    BY <1>2, <1>3, <1>4

LEMMA HiddenBankRequests ==
    ASSUME FinancingInvariant, NEW c \in Case,
           NEW button \in {"addPemberkasan", "recordBankResponse", "completeCashPemberkasan"},
           press(c, button)
    PROVE  visible(c, button)
  <1>1. TypeOK /\ Coherent(c) /\ stage(c) \in Stage
    BY ByParts, StageType DEF FinancingInvariant, SalesInvariant
  <1>2. CASE button = "addPemberkasan"
    BY <1>2 DEF press, CreateDocumentSubmission, visible, condition, isKpr
  <1>3. CASE button = "recordBankResponse"
    BY <1>3 DEF press, RecordBankResponse, visible, condition, isKpr
  <1>4. CASE button = "completeCashPemberkasan"
    <2>1. /\ IsActive(c) /\ ~ isKpr(c) /\ activePsjb(c) # {} /\ cashPemberkasan(c) = {}
      BY <1>4 DEF press, CompleteCashPemberkasan, isKpr
    <2>2. submissionsOf(c) = {}
      BY <2>1, SubmissionTellsFinancing DEF cashPemberkasan
    <2>3. stage(c) = "PEMBERKASAN"
      BY <1>1, <2>1, <2>2 DEF Coherent, BeforeProsesBank
    <2> QED
      BY <1>4, <2>1, <2>3 DEF visible, condition
  <1> QED
    BY <1>2, <1>3, <1>4

LEMMA HiddenClosingRequests ==
    ASSUME FinancingInvariant, NEW c \in Case,
           NEW button \in {"createPpjbDeveloper", "reissuePpjbDeveloper", "cancelPpjbDeveloper",
                           "createAkad", "createBast"},
           press(c, button)
    PROVE  visible(c, button)
  <1>1. Coherent(c)
    BY ByParts DEF FinancingInvariant
  <1>2. CASE button = "createPpjbDeveloper"
    <2>1. PICK d \in Ppjb, b \in BankProcess \cup {None} : CreateDeveloperPpjb(c, d, b)
      BY <1>2 DEF press
    <2>2. IsActive(c) /\ activePpjb(c) = {} /\ ppjbBasis(c, b)
      BY <2>1 DEF CreateDeveloperPpjb
    <2>3. ~ hasAkad(c)
      BY <1>1, <2>2 DEF Coherent, hasAkad
    <2>4. mayCreatePpjb(c)
      BY <2>2, <2>3 DEF mayCreatePpjb, ppjbBasis, isKpr
    <2> QED
      BY <1>2, <2>2, <2>4 DEF visible, condition
  <1>3. CASE button = "reissuePpjbDeveloper"
    BY <1>3 DEF press, ReissueDeveloperPpjb, visible, condition
  <1>4. CASE button = "cancelPpjbDeveloper"
    BY <1>4 DEF press, CancelDeveloperPpjb, activePpjb, visible, condition
  <1>5. CASE button = "createAkad"
    BY <1>5 DEF press, CreateAkad, visible, condition
  <1>6. CASE button = "createBast"
    BY <1>6 DEF press, CreateBast, visible, condition
  <1> QED
    BY <1>2, <1>3, <1>4, <1>5, <1>6

LEMMA HiddenRequests ==
    ASSUME FinancingInvariant, NEW c \in Case, NEW button \in Button, press(c, button)
    PROVE  visible(c, button) \/ PageIsStricter(c, button)
  <1>1. CASE button \in {"createPsjb", "reissuePsjb", "cancelPsjb"}
    BY <1>1, HiddenPsjbRequests
  <1>2. CASE button \in {"addPemberkasan", "recordBankResponse", "completeCashPemberkasan"}
    BY <1>2, HiddenBankRequests
  <1>3. CASE button \in {"createPpjbDeveloper", "reissuePpjbDeveloper", "cancelPpjbDeveloper",
                         "createAkad", "createBast"}
    BY <1>3, HiddenClosingRequests
  <1>4. CASE button = "addBiCheck"
    BY <1>4 DEF press, RecordBiCheck, visible, condition
  <1>5. CASE button = "moveCase"
    BY <1>5 DEF press, MoveSalesCaseUnit, visible, condition
  <1>6. CASE button = "markMundur"
    BY <1>6 DEF press, MarkSalesCaseMundur, CloseSalesCase, visible, condition
  <1>7. CASE button = "markRejected"
    BY <1>7 DEF press, MarkSalesCaseRejected, CloseSalesCase, visible, condition
  <1>8. CASE button = "cancelCase"
    BY <1>8 DEF press, CancelSalesCase, CloseSalesCase, visible, condition
  <1> QED
    BY <1>1, <1>2, <1>3, <1>4, <1>5, <1>6, <1>7, <1>8 DEF Button

\* HiddenButtonIsRefused without ENABLED: a request of a button's form that changes
\* anything is one the page offers, but for the three cases of PageIsStricter.
THEOREM HiddenRequestsAreRefused ==
    Spec => [][\A c \in Case, button \in Button :
                  press(c, button) => visible(c, button) \/ PageIsStricter(c, button)]_vars
  <1>1. FinancingInvariant /\ [Next]_vars
           => [\A c \in Case, button \in Button :
                  press(c, button) => visible(c, button) \/ PageIsStricter(c, button)]_vars
    BY HiddenRequests
  <1> QED
    BY FinancingInvariantHolds, <1>1, PTL DEF Spec

-----------------------------------------------------------------------------
(* The form of a move. *)

\* What MoveSalesCaseUnit asks for beyond an unused row.
MoveIsAccepted(c, u) ==
    /\ IsActive(c)
    /\ ~ hasAkad(c)
    /\ UnitBranch[u] = sales_cases[c].branch_id
    /\ u # sales_cases[c].unit_id
    /\ activeSalesCases(u) = {}
    /\ activeCasesOfConsumer(sales_cases[c].consumer_id) \ {c} = {}
    /\ UniqueActiveCase(u, sales_cases[c].consumer_id, Case \ {c})

\* MoveIsAccepted is the handler's condition, all of it.
LEMMA MoveCondition ==
    ASSUME NEW c, NEW n, NEW u
    PROVE  MoveSalesCaseUnit(c, n, u)
              <=> /\ MoveIsAccepted(c, u) /\ ~ Exists(n)
                  /\ sales_cases' =
                        [sales_cases EXCEPT ![c].case_status = "PINDAH_KAVLING",
                           ![n] = NewCase(u, sales_cases[c].consumer_id,
                                          sales_cases[c].financing_type, c)]
                  /\ unit_status' = [unit_status EXCEPT ![sales_cases[c].unit_id] = "TERSEDIA",
                                                        ![u] = "BOOKING"]
                  /\ UNCHANGED documents
  BY DEF MoveSalesCaseUnit, MoveIsAccepted

\* The consumer's only ACTIVE case is the one being moved, and a unit without an
\* ACTIVE case Eloquent sees has none the index sees: no handler trashes a case.
LEMMA OfferedMeetsCondition ==
    ASSUME OneActiveCase, Untrashed, NEW c \in Case, NEW u \in Unit, NEW found
    PROVE  visible(c, "moveCase") /\ u \in moveTargetUnits(c, found)
              <=> MoveIsAccepted(c, u) /\ u \in found
  <1>1. MoveIsAccepted(c, u) /\ u \in found
           => visible(c, "moveCase") /\ u \in moveTargetUnits(c, found)
    BY DEF MoveIsAccepted, visible, condition, moveTargetUnits
  <1>2. ASSUME visible(c, "moveCase"), u \in moveTargetUnits(c, found)
        PROVE  MoveIsAccepted(c, u) /\ u \in found
    <2>1. /\ IsActive(c) /\ ~ hasAkad(c) /\ UnitBranch[u] = sales_cases[c].branch_id
          /\ u # sales_cases[c].unit_id /\ activeSalesCases(u) = {} /\ u \in found
      BY <1>2 DEF visible, condition, moveTargetUnits
    <2>2. \A x \in Case \ {c} : status(x) = "ACTIVE"
             => sales_cases[x].consumer_id # sales_cases[c].consumer_id
      BY <2>1 DEF OneActiveCase, IsActive
    <2>3. \A x \in Case : status(x) = "ACTIVE" => IsActive(x)
      BY DEF Untrashed, IsActive, Found, Exists, Absent
    <2>4. UniqueActiveCase(u, sales_cases[c].consumer_id, Case \ {c})
      BY <2>1, <2>2, <2>3 DEF UniqueActiveCase, activeSalesCases
    <2>5. activeCasesOfConsumer(sales_cases[c].consumer_id) \ {c} = {}
      BY <2>2 DEF activeCasesOfConsumer, IsActive
    <2> QED
      BY <2>1, <2>4, <2>5 DEF MoveIsAccepted
  <1> QED
    BY <1>1, <1>2

\* A list that leaves out one of the units found is ListLimit units long.
LEMMA ShortSearchListsAll ==
    ASSUME NEW c \in Case, NEW found \in SUBSET Unit,
           NEW list \in moveTargetUnitOptions(c, found),
           Cardinality(moveTargetUnits(c, found)) <= ListLimit
    PROVE  list = moveTargetUnits(c, found)
  <1> DEFINE targets == moveTargetUnits(c, found)
  <1>1. IsFiniteSet(targets) /\ list \in SUBSET targets
    BY WorkspaceAssumption, FS_Subset DEF moveTargetUnits, moveTargetUnitOptions
  <1>2. CASE Cardinality(list) = ListLimit
    <2>1. /\ Cardinality(targets) \in Nat
          /\ Cardinality(list) <= Cardinality(targets)
          /\ Cardinality(targets) = Cardinality(list) => targets = list
      BY <1>1, FS_Subset, FS_CardinalityType
    <2>2. Cardinality(targets) = Cardinality(list)
      BY <1>2, <2>1, WorkspaceAssumption
    <2> QED
      BY <2>1, <2>2
  <1>3. CASE list = targets
    BY <1>3
  <1> QED
    BY <1>2, <1>3 DEF moveTargetUnitOptions

\* What OfferedUnitsAreAccepted says of a case, without ENABLED.
OfferedUnitsMeet(c) ==
    LET accepted == { u \in Unit : MoveIsAccepted(c, u) } IN
    /\ accepted # {} => visible(c, "moveCase")
    /\ visible(c, "moveCase") =>
          \A found \in SUBSET Unit : \A list \in moveTargetUnitOptions(c, found) :
             /\ list \subseteq accepted
             /\ Cardinality(accepted \cap found) <= ListLimit =>
                   accepted \cap found \subseteq list

LEMMA OffersFollowUniqueness ==
    ASSUME OneActiveCase, Untrashed, NEW c \in Case
    PROVE  OfferedUnitsMeet(c)
  <1> DEFINE accepted == { u \in Unit : MoveIsAccepted(c, u) }
  <1>1. accepted # {} => visible(c, "moveCase")
    BY DEF MoveIsAccepted, visible, condition
  <1>2. ASSUME visible(c, "moveCase"), NEW found \in SUBSET Unit,
               NEW list \in moveTargetUnitOptions(c, found)
        PROVE  /\ list \subseteq accepted
               /\ Cardinality(accepted \cap found) <= ListLimit =>
                     accepted \cap found \subseteq list
    <2>1. moveTargetUnits(c, found) \subseteq Unit
      BY DEF moveTargetUnits
    <2>2. moveTargetUnits(c, found) = accepted \cap found
      BY <1>2, <2>1, OfferedMeetsCondition
    <2>3. list \subseteq moveTargetUnits(c, found)
      BY DEF moveTargetUnitOptions
    <2> QED
      BY <2>2, <2>3, ShortSearchListsAll
  <1> QED
    BY <1>1, <1>2 DEF OfferedUnitsMeet

\* OfferedUnitsAreAccepted without ENABLED: whatever the search, the form of a move lists
\* only units that meet the handler's condition, unique indexes included, and all of
\* those the search finds unless they are more than the list takes.
THEOREM OfferedUnitsMeetCondition == Spec => [](\A c \in Case : OfferedUnitsMeet(c))
  <1>1. OneActiveCase /\ Untrashed => \A c \in Case : OfferedUnitsMeet(c)
    BY OffersFollowUniqueness
  <1> QED
    BY HandlersAreUnique, UntrashedHolds, <1>1, PTL

-----------------------------------------------------------------------------
(* What the page shows is accepted.  Again ENABLED is replaced by what the  *)
(* handlers ask for; the lemmas show that each asks for nothing else: where *)
(* its condition holds, the handler is the assignments it makes.            *)

CreatePsjbAccepts(c, p) ==
    IsActive(c) /\ psjbs[p].status = Absent /\ biAllowsPsjb(c) /\ activePsjb(c) = {}

ReissuePsjbAccepts(c, old, p) ==
    IsActive(c) /\ old \in activePsjb(c) /\ psjbs[p].status = Absent

CancelPsjbAccepts(p) ==
    /\ psjbs[p].status = "ACTIVE"
    /\ Found(psjbs[p].sales_case_id)
    /\ \A s \in Submission : submissions[s].psjb_id # p
    /\ ~ isBeyond(stage(psjbs[p].sales_case_id), "PEMBERKASAN")

CreateDocumentSubmissionAccepts(c, p, s, n) ==
    /\ IsActive(c) /\ isKpr(c) /\ p \in activePsjb(c)
    /\ submissions[s].status = Absent /\ isNextSequence(c, n)

CompleteCashPemberkasanAccepts(c, p, s, n) ==
    /\ IsActive(c) /\ sales_cases[c].financing_type = "CASH" /\ p \in activePsjb(c)
    /\ cashPemberkasan(c) = {}
    /\ submissions[s].status = Absent /\ isNextSequence(c, n)

RecordBankResponseAccepts(c, s, b, response) ==
    /\ IsActive(c) /\ isKpr(c)
    /\ s \in submissionsOf(c) /\ submissions[s].type = "BANK"
    /\ response = "APPROVED" => approvalOf(c) = {}
    /\ bank_processes[b].response_type = Absent

CreateDeveloperPpjbAccepts(c, d, b) ==
    IsActive(c) /\ ppjbs[d].status = Absent /\ activePpjb(c) = {} /\ ppjbBasis(c, b)

ReissueDeveloperPpjbAccepts(c, old, d) ==
    IsActive(c) /\ ~ hasAkad(c) /\ old \in activePpjb(c) /\ ppjbs[d].status = Absent

CancelDeveloperPpjbAccepts(d) ==
    /\ ppjbs[d].status = "ACTIVE"
    /\ IsActive(ppjbs[d].sales_case_id) /\ ~ hasAkad(ppjbs[d].sales_case_id)

CreateAkadAccepts(c, d) == IsActive(c) /\ ~ hasAkad(c) /\ d \in activePpjb(c)
CreateBastAccepts(c, akad) == IsActive(c) /\ ~ hasBast(c) /\ hasAkad(akad) /\ akad = c
CloseSalesCaseAccepts(c) == IsActive(c) /\ ~ hasAkad(c)

LEMMA RecordBiCheckCondition ==
    ASSUME NEW c, NEW date, NEW result
    PROVE  RecordBiCheck(c, date, result)
              <=> /\ IsActive(c)
                  /\ latest_bi' = [latest_bi EXCEPT ![c] = latestForCase(@, date, result)]
                  /\ SetStage(c, stageAfterBiCheck(stage(c), result))
                  /\ UNCHANGED << unit_status, psjbs, submissions, bank_processes, ppjbs, akads,
                                  basts >>
  BY DEF RecordBiCheck

LEMMA CreatePsjbCondition ==
    ASSUME NEW c, NEW p
    PROVE  CreatePsjb(c, p)
              <=> /\ CreatePsjbAccepts(c, p)
                  /\ psjbs' = [psjbs EXCEPT ![p] = NewPsjb(c)]
                  /\ SetStage(c, advanceStageTo(stage(c), "PEMBERKASAN"))
                  /\ UNCHANGED << unit_status, latest_bi, submissions, bank_processes, ppjbs,
                                  akads, basts >>
  BY DEF CreatePsjb, CreatePsjbAccepts

LEMMA ReissuePsjbCondition ==
    ASSUME NEW c, NEW old, NEW p
    PROVE  ReissuePsjb(c, old, p)
              <=> /\ ReissuePsjbAccepts(c, old, p)
                  /\ psjbs' = [psjbs EXCEPT ![old].status = "SUPERSEDED", ![p] = NewPsjb(c)]
                  /\ SetStage(c, advanceStageTo(stage(c), "PEMBERKASAN"))
                  /\ UNCHANGED << unit_status, latest_bi, submissions, bank_processes, ppjbs,
                                  akads, basts >>
  BY DEF ReissuePsjb, ReissuePsjbAccepts

LEMMA CancelPsjbCondition ==
    ASSUME NEW p
    PROVE  CancelPsjb(p)
              <=> /\ CancelPsjbAccepts(p)
                  /\ psjbs' = [psjbs EXCEPT ![p].status = "CANCELLED"]
                  /\ SetStage(psjbs[p].sales_case_id, "PSJB")
                  /\ UNCHANGED << unit_status, latest_bi, submissions, bank_processes, ppjbs,
                                  akads, basts >>
  BY DEF CancelPsjb, CancelPsjbAccepts

LEMMA CreateDocumentSubmissionCondition ==
    ASSUME NEW c, NEW p, NEW s, NEW n
    PROVE  CreateDocumentSubmission(c, p, s, n)
              <=> /\ CreateDocumentSubmissionAccepts(c, p, s, n)
                  /\ submissions' = [submissions EXCEPT ![s] = NewSubmission(c, p, "BANK", n)]
                  /\ SetStage(c, advanceStageTo(stage(c), "PROSES_BANK"))
                  /\ UNCHANGED << unit_status, latest_bi, psjbs, bank_processes, ppjbs, akads,
                                  basts >>
  BY DEF CreateDocumentSubmission, CreateDocumentSubmissionAccepts, isKpr

LEMMA CompleteCashPemberkasanCondition ==
    ASSUME NEW c, NEW p, NEW s, NEW n
    PROVE  CompleteCashPemberkasan(c, p, s, n)
              <=> /\ CompleteCashPemberkasanAccepts(c, p, s, n)
                  /\ submissions' =
                        [submissions EXCEPT ![s] = NewSubmission(c, p, "CASH_INTERNAL", n)]
                  /\ SetStage(c, advanceStageTo(stage(c), "PPJB_DEV"))
                  /\ UNCHANGED << unit_status, latest_bi, psjbs, bank_processes, ppjbs, akads,
                                  basts >>
  BY DEF CompleteCashPemberkasan, CompleteCashPemberkasanAccepts

LEMMA RecordBankResponseCondition ==
    ASSUME NEW c, NEW s, NEW b, NEW response
    PROVE  LET approved == response = "APPROVED" IN
           RecordBankResponse(c, s, b, response)
              <=> /\ RecordBankResponseAccepts(c, s, b, response)
                  /\ bank_processes' = [bank_processes EXCEPT ![b] =
                        [sales_case_id |-> c, document_submission_id |-> s,
                         response_type |-> response, is_authoritative |-> approved]]
                  /\ submissions' = [submissions EXCEPT ![s].status =
                        IF approved THEN "CLOSED" ELSE IF @ = "SUBMITTED" THEN "PROCESSING" ELSE @]
                  /\ SetStage(c, advanceStageTo(stage(c),
                                                IF approved THEN "PPJB_DEV" ELSE "PROSES_BANK"))
                  /\ UNCHANGED << unit_status, latest_bi, psjbs, ppjbs, akads, basts >>
  BY DEF RecordBankResponse, RecordBankResponseAccepts, isKpr

LEMMA CreateDeveloperPpjbCondition ==
    ASSUME NEW c, NEW d, NEW b
    PROVE  CreateDeveloperPpjb(c, d, b)
              <=> /\ CreateDeveloperPpjbAccepts(c, d, b)
                  /\ ppjbs' = [ppjbs EXCEPT ![d] = NewPpjb(c, b)]
                  /\ SetStage(c, advanceStageTo(stage(c), "AKAD"))
                  /\ UNCHANGED << unit_status, latest_bi, psjbs, submissions, bank_processes,
                                  akads, basts >>
  BY DEF CreateDeveloperPpjb, CreateDeveloperPpjbAccepts

LEMMA ReissueDeveloperPpjbCondition ==
    ASSUME NEW c, NEW old, NEW d
    PROVE  ReissueDeveloperPpjb(c, old, d)
              <=> /\ ReissueDeveloperPpjbAccepts(c, old, d)
                  /\ ppjbs' = [ppjbs EXCEPT ![old].status = "SUPERSEDED",
                                            ![d] = NewPpjb(c, ppjbs[old].bank_process_id)]
                  /\ SetStage(c, advanceStageTo(stage(c), "AKAD"))
                  /\ UNCHANGED << unit_status, latest_bi, psjbs, submissions, bank_processes,
                                  akads, basts >>
  BY DEF ReissueDeveloperPpjb, ReissueDeveloperPpjbAccepts

LEMMA CancelDeveloperPpjbCondition ==
    ASSUME NEW d
    PROVE  LET c == ppjbs[d].sales_case_id IN
           CancelDeveloperPpjb(d)
              <=> /\ CancelDeveloperPpjbAccepts(d)
                  /\ ppjbs' = [ppjbs EXCEPT ![d].status = "CANCELLED"]
                  /\ SetStage(c, IF isBeyond(stage(c), "AKAD") THEN stage(c) ELSE "PPJB_DEV")
                  /\ UNCHANGED << unit_status, latest_bi, psjbs, submissions, bank_processes,
                                  akads, basts >>
  BY DEF CancelDeveloperPpjb, CancelDeveloperPpjbAccepts

LEMMA CreateAkadCondition ==
    ASSUME NEW c, NEW d \in Ppjb
    PROVE  CreateAkad(c, d)
              <=> /\ CreateAkadAccepts(c, d)
                  /\ akads' = [akads EXCEPT ![c] = d]
                  /\ SetStage(c, advanceStageTo(stage(c), "BAST"))
                  /\ SellUnit(c)
                  /\ UNCHANGED << latest_bi, psjbs, submissions, bank_processes, ppjbs, basts >>
  BY DEF CreateAkad, CreateAkadAccepts, activePpjb

LEMMA CreateBastCondition ==
    ASSUME NEW c, NEW akad
    PROVE  CreateBast(c, akad)
              <=> /\ CreateBastAccepts(c, akad)
                  /\ basts' = [basts EXCEPT ![c] = akad]
                  /\ sales_cases' = [sales_cases EXCEPT ![c].current_stage = "COMPLETED",
                                                        ![c].case_status = "COMPLETED"]
                  /\ SellUnit(c)
                  /\ UNCHANGED << latest_bi, psjbs, submissions, bank_processes, ppjbs, akads >>
  BY DEF CreateBast, CreateBastAccepts

LEMMA CloseSalesCaseCondition ==
    ASSUME NEW c, NEW closing
    PROVE  CloseSalesCase(c, closing)
              <=> /\ CloseSalesCaseAccepts(c)
                  /\ sales_cases' = [sales_cases EXCEPT ![c].case_status = closing]
                  /\ releaseUnitIfNoActiveCase(c)
                  /\ UNCHANGED documents
  BY DEF CloseSalesCase, CloseSalesCaseAccepts

\* Some request of the button's form meets the condition of the handler behind it:
\* press, with each handler's condition in the handler's place.
isAccepted(c, button) ==
    \/ button = "addBiCheck" /\ 1..MaxDate # {} /\ IsActive(c)
    \/ button = "createPsjb" /\ \E p \in Psjb : CreatePsjbAccepts(c, p)
    \/ button = "reissuePsjb" /\ \E old, p \in Psjb : ReissuePsjbAccepts(c, old, p)
    \/ button = "cancelPsjb" /\ \E p \in activePsjb(c) : CancelPsjbAccepts(p)
    \/ /\ button = "addPemberkasan"
       /\ \E p \in Psjb, s \in Submission, n \in 1..MaxSequence :
             CreateDocumentSubmissionAccepts(c, p, s, n)
    \/ /\ button = "recordBankResponse"
       /\ \E s \in submissionsOf(c), b \in BankProcess, r \in BankResponseType :
             RecordBankResponseAccepts(c, s, b, r)
    \/ /\ button = "completeCashPemberkasan"
       /\ \E p \in Psjb, s \in Submission, n \in 1..MaxSequence :
             CompleteCashPemberkasanAccepts(c, p, s, n)
    \/ /\ button = "createPpjbDeveloper"
       /\ \E d \in Ppjb, b \in BankProcess \cup {None} : CreateDeveloperPpjbAccepts(c, d, b)
    \/ /\ button = "reissuePpjbDeveloper"
       /\ \E old, d \in Ppjb : ReissueDeveloperPpjbAccepts(c, old, d)
    \/ /\ button = "cancelPpjbDeveloper"
       /\ \E d \in activePpjb(c) : CancelDeveloperPpjbAccepts(d)
    \/ button = "createAkad" /\ \E d \in activePpjb(c) : CreateAkadAccepts(c, d)
    \/ button = "createBast" /\ CreateBastAccepts(c, c)
    \/ /\ button = "moveCase"
       /\ \E n \in Case, found \in SUBSET Unit :
             \E list \in moveTargetUnitOptions(c, found) :
                \E u \in list : MoveIsAccepted(c, u) /\ ~ Exists(n)
    \/ button \in {"markMundur", "markRejected", "cancelCase"} /\ CloseSalesCaseAccepts(c)

\* A submission on record is for a bank or for a CASH case.
Typed ==
    \A s \in Submission : submissions[s].status # Absent =>
        submissions[s].type \in SubmissionType

LEMMA TypedStep ==
    ASSUME SalesInvariant, Typed, [Next]_vars
    PROVE  Typed'
  <1> SUFFICES ASSUME NEW s \in Submission, submissions'[s].status # Absent
               PROVE  submissions'[s].type \in SubmissionType
    BY DEF Typed
  <1>1. TypeOK /\ (submissions[s].status # Absent => submissions[s].type \in SubmissionType)
    BY DEF SalesInvariant, Typed
  <1>2. ASSUME NEW c \in Case, NEW p \in Psjb, NEW r \in Submission, NEW n \in 1..MaxSequence,
               NewSubmissionStepOf(c, p, r, n)
        PROVE  submissions'[s].type \in SubmissionType
    <2>1. PICK t \in SubmissionType :
             submissions' = [submissions EXCEPT ![r] = NewSubmission(c, p, t, n)]
      BY <1>2 DEF NewSubmissionStepOf, CreateDocumentSubmission, CompleteCashPemberkasan,
         SubmissionType
    <2> QED
      BY <1>1, <2>1 DEF TypeOK, NewSubmission
  <1>3. ASSUME NEW c \in Case, NEW r \in Submission, NEW b \in BankProcess,
               NEW a \in BankResponseType, RecordBankResponse(c, r, b, a)
        PROVE  submissions'[s].type \in SubmissionType
    <2>1. PICK v : submissions' = [submissions EXCEPT ![r].status = v]
      BY <1>1, <1>3 DEF RecordBankResponse, TypeOK
    <2>2. submissions[r].status # Absent
      BY <1>3, TablesAssumption
         DEF RecordBankResponse, submissionsOf, SalesInvariant, AbsentRowsAreBlank
    <2> QED
      BY <1>1, <2>1, <2>2 DEF TypeOK, SubmissionRow
  <1> QED
    BY <1>1, <1>2, <1>3, WhoWrites DEF NewSubmissionNext, BankAnswerNext

LEMMA TypedHolds == Spec => []Typed
  <1>1. Init => Typed
    BY DEF Init, Typed, NoSubmissionRow
  <1>2. FinancingInvariant /\ Typed /\ [Next]_vars => Typed'
    BY TypedStep DEF FinancingInvariant
  <1> QED
    BY FinancingInvariantHolds, <1>1, <1>2, PTL DEF Spec

LEMMA ShownPsjbButtons ==
    ASSUME FinancingInvariant, NEW c \in Case,
           NEW button \in {"createPsjb", "reissuePsjb", "cancelPsjb"},
           visible(c, button), hasRoom(c, button)
    PROVE  isAccepted(c, button)
  <1>1. CASE button = "createPsjb"
    <2>1. IsActive(c) /\ activePsjb(c) = {} /\ biAllowsPsjb(c)
      BY <1>1 DEF visible, condition, mayCreatePsjb, biAllowsPsjb
    <2>2. PICK p \in Psjb : psjbs[p].status = Absent
      BY <1>1 DEF hasRoom
    <2> QED
      BY <1>1, <2>1, <2>2 DEF isAccepted, CreatePsjbAccepts
  <1>2. CASE button = "reissuePsjb"
    <2>1. IsActive(c) /\ activePsjb(c) # {}
      BY <1>2 DEF visible, condition
    <2>2. PICK p \in Psjb : psjbs[p].status = Absent
      BY <1>2 DEF hasRoom
    <2>3. PICK old \in Psjb : old \in activePsjb(c)
      BY <2>1 DEF activePsjb
    <2> QED
      BY <1>2, <2>1, <2>2, <2>3 DEF isAccepted, ReissuePsjbAccepts
  <1>3. CASE button = "cancelPsjb"
    <2>1. Found(c) /\ mayCancelPsjb(c)
      BY <1>3 DEF visible, condition, IsActive
    <2>2. PICK p \in activePsjb(c) : TRUE
      BY <2>1 DEF mayCancelPsjb
    <2>3. CancelPsjbAccepts(p)
      BY <2>1, <2>2 DEF mayCancelPsjb, activePsjb, CancelPsjbAccepts
    <2> QED
      BY <1>3, <2>2, <2>3 DEF isAccepted
  <1> QED
    BY <1>1, <1>2, <1>3

\* A CASH case at PEMBERKASAN has no submission yet, a submission of a KPR case is for a bank.
LEMMA ShownBankButtons ==
    ASSUME FinancingInvariant, Typed, NEW c \in Case,
           NEW button \in {"addPemberkasan", "recordBankResponse", "completeCashPemberkasan"},
           visible(c, button), hasRoom(c, button)
    PROVE  isAccepted(c, button)
  <1>1. SalesInvariant /\ TypeOK /\ Coherent(c)
    BY ByParts DEF FinancingInvariant, SalesInvariant
  <1>2. CASE button \in {"addPemberkasan", "completeCashPemberkasan"}
    <2>1. IsActive(c) /\ activePsjb(c) # {}
      BY <1>2 DEF visible, condition
    <2>2. PICK p \in Psjb : p \in activePsjb(c)
      BY <2>1 DEF activePsjb
    <2>3. PICK s \in Submission, n \in 1..MaxSequence :
             submissions[s].status = Absent /\ isNextSequence(c, n)
      BY <1>2 DEF hasRoom
    <2>4. CASE button = "addPemberkasan"
      <3>1. isKpr(c)
        BY <2>4 DEF visible, condition
      <3> QED
        BY <2>1, <2>2, <2>3, <2>4, <3>1 DEF isAccepted, CreateDocumentSubmissionAccepts
    <2>5. CASE button = "completeCashPemberkasan"
      <3>1. ~ isKpr(c) /\ stage(c) = "PEMBERKASAN"
        BY <2>5 DEF visible, condition
      <3>2. cashPemberkasan(c) = {}
        BY <1>1, <3>1 DEF Coherent, BeforeProsesBank, cashPemberkasan
      <3>3. sales_cases[c].financing_type = "CASH"
        BY <1>1, <3>1 DEF isKpr, TypeOK, CaseRow, FinancingType
      <3> QED
        BY <2>1, <2>2, <2>3, <2>5, <3>2, <3>3 DEF isAccepted, CompleteCashPemberkasanAccepts
    <2> QED
      BY <1>2, <2>4, <2>5
  <1>3. CASE button = "recordBankResponse"
    <2>1. IsActive(c) /\ isKpr(c) /\ submissionsOf(c) # {}
      BY <1>3 DEF visible, condition
    <2>2. PICK s \in submissionsOf(c) : TRUE
      BY <2>1
    <2>3. submissions[s].type # "CASH_INTERNAL"
      BY <2>1, SubmissionTellsFinancing
    <2>4. s \in Submission /\ submissions[s].status # Absent
      BY <1>1, <2>2, TablesAssumption DEF SalesInvariant, AbsentRowsAreBlank, submissionsOf
    <2>5. submissions[s].type = "BANK"
      BY <2>3, <2>4 DEF Typed, SubmissionType
    <2>6. PICK b \in BankProcess : bank_processes[b].response_type = Absent
      BY <1>3 DEF hasRoom
    <2>7. RecordBankResponseAccepts(c, s, b, "PROCESS")
      BY <2>1, <2>2, <2>5, <2>6 DEF RecordBankResponseAccepts
    <2> QED
      BY <1>3, <2>7 DEF isAccepted, BankResponseType
  <1> QED
    BY <1>2, <1>3

\* What a CASH case needs beyond what the page looks at is a PSJB, which the stage vouches for.
LEMMA ShownClosingButtons ==
    ASSUME FinancingInvariant, NEW c \in Case,
           NEW button \in {"createPpjbDeveloper", "reissuePpjbDeveloper", "cancelPpjbDeveloper",
                           "createAkad", "createBast"},
           visible(c, button), hasRoom(c, button)
    PROVE  isAccepted(c, button)
  <1>1. TypeOK /\ Coherent(c) /\ stage(c) \in Stage /\ IsActive(c)
    BY ByParts, StageType DEF FinancingInvariant, SalesInvariant, visible
  <1>2. CASE button = "createPpjbDeveloper"
    <2>1. mayCreatePpjb(c)
      BY <1>2 DEF visible, condition
    <2>2. PICK d \in Ppjb : ppjbs[d].status = Absent
      BY <1>2 DEF hasRoom
    <2>3. \E b \in BankProcess \cup {None} : ppjbBasis(c, b)
      <3>1. CASE isKpr(c)
        BY <2>1, <3>1 DEF mayCreatePpjb, approvalOf, ppjbBasis, isKpr
      <3>2. CASE ~ isKpr(c)
        <4>1. cashPemberkasan(c) # {} /\ isBeyond(stage(c), "PEMBERKASAN")
          BY <2>1, <3>2 DEF mayCreatePpjb
        <4>2. activePsjb(c) # {}
          BY <1>1, <4>1, StageOrder DEF Coherent, BeforeProsesBank
        <4> QED
          BY <3>2, <4>1, <4>2 DEF ppjbBasis, isKpr
      <3> QED
        BY <3>1, <3>2
    <2> QED
      BY <1>1, <1>2, <2>1, <2>2, <2>3 DEF isAccepted, CreateDeveloperPpjbAccepts, mayCreatePpjb
  <1>3. CASE button \in {"reissuePpjbDeveloper", "cancelPpjbDeveloper", "createAkad"}
    <2>1. ~ hasAkad(c) /\ activePpjb(c) # {}
      BY <1>3 DEF visible, condition
    <2>2. PICK old \in Ppjb : old \in activePpjb(c)
      BY <2>1 DEF activePpjb
    <2>3. CASE button = "reissuePpjbDeveloper"
      <3>1. PICK d \in Ppjb : ppjbs[d].status = Absent
        BY <2>3 DEF hasRoom
      <3> QED
        BY <1>1, <2>1, <2>2, <2>3, <3>1 DEF isAccepted, ReissueDeveloperPpjbAccepts
    <2>4. CASE button = "cancelPpjbDeveloper"
      <3>1. CancelDeveloperPpjbAccepts(old)
        BY <1>1, <2>1, <2>2 DEF activePpjb, CancelDeveloperPpjbAccepts
      <3> QED
        BY <2>2, <2>4, <3>1 DEF isAccepted
    <2>5. CASE button = "createAkad"
      BY <1>1, <2>1, <2>2, <2>5 DEF isAccepted, CreateAkadAccepts
    <2> QED
      BY <1>3, <2>3, <2>4, <2>5
  <1>4. CASE button = "createBast"
    BY <1>1, <1>4 DEF visible, condition, isAccepted, CreateBastAccepts
  <1> QED
    BY <1>2, <1>3, <1>4

LEMMA ShownButtons ==
    ASSUME MaxDate > 0, FinancingInvariant, Typed, OneActiveCase, Untrashed,
           NEW c \in Case, NEW button \in Button, visible(c, button), hasRoom(c, button)
    PROVE  isAccepted(c, button)
  <1>1. CASE button \in {"createPsjb", "reissuePsjb", "cancelPsjb"}
    BY <1>1, ShownPsjbButtons
  <1>2. CASE button \in {"addPemberkasan", "recordBankResponse", "completeCashPemberkasan"}
    BY <1>2, ShownBankButtons
  <1>3. CASE button \in {"createPpjbDeveloper", "reissuePpjbDeveloper", "cancelPpjbDeveloper",
                         "createAkad", "createBast"}
    BY <1>3, ShownClosingButtons
  <1>4. CASE button = "addBiCheck"
    <2>1. 1 \in 1..MaxDate
      BY TablesAssumption
    <2> QED
      BY <1>4, <2>1 DEF visible, isAccepted
  <1>5. CASE button = "moveCase"
    <2>1. PICK u \in moveTargetUnits(c, Unit), n \in Case : ~ Exists(n)
      BY <1>5 DEF hasRoom
    <2>2. u \in Unit
      BY <2>1 DEF moveTargetUnits
    <2>3. MoveIsAccepted(c, u)
      BY <1>5, <2>1, <2>2, OfferedMeetsCondition
    <2>4. moveTargetUnits(c, {u}) = {u}
      BY <2>1 DEF moveTargetUnits
    <2>5. {u} \in moveTargetUnitOptions(c, {u})
      BY <2>4, FS_Singleton, WorkspaceAssumption DEF moveTargetUnitOptions
    <2> QED
      BY <1>5, <2>1, <2>2, <2>3, <2>5 DEF isAccepted
  <1>6. CASE button \in {"markMundur", "markRejected", "cancelCase"}
    BY <1>6 DEF visible, condition, isAccepted, CloseSalesCaseAccepts
  <1> QED
    BY <1>1, <1>2, <1>3, <1>4, <1>5, <1>6 DEF Button

\* VisibleButtonIsAccepted without ENABLED: if a check can be dated at all, every button
\* the page shows has a request that meets the condition of its handler.
THEOREM VisibleRequestsMeetConditions ==
    ASSUME MaxDate > 0
    PROVE  Spec => [](\A c \in Case, button \in Button :
                         visible(c, button) /\ hasRoom(c, button) => isAccepted(c, button))
  <1>1. FinancingInvariant /\ Typed /\ OneActiveCase /\ Untrashed
           => \A c \in Case, button \in Button :
                 visible(c, button) /\ hasRoom(c, button) => isAccepted(c, button)
    BY ShownButtons
  <1> QED
    BY FinancingInvariantHolds, TypedHolds, HandlersAreUnique, UntrashedHolds, <1>1, PTL

-----------------------------------------------------------------------------
(* Reports. *)

LEMMA CashOrKpr ==
    ASSUME TypeOK, NEW c \in Case
    PROVE  isCash(c) <=> ~ isKpr(c)
  BY DEF TypeOK, CaseRow, FinancingType, isCash, isKpr

-----------------------------------------------------------------------------
(* The SP3K stock. *)

\* An authoritative answer is an approval.
Approving(b) == bank_processes[b].is_authoritative => bank_processes[b].response_type = "APPROVED"

StockInvariant == FinancingInvariant /\ \A b \in BankProcess : Approving(b)

LEMMA StockInit == Init => StockInvariant
  BY FinancingInit DEF Init, StockInvariant, Approving, NoProcessRow

LEMMA StockStep == StockInvariant /\ [Next]_vars => StockInvariant'
  <1> SUFFICES ASSUME StockInvariant, [Next]_vars PROVE StockInvariant'
    OBVIOUS
  <1>1. FinancingInvariant' /\ TypeOK
    BY FinancingStep DEF StockInvariant, FinancingInvariant, SalesInvariant
  <1>2. ASSUME NEW b \in BankProcess PROVE Approving(b)'
    <2>1. Approving(b)
      BY DEF StockInvariant
    <2>2. CASE bank_processes' = bank_processes
      BY <2>1, <2>2 DEF Approving
    <2>3. ASSUME NEW c \in Case, NEW s \in Submission, NEW a \in BankProcess,
                 NEW r \in BankResponseType, RecordBankResponse(c, s, a, r)
          PROVE  Approving(b)'
      BY <1>1, <2>1, <2>3 DEF RecordBankResponse, Approving, TypeOK
    <2> QED
      BY <2>2, <2>3, WhoWrites DEF BankAnswerNext
  <1> QED
    BY <1>1, <1>2 DEF StockInvariant

\* From PPJB_DEV to the Akad a KPR case has its approval, and before that it has none.
LEMMA StockFollowsInvariant ==
    ASSUME StockInvariant, NEW c \in Case
    PROVE  sp3kStock(c) <=> IsActive(c) /\ ~ isCash(c) /\ stage(c) \in {"PPJB_DEV", "AKAD"}
  <1>1. SalesInvariant /\ TypeOK /\ Coherent(c) /\ stage(c) \in Stage
    BY ByParts, StageType DEF StockInvariant, FinancingInvariant
  <1>2. ~ isCash(c) => cashPemberkasan(c) = {}
    BY <1>1, CashOrKpr, SubmissionTellsFinancing DEF StockInvariant, cashPemberkasan
  <1>3. ~ isCash(c) => (approvalOf(c) # {} <=> stage(c) \notin BeforePpjbDev)
    BY <1>1, <1>2 DEF Coherent
  <1>4. hasAkad(c) <=> stage(c) \in {"BAST", "COMPLETED"}
    BY <1>1 DEF Coherent, hasAkad
  <1>5. approvalOf(c) # {} <=> \E b \in approvalOf(c) : bank_processes[b].response_type = "APPROVED"
    BY DEF StockInvariant, Approving, approvalOf
  <1>6. stage(c) \in {"PPJB_DEV", "AKAD"}
           <=> stage(c) \notin BeforePpjbDev /\ stage(c) \notin {"BAST", "COMPLETED"}
    BY <1>1 DEF Stage, BeforePpjbDev, BeforeProsesBank, BeforePemberkasan
  <1> QED
    BY <1>3, <1>4, <1>5, <1>6 DEF sp3kStock

\* StockAwaitsAkad: the SP3K stock of the dashboard is the KPR cases between the bank's
\* approval and the Akad.
THEOREM StockIsRight == Spec => []StockAwaitsAkad
  <1>1. StockInvariant => StockAwaitsAkad
    BY StockFollowsInvariant DEF StockAwaitsAkad
  <1> QED
    BY StockInit, StockStep, <1>1, PTL DEF Spec

-----------------------------------------------------------------------------
(* BI checks on record.  The other documents follow from the stage; that a *)
(* KPR case past DATA_KONSUMEN was checked does not, because a check never *)
(* goes away but nothing of the invariant tells that it came.              *)

Checked(c) ==
    /\ latest_bi[c].check_date > 0 => latest_bi[c].result # Absent
    /\ stage(c) = "BI_CHECKING" => latest_bi[c].result # Absent
    /\ isKpr(c) /\ stage(c) # "DATA_KONSUMEN" => latest_bi[c].result # Absent

CheckInvariant == FinancingInvariant /\ \A c \in Case : Checked(c)

LEMMA CheckInit == Init => CheckInvariant
  <1> SUFFICES ASSUME Init PROVE CheckInvariant
    OBVIOUS
  <1>1. \A c \in Case : stage(c) = "DATA_KONSUMEN" /\ latest_bi[c].check_date = 0
    BY DEF Init, NoCaseRow, stage
  <1> QED
    BY <1>1, FinancingInit DEF CheckInvariant, Checked

\* No other handler brings a case out of DATA_KONSUMEN, or to BI_CHECKING.
StaysChecked(x) ==
    /\ latest_bi'[x] = latest_bi[x]
    /\ \/ stage(x)' = stage(x)
       \/ stage(x) # "DATA_KONSUMEN" /\ stage(x)' # "BI_CHECKING"

\* A handler that advances the stage of a case with an ACTIVE PSJB, or sets it.
LEMMA StageOfOneCase ==
    ASSUME SalesInvariant, NEW c, NEW t, SetStage(c, t), UNCHANGED latest_bi,
           c \in Case => stage(c) # "DATA_KONSUMEN" /\ (t = stage(c) \/ t # "BI_CHECKING"),
           NEW x \in Case
    PROVE  StaysChecked(x)
  <1>1. TypeOK
    BY DEF SalesInvariant
  <1> QED
    BY <1>1 DEF StaysChecked, SetStage, TypeOK, CaseRow, stage

LEMMA AdvanceIsNoCheck ==
    ASSUME NEW s \in Stage, NEW t \in Stage, t # "BI_CHECKING"
    PROVE  advanceStageTo(s, t) = s \/ advanceStageTo(s, t) # "BI_CHECKING"
  BY DEF advanceStageTo

\* A case with an ACTIVE PSJB, a submission or an approval has left DATA_KONSUMEN.
LEMMA DocumentsComeLater ==
    ASSUME SalesInvariant, NEW c \in Case,
           \/ activePsjb(c) # {} \/ submissionsOf(c) # {} \/ activePpjb(c) # {}
           \/ approvalOf(c) # {} \/ cashPemberkasan(c) # {}
    PROVE  stage(c) # "DATA_KONSUMEN"
  <1>1. Coherent(c)
    BY ByParts
  <1> QED
    BY <1>1 DEF Coherent, BeforePpjbDev, BeforeProsesBank, BeforePemberkasan

LEMMA DocumentsKeepChecks ==
    ASSUME SalesInvariant, DocumentNext, NEW x \in Case
    PROVE  \/ \E d \in 1..MaxDate, r \in BiCheckResult : RecordBiCheck(x, d, r)
           \/ \E p \in Psjb : CreatePsjb(x, p)
           \/ StaysChecked(x)
  <1>1. TypeOK /\ \A c \in Case : stage(c) \in Stage
    BY StageType DEF SalesInvariant
  <1>2. \A c \in Case, t \in Stage \ {"BI_CHECKING"} :
           \/ advanceStageTo(stage(c), t) = stage(c)
           \/ advanceStageTo(stage(c), t) # "BI_CHECKING"
    BY <1>1, AdvanceIsNoCheck
  <1>3. ASSUME NEW c \in Case, NEW t, c # x, SetStage(c, t),
               latest_bi'[x] = latest_bi[x]
        PROVE  StaysChecked(x)
    BY <1>1, <1>3, SetStageEffect DEF StaysChecked
  <1>4. ASSUME NEW c \in Case, NEW d \in 1..MaxDate, NEW r \in BiCheckResult, c # x,
               RecordBiCheck(c, d, r)
        PROVE  StaysChecked(x)
    BY <1>1, <1>3, <1>4 DEF RecordBiCheck, TypeOK
  <1>5. ASSUME NEW c \in Case, NEW p \in Psjb, c # x, CreatePsjb(c, p)
        PROVE  StaysChecked(x)
    BY <1>1, <1>3, <1>5 DEF CreatePsjb
  <1>6. ASSUME NEW c \in Case, NEW old \in Psjb, NEW p \in Psjb, ReissuePsjb(c, old, p)
        PROVE  StaysChecked(x)
    <2>1. stage(c) # "DATA_KONSUMEN"
      BY <1>6, DocumentsComeLater DEF ReissuePsjb
    <2> QED
      BY <1>2, <1>6, <2>1, StageOfOneCase DEF ReissuePsjb, Stage
  <1>7. ASSUME NEW p \in Psjb, CancelPsjb(p) PROVE StaysChecked(x)
    <2>1. stage(psjbs[p].sales_case_id) = "PEMBERKASAN"
      BY <1>7, CancelPsjbGoesBack
    <2> QED
      BY <1>7, <2>1, StageOfOneCase DEF CancelPsjb
  <1>8. CASE BankNext
    <2>1. PICK c \in Case : /\ activePsjb(c) # {} \/ submissionsOf(c) # {}
                            /\ \E t \in Stage \ {"BI_CHECKING"} :
                                  SetStage(c, advanceStageTo(stage(c), t))
                            /\ UNCHANGED latest_bi
      <3>1. ASSUME NEW c \in Case, NEW p \in Psjb, NEW s \in Submission, NEW n \in 1..MaxSequence,
                   NewSubmissionStepOf(c, p, s, n)
            PROVE  /\ activePsjb(c) # {}
                   /\ \E t \in Stage \ {"BI_CHECKING"} :
                         SetStage(c, advanceStageTo(stage(c), t))
                   /\ UNCHANGED latest_bi
        BY <3>1 DEF NewSubmissionStepOf, CreateDocumentSubmission, CompleteCashPemberkasan, Stage
      <3>2. ASSUME NEW c \in Case, NEW s \in Submission, NEW b \in BankProcess,
                   NEW r \in BankResponseType, RecordBankResponse(c, s, b, r)
            PROVE  /\ submissionsOf(c) # {}
                   /\ \E t \in Stage \ {"BI_CHECKING"} :
                         SetStage(c, advanceStageTo(stage(c), t))
                   /\ UNCHANGED latest_bi
        BY <3>2 DEF RecordBankResponse, Stage
      <3> QED
        BY <1>8, <3>1, <3>2 DEF BankNext, NewSubmissionStepOf
    <2>2. stage(c) # "DATA_KONSUMEN"
      BY <2>1, DocumentsComeLater
    <2> QED
      BY <1>2, <2>1, <2>2, StageOfOneCase
  <1>9. ASSUME NEW c \in Case, NEW d \in Ppjb, NEW b \in BankProcess \cup {None},
               CreateDeveloperPpjb(c, d, b)
        PROVE  StaysChecked(x)
    <2>1. stage(c) # "DATA_KONSUMEN"
      BY <1>9, DocumentsComeLater DEF CreateDeveloperPpjb, ppjbBasis
    <2> QED
      BY <1>2, <1>9, <2>1, StageOfOneCase DEF CreateDeveloperPpjb, Stage
  <1>10. ASSUME NEW c \in Case, NEW old \in Ppjb, NEW d \in Ppjb, ReissueDeveloperPpjb(c, old, d)
         PROVE  StaysChecked(x)
    <2>1. stage(c) # "DATA_KONSUMEN"
      <3>1. activePpjb(c) # {} /\ akads[c] = None /\ Coherent(c)
        BY <1>10, ByParts DEF ReissueDeveloperPpjb, hasAkad
      <3> QED
        BY <3>1 DEF Coherent
    <2> QED
      BY <1>2, <1>10, <2>1, StageOfOneCase DEF ReissueDeveloperPpjb, Stage
  <1>11. ASSUME NEW d \in Ppjb, CancelDeveloperPpjb(d) PROVE StaysChecked(x)
    <2>1. stage(ppjbs[d].sales_case_id) = "AKAD"
      BY <1>11, CancelPpjbGoesBack
    <2>2. SetStage(ppjbs[d].sales_case_id, "PPJB_DEV")
      BY <1>11, <2>1 DEF CancelDeveloperPpjb, isBeyond, order
    <2> QED
      BY <1>11, <2>1, <2>2, StageOfOneCase DEF CancelDeveloperPpjb
  <1>12. ASSUME NEW c \in Case, NEW d \in Ppjb, CreateAkad(c, d) PROVE StaysChecked(x)
    <2>1. stage(c) # "DATA_KONSUMEN"
      BY <1>12, DocumentsComeLater DEF CreateAkad, activePpjb
    <2> QED
      BY <1>2, <1>12, <2>1, StageOfOneCase DEF CreateAkad, Stage
  <1> QED
    BY <1>4, <1>5, <1>6, <1>7, <1>8, <1>9, <1>10, <1>11, <1>12
       DEF DocumentNext, PsjbNext, PpjbNext

\* The lifecycle writes no check and, but for rows it inserts, no stage; an inserted
\* row starts over in DATA_KONSUMEN, where an absent one is as well.
LEMMA LifecycleKeepsChecks ==
    ASSUME SalesInvariant, LifecycleNext, NEW x \in Case
    PROVE  latest_bi' = latest_bi /\ stage(x)' = stage(x)
  <1>1. TypeOK /\ AbsentRowsAreBlank
    BY DEF SalesInvariant
  <1>2. ASSUME NEW c \in Case, NEW u \in Unit, NEW k \in Consumer, NEW f \in FinancingType,
               CreateSalesCase(c, u, k, f)
        PROVE  latest_bi' = latest_bi /\ stage(x)' = stage(x)
    BY <1>1, <1>2 DEF CreateSalesCase, TypeOK, NewCase, AbsentRowsAreBlank, stage, documents
  <1>3. ASSUME NEW c \in Case, NEW z, CloseSalesCase(c, z)
        PROVE  latest_bi' = latest_bi /\ stage(x)' = stage(x)
    BY <1>1, <1>3 DEF CloseSalesCase, TypeOK, CaseRow, stage, documents
  <1>4. ASSUME NEW c \in Case, NEW n \in Case, NEW u \in Unit, MoveSalesCaseUnit(c, n, u)
        PROVE  latest_bi' = latest_bi /\ stage(x)' = stage(x)
    BY <1>1, <1>4 DEF MoveSalesCaseUnit, TypeOK, CaseRow, NewCase, AbsentRowsAreBlank, stage,
       documents
  <1> QED
    BY <1>2, <1>3, <1>4
       DEF LifecycleNext, CancelSalesCase, MarkSalesCaseMundur, MarkSalesCaseRejected

\* No step makes a KPR case of a CASH one that has left DATA_KONSUMEN.
LEMMA KprStays ==
    ASSUME SalesInvariant, [Next]_vars, NEW x \in Case, isKpr(x)', stage(x)' # "DATA_KONSUMEN"
    PROVE  isKpr(x)
  <1>1. TypeOK /\ AbsentRowsAreBlank
    BY DEF SalesInvariant
  <1>2. CASE Exists(x)
    BY <1>1, <1>2, SalesStay, SharedType DEF SameSale, isKpr
  <1>3. CASE ~ Exists(x)
    <2>1. CASE LifecycleNext
      BY <1>1, <1>3, <2>1, LifecycleKeepsChecks DEF AbsentRowsAreBlank
    <2>2. CASE DocumentNext
      <3>1. PICK c, s : SetStage(c, s)
        BY <2>2, DocumentHandlersSetStage DEF DocumentNext
      <3> QED
        BY <1>1, <3>1 DEF SetStage, TypeOK, CaseRow, isKpr
    <2>3. ASSUME NEW c \in Case, NEW a \in Case, CreateBast(c, a) PROVE isKpr(x)
      BY <1>1, <2>3 DEF CreateBast, TypeOK, CaseRow, isKpr
    <2>4. CASE UNCHANGED vars
      BY <2>4 DEF vars, isKpr
    <2> QED
      BY <2>1, <2>2, <2>3, <2>4, NextByKind
  <1> QED
    BY <1>2, <1>3

\* A check that does not become the latest one leaves a later one in its place.
LEMMA CheckIsOnRecord ==
    ASSUME CheckInvariant, NEW x \in Case, NEW d \in 1..MaxDate, NEW r \in BiCheckResult,
           RecordBiCheck(x, d, r)
    PROVE  latest_bi'[x].result # Absent
  <1>1. TypeOK /\ latest_bi[x].check_date \in 0..MaxDate /\ Checked(x)
    BY DEF CheckInvariant, FinancingInvariant, SalesInvariant, TypeOK, BiRow
  <1>2. latest_bi'[x] = latestForCase(latest_bi[x], d, r)
    BY <1>1 DEF RecordBiCheck, TypeOK
  <1>3. r # Absent
    BY DEF BiCheckResult, Absent
  <1>4. CASE d >= latest_bi[x].check_date
    BY <1>2, <1>3, <1>4 DEF latestForCase
  <1>5. CASE ~ d >= latest_bi[x].check_date
    <2>1. latest_bi[x].check_date > 0
      BY <1>1, <1>5, TablesAssumption
    <2> QED
      BY <1>1, <1>2, <1>5, <2>1 DEF latestForCase, Checked
  <1> QED
    BY <1>4, <1>5

\* A KPR case leaves DATA_KONSUMEN by a check, or by a PSJB that rests on a CLEAR one.
LEMMA CheckedStep ==
    ASSUME CheckInvariant, [Next]_vars, NEW x \in Case
    PROVE  Checked(x)'
  <1>1. SalesInvariant /\ TypeOK /\ Checked(x) /\ stage(x) \in Stage
    BY StageType DEF CheckInvariant, FinancingInvariant, SalesInvariant
  <1>2. isKpr(x)' /\ stage(x)' # "DATA_KONSUMEN" => isKpr(x)
    BY <1>1, KprStays
  <1>3. CASE StaysChecked(x)
    BY <1>1, <1>2, <1>3 DEF StaysChecked, Checked
  <1>4. CASE LifecycleNext
    BY <1>1, <1>3, <1>4, LifecycleKeepsChecks DEF StaysChecked
  <1>5. CASE DocumentNext
    <2>1. ASSUME NEW d \in 1..MaxDate, NEW r \in BiCheckResult, RecordBiCheck(x, d, r)
          PROVE  Checked(x)'
      BY <2>1, CheckIsOnRecord DEF Checked
    <2>2. ASSUME NEW p \in Psjb, CreatePsjb(x, p) PROVE Checked(x)'
      <3>1. /\ latest_bi' = latest_bi
            /\ isKpr(x) => latest_bi[x].result # Absent
        BY <2>2 DEF CreatePsjb, biAllowsPsjb, isKpr, Absent
      <3>2. stage(x)' = stage(x) \/ stage(x)' # "BI_CHECKING"
        <4>1. SetStage(x, advanceStageTo(stage(x), "PEMBERKASAN"))
          BY <2>2 DEF CreatePsjb
        <4>2. stage(x)' = advanceStageTo(stage(x), "PEMBERKASAN")
          BY <1>1, <4>1, SetStageEffect
        <4> QED
          BY <1>1, <4>2, AdvanceIsNoCheck DEF Stage
      <3> QED
        BY <1>1, <1>2, <3>1, <3>2 DEF Checked
    <2> QED
      BY <1>1, <1>3, <1>5, <2>1, <2>2, DocumentsKeepChecks
  <1>6. ASSUME NEW c \in Case, NEW a \in Case, CreateBast(c, a) PROVE Checked(x)'
    <2>1. /\ latest_bi' = latest_bi /\ hasAkad(c)
          /\ stage(x)' = stage(x) \/ (x = c /\ stage(x)' = "COMPLETED")
      BY <1>1, <1>6 DEF CreateBast, TypeOK, CaseRow, stage, hasAkad
    <2>2. stage(c) # "DATA_KONSUMEN"
      BY <1>1, <2>1, ByParts DEF Coherent, hasAkad
    <2> QED
      BY <1>3, <2>1, <2>2 DEF StaysChecked
  <1>7. CASE UNCHANGED vars
    BY <1>3, <1>7 DEF vars, documents, StaysChecked, stage
  <1> QED
    BY <1>4, <1>5, <1>6, <1>7, NextByKind

LEMMA CheckStep == CheckInvariant /\ [Next]_vars => CheckInvariant'
  <1> SUFFICES ASSUME CheckInvariant, [Next]_vars PROVE CheckInvariant'
    OBVIOUS
  <1>1. FinancingInvariant'
    BY FinancingStep DEF CheckInvariant
  <1>2. \A c \in Case : Checked(c)'
    BY CheckedStep
  <1> QED
    BY <1>1, <1>2 DEF CheckInvariant

-----------------------------------------------------------------------------
(* The records of every stage. *)

\* What documents a case has, by its stage.
LEMMA RecordsOfStage ==
    ASSUME CheckInvariant, NEW c \in Case
    PROVE  /\ stage(c) \notin BeforePemberkasan => evidence(c, "PSJB")
           /\ stage(c) \notin BeforeProsesBank => evidence(c, "PEMBERKASAN")
           /\ stage(c) \notin BeforePpjbDev /\ ~ isCash(c) =>
                 approvalOf(c) # {} /\ evidence(c, "PROSES_BANK")
           /\ stage(c) \in {"AKAD", "BAST", "COMPLETED"} => evidence(c, "PPJB_DEV")
           /\ stage(c) \in {"BAST", "COMPLETED"} => evidence(c, "AKAD")
           /\ stage(c) = "COMPLETED" => evidence(c, "BAST")
           /\ stage(c) = "BI_CHECKING" => evidence(c, "BI_CHECKING")
           /\ ~ isCash(c) /\ stage(c) # "DATA_KONSUMEN" => evidence(c, "BI_CHECKING")
  <1>1. FinancingInvariant /\ TypeOK /\ Coherent(c) /\ Checked(c)
    BY ByParts DEF CheckInvariant, FinancingInvariant
  <1>2. stage(c) \notin BeforePemberkasan => evidence(c, "PSJB")
    BY <1>1 DEF Coherent, evidence, activePsjb
  <1>3. stage(c) \notin BeforeProsesBank => evidence(c, "PEMBERKASAN")
    BY <1>1 DEF Coherent, evidence
  <1>4. ASSUME stage(c) \notin BeforePpjbDev, ~ isCash(c)
        PROVE  approvalOf(c) # {} /\ evidence(c, "PROSES_BANK")
    <2>1. cashPemberkasan(c) = {}
      BY <1>1, <1>4, CashOrKpr, SubmissionTellsFinancing DEF cashPemberkasan
    <2>2. approvalOf(c) # {}
      BY <1>1, <1>4, <2>1 DEF Coherent
    <2> QED
      BY <2>2 DEF approvalOf, evidence
  <1>5. stage(c) \in {"AKAD", "BAST", "COMPLETED"} => activePpjb(c) # {}
    BY <1>1 DEF Coherent
  <1>6. stage(c) \in {"AKAD", "BAST", "COMPLETED"} => evidence(c, "PPJB_DEV")
    BY <1>5 DEF evidence, activePpjb, ppjbsOf
  <1>7. stage(c) \in {"BAST", "COMPLETED"} => evidence(c, "AKAD")
    BY <1>1 DEF Coherent, evidence, hasAkad
  <1>8. stage(c) = "COMPLETED" => evidence(c, "BAST")
    BY <1>1 DEF Coherent, evidence, hasBast
  <1>9. /\ stage(c) = "BI_CHECKING" => evidence(c, "BI_CHECKING")
        /\ ~ isCash(c) /\ stage(c) # "DATA_KONSUMEN" => evidence(c, "BI_CHECKING")
    BY <1>1, CashOrKpr DEF Checked, evidence
  <1> QED
    BY <1>2, <1>3, <1>4, <1>6, <1>7, <1>8, <1>9

\* Which stages lie before which.
LEMMA StagesBefore ==
    ASSUME NEW s \in Stage, NEW t \in Stage, isBeyond(s, t)
    PROVE  /\ t # "COMPLETED" /\ s # t
           /\ t = "BI_CHECKING" => s # "DATA_KONSUMEN"
           /\ t = "PSJB" => s \notin BeforePemberkasan
           /\ t = "PEMBERKASAN" => s \notin BeforeProsesBank
           /\ t = "PROSES_BANK" => s \notin BeforePpjbDev
           /\ t = "PPJB_DEV" => s \in {"AKAD", "BAST", "COMPLETED"}
           /\ t = "AKAD" => s \in {"BAST", "COMPLETED"}
           /\ t = "BAST" => s = "COMPLETED"
  <1> USE DEF Stage, isBeyond, order, BeforePemberkasan, BeforeProsesBank, BeforePpjbDev
  <1>1. t # "COMPLETED" /\ s # t
    OBVIOUS
  <1>2. t = "BI_CHECKING" => s # "DATA_KONSUMEN"
    OBVIOUS
  <1>3. t = "PSJB" => s \notin BeforePemberkasan
    OBVIOUS
  <1>4. t = "PEMBERKASAN" => s \notin BeforeProsesBank
    OBVIOUS
  <1>5. t = "PROSES_BANK" => s \notin BeforePpjbDev
    OBVIOUS
  <1>6. t = "PPJB_DEV" => s \in {"AKAD", "BAST", "COMPLETED"}
    OBVIOUS
  <1>7. (t = "AKAD" => s \in {"BAST", "COMPLETED"}) /\ (t = "BAST" => s = "COMPLETED")
    OBVIOUS
  <1> HIDE DEF Stage, isBeyond, order, BeforePemberkasan, BeforeProsesBank, BeforePpjbDev
  <1> QED
    BY <1>1, <1>2, <1>3, <1>4, <1>5, <1>6, <1>7

LEMMA StepperFollowsInvariant ==
    ASSUME CheckInvariant, NEW c \in Case
    PROVE  StepperIsContinuous(c)
  <1>1. stage(c) \in Stage
    BY StageType DEF CheckInvariant, FinancingInvariant, SalesInvariant
  <1>2. SUFFICES ASSUME NEW s \in stagesShown(c), isBeyond(stage(c), s)
                 PROVE  stageProgress(c)[s] = "done"
    BY DEF StepperIsContinuous
  <1>3. s \in Stage /\ (isCash(c) => s \notin {"BI_CHECKING", "PROSES_BANK"})
    BY DEF stagesShown
  <1>4. evidence(c, s)
    <2>1. CASE s = "DATA_KONSUMEN"
      BY <2>1 DEF evidence
    <2>2. CASE s # "DATA_KONSUMEN"
      BY <1>1, <1>2, <1>3, <2>2, StagesBefore, RecordsOfStage DEF Stage
    <2> QED
      BY <2>1, <2>2
  <1>5. s # stage(c)
    BY <1>1, <1>2, <1>3, StagesBefore
  <1> QED
    BY <1>4, <1>5 DEF stageProgress

LEMMA EntryFollowsInvariant ==
    ASSUME CheckInvariant, NEW c \in Case, NEW loaded \in BOOLEAN
    PROVE  DaysCountFromEntry(c, loaded)
  <1> USE DEF DaysCountFromEntry, daysCountFrom, entryRecord, aggregateDate, hasRows, NoDate
  <1>1. stage(c) \in Stage
    BY StageType DEF CheckInvariant, FinancingInvariant, SalesInvariant
  <1>2. CASE stage(c) \in {"DATA_KONSUMEN", "BI_CHECKING", "PSJB"}
    BY <1>2, RecordsOfStage
  <1>3. CASE stage(c) \in {"PEMBERKASAN", "PROSES_BANK"}
    BY <1>3, RecordsOfStage DEF BeforePemberkasan, BeforeProsesBank
  <1>4. CASE stage(c) = "PPJB_DEV"
    <2>1. evidence(c, "PSJB") /\ evidence(c, "PEMBERKASAN")
      BY <1>4, RecordsOfStage DEF BeforePemberkasan, BeforeProsesBank
    <2>2. CASE isCash(c)
      BY <1>4, <2>1, <2>2 DEF orElse
    <2>3. CASE ~ isCash(c)
      <3>1. eagerMaxDate(c, "currentApprovedBankProcess", loaded) = NoDate
        BY DEF eagerMaxDate, foundAgain
      <3> QED
        BY <1>4, <2>1, <2>3, <3>1 DEF orElse
    <2> QED
      BY <2>2, <2>3
  <1>5. CASE stage(c) = "AKAD"
    BY <1>5, RecordsOfStage
  <1>6. CASE stage(c) \in {"BAST", "COMPLETED"}
    BY <1>6, RecordsOfStage DEF eagerMaxDate, foundAgain, orElse
  <1> QED
    BY <1>1, <1>2, <1>3, <1>4, <1>5, <1>6 DEF Stage

\* A CASH case never waits for a bank.
LEMMA CurrentIsShown ==
    ASSUME CheckInvariant, NEW c \in Case
    PROVE  stage(c) \in stagesShown(c) \/ (isCash(c) /\ stage(c) = "BI_CHECKING")
  <1>1. FinancingInvariant /\ TypeOK /\ Coherent(c) /\ stage(c) \in Stage
    BY ByParts, StageType DEF CheckInvariant, FinancingInvariant
  <1>2. stage(c) = "PROSES_BANK" => submissionsOf(c) # {} /\ cashPemberkasan(c) = {}
    BY <1>1 DEF Coherent, BeforeProsesBank, BeforePpjbDev, BeforePemberkasan
  <1>3. stage(c) = "PROSES_BANK" => ~ isCash(c)
    BY <1>1, <1>2, CashOrKpr, SubmissionTellsFinancing DEF cashPemberkasan
  <1> QED
    BY <1>1, <1>3 DEF stagesShown

\* StageHasItsRecords: the stepper shows every stage before the current one as done, and
\* the days in the stage count from the record that led to it, but for the exceptions
\* DaysCountFromEntry names.
THEOREM RecordsAreThere == Spec => []StageHasItsRecords
  <1>1. CheckInvariant => StageHasItsRecords
    BY StepperFollowsInvariant, EntryFollowsInvariant, CurrentIsShown DEF StageHasItsRecords
  <1> QED
    BY CheckInit, CheckStep, <1>1, PTL DEF Spec

=============================================================================
