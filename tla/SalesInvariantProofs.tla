------------------------ MODULE SalesInvariantProofs -------------------------
(***************************************************************************)
(* Proofs about SalesOperations, for every value of its constants: the types, *)
(* and the inductive invariant, preserved by every handler and every edit, *)
(* for any number of cases, units and documents.                           *)
(***************************************************************************)
EXTENDS SalesOperations, TLAPS

AnyNext == Next \/ EditNext

-----------------------------------------------------------------------------
(* Lemmas about the shared operators. *)

\* A forward move stays among the stages and never goes back.
LEMMA AdvanceStage ==
    ASSUME NEW s \in Stage, NEW t \in Stage
    PROVE  /\ advanceStageTo(s, t) \in Stage
           /\ order(advanceStageTo(s, t)) >= order(s)
           /\ order(advanceStageTo(s, t)) >= order(t)
  BY DEF Stage, advanceStageTo, isBeyond, order

\* The types without the two tables whose columns the handlers' inputs bound (the
\* dates of BI checks, the numbers of submissions).
SharedTypeOK ==
    /\ sales_cases \in [Case -> CaseRow]
    /\ unit_status \in [Unit -> UnitStatus]
    /\ psjbs \in [Psjb -> PsjbRow]
    /\ bank_processes \in [BankProcess -> ProcessRow]
    /\ ppjbs \in [Ppjb -> PpjbRow]
    /\ akads \in [Case -> Ppjb \cup {None}]
    /\ basts \in [Case -> Case \cup {None}]

LEMMA SharedType == TypeOK => SharedTypeOK
  BY DEF TypeOK, SharedTypeOK

\* Writing a stage, or a status, keeps the case table well typed.
LEMMA SetStageType ==
    ASSUME SharedTypeOK, NEW c, NEW s \in Stage, SetStage(c, s)
    PROVE  sales_cases' \in [Case -> CaseRow]
  <1>1. ASSUME NEW x \in Case PROVE [sales_cases[x] EXCEPT !.current_stage = s] \in CaseRow
    BY DEF SharedTypeOK, CaseRow
  <1>2. QED
    BY <1>1 DEF SharedTypeOK, SetStage

LEMMA StageIsStage ==
    ASSUME SharedTypeOK, NEW c \in Case
    PROVE  stage(c) \in Stage
  BY DEF SharedTypeOK, CaseRow, stage

LEMMA StageType ==
    ASSUME TypeOK, NEW c \in Case
    PROVE  stage(c) \in Stage
  BY StageIsStage, SharedType

-----------------------------------------------------------------------------
(* Type correctness. *)

LEMMA TypeInit == Init => TypeOK
  BY TablesAssumption DEF Init, TypeOK, CaseRow, BiRow, PsjbRow, SubmissionRow, ProcessRow,
     PpjbRow, NoCaseRow, NoSubmissionRow, NoProcessRow, UnitStatus, Stage, FinancingType

LEMMA SharedTypeStep == SharedTypeOK /\ [AnyNext]_vars => SharedTypeOK'
  <1> SUFFICES ASSUME SharedTypeOK, [AnyNext]_vars PROVE SharedTypeOK'
    OBVIOUS
  <1> USE TablesAssumption
  <1>1. ASSUME NEW c \in Case, NEW u \in Unit, NEW k \in Consumer, NEW f \in FinancingType,
               CreateSalesCase(c, u, k, f)
        PROVE  SharedTypeOK'
    BY <1>1 DEF SharedTypeOK, CreateSalesCase, NewCase, CaseRow, documents, CaseStatus, Stage, UnitStatus
  <1>2. ASSUME NEW c \in Case, NEW z \in CaseStatus, CloseSalesCase(c, z) PROVE SharedTypeOK'
    <2>1. sales_cases' \in [Case -> CaseRow]
      BY <1>2 DEF SharedTypeOK, CloseSalesCase, CaseRow
    <2>2. unit_status' \in [Unit -> UnitStatus]
      BY <1>2 DEF SharedTypeOK, CloseSalesCase, releaseUnitIfNoActiveCase, UnitStatus
    <2> QED
      BY <1>2, <2>1, <2>2 DEF SharedTypeOK, CloseSalesCase, documents
  <1>3. ASSUME NEW c \in Case, NEW n \in Case, NEW u \in Unit, MoveSalesCaseUnit(c, n, u)
        PROVE  SharedTypeOK'
    BY <1>3 DEF SharedTypeOK, MoveSalesCaseUnit, NewCase, CaseRow, documents, CaseStatus, Stage,
        UnitStatus, IsActive, Found, Exists, status
  <1>4. ASSUME NEW c \in Case, NEW d \in 1..MaxDate, NEW r \in BiCheckResult, RecordBiCheck(c, d, r)
        PROVE  SharedTypeOK'
    <2>1. stageAfterBiCheck(stage(c), r) \in Stage
      BY StageIsStage, AdvanceStage DEF stageAfterBiCheck, Stage
    <2>2. sales_cases' \in [Case -> CaseRow]
      BY <1>4, <2>1, SetStageType DEF RecordBiCheck
    <2> QED
      BY <1>4, <2>2 DEF SharedTypeOK, RecordBiCheck
  <1>5. ASSUME NEW c \in Case, NEW p \in Psjb, CreatePsjb(c, p) PROVE SharedTypeOK'
    <2>1. sales_cases' \in [Case -> CaseRow]
      BY <1>5, StageIsStage, AdvanceStage, SetStageType DEF CreatePsjb, Stage
    <2>2. psjbs' \in [Psjb -> PsjbRow]
      BY <1>5 DEF SharedTypeOK, CreatePsjb, NewPsjb, PsjbRow, DocumentStatus
    <2> QED
      BY <1>5, <2>1, <2>2 DEF SharedTypeOK, CreatePsjb
  <1>6. ASSUME NEW c \in Case, NEW old \in Psjb, NEW p \in Psjb, ReissuePsjb(c, old, p)
        PROVE  SharedTypeOK'
    <2>1. sales_cases' \in [Case -> CaseRow]
      BY <1>6, StageIsStage, AdvanceStage, SetStageType DEF ReissuePsjb, Stage
    <2>2. psjbs' \in [Psjb -> PsjbRow]
      BY <1>6 DEF SharedTypeOK, ReissuePsjb, NewPsjb, PsjbRow, DocumentStatus
    <2> QED
      BY <1>6, <2>1, <2>2 DEF SharedTypeOK, ReissuePsjb
  <1>7. ASSUME NEW p \in Psjb, CancelPsjb(p) PROVE SharedTypeOK'
    <2>1. sales_cases' \in [Case -> CaseRow]
      BY <1>7, SetStageType DEF CancelPsjb, Stage
    <2>2. psjbs' \in [Psjb -> PsjbRow]
      BY <1>7 DEF SharedTypeOK, CancelPsjb, PsjbRow, DocumentStatus
    <2> QED
      BY <1>7, <2>1, <2>2 DEF SharedTypeOK, CancelPsjb
  <1>8. ASSUME NEW c \in Case, NEW p \in Psjb, NEW s \in Submission, NEW n \in 1..MaxSequence,
               CreateDocumentSubmission(c, p, s, n) \/ CompleteCashPemberkasan(c, p, s, n)
        PROVE  SharedTypeOK'
    <2>1. sales_cases' \in [Case -> CaseRow]
      BY <1>8, StageIsStage, AdvanceStage, SetStageType
         DEF CreateDocumentSubmission, CompleteCashPemberkasan, Stage
    <2> QED
      BY <1>8, <2>1 DEF SharedTypeOK, CreateDocumentSubmission, CompleteCashPemberkasan
  <1>9. ASSUME NEW c \in Case, NEW s \in Submission, NEW b \in BankProcess,
               NEW r \in BankResponseType, RecordBankResponse(c, s, b, r)
        PROVE  SharedTypeOK'
    <2>1. sales_cases' \in [Case -> CaseRow]
      <3>1. (IF r = "APPROVED" THEN "PPJB_DEV" ELSE "PROSES_BANK") \in Stage
        BY DEF Stage
      <3> QED
        BY <1>9, <3>1, StageIsStage, AdvanceStage, SetStageType DEF RecordBankResponse
    <2>2. bank_processes' \in [BankProcess -> ProcessRow]
      BY <1>9 DEF SharedTypeOK, RecordBankResponse, ProcessRow, BankResponseType
    <2> QED
      BY <1>9, <2>1, <2>2 DEF SharedTypeOK, RecordBankResponse
  <1>10. ASSUME NEW c \in Case, NEW d \in Ppjb, NEW b \in BankProcess \cup {None},
                CreateDeveloperPpjb(c, d, b)
         PROVE  SharedTypeOK'
    <2>1. sales_cases' \in [Case -> CaseRow]
      BY <1>10, StageIsStage, AdvanceStage, SetStageType DEF CreateDeveloperPpjb, Stage
    <2>2. ppjbs' \in [Ppjb -> PpjbRow]
      BY <1>10 DEF SharedTypeOK, CreateDeveloperPpjb, NewPpjb, PpjbRow, DocumentStatus
    <2> QED
      BY <1>10, <2>1, <2>2 DEF SharedTypeOK, CreateDeveloperPpjb
  <1>11. ASSUME NEW c \in Case, NEW old \in Ppjb, NEW d \in Ppjb, ReissueDeveloperPpjb(c, old, d)
         PROVE  SharedTypeOK'
    <2>1. sales_cases' \in [Case -> CaseRow]
      BY <1>11, StageIsStage, AdvanceStage, SetStageType DEF ReissueDeveloperPpjb, Stage
    <2>2. ppjbs' \in [Ppjb -> PpjbRow]
      <3>1. NewPpjb(c, ppjbs[old].bank_process_id) \in PpjbRow
        BY <1>11 DEF SharedTypeOK, NewPpjb, PpjbRow, DocumentStatus
      <3>2. [ppjbs[old] EXCEPT !.status = "SUPERSEDED"] \in PpjbRow
        BY <1>11 DEF SharedTypeOK, PpjbRow, DocumentStatus
      <3> QED
        BY <1>11, <3>1, <3>2 DEF SharedTypeOK, ReissueDeveloperPpjb
    <2> QED
      BY <1>11, <2>1, <2>2 DEF SharedTypeOK, ReissueDeveloperPpjb
  <1>12. ASSUME NEW d \in Ppjb, CancelDeveloperPpjb(d) PROVE SharedTypeOK'
    <2> DEFINE c == ppjbs[d].sales_case_id
    <2> DEFINE s == IF isBeyond(stage(c), "AKAD") THEN stage(c) ELSE "PPJB_DEV"
    <2>1. SetStage(c, s)
      BY <1>12 DEF CancelDeveloperPpjb
    <2>2. sales_cases' \in [Case -> CaseRow]
      <3>1. CASE c \in Case
        <4>1. s \in Stage
          BY <3>1, StageIsStage DEF Stage
        <4> HIDE DEF s, c
        <4> QED
          BY <2>1, <4>1, SetStageType
      <3>2. CASE c \notin Case
        <4> HIDE DEF s, c
        <4> QED
          BY <2>1, <3>2 DEF SetStage, SharedTypeOK
      <3> QED
        BY <3>1, <3>2
    <2>3. ppjbs' \in [Ppjb -> PpjbRow]
      BY <1>12 DEF SharedTypeOK, CancelDeveloperPpjb, PpjbRow, DocumentStatus
    <2> QED
      BY <1>12, <2>2, <2>3 DEF SharedTypeOK, CancelDeveloperPpjb
  <1>13. ASSUME NEW c \in Case, NEW d \in Ppjb, CreateAkad(c, d) PROVE SharedTypeOK'
    <2>1. sales_cases' \in [Case -> CaseRow]
      BY <1>13, StageIsStage, AdvanceStage, SetStageType DEF CreateAkad, Stage
    <2>2. unit_status' \in [Unit -> UnitStatus]
      BY <1>13 DEF SharedTypeOK, CreateAkad, SellUnit, UnitStatus
    <2>3. akads' \in [Case -> Ppjb \cup {None}]
      BY <1>13 DEF SharedTypeOK, CreateAkad
    <2> QED
      BY <1>13, <2>1, <2>2, <2>3 DEF SharedTypeOK, CreateAkad
  <1>14. ASSUME NEW c \in Case, NEW a \in Case, CreateBast(c, a) PROVE SharedTypeOK'
    <2>1. sales_cases' \in [Case -> CaseRow]
      <3> DEFINE staged == [sales_cases EXCEPT ![c].current_stage = "COMPLETED"]
      <3>1. staged \in [Case -> CaseRow]
        BY DEF SharedTypeOK, CaseRow, Stage
      <3>2. sales_cases' = [staged EXCEPT ![c].case_status = "COMPLETED"]
        BY <1>14 DEF SharedTypeOK, CreateBast
      <3> HIDE DEF staged
      <3> QED
        BY <3>1, <3>2 DEF CaseRow, CaseStatus
    <2>2. unit_status' \in [Unit -> UnitStatus]
      BY <1>14 DEF SharedTypeOK, CreateBast, SellUnit, UnitStatus
    <2>3. basts' \in [Case -> Case \cup {None}]
      BY <1>14 DEF SharedTypeOK, CreateBast
    <2> QED
      BY <1>14, <2>1, <2>2, <2>3 DEF SharedTypeOK, CreateBast
  <1>15. CASE EditNext
    <2>1. ASSUME NEW u \in Unit, NEW s \in UnitStatus, EditUnitStatus(u, s) PROVE SharedTypeOK'
      BY <2>1 DEF SharedTypeOK, EditUnitStatus, documents
    <2>2. ASSUME NEW c \in Case, NEW f \in FinancingType, EditFinancingType(c, f) PROVE SharedTypeOK'
      <3>1. sales_cases' \in [Case -> CaseRow]
        BY <2>2 DEF SharedTypeOK, EditFinancingType, CaseRow
      <3> QED
        BY <2>2, <3>1 DEF SharedTypeOK, EditFinancingType, documents
    <2>3. ASSUME NEW c \in Case, DeleteSalesCase(c) \/ RestoreSalesCase(c) PROVE SharedTypeOK'
      <3>1. ASSUME NEW v \in BOOLEAN PROVE [sales_cases[c] EXCEPT !.trashed = v] \in CaseRow
        BY DEF SharedTypeOK, CaseRow
      <3>2. sales_cases' \in [Case -> CaseRow]
        BY <2>3, <3>1 DEF SharedTypeOK, DeleteSalesCase, RestoreSalesCase
      <3> QED
        BY <2>3, <3>2 DEF SharedTypeOK, DeleteSalesCase, RestoreSalesCase, documents
    <2> QED
      BY <1>15, <2>1, <2>2, <2>3 DEF EditNext
  <1>16. CASE UNCHANGED vars
    BY <1>16 DEF SharedTypeOK, vars, documents
  <1> QED
    BY <1>1, <1>2, <1>3, <1>4, <1>5, <1>6, <1>7, <1>8, <1>9, <1>10, <1>11, <1>12, <1>13, <1>14,
       <1>15, <1>16
       DEF AnyNext, Next, LifecycleNext, PsjbNext, BankNext, ClosingNext, CancelSalesCase,
       MarkSalesCaseMundur, MarkSalesCaseRejected, CaseStatus

\* The two tables the inputs bound.
LEMMA BoundedTypeStep ==
    ASSUME TypeOK, [AnyNext]_vars
    PROVE  latest_bi' \in [Case -> BiRow] /\ submissions' \in [Submission -> SubmissionRow]
  <1> USE TablesAssumption
  <1>1. ASSUME NEW c \in Case, NEW d \in 1..MaxDate, NEW r \in BiCheckResult, RecordBiCheck(c, d, r)
        PROVE  latest_bi' \in [Case -> BiRow] /\ submissions' = submissions
    BY <1>1 DEF TypeOK, RecordBiCheck, latestForCase, BiRow
  <1>2. ASSUME NEW c \in Case, NEW p \in Psjb, NEW s \in Submission, NEW n \in 1..MaxSequence,
               CreateDocumentSubmission(c, p, s, n) \/ CompleteCashPemberkasan(c, p, s, n)
        PROVE  submissions' \in [Submission -> SubmissionRow] /\ latest_bi' = latest_bi
    BY <1>2 DEF TypeOK, CreateDocumentSubmission, CompleteCashPemberkasan, NewSubmission,
       SubmissionRow, SubmissionStatus, SubmissionType
  <1>3. ASSUME NEW c \in Case, NEW s \in Submission, NEW b \in BankProcess,
               NEW r \in BankResponseType, RecordBankResponse(c, s, b, r)
        PROVE  submissions' \in [Submission -> SubmissionRow] /\ latest_bi' = latest_bi
    BY <1>3 DEF TypeOK, RecordBankResponse, SubmissionRow, SubmissionStatus
  <1>4. \/ \E c \in Case, d \in 1..MaxDate, r \in BiCheckResult : RecordBiCheck(c, d, r)
        \/ BankNext
        \/ latest_bi' = latest_bi /\ submissions' = submissions
    BY DEF AnyNext, Next, LifecycleNext, PsjbNext, ClosingNext, EditNext, CreateSalesCase,
       CancelSalesCase, MarkSalesCaseMundur, MarkSalesCaseRejected, CloseSalesCase,
       MoveSalesCaseUnit, CreatePsjb, ReissuePsjb, CancelPsjb, CreateDeveloperPpjb,
       ReissueDeveloperPpjb, CancelDeveloperPpjb, CreateAkad, CreateBast, EditUnitStatus,
       EditFinancingType, DeleteSalesCase, RestoreSalesCase, vars, documents
  <1> QED
    BY <1>1, <1>2, <1>3, <1>4 DEF BankNext, TypeOK

LEMMA TypeStep == TypeOK /\ [AnyNext]_vars => TypeOK'
  <1> SUFFICES ASSUME TypeOK, [AnyNext]_vars PROVE TypeOK'
    OBVIOUS
  <1>1. SharedTypeOK'
    BY SharedType, SharedTypeStep
  <1> QED
    BY <1>1, BoundedTypeStep DEF TypeOK, SharedTypeOK

\* Every table keeps its columns and enumerations under the handlers and the
\* administration's edits together.
THEOREM EditTypeCorrect == EditSpec => []TypeOK
  BY TypeInit, TypeStep, PTL DEF EditSpec, AnyNext

\* The same for the handlers alone.
THEOREM TypeCorrect == Spec => []TypeOK
  <1>1. TypeOK /\ [Next]_vars => TypeOK'
    BY TypeStep DEF AnyNext
  <1>2. QED
    BY TypeInit, <1>1, PTL DEF Spec

-----------------------------------------------------------------------------
(* Stages, without arithmetic. *)

BeforePemberkasan == {"DATA_KONSUMEN", "BI_CHECKING", "PSJB"}
BeforeProsesBank == BeforePemberkasan \cup {"PEMBERKASAN"}
BeforePpjbDev == BeforeProsesBank \cup {"PROSES_BANK"}
BeforeAkad == BeforePpjbDev \cup {"PPJB_DEV"}
BeforeBast == BeforeAkad \cup {"AKAD"}

\* What each comparison of stages says.
LEMMA StageOrder ==
    ASSUME NEW s \in Stage
    PROVE  /\ isBeyond("PEMBERKASAN", s) <=> s \in BeforePemberkasan
           /\ isBeyond("PROSES_BANK", s) <=> s \in BeforeProsesBank
           /\ isBeyond("PPJB_DEV", s) <=> s \in BeforePpjbDev
           /\ isBeyond("AKAD", s) <=> s \in BeforeAkad
           /\ isBeyond("BAST", s) <=> s \in BeforeBast
           /\ isBeyond(s, "PSJB") <=> s \notin BeforePemberkasan
           /\ isBeyond(s, "PEMBERKASAN") <=> s \notin BeforeProsesBank
           /\ isBeyond(s, "AKAD") <=> s \in {"BAST", "COMPLETED"}
           /\ isBeyond("PSJB", s) <=> s \in {"DATA_KONSUMEN", "BI_CHECKING"}
  <1> USE DEF Stage, isBeyond, order, BeforePemberkasan, BeforeProsesBank, BeforePpjbDev,
              BeforeAkad, BeforeBast
  <1>1. isBeyond("PEMBERKASAN", s) <=> s \in BeforePemberkasan
    OBVIOUS
  <1>2. isBeyond("PROSES_BANK", s) <=> s \in BeforeProsesBank
    OBVIOUS
  <1>3. isBeyond("PPJB_DEV", s) <=> s \in BeforePpjbDev
    OBVIOUS
  <1>4. isBeyond("AKAD", s) <=> s \in BeforeAkad
    OBVIOUS
  <1>5. isBeyond("BAST", s) <=> s \in BeforeBast
    OBVIOUS
  <1>6. isBeyond(s, "PSJB") <=> s \notin BeforePemberkasan
    OBVIOUS
  <1>7. isBeyond(s, "PEMBERKASAN") <=> s \notin BeforeProsesBank
    OBVIOUS
  <1>8. isBeyond(s, "AKAD") <=> s \in {"BAST", "COMPLETED"}
    OBVIOUS
  <1>9. isBeyond("PSJB", s) <=> s \in {"DATA_KONSUMEN", "BI_CHECKING"}
    OBVIOUS
  <1> HIDE DEF Stage, isBeyond, order, BeforePemberkasan, BeforeProsesBank, BeforePpjbDev,
               BeforeAkad, BeforeBast
  <1> QED
    BY <1>1, <1>2, <1>3, <1>4, <1>5, <1>6, <1>7, <1>8, <1>9

\* The stage of a case after SetStage, and of every other case.
LEMMA SetStageWrites ==
    ASSUME SharedTypeOK, NEW c \in Case, NEW s, SetStage(c, s)
    PROVE  /\ stage(c)' = s
           /\ \A x \in Case \ {c} : stage(x)' = stage(x)
           /\ \A x \in Case : status(x)' = status(x)
  BY DEF SharedTypeOK, SetStage, stage, status, CaseRow

LEMMA SetStageEffect ==
    ASSUME TypeOK, NEW c \in Case, NEW s, SetStage(c, s)
    PROVE  /\ stage(c)' = s
           /\ \A x \in Case \ {c} : stage(x)' = stage(x)
           /\ \A x \in Case : status(x)' = status(x)
  BY SetStageWrites, SharedType

-----------------------------------------------------------------------------
(* The invariant, case by case. *)

\* StageMatchesDocuments and AkadRestsOnLiveChain of one case.
Coherent(c) ==
    /\ activePsjb(c) # {} <=> stage(c) \notin BeforePemberkasan
    /\ submissionsOf(c) # {} <=> stage(c) \notin BeforeProsesBank
    /\ approvalOf(c) # {} \/ cashPemberkasan(c) # {} <=> stage(c) \notin BeforePpjbDev
    /\ activePpjb(c) # {} /\ akads[c] = None <=> stage(c) = "AKAD"
    /\ akads[c] # None <=> stage(c) \in {"BAST", "COMPLETED"}
    /\ akads[c] # None => akads[c] \in activePpjb(c)
    /\ basts[c] # None <=> stage(c) = "COMPLETED"
    /\ basts[c] # None => basts[c] = c
    /\ status(c) = "COMPLETED" <=> stage(c) = "COMPLETED"

LEMMA CoherentDef ==
    TypeOK => ((\A c \in Case : Coherent(c)) <=> (StageMatchesDocuments /\ AkadRestsOnLiveChain))
  <1> SUFFICES ASSUME TypeOK
               PROVE  (\A c \in Case : Coherent(c))
                         <=> (StageMatchesDocuments /\ AkadRestsOnLiveChain)
    OBVIOUS
  <1>1. \A c \in Case :
           /\ stage(c) \in Stage
           /\ atOrBeyond(c, "PEMBERKASAN") <=> stage(c) \notin BeforePemberkasan
           /\ atOrBeyond(c, "PROSES_BANK") <=> stage(c) \notin BeforeProsesBank
           /\ atOrBeyond(c, "PPJB_DEV") <=> stage(c) \notin BeforePpjbDev
           /\ atOrBeyond(c, "BAST") <=> stage(c) \in {"BAST", "COMPLETED"}
    BY StageType, StageOrder DEF atOrBeyond, BeforeBast, BeforeAkad, BeforePpjbDev,
       BeforeProsesBank, BeforePemberkasan, Stage
  <1>2. ASSUME \A c \in Case : Coherent(c)
        PROVE  StageMatchesDocuments /\ AkadRestsOnLiveChain
    BY <1>1, <1>2 DEF Coherent, StageMatchesDocuments, StageMatchesPsjb, StageMatchesBank,
       StageMatchesPpjb, StageMatchesClosing, AkadRestsOnLiveChain, hasAkad, hasBast,
       BeforePemberkasan
  <1>3. ASSUME StageMatchesDocuments, AkadRestsOnLiveChain
        PROVE  \A c \in Case : Coherent(c)
    BY <1>1, <1>3 DEF Coherent, StageMatchesDocuments, StageMatchesPsjb, StageMatchesBank,
       StageMatchesPpjb, StageMatchesClosing, AkadRestsOnLiveChain, hasAkad, hasBast
  <1> QED
    BY <1>2, <1>3

\* Everything of the invariant but the stage.
RowsInvariant == AbsentRowsAreBlank /\ ReferencesStayInCase /\ OneActiveDocument

LEMMA ByParts ==
    /\ SalesInvariant => TypeOK /\ RowsInvariant /\ \A c \in Case : Coherent(c)
    /\ TypeOK /\ RowsInvariant /\ (\A c \in Case : Coherent(c)) => SalesInvariant
  BY CoherentDef DEF SalesInvariant, RowsInvariant

LEMMA ByPartsNext ==
    ASSUME TypeOK', RowsInvariant', \A c \in Case : Coherent(c)'
    PROVE  SalesInvariant'
  <1>1. (\A c \in Case : Coherent(c))'
    OBVIOUS
  <1>2. (TypeOK /\ RowsInvariant /\ (\A c \in Case : Coherent(c)) => SalesInvariant)'
    BY ByParts, PTL
  <1> QED
    BY <1>1, <1>2

\* What SMT needs to know of the evidence of a case a step leaves alone.
Untouched(c) ==
    /\ stage(c)' = stage(c)
    /\ (status(c) = "COMPLETED")' <=> (status(c) = "COMPLETED")
    /\ activePsjb(c)' = activePsjb(c)
    /\ submissionsOf(c)' = submissionsOf(c)
    /\ approvalOf(c)' = approvalOf(c)
    /\ cashPemberkasan(c)' = cashPemberkasan(c)
    /\ activePpjb(c)' = activePpjb(c)
    /\ akads'[c] = akads[c]
    /\ basts'[c] = basts[c]

LEMMA UntouchedStaysCoherent ==
    ASSUME NEW c \in Case, Coherent(c), Untouched(c)
    PROVE  Coherent(c)'
  BY DEF Coherent, Untouched

-----------------------------------------------------------------------------
(* Steps that write no document: the lifecycle of a case and the edits.     *)

LEMMA CaseRowsStep ==
    ASSUME SalesInvariant, TypeOK', UNCHANGED documents,
           \A x \in Case : /\ stage(x)' = stage(x)
                           /\ Exists(x) => Exists(x)'
                           /\ (status(x) = "COMPLETED")' <=> (status(x) = "COMPLETED")
    PROVE  SalesInvariant'
  <1> USE DEF documents
  <1>1. RowsInvariant /\ \A x \in Case : Coherent(x)
    BY ByParts
  <1>2. AbsentRowsAreBlank'
    BY <1>1 DEF RowsInvariant, AbsentRowsAreBlank
  <1>3. ReferencesStayInCase'
    BY <1>1 DEF RowsInvariant, ReferencesStayInCase, PsjbLinks, SubmissionLinks, ProcessLinks,
       PpjbLinks, approvalOf
  <1>4. OneActiveDocument'
    BY <1>1 DEF RowsInvariant, OneActiveDocument, OneOf, activePsjb, activePpjb, approvalOf
  <1>5. \A x \in Case : Coherent(x)'
    BY <1>1, UntouchedStaysCoherent
       DEF Untouched, activePsjb, submissionsOf, approvalOf, cashPemberkasan, activePpjb
  <1>6. RowsInvariant'
    BY <1>2, <1>3, <1>4 DEF RowsInvariant
  <1> HIDE DEF documents
  <1> QED
    BY <1>6, <1>5, ByPartsNext

LEMMA LifecycleStep ==
    ASSUME SalesInvariant, TypeOK', LifecycleNext
    PROVE  SalesInvariant'
  <1> USE TablesAssumption
  <1>1. TypeOK /\ AbsentRowsAreBlank
    BY DEF SalesInvariant
  <1>2. ASSUME NEW c \in Case, NEW u \in Unit, NEW k \in Consumer, NEW f \in FinancingType,
               CreateSalesCase(c, u, k, f)
        PROVE  SalesInvariant'
    <2>1. sales_cases' = [sales_cases EXCEPT ![c] = NewCase(u, k, f, None)] /\ ~ Exists(c)
      BY <1>2 DEF CreateSalesCase
    <2>2. \A x \in Case : /\ stage(x)' = stage(x)
                          /\ Exists(x) => Exists(x)'
                          /\ (status(x) = "COMPLETED")' <=> (status(x) = "COMPLETED")
      BY <1>1, <2>1
         DEF NewCase, TypeOK, CaseRow, AbsentRowsAreBlank, stage, status, Exists, Absent
    <2> QED
      BY <1>2, <2>2, CaseRowsStep DEF CreateSalesCase
  <1>3. ASSUME NEW c \in Case, NEW z \in {"CANCELLED", "MUNDUR", "REJECT"}, CloseSalesCase(c, z)
        PROVE  SalesInvariant'
    <2>1. sales_cases' = [sales_cases EXCEPT ![c].case_status = z] /\ status(c) = "ACTIVE"
      BY <1>3 DEF CloseSalesCase, IsActive
    <2>2. \A x \in Case : /\ stage(x)' = stage(x)
                          /\ Exists(x) => Exists(x)'
                          /\ (status(x) = "COMPLETED")' <=> (status(x) = "COMPLETED")
      BY <1>1, <2>1 DEF TypeOK, CaseRow, stage, status, Exists, Absent
    <2> QED
      BY <1>3, <2>2, CaseRowsStep DEF CloseSalesCase
  <1>4. ASSUME NEW c \in Case, NEW n \in Case, NEW u \in Unit, MoveSalesCaseUnit(c, n, u)
        PROVE  SalesInvariant'
    <2>1. sales_cases' = [sales_cases EXCEPT ![c].case_status = "PINDAH_KAVLING",
             ![n] = NewCase(u, sales_cases[c].consumer_id, sales_cases[c].financing_type, c)]
      BY <1>4 DEF MoveSalesCaseUnit
    <2>2. status(c) = "ACTIVE" /\ ~ Exists(n) /\ c # n
      BY <1>4 DEF MoveSalesCaseUnit, IsActive, Found, Exists, Absent
    <2>3. \A x \in Case : /\ stage(x)' = stage(x)
                          /\ Exists(x) => Exists(x)'
                          /\ (status(x) = "COMPLETED")' <=> (status(x) = "COMPLETED")
      BY <1>1, <2>1, <2>2
         DEF NewCase, TypeOK, CaseRow, AbsentRowsAreBlank, stage, status, Exists, Absent
    <2> QED
      BY <1>4, <2>3, CaseRowsStep DEF MoveSalesCaseUnit
  <1> QED
    BY <1>2, <1>3, <1>4
       DEF LifecycleNext, CancelSalesCase, MarkSalesCaseMundur, MarkSalesCaseRejected

LEMMA EditStep ==
    ASSUME SalesInvariant, TypeOK', EditNext
    PROVE  SalesInvariant'
  <1>1. TypeOK
    BY DEF SalesInvariant
  <1>2. ASSUME NEW u \in Unit, NEW s \in UnitStatus, EditUnitStatus(u, s) PROVE SalesInvariant'
    BY <1>1, <1>2, CaseRowsStep DEF EditUnitStatus, stage, status, Exists
  <1>3. ASSUME NEW c \in Case, NEW f \in FinancingType, EditFinancingType(c, f)
        PROVE  SalesInvariant'
    <2>1. \A x \in Case : stage(x)' = stage(x) /\ status(x)' = status(x)
      BY <1>1, <1>3 DEF EditFinancingType, TypeOK, CaseRow, stage, status
    <2> QED
      BY <1>3, <2>1, CaseRowsStep DEF EditFinancingType, Exists
  <1>4. ASSUME NEW c \in Case, DeleteSalesCase(c) \/ RestoreSalesCase(c) PROVE SalesInvariant'
    BY <1>1, <1>4, CaseRowsStep
       DEF DeleteSalesCase, RestoreSalesCase, TypeOK, CaseRow, stage, status, Exists
  <1> QED
    BY <1>2, <1>3, <1>4 DEF EditNext

-----------------------------------------------------------------------------
(* Steps that write documents: the effect on rows and the effect on stage.  *)

\* Writing a stage keeps the absent cases as they were.
LEMMA SetStageKeepsCases ==
    ASSUME TypeOK, AbsentRowsAreBlank, NEW c \in Case, Exists(c), NEW s, SetStage(c, s)
    PROVE  /\ \A x \in Case : Exists(x)' <=> Exists(x)
           /\ \A x \in Case : ~ Exists(x)' => stage(x)' = "DATA_KONSUMEN"
  BY SetStageEffect DEF AbsentRowsAreBlank, Exists

LEMMA RecordBiCheckStep ==
    ASSUME SalesInvariant, TypeOK', NEW c \in Case, NEW d, NEW r, RecordBiCheck(c, d, r)
    PROVE  SalesInvariant'
  <1> DEFINE s == stageAfterBiCheck(stage(c), r)
  <1>1. TypeOK /\ RowsInvariant /\ AbsentRowsAreBlank /\ (\A x \in Case : Coherent(x))
    BY ByParts DEF RowsInvariant
  <1>2. Exists(c) /\ SetStage(c, s) /\ status(c) = "ACTIVE"
    BY DEF RecordBiCheck, IsActive, Found
  <1>3. stage(c) \notin BeforePemberkasan => s = stage(c)
    BY <1>1, StageType, StageOrder
       DEF stageAfterBiCheck, advanceStageTo, BeforePemberkasan
  <1>4. stage(c) \in BeforePemberkasan => s \in BeforePemberkasan
    BY <1>1, StageType, StageOrder DEF stageAfterBiCheck, advanceStageTo, BeforePemberkasan
  <1> HIDE DEF s
  <1>5. AbsentRowsAreBlank'
    BY <1>1, <1>2, SetStageKeepsCases DEF RecordBiCheck, AbsentRowsAreBlank
  <1>6. ReferencesStayInCase'
    BY <1>1, <1>2, SetStageKeepsCases DEF RecordBiCheck, RowsInvariant, ReferencesStayInCase,
       PsjbLinks, SubmissionLinks, ProcessLinks, PpjbLinks, approvalOf
  <1>7. OneActiveDocument'
    BY <1>1 DEF RecordBiCheck, RowsInvariant, OneActiveDocument, OneOf, activePsjb, activePpjb,
       approvalOf
  <1>8. ASSUME NEW x \in Case PROVE Coherent(x)'
    <2>1. /\ activePsjb(x)' = activePsjb(x) /\ submissionsOf(x)' = submissionsOf(x)
          /\ approvalOf(x)' = approvalOf(x) /\ cashPemberkasan(x)' = cashPemberkasan(x)
          /\ activePpjb(x)' = activePpjb(x) /\ akads' = akads /\ basts' = basts
      BY DEF RecordBiCheck, activePsjb, submissionsOf, approvalOf, cashPemberkasan, activePpjb
    <2>2. stage(x)' = stage(x) \/ {stage(x), stage(x)'} \subseteq BeforePemberkasan
      BY <1>1, <1>2, <1>3, <1>4, SetStageEffect
    <2>3. status(x)' = status(x)
      BY <1>1, <1>2, SetStageEffect
    <2> QED
      BY <1>1, <2>1, <2>2, <2>3 DEF Coherent, BeforePemberkasan, BeforeProsesBank, BeforePpjbDev
  <1> QED
    BY <1>5, <1>6, <1>7, <1>8, ByPartsNext DEF RowsInvariant

LEMMA CreatePsjbStep ==
    ASSUME SalesInvariant, TypeOK', NEW c \in Case, NEW p \in Psjb, CreatePsjb(c, p)
    PROVE  SalesInvariant'
  <1>1. TypeOK /\ RowsInvariant /\ AbsentRowsAreBlank /\ (\A x \in Case : Coherent(x))
    BY ByParts DEF RowsInvariant
  <1>2. /\ Exists(c) /\ status(c) = "ACTIVE"
        /\ psjbs[p].status = Absent /\ activePsjb(c) = {}
        /\ psjbs' = [psjbs EXCEPT ![p] = NewPsjb(c)]
        /\ SetStage(c, advanceStageTo(stage(c), "PEMBERKASAN"))
    BY DEF CreatePsjb, IsActive, Found
  <1>3. stage(c) \in BeforePemberkasan
    BY <1>1, <1>2 DEF Coherent
  <1>4. advanceStageTo(stage(c), "PEMBERKASAN") = "PEMBERKASAN"
    BY <1>1, <1>3, StageType, StageOrder DEF advanceStageTo
  <1>5. AbsentRowsAreBlank'
    BY <1>1, <1>2, SetStageKeepsCases DEF CreatePsjb, AbsentRowsAreBlank
  <1>6. ReferencesStayInCase'
    <2>1. PsjbLinks'
      BY <1>1, <1>2, SetStageKeepsCases
         DEF RowsInvariant, ReferencesStayInCase, PsjbLinks, NewPsjb, TypeOK
    <2>2. SubmissionLinks'
      BY <1>1, <1>2 DEF CreatePsjb, RowsInvariant, ReferencesStayInCase, SubmissionLinks,
         NewPsjb, TypeOK, PsjbRow, Absent
    <2>3. ProcessLinks' /\ PpjbLinks'
      BY <1>1 DEF CreatePsjb, RowsInvariant, ReferencesStayInCase, ProcessLinks, PpjbLinks,
         approvalOf
    <2> QED
      BY <2>1, <2>2, <2>3 DEF ReferencesStayInCase
  <1>7. /\ activePsjb(c)' = {p}
        /\ \A x \in Case \ {c} : activePsjb(x)' = activePsjb(x)
    BY <1>1, <1>2 DEF activePsjb, NewPsjb, TypeOK, Absent
  <1>8. \A x \in Case :
           /\ submissionsOf(x)' = submissionsOf(x) /\ approvalOf(x)' = approvalOf(x)
           /\ cashPemberkasan(x)' = cashPemberkasan(x) /\ activePpjb(x)' = activePpjb(x)
           /\ akads' = akads /\ basts' = basts
    BY DEF CreatePsjb, submissionsOf, approvalOf, cashPemberkasan, activePpjb
  <1>9. OneActiveDocument'
    BY <1>1, <1>7, <1>8 DEF RowsInvariant, OneActiveDocument, OneOf
  <1>10. ASSUME NEW x \in Case PROVE Coherent(x)'
    <2>1. CASE x = c
      <3>1. stage(x)' = "PEMBERKASAN" /\ status(x)' = status(x)
        BY <1>1, <1>2, <1>4, <2>1, SetStageEffect
      <3> QED
        BY <1>1, <1>3, <1>7, <1>8, <2>1, <3>1
           DEF Coherent, BeforePemberkasan, BeforeProsesBank, BeforePpjbDev
    <2>2. CASE x # c
      BY <1>1, <1>2, <1>7, <1>8, <2>2, SetStageEffect, UntouchedStaysCoherent DEF Untouched
    <2> QED
      BY <2>1, <2>2
  <1> QED
    BY <1>5, <1>6, <1>9, <1>10, ByPartsNext DEF RowsInvariant

LEMMA ReissuePsjbStep ==
    ASSUME SalesInvariant, TypeOK', NEW c \in Case, NEW old \in Psjb, NEW p \in Psjb,
           ReissuePsjb(c, old, p)
    PROVE  SalesInvariant'
  <1>1. TypeOK /\ RowsInvariant /\ AbsentRowsAreBlank /\ (\A x \in Case : Coherent(x))
    BY ByParts DEF RowsInvariant
  <1>2. /\ Exists(c) /\ status(c) = "ACTIVE"
        /\ old \in activePsjb(c) /\ psjbs[p].status = Absent /\ old # p
        /\ psjbs' = [psjbs EXCEPT ![old].status = "SUPERSEDED", ![p] = NewPsjb(c)]
        /\ SetStage(c, advanceStageTo(stage(c), "PEMBERKASAN"))
    BY DEF ReissuePsjb, IsActive, Found, activePsjb, Absent
  <1>3. stage(c) \notin BeforePemberkasan
    BY <1>1, <1>2 DEF Coherent
  <1>4. advanceStageTo(stage(c), "PEMBERKASAN") = stage(c)
    BY <1>1, <1>3, StageType, StageOrder DEF advanceStageTo
  <1>5. AbsentRowsAreBlank'
    BY <1>1, <1>2, SetStageKeepsCases DEF ReissuePsjb, AbsentRowsAreBlank
  <1>6. /\ psjbs'[p] = NewPsjb(c)
        /\ psjbs'[old].sales_case_id = c /\ psjbs'[old].status = "SUPERSEDED"
        /\ \A q \in Psjb \ {old, p} : psjbs'[q] = psjbs[q]
    BY <1>1, <1>2 DEF TypeOK, PsjbRow, activePsjb
  <1>7. ReferencesStayInCase'
    <2>1. PsjbLinks'
      <3>1. \A x \in Case : Exists(x)' <=> Exists(x)
        BY <1>1, <1>2, SetStageKeepsCases
      <3>2. ASSUME NEW q \in Psjb, psjbs'[q].status # Absent
            PROVE  psjbs'[q].sales_case_id \in Case /\ Exists(psjbs'[q].sales_case_id)
        <4>1. psjbs'[q].sales_case_id = c \/ psjbs'[q] = psjbs[q]
          BY <1>6 DEF NewPsjb
        <4> QED
          BY <1>1, <1>2, <3>2, <4>1 DEF RowsInvariant, ReferencesStayInCase, PsjbLinks
      <3> QED
        BY <3>1, <3>2 DEF PsjbLinks
    <2>2. SubmissionLinks'
      BY <1>1, <1>2, <1>6 DEF ReissuePsjb, RowsInvariant, ReferencesStayInCase, SubmissionLinks,
         activePsjb, Absent
    <2>3. ProcessLinks' /\ PpjbLinks'
      BY <1>1 DEF ReissuePsjb, RowsInvariant, ReferencesStayInCase, ProcessLinks, PpjbLinks,
         approvalOf
    <2> QED
      BY <2>1, <2>2, <2>3 DEF ReferencesStayInCase
  <1>8. /\ activePsjb(c)' = {p}
        /\ \A x \in Case \ {c} : activePsjb(x)' = activePsjb(x)
    <2>1. \A q \in activePsjb(c) : q = old
      BY <1>1, <1>2 DEF RowsInvariant, OneActiveDocument, OneOf
    <2>2. ASSUME NEW q \in Psjb, NEW x \in Case
          PROVE  psjbs'[q].sales_case_id = x /\ psjbs'[q].status = "ACTIVE"
                    <=> IF x = c THEN q = p ELSE q \in activePsjb(x)
      <3>1. CASE q = p
        BY <1>2, <1>6, <3>1 DEF activePsjb, NewPsjb, Absent
      <3>2. CASE q = old
        BY <1>2, <1>6, <2>1, <3>2 DEF activePsjb
      <3>3. CASE q \notin {old, p}
        BY <1>6, <2>1, <3>3 DEF activePsjb
      <3> QED
        BY <3>1, <3>2, <3>3
    <2> QED
      BY <2>2 DEF activePsjb
  <1>9. \A x \in Case :
           /\ submissionsOf(x)' = submissionsOf(x) /\ approvalOf(x)' = approvalOf(x)
           /\ cashPemberkasan(x)' = cashPemberkasan(x) /\ activePpjb(x)' = activePpjb(x)
           /\ akads' = akads /\ basts' = basts
    BY DEF ReissuePsjb, submissionsOf, approvalOf, cashPemberkasan, activePpjb
  <1>10. OneActiveDocument'
    BY <1>1, <1>8, <1>9 DEF RowsInvariant, OneActiveDocument, OneOf
  <1>11. ASSUME NEW x \in Case PROVE Coherent(x)'
    <2>1. CASE x = c
      <3>1. stage(x)' = stage(x) /\ status(x)' = status(x)
        BY <1>1, <1>2, <1>4, <2>1, SetStageEffect
      <3> QED
        BY <1>1, <1>3, <1>8, <1>9, <2>1, <3>1 DEF Coherent
    <2>2. CASE x # c
      BY <1>1, <1>2, <1>8, <1>9, <2>2, SetStageEffect, UntouchedStaysCoherent DEF Untouched
    <2> QED
      BY <2>1, <2>2
  <1> QED
    BY <1>5, <1>7, <1>10, <1>11, ByPartsNext DEF RowsInvariant

LEMMA CancelPsjbStep ==
    ASSUME SalesInvariant, TypeOK', NEW p \in Psjb, CancelPsjb(p)
    PROVE  SalesInvariant'
  <1>1. TypeOK /\ RowsInvariant /\ AbsentRowsAreBlank /\ (\A x \in Case : Coherent(x))
    BY ByParts DEF RowsInvariant
  <1>2. PICK c \in Case : psjbs[p].sales_case_id = c /\ Exists(c)
    BY <1>1 DEF CancelPsjb, RowsInvariant, ReferencesStayInCase, PsjbLinks, Absent
  <1>3. /\ psjbs[p].status = "ACTIVE"
        /\ \A s \in Submission : submissions[s].psjb_id # p
        /\ ~ isBeyond(stage(c), "PEMBERKASAN")
        /\ psjbs' = [psjbs EXCEPT ![p].status = "CANCELLED"]
        /\ SetStage(c, "PSJB")
    BY <1>2 DEF CancelPsjb
  <1>4. p \in activePsjb(c) /\ \A q \in activePsjb(c) : q = p
    BY <1>1, <1>3, <1>2 DEF RowsInvariant, OneActiveDocument, OneOf, activePsjb
  <1>5. psjbs'[p].sales_case_id = c /\ psjbs'[p].status = "CANCELLED"
        /\ \A q \in Psjb \ {p} : psjbs'[q] = psjbs[q]
    BY <1>2, <1>1, <1>3 DEF TypeOK, PsjbRow
  <1>6. stage(c) = "PEMBERKASAN"
    <2>1. stage(c) \in BeforeProsesBank
      BY <1>1, <1>3, <1>2, StageType, StageOrder
    <2>2. stage(c) \notin BeforePemberkasan
      BY <1>1, <1>2, <1>4 DEF Coherent
    <2> QED
      BY <2>1, <2>2 DEF BeforeProsesBank
  <1>7. AbsentRowsAreBlank'
    BY <1>1, <1>3, <1>2, SetStageKeepsCases DEF CancelPsjb, AbsentRowsAreBlank
  <1>8. ReferencesStayInCase'
    <2>1. PsjbLinks'
      <3>1. \A x \in Case : Exists(x)' <=> Exists(x)
        BY <1>1, <1>3, <1>2, SetStageKeepsCases
      <3>2. ASSUME NEW q \in Psjb, psjbs'[q].status # Absent
            PROVE  psjbs'[q].sales_case_id \in Case /\ Exists(psjbs'[q].sales_case_id)
        <4>1. psjbs'[q].sales_case_id = c \/ psjbs'[q] = psjbs[q]
          BY <1>5
        <4> QED
          BY <1>1, <1>2, <3>2, <4>1 DEF RowsInvariant, ReferencesStayInCase, PsjbLinks
      <3> QED
        BY <3>1, <3>2 DEF PsjbLinks
    <2>2. SubmissionLinks'
      BY <1>1, <1>3, <1>5
         DEF CancelPsjb, RowsInvariant, ReferencesStayInCase, SubmissionLinks
    <2>3. ProcessLinks' /\ PpjbLinks'
      BY <1>1 DEF CancelPsjb, RowsInvariant, ReferencesStayInCase, ProcessLinks, PpjbLinks,
         approvalOf
    <2> QED
      BY <2>1, <2>2, <2>3 DEF ReferencesStayInCase
  <1>9. /\ activePsjb(c)' = {}
        /\ \A x \in Case \ {c} : activePsjb(x)' = activePsjb(x)
    <2>1. ASSUME NEW q \in Psjb, NEW x \in Case
          PROVE  psjbs'[q].sales_case_id = x /\ psjbs'[q].status = "ACTIVE"
                    <=> x # c /\ q \in activePsjb(x)
      <3>1. CASE q = p
        BY <1>4, <1>5, <3>1 DEF activePsjb
      <3>2. CASE q # p
        BY <1>4, <1>5, <3>2 DEF activePsjb
      <3> QED
        BY <3>1, <3>2
    <2> QED
      BY <1>2, <2>1 DEF activePsjb
  <1>10. \A x \in Case :
           /\ submissionsOf(x)' = submissionsOf(x) /\ approvalOf(x)' = approvalOf(x)
           /\ cashPemberkasan(x)' = cashPemberkasan(x) /\ activePpjb(x)' = activePpjb(x)
           /\ akads' = akads /\ basts' = basts
    BY DEF CancelPsjb, submissionsOf, approvalOf, cashPemberkasan, activePpjb
  <1>11. OneActiveDocument'
    BY <1>1, <1>9, <1>10 DEF RowsInvariant, OneActiveDocument, OneOf
  <1>12. ASSUME NEW x \in Case PROVE Coherent(x)'
    <2>1. CASE x = c
      <3>1. stage(x)' = "PSJB" /\ status(x)' = status(x)
        BY <1>1, <1>3, <1>2, <2>1, SetStageEffect
      <3> QED
        BY <1>1, <1>6, <1>9, <1>10, <2>1, <3>1
           DEF Coherent, BeforePemberkasan, BeforeProsesBank, BeforePpjbDev
    <2>2. CASE x # c
      BY <1>1, <1>3, <1>2, <1>9, <1>10, <2>2, SetStageEffect, UntouchedStaysCoherent
         DEF Untouched
    <2> QED
      BY <2>1, <2>2
  <1> QED
    BY <1>7, <1>8, <1>11, <1>12, ByPartsNext DEF RowsInvariant

\* Both ways to insert a submission: at the bank, or internal for a CASH case.
LEMMA NewSubmissionStep ==
    ASSUME SalesInvariant, TypeOK', NEW c \in Case, NEW p \in Psjb, NEW s \in Submission,
           NEW n, NEW t \in {"BANK", "CASH_INTERNAL"}, NEW z \in Stage,
           z = IF t = "BANK" THEN "PROSES_BANK" ELSE "PPJB_DEV",
           Exists(c), p \in activePsjb(c), submissions[s].status = Absent,
           submissions' = [submissions EXCEPT ![s] = NewSubmission(c, p, t, n)],
           SetStage(c, advanceStageTo(stage(c), z)),
           UNCHANGED << psjbs, bank_processes, ppjbs, akads, basts >>
    PROVE  SalesInvariant'
  <1> USE TablesAssumption
  <1>1. TypeOK /\ RowsInvariant /\ AbsentRowsAreBlank /\ (\A x \in Case : Coherent(x))
    BY ByParts DEF RowsInvariant
  <1>2. /\ submissions'[s] = NewSubmission(c, p, t, n)
        /\ \A r \in Submission \ {s} : submissions'[r] = submissions[r]
        /\ submissions[s].sales_case_id = None
    BY <1>1 DEF TypeOK, AbsentRowsAreBlank
  <1>3. stage(c) \notin BeforePemberkasan
    BY <1>1 DEF Coherent
  <1>4. AbsentRowsAreBlank'
    BY <1>1, <1>2, SetStageKeepsCases DEF AbsentRowsAreBlank, NewSubmission, Absent
  <1>5. ReferencesStayInCase'
    <2>1. \A x \in Case : Exists(x)' <=> Exists(x)
      BY <1>1, SetStageKeepsCases
    <2>2. PsjbLinks'
      BY <1>1, <2>1 DEF RowsInvariant, ReferencesStayInCase, PsjbLinks
    <2>3. SubmissionLinks'
      BY <1>1, <1>2 DEF RowsInvariant, ReferencesStayInCase, SubmissionLinks, NewSubmission,
         activePsjb
    <2>4. ProcessLinks'
      BY <1>1, <1>2 DEF RowsInvariant, ReferencesStayInCase, ProcessLinks
    <2>5. PpjbLinks'
      BY <1>1 DEF RowsInvariant, ReferencesStayInCase, PpjbLinks, approvalOf
    <2> QED
      BY <2>2, <2>3, <2>4, <2>5 DEF ReferencesStayInCase
  <1>6. /\ submissionsOf(c)' = submissionsOf(c) \cup {s}
        /\ \A x \in Case \ {c} : submissionsOf(x)' = submissionsOf(x)
    BY <1>2 DEF submissionsOf, NewSubmission
  <1>7. /\ t = "BANK" => cashPemberkasan(c)' = cashPemberkasan(c)
        /\ t = "CASH_INTERNAL" => s \in cashPemberkasan(c)'
        /\ \A x \in Case \ {c} : cashPemberkasan(x)' = cashPemberkasan(x)
    BY <1>2 DEF submissionsOf, cashPemberkasan, NewSubmission
  <1>8. \A x \in Case :
           /\ activePsjb(x)' = activePsjb(x) /\ approvalOf(x)' = approvalOf(x)
           /\ activePpjb(x)' = activePpjb(x) /\ akads' = akads /\ basts' = basts
    BY DEF activePsjb, approvalOf, activePpjb
  <1>9. OneActiveDocument'
    BY <1>1, <1>8 DEF RowsInvariant, OneActiveDocument, OneOf
  <1>10. ASSUME NEW x \in Case PROVE Coherent(x)'
    <2>1. CASE x = c
      <3>1. /\ status(x)' = status(x)
            /\ stage(x)' = IF t = "BANK"
                           THEN IF stage(x) \in BeforeProsesBank THEN "PROSES_BANK" ELSE stage(x)
                           ELSE IF stage(x) \in BeforePpjbDev THEN "PPJB_DEV" ELSE stage(x)
        BY <1>1, <2>1, SetStageEffect, StageType, StageOrder DEF advanceStageTo
      <3> QED
        BY <1>1, <1>3, <1>6, <1>7, <1>8, <2>1, <3>1
           DEF Coherent, BeforePemberkasan, BeforeProsesBank, BeforePpjbDev
    <2>2. CASE x # c
      BY <1>1, <1>6, <1>7, <1>8, <2>2, SetStageEffect, UntouchedStaysCoherent DEF Untouched
    <2> QED
      BY <2>1, <2>2
  <1> QED
    BY <1>4, <1>5, <1>9, <1>10, ByPartsNext DEF RowsInvariant

LEMMA RecordBankResponseStep ==
    ASSUME SalesInvariant, TypeOK', NEW c \in Case, NEW s \in Submission,
           NEW b \in BankProcess, NEW r \in BankResponseType, RecordBankResponse(c, s, b, r)
    PROVE  SalesInvariant'
  <1> USE TablesAssumption
  <1> DEFINE z == IF r = "APPROVED" THEN "PPJB_DEV" ELSE "PROSES_BANK"
  <1>1. TypeOK /\ RowsInvariant /\ AbsentRowsAreBlank /\ (\A x \in Case : Coherent(x))
    BY ByParts DEF RowsInvariant
  <1>2. /\ Exists(c) /\ s \in submissionsOf(c) /\ submissions[s].type = "BANK"
        /\ r = "APPROVED" => approvalOf(c) = {}
        /\ bank_processes[b].response_type = Absent
        /\ SetStage(c, advanceStageTo(stage(c), z))
        /\ UNCHANGED << psjbs, ppjbs, akads, basts >>
    BY DEF RecordBankResponse, IsActive, Found
  <1>3. /\ bank_processes'[b] = [sales_case_id |-> c, document_submission_id |-> s,
                 response_type |-> r, is_authoritative |-> (r = "APPROVED")]
        /\ \A q \in BankProcess \ {b} : bank_processes'[q] = bank_processes[q]
        /\ bank_processes[b].sales_case_id = None
    BY <1>1, <1>2 DEF RecordBankResponse, TypeOK, AbsentRowsAreBlank
  <1>4. ASSUME NEW q \in Submission
        PROVE  /\ submissions'[q].sales_case_id = submissions[q].sales_case_id
               /\ submissions'[q].psjb_id = submissions[q].psjb_id
               /\ submissions'[q].type = submissions[q].type
               /\ submissions'[q].status = Absent <=> submissions[q].status = Absent
    <2>1. submissions[s].status # Absent
      BY <1>1, <1>2 DEF AbsentRowsAreBlank, submissionsOf
    <2> DEFINE v == IF r = "APPROVED" THEN "CLOSED"
                    ELSE IF submissions[s].status = "SUBMITTED" THEN "PROCESSING"
                    ELSE submissions[s].status
    <2>2. submissions' = [submissions EXCEPT ![s].status = v]
      BY <1>1 DEF RecordBankResponse, TypeOK
    <2>3. v # Absent
      BY <2>1 DEF Absent
    <2> HIDE DEF v
    <2> QED
      BY <1>1, <2>1, <2>2, <2>3 DEF TypeOK, SubmissionRow
  <1> HIDE DEF z
  <1>5. AbsentRowsAreBlank'
    BY <1>1, <1>2, <1>3, <1>4, SetStageKeepsCases DEF AbsentRowsAreBlank, BankResponseType, Absent
  <1>6. /\ r = "APPROVED" => approvalOf(c)' = {b}
        /\ r # "APPROVED" => approvalOf(c)' = approvalOf(c)
        /\ \A x \in Case \ {c} : approvalOf(x)' = approvalOf(x)
    <2>1. bank_processes'[b].sales_case_id = c
          /\ (bank_processes'[b].is_authoritative <=> r = "APPROVED")
      <3>1. bank_processes'[b].is_authoritative = (r = "APPROVED")
        BY <1>3
      <3>2. bank_processes'[b].is_authoritative <=> r = "APPROVED"
        BY <3>1, Zenon
      <3> QED
        BY <1>3, <3>2
    <2>2. ASSUME NEW q \in BankProcess, NEW x \in Case
          PROVE  bank_processes'[q].sales_case_id = x /\ bank_processes'[q].is_authoritative
                    <=> IF q = b THEN x = c /\ r = "APPROVED" ELSE q \in approvalOf(x)
      BY <1>3, <2>1 DEF approvalOf
    <2>3. \A x \in Case : b \notin approvalOf(x)
      BY <1>3 DEF approvalOf
    <2>4. \A x \in Case : approvalOf(x)' =
             { q \in BankProcess : IF q = b THEN x = c /\ r = "APPROVED" ELSE q \in approvalOf(x) }
      BY <2>2 DEF approvalOf
    <2>5. \A x \in Case : approvalOf(x) \subseteq BankProcess
      BY DEF approvalOf
    <2>6. r = "APPROVED" => approvalOf(c)' = {b}
      BY <1>2, <2>4, <2>5
    <2>7. ASSUME NEW x \in Case, x # c \/ r # "APPROVED"
          PROVE  approvalOf(x)' = approvalOf(x)
      <3>1. \A q \in BankProcess : q \in approvalOf(x)' <=> q \in approvalOf(x)
        BY <2>3, <2>4, <2>7
      <3>2. approvalOf(x)' \subseteq BankProcess
        BY <2>4
      <3> QED
        BY <2>5, <3>1, <3>2
    <2> QED
      BY <2>6, <2>7
  <1>7. \A x \in Case :
           /\ submissionsOf(x)' = submissionsOf(x) /\ cashPemberkasan(x)' = cashPemberkasan(x)
           /\ activePsjb(x)' = activePsjb(x) /\ activePpjb(x)' = activePpjb(x)
    BY <1>2, <1>4 DEF activePsjb, submissionsOf, cashPemberkasan, activePpjb
  <1>8. ReferencesStayInCase'
    <2>1. PsjbLinks'
      BY <1>1, <1>2, SetStageKeepsCases DEF RowsInvariant, ReferencesStayInCase, PsjbLinks
    <2>2. SubmissionLinks'
      BY <1>1, <1>2, <1>4 DEF RowsInvariant, ReferencesStayInCase, SubmissionLinks
    <2>3. ProcessLinks'
      BY <1>1, <1>2, <1>3, <1>4
         DEF RowsInvariant, ReferencesStayInCase, ProcessLinks, submissionsOf
    <2>4. PpjbLinks'
      BY <1>1, <1>2, <1>6 DEF RowsInvariant, ReferencesStayInCase, PpjbLinks
    <2> QED
      BY <2>1, <2>2, <2>3, <2>4 DEF ReferencesStayInCase
  <1>9. OneActiveDocument'
    BY <1>1, <1>6, <1>7 DEF RowsInvariant, OneActiveDocument, OneOf
  <1>10. ASSUME NEW x \in Case PROVE Coherent(x)'
    <2>1. CASE x = c
      <3>1. stage(c) \notin BeforeProsesBank
        BY <1>1, <1>2 DEF Coherent
      <3>2. /\ status(x)' = status(x)
            /\ stage(x)' = IF r = "APPROVED" /\ stage(x) \in BeforePpjbDev THEN "PPJB_DEV"
                           ELSE stage(x)
        BY <1>1, <1>2, <2>1, <3>1, SetStageEffect, StageType, StageOrder
           DEF advanceStageTo, Stage, z
      <3> QED
        BY <1>1, <1>2, <1>6, <1>7, <2>1, <3>1, <3>2
           DEF Coherent, BeforePemberkasan, BeforeProsesBank, BeforePpjbDev
    <2>2. CASE x # c
      BY <1>1, <1>2, <1>6, <1>7, <2>2, SetStageEffect, UntouchedStaysCoherent DEF Untouched
    <2> QED
      BY <2>1, <2>2
  <1> QED
    BY <1>5, <1>8, <1>9, <1>10, ByPartsNext DEF RowsInvariant

-----------------------------------------------------------------------------
(* The PPJB, the Akad and the BAST. *)

\* Steps that write PPJB rows and nothing else but the stage of c.
LEMMA PpjbRowsStep ==
    ASSUME SalesInvariant, TypeOK', NEW c \in Case, NEW z, Exists(c), akads[c] = None,
           SetStage(c, z),
           UNCHANGED << psjbs, submissions, bank_processes, akads, basts >>,
           stage(c) \notin BeforePpjbDev, z \in {"PPJB_DEV", "AKAD"},
           z = "AKAD" <=> activePpjb(c)' # {},
           \A x, y \in activePpjb(c)' : x = y,
           \A x \in Case \ {c} : activePpjb(x)' = activePpjb(x),
           PpjbLinks'
    PROVE  SalesInvariant'
  <1>1. TypeOK /\ RowsInvariant /\ AbsentRowsAreBlank /\ (\A x \in Case : Coherent(x))
    BY ByParts DEF RowsInvariant
  <1>2. AbsentRowsAreBlank'
    BY <1>1, SetStageKeepsCases DEF AbsentRowsAreBlank
  <1>3. ReferencesStayInCase'
    <2>1. \A x \in Case : Exists(x)' <=> Exists(x)
      BY <1>1, SetStageKeepsCases
    <2>2. PsjbLinks'
      BY <1>1, <2>1 DEF RowsInvariant, ReferencesStayInCase, PsjbLinks
    <2>3. SubmissionLinks' /\ ProcessLinks'
      BY <1>1 DEF RowsInvariant, ReferencesStayInCase, SubmissionLinks, ProcessLinks
    <2> QED
      BY <2>2, <2>3 DEF ReferencesStayInCase
  <1>4. \A x \in Case :
           /\ activePsjb(x)' = activePsjb(x) /\ submissionsOf(x)' = submissionsOf(x)
           /\ approvalOf(x)' = approvalOf(x) /\ cashPemberkasan(x)' = cashPemberkasan(x)
    BY DEF activePsjb, submissionsOf, approvalOf, cashPemberkasan
  <1>5. OneActiveDocument'
    BY <1>1, <1>4 DEF RowsInvariant, OneActiveDocument, OneOf
  <1>6. ASSUME NEW x \in Case PROVE Coherent(x)'
    <2>1. CASE x = c
      <3>1. stage(x)' = z /\ status(x)' = status(x)
        BY <1>1, <2>1, SetStageEffect
      <3>2. stage(x) \in {"PPJB_DEV", "AKAD"}
        BY <1>1, <2>1, StageType
           DEF Coherent, Stage, BeforePemberkasan, BeforeProsesBank, BeforePpjbDev
      <3> QED
        BY <1>1, <1>4, <2>1, <3>1, <3>2
           DEF Coherent, BeforePemberkasan, BeforeProsesBank, BeforePpjbDev
    <2>2. CASE x # c
      BY <1>1, <1>4, <2>2, SetStageEffect, UntouchedStaysCoherent DEF Untouched
    <2> QED
      BY <2>1, <2>2
  <1> QED
    BY <1>2, <1>3, <1>5, <1>6, ByPartsNext DEF RowsInvariant

LEMMA CreateDeveloperPpjbStep ==
    ASSUME SalesInvariant, TypeOK', NEW c \in Case, NEW d \in Ppjb,
           NEW b \in BankProcess \cup {None}, CreateDeveloperPpjb(c, d, b)
    PROVE  SalesInvariant'
  <1>1. TypeOK /\ RowsInvariant /\ (\A x \in Case : Coherent(x))
    BY ByParts
  <1>2. /\ Exists(c) /\ status(c) = "ACTIVE" /\ ppjbs[d].status = Absent
        /\ activePpjb(c) = {} /\ ppjbBasis(c, b)
        /\ SetStage(c, advanceStageTo(stage(c), "AKAD"))
        /\ UNCHANGED << psjbs, submissions, bank_processes, akads, basts >>
    BY DEF CreateDeveloperPpjb, IsActive, Found
  <1>3. /\ ppjbs'[d] = NewPpjb(c, b)
        /\ \A e \in Ppjb \ {d} : ppjbs'[e] = ppjbs[e]
    BY <1>1 DEF CreateDeveloperPpjb, TypeOK
  <1>4. /\ b # None => b \in approvalOf(c)
        /\ approvalOf(c) # {} \/ cashPemberkasan(c) # {}
    BY <1>2 DEF ppjbBasis
  <1>5. stage(c) = "PPJB_DEV" /\ akads[c] = None
    BY <1>1, <1>2, <1>4, StageType
       DEF Coherent, Stage, BeforePemberkasan, BeforeProsesBank, BeforePpjbDev
  <1>6. advanceStageTo(stage(c), "AKAD") = "AKAD"
    BY <1>5, StageOrder DEF advanceStageTo, Stage, BeforeAkad
  <1>7. /\ activePpjb(c)' = {d}
        /\ \A x \in Case \ {c} : activePpjb(x)' = activePpjb(x)
    BY <1>2, <1>3 DEF activePpjb, NewPpjb, Absent
  <1>8. PpjbLinks'
    BY <1>1, <1>2, <1>3, <1>4
       DEF RowsInvariant, ReferencesStayInCase, PpjbLinks, NewPpjb, approvalOf
  <1>9. stage(c) \notin BeforePpjbDev
    BY <1>5 DEF BeforePemberkasan, BeforeProsesBank, BeforePpjbDev
  <1> QED
    BY <1>2, <1>5, <1>6, <1>7, <1>8, <1>9, PpjbRowsStep

LEMMA ReissueDeveloperPpjbStep ==
    ASSUME SalesInvariant, TypeOK', NEW c \in Case, NEW old \in Ppjb, NEW d \in Ppjb,
           ReissueDeveloperPpjb(c, old, d)
    PROVE  SalesInvariant'
  <1>1. TypeOK /\ RowsInvariant /\ (\A x \in Case : Coherent(x))
    BY ByParts
  <1>2. /\ Exists(c) /\ ppjbs[d].status = Absent /\ old \in activePpjb(c) /\ old # d
        /\ akads[c] = None
        /\ SetStage(c, advanceStageTo(stage(c), "AKAD"))
        /\ UNCHANGED << psjbs, submissions, bank_processes, akads, basts >>
    BY DEF ReissueDeveloperPpjb, IsActive, Found, hasAkad, activePpjb, Absent
  <1>3. /\ ppjbs'[d] = NewPpjb(c, ppjbs[old].bank_process_id)
        /\ ppjbs'[old].sales_case_id = c /\ ppjbs'[old].status = "SUPERSEDED"
        /\ ppjbs'[old].bank_process_id = ppjbs[old].bank_process_id
        /\ \A e \in Ppjb \ {old, d} : ppjbs'[e] = ppjbs[e]
    BY <1>1, <1>2 DEF ReissueDeveloperPpjb, TypeOK, PpjbRow, activePpjb
  <1>4. stage(c) = "AKAD"
    BY <1>1, <1>2 DEF Coherent
  <1>5. advanceStageTo(stage(c), "AKAD") = "AKAD"
    BY <1>4 DEF advanceStageTo
  <1>6. /\ activePpjb(c)' = {d}
        /\ \A x \in Case \ {c} : activePpjb(x)' = activePpjb(x)
    <2>1. \A e \in activePpjb(c) : e = old
      BY <1>1, <1>2 DEF RowsInvariant, OneActiveDocument, OneOf
    <2>2. ASSUME NEW e \in Ppjb, NEW x \in Case
          PROVE  ppjbs'[e].sales_case_id = x /\ ppjbs'[e].status = "ACTIVE"
                    <=> IF x = c THEN e = d ELSE e \in activePpjb(x)
      <3>1. CASE e = d
        BY <1>2, <1>3, <3>1 DEF activePpjb, NewPpjb, Absent
      <3>2. CASE e = old
        BY <1>2, <1>3, <2>1, <3>2 DEF activePpjb
      <3>3. CASE e \notin {old, d}
        BY <1>3, <2>1, <3>3 DEF activePpjb
      <3> QED
        BY <3>1, <3>2, <3>3
    <2> QED
      BY <2>2 DEF activePpjb
  <1>7. PpjbLinks'
    <2>1. ppjbs[old].bank_process_id # None => ppjbs[old].bank_process_id \in approvalOf(c)
      BY <1>1, <1>2
         DEF RowsInvariant, ReferencesStayInCase, PpjbLinks, activePpjb, Absent
    <2>2. ASSUME NEW e \in Ppjb, ppjbs'[e].status # Absent
          PROVE  /\ ppjbs'[e].sales_case_id \in Case
                 /\ ppjbs'[e].bank_process_id # None =>
                       ppjbs'[e].bank_process_id \in approvalOf(ppjbs'[e].sales_case_id)
      <3>1. CASE e \in {old, d}
        BY <1>2, <1>3, <2>1, <3>1 DEF NewPpjb
      <3>2. CASE e \notin {old, d}
        BY <1>1, <1>3, <2>2, <3>2 DEF RowsInvariant, ReferencesStayInCase, PpjbLinks
      <3> QED
        BY <3>1, <3>2
    <2> QED
      BY <1>2, <2>2 DEF PpjbLinks, approvalOf
  <1>8. stage(c) \notin BeforePpjbDev
    BY <1>4 DEF BeforePemberkasan, BeforeProsesBank, BeforePpjbDev
  <1> QED
    BY <1>2, <1>5, <1>6, <1>7, <1>8, PpjbRowsStep

LEMMA CancelDeveloperPpjbStep ==
    ASSUME SalesInvariant, TypeOK', NEW d \in Ppjb, CancelDeveloperPpjb(d)
    PROVE  SalesInvariant'
  <1>1. TypeOK /\ RowsInvariant /\ (\A x \in Case : Coherent(x))
    BY ByParts
  <1>2. PICK c \in Case : ppjbs[d].sales_case_id = c
    BY <1>1 DEF CancelDeveloperPpjb, RowsInvariant, ReferencesStayInCase, PpjbLinks, Absent
  <1>3. /\ Exists(c) /\ ppjbs[d].status = "ACTIVE" /\ akads[c] = None
        /\ SetStage(c, IF isBeyond(stage(c), "AKAD") THEN stage(c) ELSE "PPJB_DEV")
        /\ UNCHANGED << psjbs, submissions, bank_processes, akads, basts >>
    BY <1>2 DEF CancelDeveloperPpjb, IsActive, Found, hasAkad
  <1>4. /\ ppjbs'[d].sales_case_id = c /\ ppjbs'[d].status = "CANCELLED"
        /\ ppjbs'[d].bank_process_id = ppjbs[d].bank_process_id
        /\ \A e \in Ppjb \ {d} : ppjbs'[e] = ppjbs[e]
    BY <1>1, <1>2 DEF CancelDeveloperPpjb, TypeOK, PpjbRow
  <1>5. d \in activePpjb(c) /\ \A e \in activePpjb(c) : e = d
    BY <1>1, <1>2, <1>3 DEF RowsInvariant, OneActiveDocument, OneOf, activePpjb
  <1>6. stage(c) = "AKAD"
    BY <1>1, <1>3, <1>5 DEF Coherent
  <1>7. ~ isBeyond(stage(c), "AKAD")
    BY <1>6, StageOrder DEF Stage
  <1>8. /\ activePpjb(c)' = {}
        /\ \A x \in Case \ {c} : activePpjb(x)' = activePpjb(x)
    <2>1. ASSUME NEW e \in Ppjb, NEW x \in Case
          PROVE  ppjbs'[e].sales_case_id = x /\ ppjbs'[e].status = "ACTIVE"
                    <=> x # c /\ e \in activePpjb(x)
      <3>1. CASE e = d
        BY <1>4, <1>5, <3>1 DEF activePpjb
      <3>2. CASE e # d
        BY <1>4, <1>5, <3>2 DEF activePpjb
      <3> QED
        BY <3>1, <3>2
    <2> QED
      BY <2>1 DEF activePpjb
  <1>9. PpjbLinks'
    <2>1. ASSUME NEW e \in Ppjb, ppjbs'[e].status # Absent
          PROVE  /\ ppjbs'[e].sales_case_id \in Case
                 /\ ppjbs'[e].bank_process_id # None =>
                       ppjbs'[e].bank_process_id \in approvalOf(ppjbs'[e].sales_case_id)
      <3>1. /\ ppjbs'[e].sales_case_id = ppjbs[e].sales_case_id
            /\ ppjbs'[e].bank_process_id = ppjbs[e].bank_process_id
            /\ ppjbs[e].status # Absent
        BY <1>2, <1>3, <1>4, <2>1 DEF Absent
      <3> QED
        BY <1>1, <3>1 DEF RowsInvariant, ReferencesStayInCase, PpjbLinks
    <2> QED
      BY <1>3, <2>1 DEF PpjbLinks, approvalOf
  <1>10. stage(c) \notin BeforePpjbDev
    BY <1>6 DEF BeforePemberkasan, BeforeProsesBank, BeforePpjbDev
  <1> QED
    BY <1>3, <1>7, <1>8, <1>9, <1>10, PpjbRowsStep

\* The Akad and the BAST leave every document row alone.
LEMMA ClosingRows ==
    ASSUME SalesInvariant, UNCHANGED << psjbs, submissions, bank_processes, ppjbs >>,
           NEW c \in Case, Exists(c), Exists(c)',
           \A x \in Case \ {c} : stage(x)' = stage(x) /\ status(x)' = status(x)
    PROVE  /\ RowsInvariant'
           /\ \A x \in Case :
                 /\ activePsjb(x)' = activePsjb(x) /\ submissionsOf(x)' = submissionsOf(x)
                 /\ approvalOf(x)' = approvalOf(x) /\ cashPemberkasan(x)' = cashPemberkasan(x)
                 /\ activePpjb(x)' = activePpjb(x)
  <1>1. RowsInvariant
    BY ByParts
  <1>2. \A x \in Case : Exists(x)' <=> Exists(x)
    BY DEF Exists
  <1>3. \A x \in Case :
           /\ activePsjb(x)' = activePsjb(x) /\ submissionsOf(x)' = submissionsOf(x)
           /\ approvalOf(x)' = approvalOf(x) /\ cashPemberkasan(x)' = cashPemberkasan(x)
           /\ activePpjb(x)' = activePpjb(x)
    BY DEF activePsjb, submissionsOf, approvalOf, cashPemberkasan, activePpjb
  <1>4. AbsentRowsAreBlank'
    BY <1>1, <1>2 DEF RowsInvariant, AbsentRowsAreBlank
  <1>5. PsjbLinks'
    BY <1>1, <1>2 DEF RowsInvariant, ReferencesStayInCase, PsjbLinks
  <1>6. SubmissionLinks' /\ ProcessLinks' /\ PpjbLinks'
    BY <1>1 DEF RowsInvariant, ReferencesStayInCase, SubmissionLinks, ProcessLinks, PpjbLinks,
       approvalOf
  <1>7. OneActiveDocument'
    BY <1>1, <1>3 DEF RowsInvariant, OneActiveDocument, OneOf
  <1> QED
    BY <1>3, <1>4, <1>5, <1>6, <1>7 DEF RowsInvariant, ReferencesStayInCase

LEMMA CreateAkadStep ==
    ASSUME SalesInvariant, TypeOK', NEW c \in Case, NEW d \in Ppjb, CreateAkad(c, d)
    PROVE  SalesInvariant'
  <1> USE TablesAssumption
  <1>1. TypeOK /\ (\A x \in Case : Coherent(x))
    BY ByParts
  <1>2. /\ Exists(c) /\ akads[c] = None /\ d \in activePpjb(c)
        /\ SetStage(c, advanceStageTo(stage(c), "BAST"))
        /\ UNCHANGED << psjbs, submissions, bank_processes, ppjbs, basts >>
    BY DEF CreateAkad, IsActive, Found, hasAkad, activePpjb
  <1>3. akads'[c] = d /\ d # None /\ \A x \in Case \ {c} : akads'[x] = akads[x]
    BY <1>1 DEF CreateAkad, TypeOK
  <1>4. stage(c) = "AKAD"
    BY <1>1, <1>2 DEF Coherent
  <1>5. advanceStageTo(stage(c), "BAST") = "BAST"
    BY <1>4, StageOrder DEF advanceStageTo, Stage, BeforeBast
  <1>6. /\ stage(c)' = "BAST"
        /\ \A x \in Case \ {c} : stage(x)' = stage(x)
        /\ \A x \in Case : status(x)' = status(x)
    BY <1>1, <1>2, <1>5, SetStageEffect
  <1>7. Exists(c)'
    BY <1>2, <1>6 DEF Exists
  <1>8. /\ RowsInvariant'
        /\ \A x \in Case :
              /\ activePsjb(x)' = activePsjb(x) /\ submissionsOf(x)' = submissionsOf(x)
              /\ approvalOf(x)' = approvalOf(x) /\ cashPemberkasan(x)' = cashPemberkasan(x)
              /\ activePpjb(x)' = activePpjb(x)
    BY <1>2, <1>6, <1>7, ClosingRows
  <1>9. ASSUME NEW x \in Case PROVE Coherent(x)'
    <2>1. CASE x = c
      BY <1>1, <1>2, <1>3, <1>4, <1>6, <1>8, <2>1
         DEF Coherent, BeforePemberkasan, BeforeProsesBank, BeforePpjbDev
    <2>2. CASE x # c
      BY <1>1, <1>2, <1>3, <1>6, <1>8, <2>2, UntouchedStaysCoherent DEF Untouched
    <2> QED
      BY <2>1, <2>2
  <1> QED
    BY <1>8, <1>9, ByPartsNext

LEMMA CreateBastStep ==
    ASSUME SalesInvariant, TypeOK', NEW c \in Case, NEW a \in Case, CreateBast(c, a)
    PROVE  SalesInvariant'
  <1> USE TablesAssumption
  <1>1. TypeOK /\ (\A x \in Case : Coherent(x))
    BY ByParts
  <1>2. /\ Exists(c) /\ status(c) = "ACTIVE" /\ akads[c] # None
        /\ UNCHANGED << psjbs, submissions, bank_processes, ppjbs, akads >>
    BY DEF CreateBast, IsActive, Found, hasAkad
  <1>3. basts'[c] = c /\ c # None /\ \A x \in Case \ {c} : basts'[x] = basts[x]
    BY <1>1 DEF CreateBast, TypeOK
  <1>4. stage(c) = "BAST"
    BY <1>1, <1>2 DEF Coherent
  <1>5. /\ stage(c)' = "COMPLETED" /\ status(c)' = "COMPLETED"
        /\ \A x \in Case \ {c} : stage(x)' = stage(x) /\ status(x)' = status(x)
    BY <1>1 DEF CreateBast, TypeOK, CaseRow, stage, status
  <1>6. Exists(c)'
    BY <1>5 DEF Exists, Absent
  <1>7. /\ RowsInvariant'
        /\ \A x \in Case :
              /\ activePsjb(x)' = activePsjb(x) /\ submissionsOf(x)' = submissionsOf(x)
              /\ approvalOf(x)' = approvalOf(x) /\ cashPemberkasan(x)' = cashPemberkasan(x)
              /\ activePpjb(x)' = activePpjb(x)
    BY <1>2, <1>5, <1>6, ClosingRows
  <1>8. ASSUME NEW x \in Case PROVE Coherent(x)'
    <2>1. CASE x = c
      BY <1>1, <1>2, <1>3, <1>4, <1>5, <1>7, <2>1
         DEF Coherent, BeforePemberkasan, BeforeProsesBank, BeforePpjbDev
    <2>2. CASE x # c
      BY <1>1, <1>2, <1>3, <1>5, <1>7, <2>2, UntouchedStaysCoherent DEF Untouched
    <2> QED
      BY <2>1, <2>2
  <1> QED
    BY <1>7, <1>8, ByPartsNext

-----------------------------------------------------------------------------
(* The theorems. *)

LEMMA SalesInvariantInit == Init => SalesInvariant
  <1> SUFFICES ASSUME Init PROVE SalesInvariant
    OBVIOUS
  <1> USE TablesAssumption
  <1>1. TypeOK
    BY TypeInit
  <1>2. RowsInvariant
    BY DEF Init, RowsInvariant, AbsentRowsAreBlank, ReferencesStayInCase, PsjbLinks,
       SubmissionLinks, ProcessLinks, PpjbLinks, OneActiveDocument, OneOf, activePsjb, activePpjb,
       approvalOf, NoCaseRow, NoSubmissionRow, NoProcessRow, Exists, stage, status, Absent
  <1>3. \A c \in Case : Coherent(c)
    BY DEF Init, Coherent, activePsjb, activePpjb, approvalOf, submissionsOf, cashPemberkasan,
       NoCaseRow, NoSubmissionRow, NoProcessRow, stage, status, Absent, BeforePemberkasan,
       BeforeProsesBank, BeforePpjbDev
  <1> QED
    BY <1>1, <1>2, <1>3, ByParts

LEMMA SalesInvariantStep == SalesInvariant /\ [AnyNext]_vars => SalesInvariant'
  <1> SUFFICES ASSUME SalesInvariant, [AnyNext]_vars PROVE SalesInvariant'
    OBVIOUS
  <1>1. TypeOK'
    BY TypeStep DEF SalesInvariant
  <1>2. CASE LifecycleNext
    BY <1>1, <1>2, LifecycleStep
  <1>3. CASE PsjbNext
    BY <1>1, <1>3, RecordBiCheckStep, CreatePsjbStep, ReissuePsjbStep, CancelPsjbStep
       DEF PsjbNext
  <1>4. CASE BankNext
    <2>1. ASSUME NEW c \in Case, NEW p \in Psjb, NEW s \in Submission, NEW n,
                 CreateDocumentSubmission(c, p, s, n)
          PROVE  SalesInvariant'
      <3>1. "PROSES_BANK" \in Stage
        BY DEF Stage
      <3> QED
        BY <1>1, <2>1, <3>1, NewSubmissionStep DEF CreateDocumentSubmission, IsActive, Found
    <2>2. ASSUME NEW c \in Case, NEW p \in Psjb, NEW s \in Submission, NEW n,
                 CompleteCashPemberkasan(c, p, s, n)
          PROVE  SalesInvariant'
      <3>1. "PPJB_DEV" \in Stage
        BY DEF Stage
      <3> QED
        BY <1>1, <2>2, <3>1, NewSubmissionStep DEF CompleteCashPemberkasan, IsActive, Found
    <2> QED
      BY <1>1, <1>4, <2>1, <2>2, RecordBankResponseStep DEF BankNext
  <1>5. CASE ClosingNext
    BY <1>1, <1>5, CreateDeveloperPpjbStep, ReissueDeveloperPpjbStep, CancelDeveloperPpjbStep,
       CreateAkadStep, CreateBastStep DEF ClosingNext
  <1>6. CASE EditNext
    BY <1>1, <1>6, EditStep
  <1>7. CASE UNCHANGED vars
    BY <1>1, <1>7, CaseRowsStep DEF vars, stage, status, Exists
  <1> QED
    BY <1>2, <1>3, <1>4, <1>5, <1>6, <1>7 DEF AnyNext, Next

\* References, unique documents, stage and Akad agree after every step of every
\* handler and of every edit, whatever the number of cases and documents.
THEOREM EditsKeepSalesInvariant == EditSpec => []SalesInvariant
  BY SalesInvariantInit, SalesInvariantStep, PTL DEF EditSpec, AnyNext

\* The same for the handlers alone.
THEOREM SalesInvariantHolds == Spec => []SalesInvariant
  <1>1. SalesInvariant /\ [Next]_vars => SalesInvariant'
    BY SalesInvariantStep DEF AnyNext
  <1>2. QED
    BY SalesInvariantInit, <1>1, PTL DEF Spec

\* The stage column never contradicts the documents of its case.
THEOREM StageIsRight == Spec => []StageMatchesDocuments
  <1>1. SalesInvariant => StageMatchesDocuments
    BY DEF SalesInvariant
  <1>2. QED
    BY SalesInvariantHolds, <1>1, PTL

\* No row ever refers to another case, nor a submission to a cancelled PSJB.
THEOREM ReferencesAreRight == Spec => []ReferencesStayInCase
  <1>1. SalesInvariant => ReferencesStayInCase
    BY DEF SalesInvariant
  <1>2. QED
    BY SalesInvariantHolds, <1>1, PTL

\* At most one ACTIVE PSJB, one ACTIVE PPJB and one approval per case.
THEOREM DocumentsAreUnique == Spec => []OneActiveDocument
  <1>1. SalesInvariant => OneActiveDocument
    BY DEF SalesInvariant
  <1>2. QED
    BY SalesInvariantHolds, <1>1, PTL

\* An Akad and a BAST always rest on documents in force.
THEOREM AkadIsFounded == Spec => []AkadRestsOnLiveChain
  <1>1. SalesInvariant => AkadRestsOnLiveChain
    BY DEF SalesInvariant
  <1>2. QED
    BY SalesInvariantHolds, <1>1, PTL

-----------------------------------------------------------------------------
(* No case is ever stuck. *)

\* A CASH Pemberkasan is on record only once the stage is past it.
LEMMA CashPemberkasanIsPast ==
    ASSUME SalesInvariant, NEW c \in Case, cashPemberkasan(c) # {}
    PROVE  isBeyond(stage(c), "PEMBERKASAN")
  <1>1. atOrBeyond(c, "PPJB_DEV") /\ stage(c) \in Stage
    BY DEF SalesInvariant, StageMatchesDocuments, StageMatchesBank, TypeOK, CaseRow, stage
  <1> QED
    BY <1>1 DEF atOrBeyond, isBeyond, order, Stage

\* No check is dated after today, so a CLEAR one of today is the latest.
LEMMA ClearCheckCounts ==
    ASSUME SalesInvariant, MaxDate > 0, NEW c \in Case
    PROVE  clearCheckCounts(c)
  <1>1. latest_bi[c].check_date \in 0..MaxDate /\ MaxDate \in Nat
    BY TablesAssumption DEF SalesInvariant, TypeOK, BiRow
  <1>2. latestForCase(latest_bi[c], MaxDate, "CLEAR").result = "CLEAR"
    BY <1>1 DEF latestForCase
  <1> QED
    BY <1>1, <1>2 DEF clearCheckCounts

LEMMA InvariantCasesGoOn ==
    ASSUME SalesInvariant, MaxDate > 0 PROVE NoCaseIsStuck
  <1> SUFFICES ASSUME NEW c \in Case, IsActive(c) PROVE canGoOn(c)
    BY DEF NoCaseIsStuck
  <1>1. CASE hasAkad(c)
    <2>1. ~ hasBast(c)
      BY DEF SalesInvariant, StageMatchesDocuments, StageMatchesClosing, IsActive
    <2> QED
      BY <1>1, <2>1 DEF canGoOn
  <1>2. CASE ~ hasAkad(c) /\ activePsjb(c) = {}
    BY <1>2, ClearCheckCounts DEF canGoOn
  <1>3. CASE /\ ~ hasAkad(c) /\ activePsjb(c) # {}
             /\ sales_cases[c].financing_type = "KPR_SUBSIDI"
    <2>1. CASE approvalOf(c) = {}
      BY <1>3, <2>1 DEF canGoOn
    <2>2. CASE approvalOf(c) # {}
      <3>1. PICK b \in BankProcess : b \in approvalOf(c)
        BY <2>2 DEF approvalOf
      <3>2. ppjbBasis(c, b)
        BY <1>3, <3>1 DEF ppjbBasis
      <3> QED
        BY <1>3, <3>2 DEF canGoOn
    <2> QED
      BY <2>1, <2>2
  <1>4. CASE /\ ~ hasAkad(c) /\ activePsjb(c) # {}
             /\ sales_cases[c].financing_type # "KPR_SUBSIDI"
    <2>1. CASE cashPemberkasan(c) = {}
      BY <1>4, <2>1 DEF canGoOn
    <2>2. CASE cashPemberkasan(c) # {}
      <3>1. ppjbBasis(c, None)
        BY <1>4, <2>2, CashPemberkasanIsPast DEF ppjbBasis
      <3> QED
        BY <1>4, <3>1 DEF canGoOn
    <2> QED
      BY <2>1, <2>2
  <1> QED
    BY <1>1, <1>2, <1>3, <1>4

\* As long as a check can be dated at all, every ACTIVE case can go on towards
\* its BAST, in every state the handlers and the record edits lead to.
THEOREM CasesGoOn == ASSUME MaxDate > 0 PROVE EditSpec => []NoCaseIsStuck
  <1>1. SalesInvariant => NoCaseIsStuck
    BY InvariantCasesGoOn
  <1>2. QED
    BY EditsKeepSalesInvariant, <1>1, PTL

=============================================================================
