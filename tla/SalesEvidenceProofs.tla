------------------------- MODULE SalesEvidenceProofs -------------------------
(***************************************************************************)
(* What a case rests on, under the handlers alone: its financing and its   *)
(* evidence agree, an approval closes the submission it answers, and the   *)
(* submissions of a case are numbered without gap.  Then the refinement:   *)
(* the tables implement UnitSale, under handlers and edits together, and   *)
(* so a unit and a consumer have one ACTIVE case.                          *)
(***************************************************************************)
EXTENDS SalesInvariantProofs

-----------------------------------------------------------------------------
(* Who writes which table. *)

NewSubmissionStepOf(c, p, s, n) ==
    CreateDocumentSubmission(c, p, s, n) \/ CompleteCashPemberkasan(c, p, s, n)

NewSubmissionNext ==
    \E c \in Case, p \in Psjb, s \in Submission, n \in 1..MaxSequence :
        NewSubmissionStepOf(c, p, s, n)

BankAnswerNext ==
    \E c \in Case, s \in Submission, b \in BankProcess, r \in BankResponseType :
        RecordBankResponse(c, s, b, r)

PpjbNext ==
    \/ \E c \in Case, d \in Ppjb, b \in BankProcess \cup {None} : CreateDeveloperPpjb(c, d, b)
    \/ \E c \in Case, old, d \in Ppjb : ReissueDeveloperPpjb(c, old, d)
    \/ \E d \in Ppjb : CancelDeveloperPpjb(d)

\* The handlers that write a table are the ones named for it.
LEMMA WhoWrites ==
    ASSUME [Next]_vars
    PROVE  /\ submissions' = submissions \/ NewSubmissionNext \/ BankAnswerNext
           /\ bank_processes' = bank_processes \/ BankAnswerNext
           /\ ppjbs' = ppjbs \/ PpjbNext
  <1>1. CASE LifecycleNext
    BY <1>1 DEF LifecycleNext, CreateSalesCase, CancelSalesCase, MarkSalesCaseMundur,
       MarkSalesCaseRejected, CloseSalesCase, MoveSalesCaseUnit, documents
  <1>2. CASE PsjbNext
    BY <1>2 DEF PsjbNext, RecordBiCheck, CreatePsjb, ReissuePsjb, CancelPsjb
  <1>3. CASE BankNext
    <2>1. ppjbs' = ppjbs
      BY <1>3 DEF BankNext, CreateDocumentSubmission, CompleteCashPemberkasan, RecordBankResponse
    <2>2. NewSubmissionNext \/ BankAnswerNext
      BY <1>3 DEF BankNext, NewSubmissionNext, NewSubmissionStepOf, BankAnswerNext
    <2>3. NewSubmissionNext => bank_processes' = bank_processes
      BY DEF NewSubmissionNext, NewSubmissionStepOf, CreateDocumentSubmission,
         CompleteCashPemberkasan
    <2> QED
      BY <2>1, <2>2, <2>3
  <1>4. CASE ClosingNext
    <2>1. submissions' = submissions /\ bank_processes' = bank_processes
      BY <1>4 DEF ClosingNext, CreateDeveloperPpjb, ReissueDeveloperPpjb, CancelDeveloperPpjb,
         CreateAkad, CreateBast
    <2>2. PpjbNext \/ ppjbs' = ppjbs
      BY <1>4 DEF ClosingNext, PpjbNext, CreateAkad, CreateBast
    <2> QED
      BY <2>1, <2>2
  <1>5. CASE UNCHANGED vars
    BY <1>5 DEF vars, documents
  <1> QED
    BY <1>1, <1>2, <1>3, <1>4, <1>5 DEF Next

\* What no handler changes of a case on record.
SameSale(c) ==
    /\ Exists(c)'
    /\ sales_cases'[c].financing_type = sales_cases[c].financing_type
    /\ sales_cases'[c].unit_id = sales_cases[c].unit_id
    /\ sales_cases'[c].consumer_id = sales_cases[c].consumer_id
    /\ sales_cases'[c].branch_id = sales_cases[c].branch_id
    /\ sales_cases'[c].previous_case_id = sales_cases[c].previous_case_id
    /\ sales_cases'[c].trashed = sales_cases[c].trashed

LEMMA SetStageKeepsSales ==
    ASSUME SharedTypeOK, NEW c, NEW s, SetStage(c, s), NEW x \in Case
    PROVE  /\ Exists(x) => SameSale(x)
           /\ status(x)' = status(x)
           /\ sales_cases'[x].previous_case_id = sales_cases[x].previous_case_id
           /\ sales_cases'[x].trashed = sales_cases[x].trashed
           /\ sales_cases'[x].unit_id = sales_cases[x].unit_id
  BY DEF SharedTypeOK, CaseRow, SetStage, SameSale, Exists, status

\* A document handler writes the stage of one case and nothing else of a case.
LEMMA DocumentHandlersSetStage ==
    ASSUME PsjbNext \/ BankNext \/ PpjbNext \/ (\E c \in Case, d \in Ppjb : CreateAkad(c, d))
    PROVE  \E c, s : SetStage(c, s)
  <1>1. CASE PsjbNext
    BY <1>1 DEF PsjbNext, RecordBiCheck, CreatePsjb, ReissuePsjb, CancelPsjb
  <1>2. CASE BankNext
    BY <1>2 DEF BankNext, CreateDocumentSubmission, CompleteCashPemberkasan, RecordBankResponse
  <1>3. CASE PpjbNext
    BY <1>3 DEF PpjbNext, CreateDeveloperPpjb, ReissueDeveloperPpjb, CancelDeveloperPpjb
  <1>4. CASE \E c \in Case, d \in Ppjb : CreateAkad(c, d)
    BY <1>4 DEF CreateAkad
  <1> QED
    BY <1>1, <1>2, <1>3, <1>4

LEMMA SalesStay ==
    ASSUME SharedTypeOK, [Next]_vars, NEW x \in Case, Exists(x)
    PROVE  SameSale(x)
  <1>1. CASE LifecycleNext
    <2>1. ASSUME NEW c \in Case, NEW u \in Unit, NEW k \in Consumer, NEW f \in FinancingType,
                 CreateSalesCase(c, u, k, f)
          PROVE  SameSale(x)
      BY <2>1 DEF CreateSalesCase, SharedTypeOK, SameSale, Exists, status
    <2>2. ASSUME NEW c \in Case, NEW z \in {"CANCELLED", "MUNDUR", "REJECT"},
                 CloseSalesCase(c, z)
          PROVE  SameSale(x)
      BY <2>2 DEF CloseSalesCase, SharedTypeOK, CaseRow, SameSale, Exists, status, Absent
    <2>3. ASSUME NEW c \in Case, NEW n \in Case, NEW u \in Unit, MoveSalesCaseUnit(c, n, u)
          PROVE  SameSale(x)
      BY <2>3 DEF MoveSalesCaseUnit, SharedTypeOK, CaseRow, SameSale, Exists, status, Absent
    <2> QED
      BY <1>1, <2>1, <2>2, <2>3
         DEF LifecycleNext, CancelSalesCase, MarkSalesCaseMundur, MarkSalesCaseRejected
  <1>2. CASE PsjbNext \/ BankNext \/ PpjbNext \/ \E c \in Case, d \in Ppjb : CreateAkad(c, d)
    BY <1>2, DocumentHandlersSetStage, SetStageKeepsSales
  <1>3. ASSUME NEW c \in Case, NEW a \in Case, CreateBast(c, a) PROVE SameSale(x)
    BY <1>3 DEF CreateBast, SharedTypeOK, CaseRow, SameSale, Exists, status, Absent
  <1>4. CASE UNCHANGED vars
    BY <1>4 DEF vars, SameSale, Exists, status
  <1> QED
    BY <1>1, <1>2, <1>3, <1>4 DEF Next, ClosingNext, PpjbNext


-----------------------------------------------------------------------------
(* Financing and evidence.  The formula is inductive once a PPJB is known   *)
(* to belong to a case on record, whose financing no handler changes.      *)

PpjbsOfCases == \A d \in Ppjb : ppjbs[d].status # Absent => Exists(ppjbs[d].sales_case_id)

FinancingInvariant == SalesInvariant /\ PpjbsOfCases /\ FinancingMatchesEvidence

\* What the two parts of FinancingMatchesEvidence say of one row.
SubmissionFits(s) ==
    submissions[s].status # Absent =>
        (submissions[s].type = "CASH_INTERNAL"
            <=> sales_cases[submissions[s].sales_case_id].financing_type = "CASH")

PpjbFits(d) ==
    ppjbs[d].status # Absent =>
        /\ Exists(ppjbs[d].sales_case_id)
        /\ ppjbs[d].bank_process_id = None
              <=> sales_cases[ppjbs[d].sales_case_id].financing_type = "CASH"

LEMMA FinancingByRows ==
    /\ FinancingMatchesEvidence /\ PpjbsOfCases
          <=> (\A s \in Submission : SubmissionFits(s)) /\ (\A d \in Ppjb : PpjbFits(d))
  BY DEF FinancingMatchesEvidence, PpjbsOfCases, SubmissionFits, PpjbFits

LEMMA FinancingInit == Init => FinancingInvariant
  BY SalesInvariantInit
     DEF Init, FinancingInvariant, PpjbsOfCases, FinancingMatchesEvidence, NoSubmissionRow

\* A submission on record belongs to a case on record.
LEMMA SubmissionOfCase ==
    ASSUME SalesInvariant, NEW s \in Submission, submissions[s].status # Absent
    PROVE  submissions[s].sales_case_id \in Case /\ Exists(submissions[s].sales_case_id)
  BY DEF SalesInvariant, ReferencesStayInCase, SubmissionLinks, PsjbLinks, Absent

\* Submissions are inserted for the financing of the case they are inserted for.
LEMMA SubmissionsFitStep ==
    ASSUME FinancingInvariant, [Next]_vars, NEW s \in Submission
    PROVE  SubmissionFits(s)'
  <1>1. SalesInvariant /\ TypeOK /\ SubmissionFits(s)
    BY FinancingByRows DEF FinancingInvariant, SalesInvariant
  <1>2. ASSUME submissions'[s].sales_case_id = submissions[s].sales_case_id,
               submissions'[s].type = submissions[s].type,
               submissions[s].status = Absent => submissions'[s].status = Absent
        PROVE  SubmissionFits(s)'
    <2>1. CASE submissions[s].status = Absent
      BY <1>2, <2>1 DEF SubmissionFits
    <2>2. CASE submissions[s].status # Absent
      BY <1>1, <1>2, <2>2, SubmissionOfCase, SalesStay, SharedType DEF SubmissionFits, SameSale
    <2> QED
      BY <2>1, <2>2
  <1>3. ASSUME NEW c \in Case, NEW p \in Psjb, NEW r \in Submission, NEW n \in 1..MaxSequence,
               NewSubmissionStepOf(c, p, r, n)
        PROVE  SubmissionFits(s)'
    <2>1. PICK t \in SubmissionType :
             /\ submissions' = [submissions EXCEPT ![r] = NewSubmission(c, p, t, n)]
             /\ t = "CASH_INTERNAL" <=> sales_cases[c].financing_type = "CASH"
             /\ Exists(c)
      BY <1>3 DEF NewSubmissionStepOf, CreateDocumentSubmission, CompleteCashPemberkasan,
         SubmissionType, IsActive, Found
    <2>2. CASE s = r
      <3>1. submissions'[s] = NewSubmission(c, p, t, n)
        BY <1>1, <2>1, <2>2 DEF TypeOK
      <3>2. SameSale(c)
        BY <1>1, <2>1, SalesStay, SharedType
      <3> QED
        BY <2>1, <3>1, <3>2 DEF SubmissionFits, NewSubmission, SameSale
    <2>3. CASE s # r
      BY <1>1, <1>2, <2>1, <2>3 DEF TypeOK
    <2> QED
      BY <2>2, <2>3
  <1>4. ASSUME NEW c \in Case, NEW r \in Submission, NEW b \in BankProcess,
               NEW a \in BankResponseType, RecordBankResponse(c, r, b, a)
        PROVE  SubmissionFits(s)'
    <2>1. PICK v : submissions' = [submissions EXCEPT ![r].status = v]
      BY <1>1, <1>4 DEF RecordBankResponse, TypeOK
    <2>2. submissions[r].status # Absent
      BY <1>1, <1>4, TablesAssumption
         DEF RecordBankResponse, submissionsOf, SalesInvariant, AbsentRowsAreBlank
    <2> QED
      BY <1>1, <1>2, <2>1, <2>2 DEF TypeOK, SubmissionRow
  <1> QED
    BY <1>2, <1>3, <1>4, WhoWrites DEF NewSubmissionNext, BankAnswerNext

\* A PPJB records an approval exactly if its case is KPR, and a reissue copies it.
LEMMA PpjbsFitStep ==
    ASSUME FinancingInvariant, [Next]_vars, NEW d \in Ppjb
    PROVE  PpjbFits(d)'
  <1> USE TablesAssumption
  <1>1. SalesInvariant /\ TypeOK /\ \A e \in Ppjb : PpjbFits(e)
    BY FinancingByRows DEF FinancingInvariant, SalesInvariant
  <1>2. \A e \in Ppjb : ppjbs[e].status # Absent => ppjbs[e].sales_case_id \in Case
    BY <1>1 DEF SalesInvariant, ReferencesStayInCase, PpjbLinks
  <1>3. ASSUME ppjbs'[d].sales_case_id = ppjbs[d].sales_case_id,
               ppjbs'[d].bank_process_id = ppjbs[d].bank_process_id,
               ppjbs[d].status = Absent => ppjbs'[d].status = Absent
        PROVE  PpjbFits(d)'
    <2>1. CASE ppjbs[d].status = Absent
      BY <1>3, <2>1 DEF PpjbFits
    <2>2. CASE ppjbs[d].status # Absent
      BY <1>1, <1>2, <1>3, <2>2, SalesStay, SharedType DEF PpjbFits, SameSale
    <2> QED
      BY <2>1, <2>2
  <1>4. ASSUME NEW c \in Case, Exists(c), NEW b,
               b = None <=> sales_cases[c].financing_type = "CASH", ppjbs'[d] = NewPpjb(c, b)
        PROVE  PpjbFits(d)'
    BY <1>1, <1>4, SalesStay, SharedType DEF PpjbFits, NewPpjb, SameSale
  <1>5. ASSUME NEW c \in Case, NEW e \in Ppjb, NEW b \in BankProcess \cup {None},
               CreateDeveloperPpjb(c, e, b)
        PROVE  PpjbFits(d)'
    <2>1. Exists(c) /\ ppjbs' = [ppjbs EXCEPT ![e] = NewPpjb(c, b)]
      BY <1>5 DEF CreateDeveloperPpjb, IsActive, Found
    <2>2. b = None <=> sales_cases[c].financing_type = "CASH"
      <3>1. sales_cases[c].financing_type \in FinancingType
        BY <1>1, <2>1 DEF TypeOK, CaseRow
      <3> QED
        BY <1>5, <3>1 DEF CreateDeveloperPpjb, ppjbBasis, approvalOf, FinancingType
    <2> QED
      BY <1>1, <1>3, <1>4, <2>1, <2>2 DEF TypeOK
  <1>6. ASSUME NEW c \in Case, NEW old \in Ppjb, NEW e \in Ppjb, ReissueDeveloperPpjb(c, old, e)
        PROVE  PpjbFits(d)'
    <2>1. /\ ppjbs[old].sales_case_id = c /\ ppjbs[old].status # Absent /\ old # e
          /\ Exists(c)
          /\ ppjbs' = [ppjbs EXCEPT ![old].status = "SUPERSEDED",
                                    ![e] = NewPpjb(c, ppjbs[old].bank_process_id)]
      BY <1>6 DEF ReissueDeveloperPpjb, activePpjb, IsActive, Found, Absent
    <2>2. CASE d = e
      BY <1>1, <1>4, <2>1, <2>2 DEF TypeOK, PpjbFits
    <2>3. CASE d # e
      BY <1>1, <1>3, <2>1, <2>3 DEF TypeOK, PpjbRow
    <2> QED
      BY <2>2, <2>3
  <1>7. ASSUME NEW e \in Ppjb, CancelDeveloperPpjb(e) PROVE PpjbFits(d)'
    BY <1>1, <1>3, <1>7 DEF CancelDeveloperPpjb, TypeOK, PpjbRow, Absent
  <1> QED
    BY <1>3, <1>5, <1>6, <1>7, WhoWrites DEF PpjbNext

LEMMA FinancingStep == FinancingInvariant /\ [Next]_vars => FinancingInvariant'
  <1> SUFFICES ASSUME FinancingInvariant, [Next]_vars PROVE FinancingInvariant'
    OBVIOUS
  <1>1. SalesInvariant'
    BY SalesInvariantStep DEF FinancingInvariant, AnyNext
  <1>2. (\A s \in Submission : SubmissionFits(s))' /\ (\A d \in Ppjb : PpjbFits(d))'
    BY SubmissionsFitStep, PpjbsFitStep
  <1>3. (FinancingMatchesEvidence /\ PpjbsOfCases)'
    BY <1>2 DEF FinancingMatchesEvidence, PpjbsOfCases, SubmissionFits, PpjbFits
  <1> QED
    BY <1>1, <1>3 DEF FinancingInvariant

\* The inductive form of FinancingMatchesEvidence.
THEOREM FinancingInvariantHolds == Spec => []FinancingInvariant
  BY FinancingInit, FinancingStep, PTL DEF Spec

\* FinancingMatchesEvidence: without the record edits, a KPR case rests on bank
\* submissions and a recorded approval, a CASH case on neither.
THEOREM FinancingIsFounded == Spec => []FinancingMatchesEvidence
  BY FinancingInvariantHolds, PTL DEF FinancingInvariant

-----------------------------------------------------------------------------
(* Approvals and submissions.  A bank process yet to be inserted must not   *)
(* count as an answer to anything.                                         *)

BlankProcesses ==
    \A b \in BankProcess : bank_processes[b].response_type = Absent =>
        bank_processes[b].document_submission_id = None

ApprovalInvariant == SalesInvariant /\ BlankProcesses /\ ApprovalClosesSubmission

\* ApprovalClosesSubmission of one submission.
Answered(s) ==
    /\ submissions[s].status = "CLOSED" <=> approvalsOf(s) # {}
    /\ submissions[s].status = "PROCESSING" <=> responsesTo(s) # {} /\ approvalsOf(s) = {}

LEMMA ApprovalInit == Init => ApprovalInvariant
  BY SalesInvariantInit, TablesAssumption
     DEF Init, ApprovalInvariant, BlankProcesses, ApprovalClosesSubmission, responsesTo,
         approvalsOf, NoProcessRow, NoSubmissionRow, Absent

\* A submission is inserted as SUBMITTED, and nothing can have answered it yet.
LEMMA NewSubmissionIsUnanswered ==
    ASSUME ApprovalInvariant, NewSubmissionNext, UNCHANGED bank_processes, NEW s \in Submission
    PROVE  Answered(s)'
  <1>1. TypeOK /\ Answered(s)
    BY DEF ApprovalInvariant, SalesInvariant, ApprovalClosesSubmission, Answered
  <1>2. PICK c \in Case, p \in Psjb, r \in Submission, n \in 1..MaxSequence :
           NewSubmissionStepOf(c, p, r, n)
    BY DEF NewSubmissionNext
  <1>3. PICK t : /\ submissions' = [submissions EXCEPT ![r] = NewSubmission(c, p, t, n)]
                 /\ submissions[r].status = Absent
    BY <1>2 DEF NewSubmissionStepOf, CreateDocumentSubmission, CompleteCashPemberkasan
  <1>4. responsesTo(s)' = responsesTo(s) /\ approvalsOf(s)' = approvalsOf(s)
    BY DEF responsesTo, approvalsOf
  <1>5. approvalsOf(s) \subseteq responsesTo(s)
    BY DEF approvalsOf
  <1>6. CASE s = r
    <2>1. submissions'[s].status = "SUBMITTED"
      BY <1>1, <1>3, <1>6 DEF TypeOK, NewSubmission
    <2>2. submissions[s].status = Absent
      BY <1>3, <1>6
    <2> QED
      BY <1>1, <1>4, <1>5, <2>1, <2>2 DEF Answered, Absent
  <1>7. CASE s # r
    BY <1>1, <1>3, <1>4, <1>7 DEF TypeOK, Answered
  <1> QED
    BY <1>6, <1>7

\* An answer counts for its submission alone; it closes it, or leaves it at
\* PROCESSING or CLOSED as it was.
LEMMA AnswerCounts ==
    ASSUME ApprovalInvariant, NEW c \in Case, NEW r \in Submission, NEW b \in BankProcess,
           NEW a \in BankResponseType, RecordBankResponse(c, r, b, a), NEW s \in Submission
    PROVE  Answered(s)'
  <1> USE TablesAssumption
  <1>1. TypeOK /\ Answered(s) /\ BlankProcesses /\ AbsentRowsAreBlank
    BY DEF ApprovalInvariant, SalesInvariant, ApprovalClosesSubmission, Answered
  <1> DEFINE v == IF a = "APPROVED" THEN "CLOSED"
                  ELSE IF submissions[r].status = "SUBMITTED" THEN "PROCESSING"
                  ELSE submissions[r].status
  <1>2. /\ submissions'[r].status = v
        /\ \A q \in Submission \ {r} : submissions'[q] = submissions[q]
    BY <1>1 DEF RecordBankResponse, TypeOK, SubmissionRow
  <1>3. /\ bank_processes'[b].document_submission_id = r
        /\ bank_processes'[b].is_authoritative = (a = "APPROVED")
        /\ \A q \in BankProcess \ {b} : bank_processes'[q] = bank_processes[q]
    BY <1>1 DEF RecordBankResponse, TypeOK
  <1>4. bank_processes'[b].is_authoritative <=> a = "APPROVED"
    BY <1>3, Zenon
  <1>5. b \notin responsesTo(s)
    BY <1>1 DEF RecordBankResponse, BlankProcesses, responsesTo
  <1>6. \A q \in BankProcess \ {b} :
           /\ q \in responsesTo(s)' <=> q \in responsesTo(s)
           /\ q \in approvalsOf(s)' <=> q \in approvalsOf(s)
    BY <1>3 DEF responsesTo, approvalsOf
  <1>7. /\ b \in responsesTo(s)' <=> s = r
        /\ b \in approvalsOf(s)' <=> s = r /\ a = "APPROVED"
    BY <1>3, <1>4 DEF responsesTo, approvalsOf
  <1>8. /\ responsesTo(s) \subseteq BankProcess /\ approvalsOf(s) \subseteq responsesTo(s)
        /\ responsesTo(s)' \subseteq BankProcess /\ approvalsOf(s)' \subseteq responsesTo(s)'
    BY DEF responsesTo, approvalsOf
  <1>9. /\ responsesTo(s)' = IF s = r THEN responsesTo(s) \cup {b} ELSE responsesTo(s)
        /\ approvalsOf(s)' = IF s = r /\ a = "APPROVED" THEN approvalsOf(s) \cup {b}
                             ELSE approvalsOf(s)
    BY <1>5, <1>6, <1>7, <1>8
  <1>10. CASE s = r
    <2>1. submissions[s].status \in SubmissionStatus
      BY <1>1, <1>10
         DEF RecordBankResponse, TypeOK, SubmissionRow, submissionsOf, AbsentRowsAreBlank
    <2> QED
      BY <1>1, <1>2, <1>9, <1>10, <2>1 DEF Answered, SubmissionStatus
  <1>11. CASE s # r
    BY <1>1, <1>2, <1>9, <1>11 DEF Answered
  <1> QED
    BY <1>10, <1>11

LEMMA ApprovalStep == ApprovalInvariant /\ [Next]_vars => ApprovalInvariant'
  <1> SUFFICES ASSUME ApprovalInvariant, [Next]_vars PROVE ApprovalInvariant'
    OBVIOUS
  <1>1. SalesInvariant'
    BY SalesInvariantStep DEF ApprovalInvariant, AnyNext
  <1>2. BlankProcesses'
    <2>1. ASSUME BankAnswerNext PROVE BlankProcesses'
      BY <2>1 DEF BankAnswerNext, RecordBankResponse, ApprovalInvariant, SalesInvariant, TypeOK,
         BlankProcesses, BankResponseType, Absent
    <2>2. ASSUME UNCHANGED bank_processes PROVE BlankProcesses'
      BY <2>2 DEF ApprovalInvariant, BlankProcesses
    <2> QED
      BY <2>1, <2>2, WhoWrites
  <1>3. ASSUME NEW s \in Submission PROVE Answered(s)'
    <2>1. CASE BankAnswerNext
      BY <2>1, AnswerCounts DEF BankAnswerNext
    <2>2. CASE NewSubmissionNext /\ UNCHANGED bank_processes
      BY <2>2, NewSubmissionIsUnanswered
    <2>3. CASE UNCHANGED << submissions, bank_processes >>
      BY <2>3 DEF ApprovalInvariant, ApprovalClosesSubmission, Answered, responsesTo, approvalsOf
    <2> QED
      BY <2>1, <2>2, <2>3, WhoWrites
  <1> QED
    BY <1>1, <1>2, <1>3 DEF ApprovalInvariant, ApprovalClosesSubmission, Answered

\* ApprovalClosesSubmission: a submission is CLOSED exactly if one of its answers is
\* the authoritative approval, whatever the order in which the banks answer.
THEOREM ApprovalsClose == Spec => []ApprovalClosesSubmission
  <1>1. ApprovalInvariant => ApprovalClosesSubmission
    BY DEF ApprovalInvariant
  <1> QED
    BY ApprovalInit, ApprovalStep, <1>1, PTL DEF Spec

-----------------------------------------------------------------------------
(* The numbers of the submissions, with the record edits as well.          *)

SequenceInvariant == SalesInvariant /\ SequenceIsGapless

\* SequenceIsGapless of one case.
Gapless(c) ==
    \A s \in submissionsOf(c) :
        /\ submissions[s].sequence > 0
        /\ \A t \in submissionsOf(c) \ {s} : submissions[s].sequence # submissions[t].sequence
        /\ \A n \in 1..submissions[s].sequence :
              \E t \in submissionsOf(c) : submissions[t].sequence = n

LEMMA SequenceInit == Init => SequenceInvariant
  BY SalesInvariantInit, TablesAssumption
     DEF Init, SequenceInvariant, SequenceIsGapless, submissionsOf, NoSubmissionRow

\* Steps that keep the numbers of a case keep them gapless.
LEMMA SameNumbers ==
    ASSUME NEW c \in Case, Gapless(c), submissionsOf(c)' = submissionsOf(c),
           \A s \in submissionsOf(c) : submissions'[s].sequence = submissions[s].sequence
    PROVE  Gapless(c)'
  BY DEF Gapless

\* The next number continues the numbers there are.
LEMMA NextNumber ==
    ASSUME TypeOK, NEW c \in Case, Gapless(c), NEW n \in 1..MaxSequence, isNextSequence(c, n),
           NEW s \in Submission, s \notin submissionsOf(c),
           submissionsOf(c)' = submissionsOf(c) \cup {s},
           submissions'[s].sequence = n,
           \A t \in submissionsOf(c) : submissions'[t].sequence = submissions[t].sequence
    PROVE  Gapless(c)'
  <1> USE TablesAssumption
  <1>1. \A t \in submissionsOf(c) : submissions[t].sequence \in Nat /\ submissions[t].sequence < n
    BY DEF isNextSequence, submissionsOf, TypeOK, SubmissionRow
  <1>2. \A m \in 1..n : \E t \in submissionsOf(c) \cup {s} : submissions'[t].sequence = m
    <2> SUFFICES ASSUME NEW m \in 1..n
                 PROVE  \E t \in submissionsOf(c) \cup {s} : submissions'[t].sequence = m
      OBVIOUS
    <2>1. CASE m = n
      BY <2>1
    <2>2. CASE m # n
      <3>1. PICK t \in submissionsOf(c) : submissions[t].sequence + 1 = n
        BY <2>2 DEF isNextSequence
      <3>2. m \in 1..submissions[t].sequence
        BY <1>1, <2>2, <3>1
      <3> QED
        BY <3>2 DEF Gapless
    <2> QED
      BY <2>1, <2>2
  <1>3. ASSUME NEW t \in submissionsOf(c)'
        PROVE  /\ submissions'[t].sequence > 0
               /\ \A r \in submissionsOf(c)' \ {t} :
                     submissions'[t].sequence # submissions'[r].sequence
               /\ \A m \in 1..submissions'[t].sequence :
                     \E r \in submissionsOf(c)' : submissions'[r].sequence = m
    <2>1. CASE t = s
      BY <1>1, <1>2, <2>1
    <2>2. CASE t \in submissionsOf(c)
      BY <1>1, <2>2 DEF Gapless
    <2> QED
      BY <2>1, <2>2
  <1> QED
    BY <1>3 DEF Gapless

LEMMA SequenceStep == SequenceInvariant /\ [AnyNext]_vars => SequenceInvariant'
  <1> SUFFICES ASSUME SequenceInvariant, [AnyNext]_vars PROVE SequenceInvariant'
    OBVIOUS
  <1> USE TablesAssumption
  <1>1. SalesInvariant' /\ TypeOK /\ AbsentRowsAreBlank
    BY SalesInvariantStep DEF SequenceInvariant, SalesInvariant
  <1>2. ASSUME NEW x \in Case PROVE Gapless(x)'
    <2>1. Gapless(x)
      BY DEF SequenceInvariant, SequenceIsGapless, Gapless
    <2>2. CASE submissions' = submissions
      BY <2>1, <2>2, SameNumbers DEF submissionsOf
    <2>3. ASSUME NEW c \in Case, NEW p \in Psjb, NEW s \in Submission, NEW n \in 1..MaxSequence,
                 NewSubmissionStepOf(c, p, s, n)
          PROVE  Gapless(x)'
      <3>1. PICK t : /\ submissions' = [submissions EXCEPT ![s] = NewSubmission(c, p, t, n)]
                     /\ submissions[s].status = Absent /\ isNextSequence(c, n)
        BY <2>3 DEF NewSubmissionStepOf, CreateDocumentSubmission, CompleteCashPemberkasan
      <3>2. /\ submissions'[s].sequence = n /\ submissions'[s].sales_case_id = c
            /\ \A q \in Submission \ {s} : submissions'[q] = submissions[q]
            /\ submissions[s].sales_case_id = None
        BY <1>1, <3>1 DEF TypeOK, NewSubmission, AbsentRowsAreBlank
      <3>3. CASE x = c
        <4>1. s \notin submissionsOf(c) /\ submissionsOf(c)' = submissionsOf(c) \cup {s}
          BY <3>2 DEF submissionsOf
        <4> QED
          BY <1>1, <2>1, <3>1, <3>2, <3>3, <4>1, NextNumber DEF submissionsOf
      <3>4. CASE x # c
        BY <2>1, <3>2, <3>4, SameNumbers DEF submissionsOf
      <3> QED
        BY <3>3, <3>4
    <2>4. ASSUME NEW c \in Case, NEW s \in Submission, NEW b \in BankProcess,
                 NEW r \in BankResponseType, RecordBankResponse(c, s, b, r)
          PROVE  Gapless(x)'
      <3>1. PICK v : submissions' = [submissions EXCEPT ![s].status = v]
        BY <1>1, <2>4 DEF RecordBankResponse, TypeOK
      <3>2. \A q \in Submission : /\ submissions'[q].sequence = submissions[q].sequence
                                  /\ submissions'[q].sales_case_id = submissions[q].sales_case_id
        BY <1>1, <3>1 DEF TypeOK, SubmissionRow
      <3> QED
        BY <2>1, <3>2, SameNumbers DEF submissionsOf
    <2>5. CASE EditNext
      BY <2>2, <2>5 DEF EditNext, EditUnitStatus, EditFinancingType, DeleteSalesCase,
         RestoreSalesCase, documents
    <2> QED
      BY <2>2, <2>3, <2>4, <2>5, WhoWrites DEF AnyNext, NewSubmissionNext, BankAnswerNext
  <1> QED
    BY <1>1, <1>2 DEF SequenceInvariant, SequenceIsGapless, Gapless

\* SequenceIsGapless: the submissions of a case are numbered 1, 2, 3, ... over both
\* types, edits of the financing type between two of them included.
THEOREM SequencesAreGapless == EditSpec => []SequenceIsGapless
  <1>1. SequenceInvariant => SequenceIsGapless
    BY DEF SequenceInvariant
  <1> QED
    BY SequenceInit, SequenceStep, <1>1, PTL DEF EditSpec, AnyNext

-----------------------------------------------------------------------------
(* The deal of each case. *)

Deal(c) == [phase |-> phaseOf(c), unit |-> sales_cases[c].unit_id,
            consumer |-> sales_cases[c].consumer_id]

LEMMA DealOfCase ==
    /\ dealOf = [c \in Case |-> Deal(c)]
    /\ dealOf' = [c \in Case |-> Deal(c)']
  BY DEF dealOf, Deal

\* What a deal is made of; the rest of the tables can change freely.
SameDeal(c) ==
    /\ status(c)' = status(c)
    /\ akads'[c] = akads[c]
    /\ sales_cases'[c].unit_id = sales_cases[c].unit_id
    /\ sales_cases'[c].consumer_id = sales_cases[c].consumer_id

LEMMA SameDealStays ==
    ASSUME NEW c \in Case, SameDeal(c)
    PROVE  Deal(c)' = Deal(c)
  BY DEF SameDeal, Deal, phaseOf, hasAkad

LEMMA Stutter ==
    ASSUME \A c \in Case : SameDeal(c)
    PROVE  dealOf' = dealOf
  BY DealOfCase, SameDealStays

LEMMA SetStageStutters ==
    ASSUME TypeOK, NEW c, NEW s, SetStage(c, s), UNCHANGED akads
    PROVE  dealOf' = dealOf
  <1>1. \A x \in Case : SameDeal(x)
    BY DEF TypeOK, CaseRow, SetStage, SameDeal, status
  <1> QED
    BY <1>1, Stutter

\* A unit or consumer the indexes find free is free in UnitSale.
LEMMA FreeMeansFree ==
    ASSUME NEW u, NEW k, NEW S \in SUBSET Case, UniqueActiveCase(u, k, S)
    PROVE  \A x \in S : dealOf[x].phase \in {"OPEN", "SOLD"} =>
              dealOf[x].unit # u /\ dealOf[x].consumer # k
  <1>1. ASSUME NEW x \in S, Deal(x).phase \in {"OPEN", "SOLD"} PROVE status(x) = "ACTIVE"
    BY <1>1 DEF Deal, phaseOf
  <1> QED
    BY <1>1, DealOfCase DEF UniqueActiveCase, Deal

-----------------------------------------------------------------------------
(* One step of the tables is one step of UnitSale, or none. *)

LEMMA CreateOpens ==
    ASSUME SalesInvariant, NEW c \in Case, NEW u \in Unit, NEW k \in Consumer,
           NEW f \in FinancingType, CreateSalesCase(c, u, k, f)
    PROVE  Sale!Open(c, u, k)
  <1>1. TypeOK /\ (\A x \in Case : Coherent(x)) /\ AbsentRowsAreBlank
    BY ByParts DEF SalesInvariant
  <1>2. /\ status(c) = Absent /\ UniqueActiveCase(u, k, Case) /\ akads' = akads
        /\ sales_cases' = [sales_cases EXCEPT ![c] = NewCase(u, k, f, None)]
    BY DEF CreateSalesCase, Exists, documents
  <1>3. akads[c] = None
    BY <1>1, <1>2 DEF AbsentRowsAreBlank, Exists, Coherent
  <1>4. Deal(c)' = [phase |-> "OPEN", unit |-> u, consumer |-> k]
    BY <1>1, <1>2, <1>3 DEF TypeOK, NewCase, Deal, phaseOf, status, hasAkad, Absent
  <1>5. \A x \in Case \ {c} : Deal(x)' = Deal(x)
    <2>1. \A x \in Case \ {c} : SameDeal(x)
      BY <1>1, <1>2 DEF TypeOK, SameDeal, status
    <2> QED
      BY <2>1, SameDealStays
  <1>6. Deal(c).phase = "NONE"
    BY <1>2 DEF Deal, phaseOf, Absent
  <1>7. dealOf' = [dealOf EXCEPT ![c] = Sale!Opened(u, k)]
    BY <1>4, <1>5, DealOfCase DEF Sale!Opened
  <1>8. dealOf[c].phase = "NONE"
    BY <1>6, DealOfCase
  <1> QED
    BY <1>2, <1>7, <1>8, FreeMeansFree
       DEF Sale!Open, Sale!UnitFree, Sale!ConsumerFree, Sale!Holding

LEMMA CloseCloses ==
    ASSUME TypeOK, NEW c \in Case, NEW z \in {"CANCELLED", "MUNDUR", "REJECT"},
           CloseSalesCase(c, z)
    PROVE  Sale!Close(c)
  <1>1. /\ status(c) = "ACTIVE" /\ akads[c] = None /\ akads' = akads
        /\ sales_cases' = [sales_cases EXCEPT ![c].case_status = z]
    BY DEF CloseSalesCase, IsActive, hasAkad, documents
  <1>2. Deal(c).phase = "OPEN"
    BY <1>1 DEF Deal, phaseOf, hasAkad, Absent
  <1>3. status(c)' = z /\ sales_cases'[c].unit_id = sales_cases[c].unit_id
        /\ sales_cases'[c].consumer_id = sales_cases[c].consumer_id
    BY <1>1 DEF TypeOK, CaseRow, status
  <1>4. Deal(c)' = [Deal(c) EXCEPT !.phase = "CLOSED"]
    BY <1>3 DEF Deal, phaseOf, Absent
  <1>5. \A x \in Case \ {c} : Deal(x)' = Deal(x)
    <2>1. \A x \in Case \ {c} : SameDeal(x)
      BY <1>1 DEF TypeOK, SameDeal, status
    <2> QED
      BY <2>1, SameDealStays
  <1>6. dealOf' = [dealOf EXCEPT ![c].phase = "CLOSED"]
    BY <1>4, <1>5, DealOfCase
  <1>7. dealOf[c].phase = "OPEN"
    BY <1>2, DealOfCase
  <1> QED
    BY <1>6, <1>7 DEF Sale!Close

LEMMA MoveMoves ==
    ASSUME SalesInvariant, NEW c \in Case, NEW n \in Case, NEW u \in Unit,
           MoveSalesCaseUnit(c, n, u)
    PROVE  Sale!Move(c, n, u)
  <1> DEFINE k == sales_cases[c].consumer_id
  <1>1. TypeOK /\ (\A x \in Case : Coherent(x)) /\ AbsentRowsAreBlank
    BY ByParts DEF SalesInvariant
  <1>2. /\ status(c) = "ACTIVE" /\ akads[c] = None /\ akads' = akads
        /\ status(n) = Absent /\ c # n /\ u # sales_cases[c].unit_id
        /\ UniqueActiveCase(u, k, Case \ {c})
        /\ sales_cases' =
              [sales_cases EXCEPT ![c].case_status = "PINDAH_KAVLING",
                                  ![n] = NewCase(u, k, sales_cases[c].financing_type, c)]
    BY DEF MoveSalesCaseUnit, IsActive, Found, Exists, hasAkad, documents, Absent
  <1>3. akads[n] = None
    BY <1>1, <1>2 DEF AbsentRowsAreBlank, Exists, Coherent
  <1>4. Deal(n)' = [phase |-> "OPEN", unit |-> u, consumer |-> k]
    BY <1>1, <1>2, <1>3 DEF TypeOK, NewCase, Deal, phaseOf, status, hasAkad, Absent
  <1>5. status(c)' = "PINDAH_KAVLING" /\ sales_cases'[c].unit_id = sales_cases[c].unit_id
        /\ sales_cases'[c].consumer_id = sales_cases[c].consumer_id
    BY <1>1, <1>2 DEF TypeOK, CaseRow, status
  <1>6. Deal(c)' = [Deal(c) EXCEPT !.phase = "CLOSED"]
    BY <1>5 DEF Deal, phaseOf, Absent
  <1>7. \A x \in Case \ {c, n} : Deal(x)' = Deal(x)
    <2>1. \A x \in Case \ {c, n} : SameDeal(x)
      BY <1>1, <1>2 DEF TypeOK, SameDeal, status
    <2> QED
      BY <2>1, SameDealStays
  <1>8. Deal(c).phase = "OPEN" /\ Deal(n).phase = "NONE" /\ Deal(c).consumer = k
        /\ Deal(c).unit = sales_cases[c].unit_id
    BY <1>2 DEF Deal, phaseOf, hasAkad, Absent
  <1>9. dealOf' = [dealOf EXCEPT ![c].phase = "CLOSED", ![n] = Sale!Opened(u, dealOf[c].consumer)]
    BY <1>2, <1>4, <1>6, <1>7, <1>8, DealOfCase DEF Sale!Opened
  <1>10. dealOf[c].phase = "OPEN" /\ dealOf[n].phase = "NONE" /\ dealOf[c].unit # u
    BY <1>2, <1>8, DealOfCase
  <1>11. \A x \in Case : dealOf[x].phase \in {"OPEN", "SOLD"} => dealOf[x].unit # u
    BY <1>2, <1>10, FreeMeansFree
  <1> QED
    BY <1>9, <1>10, <1>11 DEF Sale!Move, Sale!UnitFree, Sale!Holding

LEMMA AkadSells ==
    ASSUME TypeOK, NEW c \in Case, NEW d \in Ppjb, CreateAkad(c, d)
    PROVE  Sale!Sell(c)
  <1> USE TablesAssumption
  <1>1. /\ status(c) = "ACTIVE" /\ akads[c] = None
        /\ akads' = [akads EXCEPT ![c] = d]
        /\ SetStage(c, advanceStageTo(stage(c), "BAST"))
    BY DEF CreateAkad, IsActive, hasAkad
  <1>2. \A x \in Case : /\ status(x)' = status(x)
                        /\ sales_cases'[x].unit_id = sales_cases[x].unit_id
                        /\ sales_cases'[x].consumer_id = sales_cases[x].consumer_id
    BY <1>1 DEF TypeOK, CaseRow, SetStage, status
  <1>3. akads'[c] # None /\ \A x \in Case \ {c} : akads'[x] = akads[x]
    BY <1>1 DEF TypeOK
  <1>4. Deal(c).phase = "OPEN"
    BY <1>1 DEF Deal, phaseOf, hasAkad, Absent
  <1>5. Deal(c)' = [Deal(c) EXCEPT !.phase = "SOLD"]
    BY <1>1, <1>2, <1>3 DEF Deal, phaseOf, hasAkad, Absent
  <1>6. \A x \in Case \ {c} : Deal(x)' = Deal(x)
    BY <1>2, <1>3, SameDealStays DEF SameDeal
  <1>7. dealOf' = [dealOf EXCEPT ![c].phase = "SOLD"] /\ dealOf[c].phase = "OPEN"
    BY <1>4, <1>5, <1>6, DealOfCase
  <1> QED
    BY <1>7 DEF Sale!Sell

LEMMA BastHandsOver ==
    ASSUME TypeOK, NEW c \in Case, NEW a \in Case, CreateBast(c, a)
    PROVE  Sale!HandOver(c)
  <1>1. /\ status(c) = "ACTIVE" /\ akads[c] # None /\ akads' = akads
        /\ sales_cases' = [sales_cases EXCEPT ![c].current_stage = "COMPLETED",
                                              ![c].case_status = "COMPLETED"]
    BY DEF CreateBast, IsActive, hasAkad
  <1>2. status(c)' = "COMPLETED" /\ sales_cases'[c].unit_id = sales_cases[c].unit_id
        /\ sales_cases'[c].consumer_id = sales_cases[c].consumer_id
    BY <1>1 DEF TypeOK, CaseRow, status
  <1>3. \A x \in Case \ {c} : SameDeal(x)
    BY <1>1 DEF TypeOK, SameDeal, status
  <1>4. Deal(c).phase = "SOLD"
    BY <1>1 DEF Deal, phaseOf, hasAkad, Absent
  <1>5. Deal(c)' = [Deal(c) EXCEPT !.phase = "HANDED_OVER"]
    BY <1>2 DEF Deal, phaseOf, Absent
  <1>6. dealOf' = [dealOf EXCEPT ![c].phase = "HANDED_OVER"] /\ dealOf[c].phase = "SOLD"
    BY <1>3, <1>4, <1>5, DealOfCase, SameDealStays
  <1> QED
    BY <1>6 DEF Sale!HandOver

-----------------------------------------------------------------------------
(* The theorems. *)

LEMMA DealInit == Init => Sale!Init
  BY DealOfCase DEF Init, Sale!Init, Sale!NoDeal, Deal, phaseOf, NoCaseRow, status, Absent

LEMMA DealStep == SalesInvariant /\ [AnyNext]_vars => [Sale!Next]_dealOf
  <1> SUFFICES ASSUME SalesInvariant, [AnyNext]_vars PROVE [Sale!Next]_dealOf
    OBVIOUS
  <1>1. TypeOK
    BY DEF SalesInvariant
  <1>2. CASE LifecycleNext
    BY <1>1, <1>2, CreateOpens, CloseCloses, MoveMoves
       DEF LifecycleNext, CancelSalesCase, MarkSalesCaseMundur, MarkSalesCaseRejected, Sale!Next
  <1>3. CASE PsjbNext \/ BankNext
    <2>1. UNCHANGED akads /\ \E x, s : SetStage(x, s)
      BY <1>3 DEF PsjbNext, BankNext, RecordBiCheck, CreatePsjb, ReissuePsjb, CancelPsjb,
         CreateDocumentSubmission, CompleteCashPemberkasan, RecordBankResponse
    <2> QED
      BY <1>1, <2>1, SetStageStutters
  <1>4. CASE ClosingNext
    <2>1. ASSUME NEW c, NEW d, NEW b, CreateDeveloperPpjb(c, d, b) PROVE dealOf' = dealOf
      BY <1>1, <2>1, SetStageStutters DEF CreateDeveloperPpjb
    <2>2. ASSUME NEW c, NEW old, NEW d, ReissueDeveloperPpjb(c, old, d) PROVE dealOf' = dealOf
      BY <1>1, <2>2, SetStageStutters DEF ReissueDeveloperPpjb
    <2>3. ASSUME NEW d, CancelDeveloperPpjb(d) PROVE dealOf' = dealOf
      <3>1. UNCHANGED akads /\ \E x, s : SetStage(x, s)
        BY <2>3 DEF CancelDeveloperPpjb
      <3> QED
        BY <1>1, <3>1, SetStageStutters
    <2>4. \/ dealOf' = dealOf
          \/ \E c \in Case : Sale!Sell(c) \/ Sale!HandOver(c)
      BY <1>1, <1>4, <2>1, <2>2, <2>3, AkadSells, BastHandsOver DEF ClosingNext
    <2> QED
      BY <2>4 DEF Sale!Next
  <1>5. CASE EditNext
    <2>1. \A x \in Case : SameDeal(x)
      <3>1. ASSUME NEW u, NEW s, EditUnitStatus(u, s) PROVE \A x \in Case : SameDeal(x)
        BY <3>1 DEF EditUnitStatus, SameDeal, status, documents
      <3>2. ASSUME NEW c, NEW f, EditFinancingType(c, f) PROVE \A x \in Case : SameDeal(x)
        BY <1>1, <3>2 DEF TypeOK, CaseRow, EditFinancingType, SameDeal, status, documents
      <3>3. ASSUME NEW c, DeleteSalesCase(c) \/ RestoreSalesCase(c)
            PROVE  \A x \in Case : SameDeal(x)
        BY <1>1, <3>3
           DEF TypeOK, CaseRow, DeleteSalesCase, RestoreSalesCase, SameDeal, status, documents
      <3> QED
        BY <1>5, <3>1, <3>2, <3>3 DEF EditNext
    <2> QED
      BY <2>1, Stutter
  <1>6. CASE UNCHANGED vars
    BY <1>6, Stutter DEF vars, documents, SameDeal, status
  <1> QED
    BY <1>2, <1>3, <1>4, <1>5, <1>6 DEF AnyNext, Next

\* Whatever the handlers and the edits do, a deal is only booked on a free unit
\* for a free consumer, closed or moved while open, and handed over once sold.
THEOREM EditsImplementUnitSale == EditSpec => ImplementsUnitSale
  BY EditsKeepSalesInvariant, DealInit, DealStep, PTL
     DEF EditSpec, AnyNext, ImplementsUnitSale, Sale!Spec

\* The same for the handlers alone.
THEOREM UnitSaleImplemented == Spec => ImplementsUnitSale
  <1>1. SalesInvariant /\ [Next]_vars => [Sale!Next]_dealOf
    BY DealStep DEF AnyNext
  <1>2. QED
    BY SalesInvariantHolds, DealInit, <1>1, PTL DEF Spec, ImplementsUnitSale, Sale!Spec

-----------------------------------------------------------------------------
(* What UnitSale means for the cases. *)

\* A case holds its unit and consumer exactly while it is ACTIVE.
LEMMA HoldingIsActive ==
    /\ OneActiveCase <=> Sale!HeldOnce
    /\ \A c \in Case : dealOf[c] = Deal(c)
  <1>1. \A c \in Case : dealOf[c] = Deal(c)
    BY DealOfCase
  <1>2. \A c \in Case : Deal(c).phase \in {"OPEN", "SOLD"} <=> status(c) = "ACTIVE"
    BY DEF Deal, phaseOf, Absent
  <1>3. \A c \in Case : /\ Deal(c).unit = sales_cases[c].unit_id
                        /\ Deal(c).consumer = sales_cases[c].consumer_id
    BY DEF Deal
  <1> HIDE DEF Deal
  <1> QED
    BY <1>1, <1>2, <1>3 DEF OneActiveCase, Sale!HeldOnce, Sale!Holding

LEMMA HeldOnceStep == Sale!HeldOnce /\ [Sale!Next]_dealOf => Sale!HeldOnce'
  <1> SUFFICES ASSUME Sale!HeldOnce, [Sale!Next]_dealOf PROVE Sale!HeldOnce'
    OBVIOUS
  <1>1. /\ dealOf = [c \in Case |-> Deal(c)]
        /\ \A c \in Case : dealOf[c] = [phase |-> dealOf[c].phase, unit |-> dealOf[c].unit,
                                        consumer |-> dealOf[c].consumer]
    BY DealOfCase DEF Deal
  <1>2. ASSUME NEW c \in Case, NEW u \in Unit, NEW k \in Consumer, Sale!Open(c, u, k)
        PROVE  Sale!HeldOnce'
    BY <1>1, <1>2 DEF Sale!HeldOnce, Sale!Open, Sale!Opened, Sale!Holding, Sale!UnitFree,
       Sale!ConsumerFree
  <1>3. ASSUME NEW c \in Case, Sale!Close(c) \/ Sale!Sell(c) \/ Sale!HandOver(c)
        PROVE  Sale!HeldOnce'
    BY <1>1, <1>3 DEF Sale!HeldOnce, Sale!Close, Sale!Sell, Sale!HandOver, Sale!Holding
  <1>4. ASSUME NEW c \in Case, NEW n \in Case, NEW u \in Unit, Sale!Move(c, n, u)
        PROVE  Sale!HeldOnce'
    BY <1>1, <1>4 DEF Sale!HeldOnce, Sale!Move, Sale!Opened, Sale!Holding, Sale!UnitFree
  <1>5. CASE UNCHANGED dealOf
    BY <1>5 DEF Sale!HeldOnce, Sale!Holding
  <1> QED
    BY <1>2, <1>3, <1>4, <1>5 DEF Sale!Next

\* No two ACTIVE cases share a unit or a consumer, deleted ones included.
THEOREM CasesAreUnique == EditSpec => []OneActiveCase
  <1>1. Init => OneActiveCase
    BY DEF Init, OneActiveCase, NoCaseRow, status, Absent
  <1>2. OneActiveCase <=> Sale!HeldOnce
    BY HoldingIsActive
  <1>3. QED
    BY EditsImplementUnitSale, <1>1, <1>2, HeldOnceStep, PTL
       DEF EditSpec, ImplementsUnitSale, Sale!Spec

=============================================================================
