--------------------------- MODULE SalesOperations ---------------------------
(***************************************************************************)
(* The sales operations as a whole: every handler of app/Actions that      *)
(* changes a case, its documents or its unit, composed over one database.  *)
(* Spec has the handlers alone; EditSpec adds the record edits the         *)
(* administration pages offer next to them (unit status, financing type,   *)
(* deletion and restoration of a case).                                    *)
(***************************************************************************)
EXTENDS CaseLifecycle, CaseDocuments

NoCaseRow == [ case_status |-> Absent, current_stage |-> "DATA_KONSUMEN",
               financing_type |-> "KPR_SUBSIDI", unit_id |-> None, consumer_id |-> None,
               branch_id |-> None, previous_case_id |-> None, trashed |-> FALSE ]
NoSubmissionRow == [ sales_case_id |-> None, psjb_id |-> None, type |-> None,
                     sequence |-> 0, status |-> Absent ]
NoProcessRow == [ sales_case_id |-> None, document_submission_id |-> None,
                  response_type |-> Absent, is_authoritative |-> FALSE ]

Init ==
    /\ sales_cases = [c \in Case |-> NoCaseRow]
    /\ unit_status = [u \in Unit |-> "TERSEDIA"]
    /\ latest_bi = [c \in Case |-> [check_date |-> 0, result |-> Absent]]
    /\ psjbs = [p \in Psjb |-> [sales_case_id |-> None, status |-> Absent]]
    /\ submissions = [s \in Submission |-> NoSubmissionRow]
    /\ bank_processes = [b \in BankProcess |-> NoProcessRow]
    /\ ppjbs = [d \in Ppjb |-> [sales_case_id |-> None, bank_process_id |-> None,
                                status |-> Absent]]
    /\ akads = [c \in Case |-> None]
    /\ basts = [c \in Case |-> None]

-----------------------------------------------------------------------------

LifecycleNext ==
    \/ \E c \in Case, u \in Unit, k \in Consumer, f \in FinancingType :
          CreateSalesCase(c, u, k, f)
    \/ \E c \in Case : CancelSalesCase(c) \/ MarkSalesCaseMundur(c) \/ MarkSalesCaseRejected(c)
    \/ \E c, n \in Case, u \in Unit : MoveSalesCaseUnit(c, n, u)

PsjbNext ==
    \/ \E c \in Case, date \in 1..MaxDate, result \in BiCheckResult :
          RecordBiCheck(c, date, result)
    \/ \E c \in Case, p \in Psjb : CreatePsjb(c, p)
    \/ \E c \in Case, old, p \in Psjb : ReissuePsjb(c, old, p)
    \/ \E p \in Psjb : CancelPsjb(p)

BankNext ==
    \/ \E c \in Case, p \in Psjb, s \in Submission, n \in 1..MaxSequence :
          CreateDocumentSubmission(c, p, s, n) \/ CompleteCashPemberkasan(c, p, s, n)
    \/ \E c \in Case, s \in Submission, b \in BankProcess, r \in BankResponseType :
          RecordBankResponse(c, s, b, r)

ClosingNext ==
    \/ \E c \in Case, d \in Ppjb, b \in BankProcess \cup {None} : CreateDeveloperPpjb(c, d, b)
    \/ \E c \in Case, old, d \in Ppjb : ReissueDeveloperPpjb(c, old, d)
    \/ \E d \in Ppjb : CancelDeveloperPpjb(d)
    \/ \E c \in Case, d \in Ppjb : CreateAkad(c, d)
    \/ \E c, akad \in Case : CreateBast(c, akad)

Next == LifecycleNext \/ PsjbNext \/ BankNext \/ ClosingNext

Spec == Init /\ [][Next]_vars

-----------------------------------------------------------------------------
(* Edits outside the handlers.  Saving a unit's or a case's form writes    *)
(* the columns below whatever state the case is in.                        *)

EditUnitStatus(u, s) ==
    /\ unit_status[u] # s
    /\ unit_status' = [unit_status EXCEPT ![u] = s]
    /\ UNCHANGED << sales_cases, documents >>

EditFinancingType(c, f) ==
    /\ Found(c)
    /\ sales_cases[c].financing_type # f
    /\ sales_cases' = [sales_cases EXCEPT ![c].financing_type = f]
    /\ UNCHANGED << unit_status, documents >>

\* SoftDeletes: the row stays, with its status.
DeleteSalesCase(c) ==
    /\ Found(c)
    /\ sales_cases' = [sales_cases EXCEPT ![c].trashed = TRUE]
    /\ UNCHANGED << unit_status, documents >>

RestoreSalesCase(c) ==
    /\ sales_cases[c].trashed
    /\ sales_cases' = [sales_cases EXCEPT ![c].trashed = FALSE]
    /\ UNCHANGED << unit_status, documents >>

EditNext ==
    \/ \E u \in Unit, s \in UnitStatus : EditUnitStatus(u, s)
    \/ \E c \in Case, f \in FinancingType : EditFinancingType(c, f)
    \/ \E c \in Case : DeleteSalesCase(c) \/ RestoreSalesCase(c)

EditSpec == Init /\ [][Next \/ EditNext]_vars

-----------------------------------------------------------------------------
(* Safety: the references between rows.                                    *)

PsjbLinks ==
    \A p \in Psjb : psjbs[p].status # Absent =>
        /\ psjbs[p].sales_case_id \in Case
        /\ Exists(psjbs[p].sales_case_id)

SubmissionLinks ==
    \A s \in Submission : submissions[s].status # Absent =>
        /\ submissions[s].sales_case_id \in Case
        /\ submissions[s].psjb_id \in Psjb
        /\ psjbs[submissions[s].psjb_id].sales_case_id = submissions[s].sales_case_id
        /\ psjbs[submissions[s].psjb_id].status \in {"ACTIVE", "SUPERSEDED"}

ProcessLinks ==
    \A b \in BankProcess : bank_processes[b].response_type # Absent =>
        /\ bank_processes[b].sales_case_id \in Case
        /\ bank_processes[b].document_submission_id \in Submission
        /\ submissions[bank_processes[b].document_submission_id].sales_case_id
              = bank_processes[b].sales_case_id
        /\ submissions[bank_processes[b].document_submission_id].type = "BANK"

PpjbLinks ==
    \A d \in Ppjb : ppjbs[d].status # Absent =>
        /\ ppjbs[d].sales_case_id \in Case
        /\ ppjbs[d].bank_process_id # None =>
              ppjbs[d].bank_process_id \in approvalOf(ppjbs[d].sales_case_id)

\* Every row hangs off one case: a submission names a PSJB of its own case that
\* was never cancelled, a bank response a BANK submission of its own case, a
\* PPJB the authoritative approval of its own case.  CancelPsjb, the reissues
\* and a request naming another case's document could each break it.
ReferencesStayInCase == PsjbLinks /\ SubmissionLinks /\ ProcessLinks /\ PpjbLinks

\* One ACTIVE PSJB, one ACTIVE PPJB and one authoritative approval per case,
\* and one ACTIVE case per unit and per consumer: what the partial unique
\* indexes promise, kept by the handlers without tripping over them.
OneOf(S) == \A x, y \in S : x = y

OneActiveDocument ==
    \A c \in Case : OneOf(activePsjb(c)) /\ OneOf(activePpjb(c)) /\ OneOf(approvalOf(c))

OneActiveCase ==
    \A c, d \in Case :
        (c # d /\ status(c) = "ACTIVE" /\ status(d) = "ACTIVE") =>
            /\ sales_cases[c].unit_id # sales_cases[d].unit_id
            /\ sales_cases[c].consumer_id # sales_cases[d].consumer_id

-----------------------------------------------------------------------------
(* Safety: stage, documents and unit tell the same story.                  *)

atOrBeyond(c, s) == ~ isBeyond(s, stage(c))

\* The stage column is a summary nobody recomputes; it must agree with the
\* documents after any mix of forward moves, cancellations and late responses.
StageMatchesPsjb == \A c \in Case : activePsjb(c) # {} <=> atOrBeyond(c, "PEMBERKASAN")

StageMatchesBank ==
    \A c \in Case :
        /\ atOrBeyond(c, "PROSES_BANK") <=> submissionsOf(c) # {}
        /\ atOrBeyond(c, "PPJB_DEV") <=> approvalOf(c) # {} \/ cashPemberkasan(c) # {}

StageMatchesPpjb ==
    \A c \in Case : stage(c) = "AKAD" <=> activePpjb(c) # {} /\ ~ hasAkad(c)

StageMatchesClosing ==
    \A c \in Case :
        /\ atOrBeyond(c, "BAST") <=> hasAkad(c)
        /\ stage(c) = "COMPLETED" <=> hasBast(c)
        /\ status(c) = "COMPLETED" <=> hasBast(c)

StageMatchesDocuments ==
    StageMatchesPsjb /\ StageMatchesBank /\ StageMatchesPpjb /\ StageMatchesClosing

\* An Akad rests on a chain that is still in force: the PPJB it names is the
\* case's ACTIVE one, a PSJB is ACTIVE, a BAST names the Akad of its own case.
\* PPJB corrections and PSJB cancellation must both stop in time.
AkadRestsOnLiveChain ==
    \A c \in Case :
        /\ hasAkad(c) => akads[c] \in activePpjb(c) /\ activePsjb(c) # {}
        /\ hasBast(c) => basts[c] = c /\ hasAkad(c)

\* APPROVED, authoritative and a CLOSED submission are the same fact, and a
\* submission is PROCESSING only once answered, whatever the order of the
\* responses of several banks.
responsesTo(s) == { b \in BankProcess : bank_processes[b].document_submission_id = s }
approvalsOf(s) == { b \in responsesTo(s) : bank_processes[b].is_authoritative }

ApprovalClosesSubmission ==
    \A s \in Submission :
        /\ submissions[s].status = "CLOSED" <=> approvalsOf(s) # {}
        /\ submissions[s].status = "PROCESSING"
              <=> responsesTo(s) # {} /\ approvalsOf(s) = {}

\* The submissions of a case are numbered 1, 2, ... without gap or repetition.
SequenceIsGapless ==
    \A c \in Case : \A s \in submissionsOf(c) :
        /\ submissions[s].sequence > 0
        /\ \A t \in submissionsOf(c) \ {s} : submissions[s].sequence # submissions[t].sequence
        /\ \A n \in 1..submissions[s].sequence :
              \E t \in submissionsOf(c) : submissions[t].sequence = n

\* Without edits, what a case rests on matches its financing: KPR on bank
\* submissions and an approval recorded by the PPJB, CASH on neither.
FinancingMatchesEvidence ==
    /\ \A s \in Submission : submissions[s].status # Absent =>
          (submissions[s].type = "CASH_INTERNAL"
              <=> sales_cases[submissions[s].sales_case_id].financing_type = "CASH")
    /\ \A d \in Ppjb : ppjbs[d].status # Absent =>
          (ppjbs[d].bank_process_id = None
              <=> sales_cases[ppjbs[d].sales_case_id].financing_type = "CASH")

\* A unit is BOOKING exactly while an ACTIVE case before Akad holds it, TERJUAL
\* only if some case took it to Akad, and TERJUAL while such a case is ACTIVE.
\* Booking, closing, moving, selling and rebooking all write the column.
casesOn(u) == { c \in Case : sales_cases[c].unit_id = u }

UnitStatusMatchesCases ==
    \A u \in Unit :
        /\ unit_status[u] = "BOOKING"
              <=> \E c \in casesOn(u) : status(c) = "ACTIVE" /\ ~ hasAkad(c)
        /\ unit_status[u] = "TERJUAL" => \E c \in casesOn(u) : hasAkad(c)
        /\ \A c \in casesOn(u) :
              status(c) = "ACTIVE" /\ hasAkad(c) => unit_status[u] = "TERJUAL"

\* A case closed as PINDAH_KAVLING has exactly one successor; a successor is a
\* case of the same consumer and branch on another unit, and its predecessor is
\* closed as PINDAH_KAVLING.
successors(c) == { n \in Case : sales_cases[n].previous_case_id = c }

MoveLinksCases ==
    \A c \in Case :
        /\ status(c) = "PINDAH_KAVLING" <=> successors(c) # {}
        /\ OneOf(successors(c))
        /\ \A n \in successors(c) :
              /\ sales_cases[n].consumer_id = sales_cases[c].consumer_id
              /\ sales_cases[n].branch_id = sales_cases[c].branch_id
              /\ sales_cases[n].unit_id # sales_cases[c].unit_id

\* A CLEAR check dated today would be the latest one of the case.
clearCheckCounts(c) ==
    \E date \in 1..MaxDate : latestForCase(latest_bi[c], date, "CLEAR").result = "CLEAR"

\* Some handler takes an ACTIVE case nearer to its BAST: the BAST after the Akad,
\* the Akad on a PPJB, a PPJB on its basis, the PSJB (after a CLEAR check for
\* KPR), or a submission and its approval, or the CASH Pemberkasan, on the PSJB.
canGoOn(c) ==
    \/ hasAkad(c) /\ ~ hasBast(c)
    \/ /\ ~ hasAkad(c)
       /\ \/ activePpjb(c) # {}
          \/ \E b \in BankProcess \cup {None} : ppjbBasis(c, b)
          \/ activePsjb(c) = {} /\ (biAllowsPsjb(c) \/ clearCheckCounts(c))
          \/ activePsjb(c) # {} /\ IF sales_cases[c].financing_type = "KPR_SUBSIDI"
                                   THEN approvalOf(c) = {} ELSE cashPemberkasan(c) = {}

\* The handlers' conditions never close ranks around a case: after any mix of
\* cancellations, reissues, late answers and edits of the financing type, an
\* ACTIVE case has a handler that takes it on.
NoCaseIsStuck == \A c \in Case : IsActive(c) => canGoOn(c)

-----------------------------------------------------------------------------
(* The inductive invariant.  By itself StageMatchesDocuments is not         *)
(* inductive: a cancellation empties the ACTIVE documents only if there is  *)
(* one at most, it moves the right case only if the document names one, and *)
(* a row yet to be inserted must not count for a case already.              *)

AbsentRowsAreBlank ==
    /\ \A c \in Case : ~ Exists(c) => stage(c) = "DATA_KONSUMEN"
    /\ \A s \in Submission : submissions[s].status = Absent =>
          submissions[s].sales_case_id = None
    /\ \A b \in BankProcess : bank_processes[b].response_type = Absent =>
          bank_processes[b].sales_case_id = None

\* With or without the administration's edits, a case is coherent: references,
\* unique documents, stage and Akad agree after every step of every handler.
SalesInvariant ==
    /\ TypeOK
    /\ AbsentRowsAreBlank
    /\ ReferencesStayInCase
    /\ OneActiveDocument
    /\ StageMatchesDocuments
    /\ AkadRestsOnLiveChain

-----------------------------------------------------------------------------
(* Action properties: what no handler may do to what is on record.         *)

\* A stage goes back only by one of the three corrections: a non-CLEAR check
\* at PSJB, the cancellation of the PSJB, the cancellation of the PPJB.
Corrections == { << "PSJB", "BI_CHECKING" >>, << "PEMBERKASAN", "PSJB" >>,
                 << "AKAD", "PPJB_DEV" >> }

StageGoesBackOnlyByCorrection ==
    [][\A c \in Case : isBeyond(stage(c), stage(c)') =>
          << stage(c), stage(c)' >> \in Corrections]_vars

\* Rows are history: a document keeps its links (a submission its PSJB, type and
\* number, a PPJB its approval), one with a status that is final (SUPERSEDED,
\* CANCELLED, CLOSED) never changes again, nor does an answer, an Akad or a BAST.
DocumentsAreHistory ==
    [][/\ \A p \in Psjb : psjbs[p].status # Absent =>
             /\ psjbs'[p].sales_case_id = psjbs[p].sales_case_id
             /\ psjbs[p].status # "ACTIVE" => psjbs'[p] = psjbs[p]
       /\ \A d \in Ppjb : ppjbs[d].status # Absent =>
             /\ ppjbs'[d].sales_case_id = ppjbs[d].sales_case_id
             /\ ppjbs'[d].bank_process_id = ppjbs[d].bank_process_id
             /\ ppjbs[d].status # "ACTIVE" => ppjbs'[d] = ppjbs[d]
       /\ \A s \in Submission : submissions[s].status # Absent =>
             /\ submissions'[s] = [submissions[s] EXCEPT !.status = submissions'[s].status]
             /\ submissions[s].status = "CLOSED" => submissions'[s] = submissions[s]
       /\ \A b \in BankProcess : bank_processes[b].response_type # Absent =>
             bank_processes'[b] = bank_processes[b]
       /\ \A c \in Case :
             /\ hasAkad(c) => akads'[c] = akads[c]
             /\ hasBast(c) => basts'[c] = basts[c]]_vars

\* After the Akad the sale is final: the case can only complete, its PPJB and
\* Akad stay, and its unit stays TERJUAL until the BAST.
ppjbsOf(c) == { d \in Ppjb : ppjbs[d].sales_case_id = c }

AkadIsFinal ==
    [][\A c \in Case : hasAkad(c) =>
          /\ akads'[c] = akads[c]
          /\ status(c)' \in {status(c), "COMPLETED"}
          /\ \A d \in ppjbsOf(c) : ppjbs'[d] = ppjbs[d]
          /\ status(c) = "ACTIVE" => unit_status'[sales_cases[c].unit_id] = "TERJUAL"]_vars

\* The documents of a case, as one value: of every table the rows that name it.
rowsOf(table, c) ==
    [ id \in { x \in DOMAIN table : table[x].sales_case_id = c } |-> table[id] ]

history(c) ==
    [ psjbs |-> rowsOf(psjbs, c), submissions |-> rowsOf(submissions, c),
      bank_processes |-> rowsOf(bank_processes, c), ppjbs |-> rowsOf(ppjbs, c),
      latest_bi |-> latest_bi[c], akad |-> akads[c], bast |-> basts[c] ]

Closed(c) == status(c) \notin {Absent, "ACTIVE"}

\* The one thing that still happens to a closed case, CancelPsjb: before any
\* submission its ACTIVE PSJB is cancelled and its stage goes back.
PsjbOfClosedCaseCancelled(c) ==
    /\ stage(c) = "PEMBERKASAN" /\ submissionsOf(c) = {}
    /\ sales_cases'[c] = [sales_cases[c] EXCEPT !.current_stage = "PSJB"]
    /\ \E p \in activePsjb(c) :
          history(c)' = [history(c) EXCEPT !.psjbs[p].status = "CANCELLED"]

\* The edit page writes two columns of its case, and nothing else.
EditedOnItsPage(c) ==
    /\ \E f \in FinancingType, t \in BOOLEAN :
          sales_cases' = [sales_cases EXCEPT ![c].financing_type = f, ![c].trashed = t]
    /\ UNCHANGED << unit_status, documents >>

\* A closed case stays as it is, whatever handlers and edits do to others: its row,
\* with status, unit and consumer, and the documents that name it, none more and
\* none changed.  Its own edit page and CancelPsjb are all that reaches it.
ClosedCaseGainsNothing ==
    [][\A c \in Case : Closed(c) =>
          \/ sales_cases'[c] = sales_cases[c] /\ history(c)' = history(c)
          \/ PsjbOfClosedCaseCancelled(c)
          \/ EditedOnItsPage(c)]_vars

-----------------------------------------------------------------------------
(* The abstract view: the tables implement UnitSale.                       *)

phaseOf(c) ==
    CASE status(c) = Absent      -> "NONE"
      [] status(c) = "ACTIVE"    -> IF hasAkad(c) THEN "SOLD" ELSE "OPEN"
      [] status(c) = "COMPLETED" -> "HANDED_OVER"
      [] OTHER                   -> "CLOSED"

dealOf == [c \in Case |-> [phase |-> phaseOf(c), unit |-> sales_cases[c].unit_id,
                           consumer |-> sales_cases[c].consumer_id]]

Sale == INSTANCE UnitSale WITH deal <- dealOf

\* Every step of every handler, and every edit, books, closes, moves, sells or
\* hands over a deal as UnitSale allows, or changes nothing it speaks of.
ImplementsUnitSale == Sale!Spec

-----------------------------------------------------------------------------
(* What the documentation says and the code does not keep.                 *)

\* docs/MASTER_BUILD_PACK.md: "old history is immutable" - nothing of a closed
\* case changes.  CancelPsjb does not look at the case's status.
OldHistoryIsImmutable ==
    [][\A c \in Case : Closed(c) =>
          sales_cases'[c] = sales_cases[c] /\ history(c)' = history(c)]_vars

\* SalesCase::daysInCurrentStage: at BI_CHECKING the latest BI is non-CLEAR, at
\* PSJB the latest BI is the CLEAR check that advanced the case.
StageTellsLatestBi ==
    \A c \in Case :
        /\ stage(c) = "BI_CHECKING" => latest_bi[c].result # "CLEAR"
        /\ stage(c) = "PSJB" => latest_bi[c].result = "CLEAR"

=============================================================================
