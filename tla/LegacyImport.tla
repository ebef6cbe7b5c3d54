---------------------------- MODULE LegacyImport ----------------------------
(***************************************************************************)
(* The import of the old spreadsheets (LegacyMigrationImportService), run  *)
(* next to the handlers: rows it writes are what the handlers start from.  *)
(*                                                                         *)
(* A plan is a sequence of candidates, each the history of one case: the   *)
(* rows of each sheet in source order, with the ids their import creates.  *)
(* It follows the operations LegacyMigrationPlanService::generate derives  *)
(* from a candidate.  Preflight is left out: it looks at the tables before *)
(* a backup of any length, passes while they are empty, and the import     *)
(* itself does not look again, so no import is ruled out by it.            *)
(***************************************************************************)
EXTENDS SalesOperations, FiniteSetsExt, Sequences

CONSTANT Plans      \* the plans that may be imported, by the case of their first candidate

\* A text of a sheet the import does not know.
Other == "OTHER"

Candidate ==
    [ case : Case, unit : Unit, consumer : Consumer, previous : Case \cup {None},
      lifecycle : CaseStatus \ {"CANCELLED"}, financing : FinancingType,
      bi : Seq([date : (1..MaxDate) \cup {None}, result : BiCheckResult \cup {None, Other}]),
      psjbs : Seq([id : Psjb, status : DocumentStatus \cup {Other}]),
      submissions : Seq(Submission),
      processes : Seq([id : BankProcess, submission : Submission,
                       response : BankResponseType, sp3k : BOOLEAN]),
      ppjbs : Seq(Ppjb), akad : BOOLEAN, bast : BOOLEAN ]

\* The rows of the bank's sheet name a submission of their own candidate: planning
\* a candidate fails otherwise.
ASSUME PlansAssumption ==
    \A c \in Case : \A plan \in Plans[c] :
        /\ plan \in Seq(Candidate)
        /\ \A i \in DOMAIN plan : \A j \in DOMAIN plan[i].processes :
              plan[i].processes[j].submission \in Range(plan[i].submissions)

-----------------------------------------------------------------------------
(* One row of a sheet. *)

\* A missing date sorts before every date: ORDER BY check_date DESC puts NULL first.
Dateless == MaxDate + 1
biDate(row) == IF row.date = None THEN Dateless ELSE row.date

\* An empty result is planned as CLEAR, an unknown one imported as REVIEW.
biResult(result) ==
    IF result = None THEN "CLEAR" ELSE IF result \in BiCheckResult THEN result ELSE "REVIEW"

\* The check of the latest date, and of the most recent insertion among equals.
latestChecks(k) ==
    { i \in DOMAIN k.bi : \A j \in DOMAIN k.bi :
        \/ biDate(k.bi[j]) < biDate(k.bi[i])
        \/ biDate(k.bi[j]) = biDate(k.bi[i]) /\ j <= i }

importedBi(k) ==
    IF latestChecks(k) = {} THEN [check_date |-> 0, result |-> Absent]
    ELSE LET row == k.bi[CHOOSE i \in latestChecks(k) : TRUE]
         IN  [check_date |-> biDate(row), result |-> biResult(row.result)]

importedPsjb(k, row) ==
    [ sales_case_id |-> k.case,
      status |-> IF row.status \in {"SUPERSEDED", "CANCELLED"} THEN row.status ELSE "ACTIVE" ]

\* Submissions hang on the last PSJB of the sheet, whatever its status.
lastPsjb(k) == IF k.psjbs = << >> THEN None ELSE k.psjbs[Len(k.psjbs)].id
importedType(k) == IF k.financing = "CASH" THEN "CASH_INTERNAL" ELSE "BANK"

importedSubmission(k, i) ==
    [ sales_case_id |-> k.case, psjb_id |-> lastPsjb(k), type |-> importedType(k),
      sequence |-> i, status |-> "SUBMITTED" ]

\* Bank processes are planned for KPR only; the last approval that has its SP3K
\* number is authoritative.
processRows(k) == IF k.financing = "KPR_SUBSIDI" THEN k.processes ELSE << >>

approvals(k) ==
    { i \in DOMAIN processRows(k) :
        processRows(k)[i].response = "APPROVED" /\ processRows(k)[i].sp3k }
authoritative(k) == { i \in approvals(k) : \A j \in approvals(k) : j <= i }

importedProcess(k, i) ==
    [ sales_case_id |-> k.case, document_submission_id |-> processRows(k)[i].submission,
      response_type |-> processRows(k)[i].response, is_authoritative |-> i \in authoritative(k) ]

\* Mutant: the PPJB names the last response instead of the authoritative one.
importedPpjbOfLastResponse(k) ==
    [ sales_case_id |-> k.case, status |-> "ACTIVE",
      bank_process_id |-> IF processRows(k) = << >> THEN None
                          ELSE processRows(k)[Len(processRows(k))].id ]

importedPpjb(k) ==
    [ sales_case_id |-> k.case, status |-> "ACTIVE",
      bank_process_id |-> IF authoritative(k) = {} THEN None
                          ELSE processRows(k)[CHOOSE i \in authoritative(k) : TRUE].id ]

\* An Akad names the last PPJB of its candidate, a BAST the candidate's Akad.
importedAkad(k) == IF k.akad THEN k.ppjbs[Len(k.ppjbs)] ELSE None
importedBast(k) == IF k.bast THEN k.case ELSE None

-----------------------------------------------------------------------------
(* One candidate. *)

\* Mutant: any response takes the case to the PPJB, as only an approval should.
importedStageAhead(k) ==
    IF k.lifecycle = "COMPLETED"     THEN "COMPLETED"
    ELSE IF k.bast                   THEN "BAST"
    ELSE IF k.akad                   THEN "AKAD"
    ELSE IF k.ppjbs # << >>          THEN "PPJB_DEV"
    ELSE IF processRows(k) # << >>   THEN "PPJB_DEV"
    ELSE IF k.submissions # << >>    THEN "PEMBERKASAN"
    ELSE IF k.psjbs # << >>          THEN "PSJB"
    ELSE "DATA_KONSUMEN"

\* Every document writes its own stage, where a handler would write the stage
\* after it, and SetFinalLifecycle completes a case; the last one to write counts.
importedStage(k) ==
    IF k.lifecycle = "COMPLETED"     THEN "COMPLETED"
    ELSE IF k.bast                   THEN "BAST"
    ELSE IF k.akad                   THEN "AKAD"
    ELSE IF k.ppjbs # << >>          THEN "PPJB_DEV"
    ELSE IF processRows(k) # << >>   THEN "PROSES_BANK"
    ELSE IF k.submissions # << >>    THEN "PEMBERKASAN"
    ELSE IF k.psjbs # << >>          THEN "PSJB"
    ELSE "DATA_KONSUMEN"

importedCase(k) ==
    [ case_status |-> k.lifecycle, current_stage |-> importedStage(k),
      financing_type |-> k.financing, unit_id |-> k.unit, consumer_id |-> k.consumer,
      branch_id |-> UnitBranch[k.unit], previous_case_id |-> k.previous, trashed |-> FALSE ]

\* Mutant: the unit of an ACTIVE case stays on sale.
finalUnitStateOnSale(lifecycle) == IF lifecycle = "COMPLETED" THEN "TERJUAL" ELSE "TERSEDIA"

finalUnitState(lifecycle) ==
    CASE lifecycle = "COMPLETED" -> "TERJUAL"
      [] lifecycle = "ACTIVE"    -> "BOOKING"
      [] OTHER                   -> "TERSEDIA"

-----------------------------------------------------------------------------
(* The rows a plan inserts, each with its id. *)

Row(id, row) == [id |-> id, row |-> row]

caseRows(plan) == { Row(k.case, importedCase(k)) : k \in Range(plan) }
biRows(plan) == { Row(k.case, importedBi(k)) : k \in Range(plan) }
psjbRows(plan) ==
    UNION { { Row(k.psjbs[i].id, importedPsjb(k, k.psjbs[i])) : i \in DOMAIN k.psjbs }
            : k \in Range(plan) }
submissionRows(plan) ==
    UNION { { Row(k.submissions[i], importedSubmission(k, i)) : i \in DOMAIN k.submissions }
            : k \in Range(plan) }
bankRows(plan) ==
    UNION { { Row(processRows(k)[i].id, importedProcess(k, i)) : i \in DOMAIN processRows(k) }
            : k \in Range(plan) }
ppjbRows(plan) ==
    UNION { { Row(k.ppjbs[i], importedPpjb(k)) : i \in DOMAIN k.ppjbs } : k \in Range(plan) }

akadRows(plan) == { Row(k.case, importedAkad(k)) : k \in Range(plan) }
bastRows(plan) == { Row(k.case, importedBast(k)) : k \in Range(plan) }

insert(table, rows) ==
    [ id \in DOMAIN table |-> IF \E r \in rows : r.id = id
                              THEN (CHOOSE r \in rows : r.id = id).row ELSE table[id] ]

\* Candidates of one unit write its status in the order of the plan.
statusAfter(plan) ==
    [ u \in Unit |-> LET of == { i \in DOMAIN plan : plan[i].unit = u }
                     IN  IF of = {} THEN unit_status[u]
                         ELSE finalUnitState(plan[Max(of)].lifecycle) ]

-----------------------------------------------------------------------------
(* The import. *)

\* Every row to insert has an id of its own, which no row has had.
Fresh(plan) ==
    /\ \A k, l \in Range(plan) : k.case = l.case => k = l
    /\ \A rows \in { psjbRows(plan), submissionRows(plan), bankRows(plan), ppjbRows(plan) } :
          \A r, t \in rows : r.id = t.id => r = t
    /\ \A k \in Range(plan) : ~ Exists(k.case)
    /\ \A r \in psjbRows(plan) : psjbs[r.id].status = Absent
    /\ \A r \in submissionRows(plan) : submissions[r.id].status = Absent
    /\ \A r \in bankRows(plan) : bank_processes[r.id].response_type = Absent
    /\ \A r \in ppjbRows(plan) : ppjbs[r.id].status = Absent

\* The references that may not be null, and a predecessor that must be in the plan.
Resolvable(plan) ==
    \A k \in Range(plan) :
        /\ k.akad => k.ppjbs # << >>
        /\ k.bast => k.akad
        /\ k.previous = None \/ \E l \in Range(plan) : l.case = k.previous

\* Mutant: the documents have no unique indexes.
UniqueIndexesOfCases == OneActiveCase

\* What the database enforces over all rows: the partial unique indexes.
UniqueIndexes == OneActiveCase /\ OneActiveDocument

\* One transaction for the whole plan: a violated index rolls all of it back.
Import(plan) ==
    /\ Fresh(plan)
    /\ Resolvable(plan)
    /\ sales_cases' = insert(sales_cases, caseRows(plan))
    /\ unit_status' = statusAfter(plan)
    /\ latest_bi' = insert(latest_bi, biRows(plan))
    /\ psjbs' = insert(psjbs, psjbRows(plan))
    /\ submissions' = insert(submissions, submissionRows(plan))
    /\ bank_processes' = insert(bank_processes, bankRows(plan))
    /\ ppjbs' = insert(ppjbs, ppjbRows(plan))
    /\ akads' = insert(akads, akadRows(plan))
    /\ basts' = insert(basts, bastRows(plan))
    /\ UniqueIndexes'

ImportNext ==
    \/ Next
    \/ \E c \in Case : ~ Exists(c) /\ \E plan \in Plans[c] : Import(plan)

ImportSpec == Init /\ [][ImportNext]_vars

-----------------------------------------------------------------------------
(* Properties: what the handlers find in an imported database, and leave.   *)

\* An import writes the stage of the last document, a handler the stage after
\* it, so an ACTIVE case may be behind its documents; it is never ahead of them,
\* or a handler would accept a step whose ground is missing.
StageNeverAheadOfDocuments ==
    \A c \in Case : status(c) = "ACTIVE" =>
        /\ atOrBeyond(c, "BAST") => hasAkad(c)
        /\ atOrBeyond(c, "AKAD") => hasAkad(c) \/ activePpjb(c) # {}
        /\ atOrBeyond(c, "PPJB_DEV") =>
              ppjbsOf(c) # {} \/ approvalOf(c) # {} \/ cashPemberkasan(c) # {}
        /\ atOrBeyond(c, "PEMBERKASAN") =>
              activePsjb(c) # {} \/ submissionsOf(c) # {} \/ ppjbsOf(c) # {}

\* Rows of several candidates are written in one pass over one list of keys, and
\* handlers build on them: a row still refers only to rows of its own case, a
\* PPJB to the authoritative approval, an Akad to an ACTIVE PPJB.
ImportedReferencesStayInCase ==
    /\ \A s \in Submission : (submissions[s].status # Absent /\ submissions[s].psjb_id # None) =>
          psjbs[submissions[s].psjb_id].sales_case_id = submissions[s].sales_case_id
    /\ ProcessLinks
    /\ PpjbLinks
    /\ \A c \in Case :
          /\ hasAkad(c) => akads[c] \in activePpjb(c)
          /\ hasBast(c) => hasAkad(c)

\* Three ways an imported case ends in a state no handler leads out of: a CASH
\* Pemberkasan without the stage its handler would have given the case, a BI
\* check without a date that stays the latest for ever, and a BAST on a case
\* whose row says ACTIVE.
cashWithoutStage(c) ==
    /\ sales_cases[c].financing_type = "CASH"
    /\ cashPemberkasan(c) # {}
    /\ ~ isBeyond(stage(c), "PEMBERKASAN")
datelessBi(c) == latest_bi[c].check_date = Dateless /\ latest_bi[c].result # "CLEAR"

\* No other case is ever stuck, whatever was imported and done before.
StuckOnlyAsKnown ==
    \A c \in Case : IsActive(c) /\ ~ canGoOn(c) =>
        cashWithoutStage(c) \/ datelessBi(c) \/ hasBast(c)

\* A unit under an ACTIVE case is on sale only if a closed case of the same unit is
\* on record: the last candidate of a plan writes the unit's status, an import of
\* ACTIVE cases alone leaves no unit on sale.
UnitOnSaleOnlyWithClosedCandidate ==
    \A c \in Case :
        (status(c) = "ACTIVE" /\ unit_status[sales_cases[c].unit_id] = "TERSEDIA") =>
            \E d \in casesOn(sales_cases[c].unit_id) : Closed(d)

-----------------------------------------------------------------------------
(* The inductive invariant: the types, which an import widens, the rows not *)
(* yet inserted, and what the database and the import keep of the others.   *)

\* A check without a date, and a submission numbered by its row of the sheet.
ImportTypeOK ==
    /\ sales_cases \in [Case -> CaseRow]
    /\ unit_status \in [Unit -> UnitStatus]
    /\ latest_bi \in [Case -> [check_date : 0..Dateless, result : BiCheckResult \cup {Absent}]]
    /\ psjbs \in [Psjb -> PsjbRow]
    /\ submissions \in
          [Submission -> [ sales_case_id : Case \cup {None}, psjb_id : Psjb \cup {None},
                           type : SubmissionType \cup {None}, sequence : Nat,
                           status : SubmissionStatus \cup {Absent} ]]
    /\ bank_processes \in [BankProcess -> ProcessRow]
    /\ ppjbs \in [Ppjb -> PpjbRow]
    /\ akads \in [Case -> Ppjb \cup {None}]
    /\ basts \in [Case -> Case \cup {None}]

\* A case has a unit, a document names a PSJB that is there, and a row yet to be
\* inserted belongs to no case, so that no import can slip under a document.
RowsHangTogether ==
    /\ \A c \in Case : Exists(c) => sales_cases[c].unit_id \in Unit
    /\ \A s \in Submission : (submissions[s].status # Absent /\ submissions[s].psjb_id # None) =>
          psjbs[submissions[s].psjb_id].status # Absent
    /\ \A s \in Submission : submissions[s].status = Absent =>
          submissions[s].sales_case_id = None
    /\ \A b \in BankProcess : bank_processes[b].response_type = Absent =>
          bank_processes[b].sales_case_id = None
    /\ \A d \in Ppjb : ppjbs[d].status = Absent => ppjbs[d].sales_case_id = None

\* Imports and handlers in any order keep all of it, and the unique indexes: a
\* plan with two ACTIVE rows for one case is rolled back as a whole.
ImportInvariant ==
    /\ ImportTypeOK
    /\ RowsHangTogether
    /\ OneActiveCase
    /\ OneActiveDocument
    /\ StageNeverAheadOfDocuments
    /\ ImportedReferencesStayInCase
    /\ UnitOnSaleOnlyWithClosedCandidate

-----------------------------------------------------------------------------
(* What the documentation says and the code does not keep.                 *)

\* docs/LEGACY_MIGRATION_JEPARA_MAPPING.md: "Alur target: PSJB -> CASH_INTERNAL
\* Pemberkasan (bank_id NULL) -> PPJB (bank_process_id NULL) -> Akad -> BAST": after
\* the Pemberkasan of a CASH case comes its PPJB.
CashFlowGoesOn ==
    \A c \in Case :
        ( /\ IsActive(c)
          /\ sales_cases[c].financing_type = "CASH"
          /\ activePsjb(c) # {} /\ cashPemberkasan(c) # {} /\ ppjbsOf(c) = {} )
            => ppjbBasis(c, None)

=============================================================================
