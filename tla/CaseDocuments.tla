---------------------------- MODULE CaseDocuments ----------------------------
(***************************************************************************)
(* The handlers that move a case along the pipeline, from the BI check to  *)
(* the BAST.  Each runs in one transaction that starts by locking the case *)
(* row (CancelPsjb and CancelDeveloperPpjb lock the document first), so    *)
(* each is one action.  Document ids are chosen among the unused ones.     *)
(***************************************************************************)
EXTENDS SalesTables

SetStage(c, s) == sales_cases' = [sales_cases EXCEPT ![c].current_stage = s]

-----------------------------------------------------------------------------
(* BI checking.  Checks may be back-dated; the latest one is that of the   *)
(* latest date, and of the most recent insertion among equals.             *)

\* Mutant: among checks of one date the first one counts.
latestForCaseFirstWins(previous, date, result) ==
    IF date > previous.check_date THEN [check_date |-> date, result |-> result]
    ELSE previous

latestForCase(previous, date, result) ==
    IF date >= previous.check_date THEN [check_date |-> date, result |-> result]
    ELSE previous

\* Mutant: a late non-CLEAR check sends any case back.
stageAfterBiCheckAnyStage(s, result) ==
    IF result = "CLEAR" THEN advanceStageTo(s, "PSJB") ELSE "BI_CHECKING"

stageAfterBiCheck(s, result) ==
    IF result = "CLEAR" THEN advanceStageTo(s, "PSJB")
    ELSE IF isBeyond(s, "PSJB") THEN s ELSE "BI_CHECKING"

RecordBiCheck(c, date, result) ==
    /\ IsActive(c)
    /\ latest_bi' = [latest_bi EXCEPT ![c] = latestForCase(@, date, result)]
    /\ SetStage(c, stageAfterBiCheck(stage(c), result))
    /\ UNCHANGED << unit_status, psjbs, submissions, bank_processes, ppjbs, akads, basts >>

-----------------------------------------------------------------------------
(* PSJB. *)

NewPsjb(c) == [sales_case_id |-> c, status |-> "ACTIVE"]

biAllowsPsjb(c) ==
    sales_cases[c].financing_type = "KPR_SUBSIDI" => latest_bi[c].result = "CLEAR"

CreatePsjb(c, p) ==
    /\ IsActive(c)
    /\ psjbs[p].status = Absent
    /\ biAllowsPsjb(c)
    /\ activePsjb(c) = {}
    /\ psjbs' = [psjbs EXCEPT ![p] = NewPsjb(c)]
    /\ SetStage(c, advanceStageTo(stage(c), "PEMBERKASAN"))
    /\ UNCHANGED << unit_status, latest_bi, submissions, bank_processes, ppjbs, akads, basts >>

ReissuePsjb(c, old, p) ==
    /\ IsActive(c)
    /\ old \in activePsjb(c)
    /\ psjbs[p].status = Absent
    /\ psjbs' = [psjbs EXCEPT ![old].status = "SUPERSEDED", ![p] = NewPsjb(c)]
    /\ SetStage(c, advanceStageTo(stage(c), "PEMBERKASAN"))
    /\ UNCHANGED << unit_status, latest_bi, submissions, bank_processes, ppjbs, akads, basts >>

\* Found from the document; the status of the case is not looked at.
CancelPsjb(p) ==
    LET c == psjbs[p].sales_case_id IN
    /\ psjbs[p].status = "ACTIVE"
    /\ Found(c)
    /\ \A s \in Submission : submissions[s].psjb_id # p
    /\ ~ isBeyond(stage(c), "PEMBERKASAN")
    /\ psjbs' = [psjbs EXCEPT ![p].status = "CANCELLED"]
    /\ SetStage(c, "PSJB")
    /\ UNCHANGED << unit_status, latest_bi, submissions, bank_processes, ppjbs, akads, basts >>

-----------------------------------------------------------------------------
(* Pemberkasan and the bank. *)

NewSubmission(c, p, type, n) ==
    [sales_case_id |-> c, psjb_id |-> p, type |-> type, sequence |-> n, status |-> "SUBMITTED"]

CreateDocumentSubmission(c, p, s, n) ==
    /\ IsActive(c)
    /\ sales_cases[c].financing_type = "KPR_SUBSIDI"
    /\ p \in activePsjb(c)
    /\ submissions[s].status = Absent
    /\ isNextSequence(c, n)
    /\ submissions' = [submissions EXCEPT ![s] = NewSubmission(c, p, "BANK", n)]
    /\ SetStage(c, advanceStageTo(stage(c), "PROSES_BANK"))
    /\ UNCHANGED << unit_status, latest_bi, psjbs, bank_processes, ppjbs, akads, basts >>

\* Mutant: the financing of the case is not looked at.
CompleteCashPemberkasanAnyFinancing(c, p, s, n) ==
    /\ IsActive(c)
    /\ p \in activePsjb(c)
    /\ cashPemberkasan(c) = {}
    /\ submissions[s].status = Absent
    /\ isNextSequence(c, n)
    /\ submissions' = [submissions EXCEPT ![s] = NewSubmission(c, p, "CASH_INTERNAL", n)]
    /\ SetStage(c, advanceStageTo(stage(c), "PPJB_DEV"))
    /\ UNCHANGED << unit_status, latest_bi, psjbs, bank_processes, ppjbs, akads, basts >>

CompleteCashPemberkasan(c, p, s, n) ==
    /\ IsActive(c)
    /\ sales_cases[c].financing_type = "CASH"
    /\ p \in activePsjb(c)
    /\ cashPemberkasan(c) = {}
    /\ submissions[s].status = Absent
    /\ isNextSequence(c, n)
    /\ submissions' = [submissions EXCEPT ![s] = NewSubmission(c, p, "CASH_INTERNAL", n)]
    /\ SetStage(c, advanceStageTo(stage(c), "PPJB_DEV"))
    /\ UNCHANGED << unit_status, latest_bi, psjbs, bank_processes, ppjbs, akads, basts >>

\* Mutant: a response after the approval reopens the submission.
RecordBankResponseReopening(c, s, b, response) ==
    LET approved == response = "APPROVED" IN
    /\ IsActive(c)
    /\ sales_cases[c].financing_type = "KPR_SUBSIDI"
    /\ s \in submissionsOf(c)
    /\ submissions[s].type = "BANK"
    /\ approved => approvalOf(c) = {}
    /\ bank_processes[b].response_type = Absent
    /\ bank_processes' = [bank_processes EXCEPT ![b] =
          [sales_case_id |-> c, document_submission_id |-> s,
           response_type |-> response, is_authoritative |-> approved]]
    /\ submissions' = [submissions EXCEPT ![s].status = IF approved THEN "CLOSED" ELSE "PROCESSING"]
    /\ SetStage(c, advanceStageTo(stage(c), IF approved THEN "PPJB_DEV" ELSE "PROSES_BANK"))
    /\ UNCHANGED << unit_status, latest_bi, psjbs, ppjbs, akads, basts >>

\* Mutant: the submission of another case is accepted.
RecordBankResponseOfAnyCase(c, s, b, response) ==
    LET approved == response = "APPROVED" IN
    /\ IsActive(c)
    /\ sales_cases[c].financing_type = "KPR_SUBSIDI"
    /\ submissions[s].type = "BANK"
    /\ approved => approvalOf(c) = {}
    /\ bank_processes[b].response_type = Absent
    /\ bank_processes' = [bank_processes EXCEPT ![b] =
          [sales_case_id |-> c, document_submission_id |-> s,
           response_type |-> response, is_authoritative |-> approved]]
    /\ submissions' = [submissions EXCEPT ![s].status =
          IF approved THEN "CLOSED" ELSE IF @ = "SUBMITTED" THEN "PROCESSING" ELSE @]
    /\ SetStage(c, advanceStageTo(stage(c), IF approved THEN "PPJB_DEV" ELSE "PROSES_BANK"))
    /\ UNCHANGED << unit_status, latest_bi, psjbs, ppjbs, akads, basts >>

\* The submission's status is not a condition: a CLOSED one takes responses too.
RecordBankResponse(c, s, b, response) ==
    LET approved == response = "APPROVED" IN
    /\ IsActive(c)
    /\ sales_cases[c].financing_type = "KPR_SUBSIDI"
    /\ s \in submissionsOf(c)
    /\ submissions[s].type = "BANK"
    /\ approved => approvalOf(c) = {}
    /\ bank_processes[b].response_type = Absent
    /\ bank_processes' = [bank_processes EXCEPT ![b] =
          [sales_case_id |-> c, document_submission_id |-> s,
           response_type |-> response, is_authoritative |-> approved]]
    /\ submissions' = [submissions EXCEPT ![s].status =
          IF approved THEN "CLOSED" ELSE IF @ = "SUBMITTED" THEN "PROCESSING" ELSE @]
    /\ SetStage(c, advanceStageTo(stage(c), IF approved THEN "PPJB_DEV" ELSE "PROSES_BANK"))
    /\ UNCHANGED << unit_status, latest_bi, psjbs, ppjbs, akads, basts >>

-----------------------------------------------------------------------------
(* PPJB with the developer. *)

NewPpjb(c, b) == [sales_case_id |-> c, bank_process_id |-> b, status |-> "ACTIVE"]

\* What the PPJB must rest on: the bank process b it records, or None for CASH.
ppjbBasis(c, b) ==
    IF sales_cases[c].financing_type = "KPR_SUBSIDI"
    THEN b \in approvalOf(c)
    ELSE /\ b = None
         /\ activePsjb(c) # {}
         /\ cashPemberkasan(c) # {}
         /\ isBeyond(stage(c), "PEMBERKASAN")

CreateDeveloperPpjb(c, d, b) ==
    /\ IsActive(c)
    /\ ppjbs[d].status = Absent
    /\ activePpjb(c) = {}
    /\ ppjbBasis(c, b)
    /\ ppjbs' = [ppjbs EXCEPT ![d] = NewPpjb(c, b)]
    /\ SetStage(c, advanceStageTo(stage(c), "AKAD"))
    /\ UNCHANGED << unit_status, latest_bi, psjbs, submissions, bank_processes, akads, basts >>

\* Mutant: the PPJB of a case past its Akad is replaced.
ReissueDeveloperPpjbAfterAkad(c, old, d) ==
    /\ IsActive(c)
    /\ old \in activePpjb(c)
    /\ ppjbs[d].status = Absent
    /\ ppjbs' = [ppjbs EXCEPT ![old].status = "SUPERSEDED",
                              ![d] = NewPpjb(c, ppjbs[old].bank_process_id)]
    /\ SetStage(c, advanceStageTo(stage(c), "AKAD"))
    /\ UNCHANGED << unit_status, latest_bi, psjbs, submissions, bank_processes, akads, basts >>

ReissueDeveloperPpjb(c, old, d) ==
    /\ IsActive(c)
    /\ ~ hasAkad(c)
    /\ old \in activePpjb(c)
    /\ ppjbs[d].status = Absent
    /\ ppjbs' = [ppjbs EXCEPT ![old].status = "SUPERSEDED",
                              ![d] = NewPpjb(c, ppjbs[old].bank_process_id)]
    /\ SetStage(c, advanceStageTo(stage(c), "AKAD"))
    /\ UNCHANGED << unit_status, latest_bi, psjbs, submissions, bank_processes, akads, basts >>

\* Mutant: the case keeps its stage.
CancelDeveloperPpjbKeepingStage(d) ==
    LET c == ppjbs[d].sales_case_id IN
    /\ ppjbs[d].status = "ACTIVE"
    /\ IsActive(c)
    /\ ~ hasAkad(c)
    /\ ppjbs' = [ppjbs EXCEPT ![d].status = "CANCELLED"]
    /\ UNCHANGED << sales_cases, unit_status, latest_bi, psjbs, submissions, bank_processes,
                    akads, basts >>

\* Mutant: a superseded PPJB is cancelled too.
CancelDeveloperPpjbAnyStatus(d) ==
    LET c == ppjbs[d].sales_case_id IN
    /\ ppjbs[d].status # Absent
    /\ IsActive(c)
    /\ ~ hasAkad(c)
    /\ ppjbs' = [ppjbs EXCEPT ![d].status = "CANCELLED"]
    /\ SetStage(c, IF isBeyond(stage(c), "AKAD") THEN stage(c) ELSE "PPJB_DEV")
    /\ UNCHANGED << unit_status, latest_bi, psjbs, submissions, bank_processes, akads, basts >>

\* Mutant: the case goes back to the Pemberkasan, which it has already.
CancelDeveloperPpjbToPemberkasan(d) ==
    LET c == ppjbs[d].sales_case_id IN
    /\ ppjbs[d].status = "ACTIVE"
    /\ IsActive(c)
    /\ ~ hasAkad(c)
    /\ ppjbs' = [ppjbs EXCEPT ![d].status = "CANCELLED"]
    /\ SetStage(c, IF isBeyond(stage(c), "AKAD") THEN stage(c) ELSE "PEMBERKASAN")
    /\ UNCHANGED << unit_status, latest_bi, psjbs, submissions, bank_processes, akads, basts >>

CancelDeveloperPpjb(d) ==
    LET c == ppjbs[d].sales_case_id IN
    /\ ppjbs[d].status = "ACTIVE"
    /\ IsActive(c)
    /\ ~ hasAkad(c)
    /\ ppjbs' = [ppjbs EXCEPT ![d].status = "CANCELLED"]
    /\ SetStage(c, IF isBeyond(stage(c), "AKAD") THEN stage(c) ELSE "PPJB_DEV")
    /\ UNCHANGED << unit_status, latest_bi, psjbs, submissions, bank_processes, akads, basts >>

-----------------------------------------------------------------------------
(* Akad and BAST. *)

SellUnit(c) == unit_status' = [unit_status EXCEPT ![sales_cases[c].unit_id] = "TERJUAL"]

CreateAkad(c, d) ==
    /\ IsActive(c)
    /\ ~ hasAkad(c)
    /\ ppjbs[d].sales_case_id = c
    /\ ppjbs[d].status = "ACTIVE"
    /\ akads' = [akads EXCEPT ![c] = d]
    /\ SetStage(c, advanceStageTo(stage(c), "BAST"))
    /\ SellUnit(c)
    /\ UNCHANGED << latest_bi, psjbs, submissions, bank_processes, ppjbs, basts >>

\* akad is the Akad named in the request, identified by its case.
CreateBast(c, akad) ==
    /\ IsActive(c)
    /\ ~ hasBast(c)
    /\ hasAkad(akad)
    /\ akad = c
    /\ basts' = [basts EXCEPT ![c] = akad]
    /\ sales_cases' = [sales_cases EXCEPT ![c].current_stage = "COMPLETED",
                                          ![c].case_status = "COMPLETED"]
    /\ SellUnit(c)
    /\ UNCHANGED << latest_bi, psjbs, submissions, bank_processes, ppjbs, akads >>

=============================================================================
