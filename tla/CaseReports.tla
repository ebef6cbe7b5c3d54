----------------------------- MODULE CaseReports -----------------------------
(***************************************************************************)
(* What pages and dashboards derive from the tables of a case: the stepper *)
(* of its stages, the record its days in the stage count from, and the     *)
(* SP3K stock of the monitoring page.  Each reads documents where another  *)
(* part of the program reads the stage column, so they agree only if stage *)
(* and documents do.  A report has no state.  Periods, scopes, the aging   *)
(* buckets, which only compare dates, and the readiness of the houses are  *)
(* left out.                                                               *)
(***************************************************************************)
EXTENDS SalesOperations

isCash(c) == sales_cases[c].financing_type = "CASH"

-----------------------------------------------------------------------------
(* The stepper. *)

\* The stages the stepper shows: a CASH case has no BI check and no bank.
stagesShown(c) == Stage \ IF isCash(c) THEN { "BI_CHECKING", "PROSES_BANK" } ELSE {}

\* Some document of the stage is on record, in whatever status.
evidence(c, s) ==
    CASE s = "DATA_KONSUMEN" -> TRUE
      [] s = "BI_CHECKING"   -> latest_bi[c].result # Absent
      [] s = "PSJB"          -> \E p \in Psjb : psjbs[p].sales_case_id = c
      [] s = "PEMBERKASAN"   -> submissionsOf(c) # {}
      [] s = "PROSES_BANK"   -> \E b \in BankProcess : bank_processes[b].sales_case_id = c
      [] s = "PPJB_DEV"      -> ppjbsOf(c) # {}
      [] s = "AKAD"          -> hasAkad(c)
      [] s = "BAST"          -> hasBast(c)
      [] s = "COMPLETED"     -> status(c) = "COMPLETED"

stageProgress(c) ==
    [ s \in stagesShown(c) |->
        IF s = stage(c) THEN "current" ELSE IF evidence(c, s) THEN "done" ELSE "upcoming" ]

-----------------------------------------------------------------------------
(* The days in the current stage. *)

\* What the days can count from: rows of a relation of the case, a column of the
\* case itself, or nothing.
NoDate == "null"

hasRows(c, relation) ==
    CASE relation = "biChecks"                   -> evidence(c, "BI_CHECKING")
      [] relation = "psjbs"                      -> evidence(c, "PSJB")
      [] relation = "documentSubmissions"        -> evidence(c, "PEMBERKASAN")
      [] relation = "currentApprovedBankProcess" -> approvalOf(c) # {}
      [] relation = "developerPpjbs"             -> evidence(c, "PPJB_DEV")
      [] relation = "akad"                       -> hasAkad(c)
      [] relation = "bast"                       -> hasBast(c)

\* A page that loads its cases by the query of the resource has the latest date
\* of each relation with them, under a name in snake case (withMax).  The model
\* looks for the relation's own name, which is the same for three of the seven.
foundAgain == { "psjbs", "akad", "bast" }

eagerMaxDate(c, relation, loaded) ==
    IF loaded /\ relation \in foundAgain /\ hasRows(c, relation) THEN relation ELSE NoDate

\* Asks the table if there is no such attribute.
aggregateDate(c, relation) == IF hasRows(c, relation) THEN relation ELSE NoDate

orElse(date, other) == IF date # NoDate THEN date ELSE other

\* loaded: the case comes from the query of the resource, not from a plain one.
daysCountFrom(c, loaded) ==
    CASE stage(c) = "DATA_KONSUMEN"           -> "booking_date"
      [] stage(c) \in {"BI_CHECKING", "PSJB"} -> aggregateDate(c, "biChecks")
      [] stage(c) = "PEMBERKASAN"             -> aggregateDate(c, "psjbs")
      [] stage(c) = "PROSES_BANK"             -> aggregateDate(c, "documentSubmissions")
      [] stage(c) = "PPJB_DEV"                ->
            orElse(IF isCash(c) THEN aggregateDate(c, "documentSubmissions")
                   ELSE eagerMaxDate(c, "currentApprovedBankProcess", loaded),
                   aggregateDate(c, "psjbs"))
      [] stage(c) = "AKAD"                    -> aggregateDate(c, "developerPpjbs")
      [] stage(c) = "BAST"                    -> eagerMaxDate(c, "akad", loaded)
      [] stage(c) = "COMPLETED"               ->
            orElse(eagerMaxDate(c, "bast", loaded), "closed_at")

-----------------------------------------------------------------------------
(* Monitoring. *)

\* The cases of the SP3K stock; an authoritative answer has its SP3K number and
\* date, which RecordBankResponse demands of an approval.
sp3kStock(c) ==
    /\ IsActive(c) /\ ~ isCash(c) /\ ~ hasAkad(c)
    /\ \E b \in approvalOf(c) : bank_processes[b].response_type = "APPROVED"

-----------------------------------------------------------------------------
(* Properties of the handlers alone (Spec).                                *)

\* The dashboard's SP3K stock, which reads documents, is what the stage column
\* calls it: the KPR cases between the bank's approval and the Akad.  A PPJB
\* cancelled, an approval answered late or another bank's rejection after it
\* neither hides a case from the dashboard nor leaves one on it.
StockAwaitsAkad ==
    \A c \in Case :
        sp3kStock(c) <=>
            IsActive(c) /\ ~ isCash(c) /\ stage(c) \in { "PPJB_DEV", "AKAD" }

\* Every stage has its records, after any corrections: the stepper shows every
\* stage before the current one as done.  The exception is a CASH case sent to
\* BI_CHECKING, a stage its stepper does not show.
StepperIsContinuous(c) ==
    \A s \in stagesShown(c) : isBeyond(stage(c), s) => stageProgress(c)[s] = "done"

\* What takes a case to its stage: the handler that records it advances the stage.
entryRecord(c) ==
    CASE stage(c) = "DATA_KONSUMEN"           -> "booking_date"
      [] stage(c) \in {"BI_CHECKING", "PSJB"} -> "biChecks"
      [] stage(c) = "PEMBERKASAN"             -> "psjbs"
      [] stage(c) = "PROSES_BANK"             -> "documentSubmissions"
      [] stage(c) = "PPJB_DEV"                ->
            IF isCash(c) THEN "documentSubmissions" ELSE "currentApprovedBankProcess"
      [] stage(c) = "AKAD"                    -> "developerPpjbs"
      [] stage(c) = "BAST"                    -> "akad"
      [] stage(c) = "COMPLETED"               -> "bast"

\* The days in the stage count from what took the case there, which the
\* corrections since have left on record, but: a KPR case at PPJB_DEV counts from
\* its PSJB; a CASH case back at PSJB may never have had a BI check; and without
\* the resource's query there is no date at BAST, and the closing at COMPLETED.
DaysCountFromEntry(c, loaded) ==
    \/ daysCountFrom(c, loaded) = entryRecord(c)
    \/ stage(c) = "PPJB_DEV" /\ ~ isCash(c) /\ daysCountFrom(c, loaded) = "psjbs"
    \/ stage(c) = "PSJB" /\ isCash(c) /\ daysCountFrom(c, loaded) = NoDate
    \/ ~ loaded /\ << stage(c), daysCountFrom(c, loaded) >>
                      \in { << "BAST", NoDate >>, << "COMPLETED", "closed_at" >> }

\* Both together: a stage's records stay, whatever was cancelled, reissued or
\* answered late, and the pages find them but for the exceptions named.
StageHasItsRecords ==
    \A c \in Case : Exists(c) =>
        /\ StepperIsContinuous(c)
        /\ stage(c) \in stagesShown(c) \/ (isCash(c) /\ stage(c) = "BI_CHECKING")
        /\ \A loaded \in BOOLEAN : DaysCountFromEntry(c, loaded)

-----------------------------------------------------------------------------
(* What the documentation says and the code does not keep.                 *)

\* SalesCase::daysInCurrentStage: "PPJB_DEV -> authoritative approval
\* response_date (KPR)".  The attribute it looks for has another name.
ApprovalStartsPpjbStage ==
    \A c \in Case :
        stage(c) = "PPJB_DEV" /\ ~ isCash(c) =>
            daysCountFrom(c, TRUE) = "currentApprovedBankProcess"

=============================================================================
