----------------------------- MODULE SalesTables -----------------------------
(***************************************************************************)
(* The tables behind a sales case: the rows the handlers of app/Actions    *)
(* read and write, and the queries they share (the relations of            *)
(* app/Models/SalesCase.php and the indexes of database/migrations).       *)
(*                                                                         *)
(* A table is a function from its (finite) set of ids to rows; a row whose *)
(* status is Absent has not been inserted.  Columns no property depends on *)
(* (names, document numbers, users, amounts) are left out; of the dates    *)
(* only the BI check's is kept, because it decides which check is latest.  *)
(***************************************************************************)
EXTENDS SalesCaseStage

CONSTANTS
    Case, Unit, Consumer,   \* ids of sales_cases, units and consumers
    Psjb, Submission,       \* ids of psjbs and document_submissions
    BankProcess, Ppjb,      \* ids of bank_processes and developer_ppjbs
    Branch, UnitBranch,     \* the branch of a unit's project (fixed)
    MaxDate,                \* BI checks are dated 1..MaxDate
    MaxSequence,            \* bound on the submissions of one case
    None                    \* the null reference

ASSUME TablesAssumption ==
    /\ UnitBranch \in [Unit -> Branch]
    /\ MaxDate \in Nat
    /\ MaxSequence \in Nat
    /\ None \notin Case \cup Unit \cup Consumer \cup Psjb \cup Submission
                   \cup BankProcess \cup Ppjb

VARIABLES
    sales_cases,            \* [Case -> CaseRow]
    unit_status,            \* units.status, [Unit -> UnitStatus]
    latest_bi,              \* the row BiCheck::latestForCase returns, per case
    psjbs,                  \* [Psjb -> PsjbRow]
    submissions,            \* document_submissions, [Submission -> SubmissionRow]
    bank_processes,         \* [BankProcess -> ProcessRow]
    ppjbs,                  \* developer_ppjbs, [Ppjb -> PpjbRow]
    akads,                  \* akad_records: the PPJB of the case's Akad, or None
    basts                   \* bast_records: the case whose Akad the BAST names, or None

documents == << latest_bi, psjbs, submissions, bank_processes, ppjbs, akads, basts >>
vars == << sales_cases, unit_status, documents >>

-----------------------------------------------------------------------------
(* Columns and rows. *)

Absent == "ABSENT"

CaseStatus == { "ACTIVE", "COMPLETED", "MUNDUR", "REJECT", "PINDAH_KAVLING", "CANCELLED" }
FinancingType == { "KPR_SUBSIDI", "CASH" }
UnitStatus == { "TERSEDIA", "BOOKING", "TERJUAL" }
BiCheckResult == { "CLEAR", "REVIEW", "REJECTED" }
DocumentStatus == { "ACTIVE", "SUPERSEDED", "CANCELLED" }
SubmissionStatus == { "SUBMITTED", "PROCESSING", "CLOSED" }
SubmissionType == { "BANK", "CASH_INTERNAL" }
BankResponseType == { "PROCESS", "REVISION", "APPROVED", "REJECTED" }

CaseRow == [ case_status : CaseStatus \cup {Absent}, current_stage : Stage,
             financing_type : FinancingType, unit_id : Unit \cup {None},
             consumer_id : Consumer \cup {None}, branch_id : Branch \cup {None},
             previous_case_id : Case \cup {None}, trashed : BOOLEAN ]
BiRow == [ check_date : 0..MaxDate, result : BiCheckResult \cup {Absent} ]
PsjbRow == [ sales_case_id : Case \cup {None}, status : DocumentStatus \cup {Absent} ]
SubmissionRow == [ sales_case_id : Case \cup {None}, psjb_id : Psjb \cup {None},
                   type : SubmissionType \cup {None}, sequence : 0..MaxSequence,
                   status : SubmissionStatus \cup {Absent} ]
ProcessRow == [ sales_case_id : Case \cup {None},
                document_submission_id : Submission \cup {None},
                response_type : BankResponseType \cup {Absent},
                is_authoritative : BOOLEAN ]
PpjbRow == [ sales_case_id : Case \cup {None}, bank_process_id : BankProcess \cup {None},
             status : DocumentStatus \cup {Absent} ]

TypeOK ==
    /\ sales_cases \in [Case -> CaseRow]
    /\ unit_status \in [Unit -> UnitStatus]
    /\ latest_bi \in [Case -> BiRow]
    /\ psjbs \in [Psjb -> PsjbRow]
    /\ submissions \in [Submission -> SubmissionRow]
    /\ bank_processes \in [BankProcess -> ProcessRow]
    /\ ppjbs \in [Ppjb -> PpjbRow]
    /\ akads \in [Case -> Ppjb \cup {None}]
    /\ basts \in [Case -> Case \cup {None}]

-----------------------------------------------------------------------------
(* Queries. *)

stage(c) == sales_cases[c].current_stage
status(c) == sales_cases[c].case_status
Exists(c) == status(c) # Absent

\* whereKey(...)->firstOrFail() finds a row unless it was soft-deleted.
Found(c) == Exists(c) /\ ~ sales_cases[c].trashed
IsActive(c) == Found(c) /\ status(c) = "ACTIVE"

hasAkad(c) == akads[c] # None
hasBast(c) == basts[c] # None

activePsjb(c) == { p \in Psjb : psjbs[p].sales_case_id = c /\ psjbs[p].status = "ACTIVE" }
activePpjb(c) == { d \in Ppjb : ppjbs[d].sales_case_id = c /\ ppjbs[d].status = "ACTIVE" }

\* The submissions of a case, and those that complete a CASH Pemberkasan (the
\* code excludes CANCELLED ones, a status no handler ever writes).
submissionsOf(c) == { s \in Submission : submissions[s].sales_case_id = c }
cashPemberkasan(c) == { s \in submissionsOf(c) : submissions[s].type = "CASH_INTERNAL" }

\* Rows the "one authoritative approval per case" index and relation select.
approvalOf(c) == { b \in BankProcess : /\ bank_processes[b].sales_case_id = c
                                       /\ bank_processes[b].is_authoritative }

\* ACTIVE cases of a unit or a consumer as Eloquent sees them (SoftDeletes hides
\* trashed rows), and as the partial unique indexes of sales_cases see them.
activeSalesCases(u) == { c \in Case : IsActive(c) /\ sales_cases[c].unit_id = u }
activeCasesOfConsumer(k) == { c \in Case : IsActive(c) /\ sales_cases[c].consumer_id = k }
UniqueActiveCase(u, k, others) ==
    \A c \in others : status(c) = "ACTIVE" =>
        sales_cases[c].unit_id # u /\ sales_cases[c].consumer_id # k

\* Mutant: only the submissions of the handler's own type are counted.
isNextSequenceOfType(c, n) ==
    LET counted == { s \in submissionsOf(c) :
                       submissions[s].type = "CASH_INTERNAL"
                         <=> sales_cases[c].financing_type = "CASH" }
    IN  /\ \A s \in counted : submissions[s].sequence < n
        /\ n = 1 \/ \E s \in counted : submissions[s].sequence + 1 = n

\* n is max(sequence) + 1 over every submission of the case.
isNextSequence(c, n) ==
    /\ \A s \in submissionsOf(c) : submissions[s].sequence < n
    /\ n = 1 \/ \E s \in submissionsOf(c) : submissions[s].sequence + 1 = n

=============================================================================
