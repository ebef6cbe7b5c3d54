# Database-Oasis: verification project

Database-Oasis is a Laravel/Filament application that runs the sales pipeline of a housing developer: a unit is
booked for a consumer, a sales case collects documents stage by stage (BI check, PSJB, Pemberkasan, bank, PPJB,
Akad, BAST), and the unit goes from TERSEDIA over BOOKING to TERJUAL.  The domain logic is in `src/app/Actions`:
one handler per operation, each one database transaction under row locks.  This directory specifies those handlers
in TLA+, model-checks them with TLC and proves the central properties with TLAPS.

## Inventory

| Component | State | Operations | Interacts through | Correct when |
|---|---|---|---|---|
| Stage flow (`SalesCaseStage`, `SalesCase::advanceStageTo`) | `sales_cases.current_stage` | `order`, `isBeyond`, `advanceStageTo` | called by every document handler | stages go back only by the three corrections |
| Case lifecycle (`CreateSalesCase`, `Cancel/Mundur/Reject`, `MoveSalesCaseUnit`) | `sales_cases`, `units.status` | open, close, move | locks case and unit rows, two partial unique indexes | one ACTIVE case per unit and per consumer; unit status follows the cases; a move links old and new case |
| Documents (`RecordBiCheck` ... `CreateBast`, twelve handlers) | `bi_checks`, `psjbs`, `document_submissions`, `bank_processes`, `developer_ppjbs`, `akad_records`, `bast_records`, the stage | record, create, reissue, cancel, complete | lock the case row (two handlers the document first) | the stage agrees with the documents, references stay in the case, the Akad rests on a chain in force |
| Record edits (`UnitForm`, `SalesCaseForm`, `EditSalesCase`) | `units.status`, `financing_type`, `deleted_at` | save, soft delete, restore | write the same columns without the handlers' checks | the document invariants survive them |
| Row locks and transactions (PostgreSQL, READ COMMITTED) | row locks, uncommitted rows | `lockForUpdate`, foreign-key locks, unique indexes, deadlock abort | every handler | handlers are atomic, transactions end |
| Case workspace (Filament actions) | none (derived) | visible buttons, the primary one, forms | calls the handlers later than it rendered | a visible button's handler accepts, what a handler accepts is shown |
| Akad readiness, case notes | `akad_readinesses`, `case_notes` | upsert, append | read by monitoring | one readiness row per case |
| Timeline, stage progress, aging | none (derived) | `daysInCurrentStage`, `stageProgress` | read all document tables | every stage before the current one has its documents, the days count from the record that led to the stage |
| Monitoring | none (derived) | SP3K stock, counts over periods and scopes | read all tables | what is read from documents agrees with the stage |
| Legacy audit | none | read sheets, normalise, report exceptions | its report becomes a batch of candidates | (strings, input) |
| Legacy review and planning (`Legacy*ReadinessService`, `ReviewService`, `PlanService`, ...) | `legacy_migration_candidates`, `_reviews`, `_resolutions`, `_orphans`, `_plans` | review, resolve (page and console), decide on orphans, recalculate, generate a plan | review pages and a console command write the same candidates | readiness only grows, a plan holds accepted candidates only |
| Legacy import (`legacy:import`, `PreflightService`, `ImportService`) | `legacy_migration_executions`, provenance, then the core tables | preflight, backup, execution row, one transaction of inserts | runs next to handlers, reviewers and other consoles | nothing unaccepted is imported, no plan twice, the execution tells what happened |
| Policies, branch scoping | none | authorise | every handler | no cross-branch change |

The hard behaviours: operations in an order nobody intended (bank answers after the approval, back-dated BI checks,
corrections after the Akad, a PSJB cancelled on a closed case); a summary column (`current_stage`, `units.status`)
written by many handlers and recomputed by none; edits that bypass the handlers; bookings that race for a consumer
who is not locked; handlers that take the same locks in opposite orders.  `PROJECT.json` lists them at their lines.


## How the parts interact

A Filament page renders buttons from the case it has loaded; pressing one calls a handler with ids chosen on the
form.  The handler opens one database transaction, locks the case row (two handlers lock a document first), checks
its conditions on what it has locked and read, writes documents, the case's stage and the unit's status, and commits.
Handlers never call each other and share nothing but the tables.  The record pages (`EditUnit`, `EditSalesCase`)
write some of the same columns without those checks.  Monitoring and the timeline only read.  The legacy import writes
the same tables in bulk from a plan made and approved earlier.

## Modules

| Module | Models | State and actions |
|---|---|---|
| `SalesCaseStage` | `app/SalesCaseStage.php`, `SalesCase::advanceStageTo` | the nine stages, `order`, `isBeyond`, `advanceStageTo`; no state |
| `SalesTables` | the tables, relations and partial indexes | `sales_cases`, `unit_status`, `latest_bi`, `psjbs`, `submissions`, `bank_processes`, `ppjbs`, `akads`, `basts`; `TypeOK`; the queries the handlers share |
| `CaseLifecycle` | `CreateSalesCase`, `CloseSalesCase` with its three callers, `MoveSalesCaseUnit` | one action per handler |
| `CaseDocuments` | the twelve document handlers | one action per handler |
| `SalesOperations` | the whole: `Spec` (handlers), `EditSpec` (handlers and record edits) | `Init`, `Next`, `EditNext`, every property, the refinement mapping `dealOf` |
| `CaseWorkspace` | `WorkspaceActions`, the forms of `CaseWorkflowActions` | no state: `visible`, `primary`, `moveTargetUnits` of a case and the lists of them the form may show (`moveTargetUnitOptions`), and `press`, the handler behind a button with the request of its form |
| `CaseReports` | `stageProgress`, `daysInCurrentStage`, the SP3K stock | no state: functions of the tables |
| `LegacyImport` | what `LegacyMigrationImportService` writes for the operations `LegacyMigrationPlanService` plans | `Import(plan)`, one transaction, next to every handler (`ImportSpec`); one operator per kind of row, the rows a plan inserts into each table, `insert`, `statusAfter`; `ImportInvariant`, its inductive invariant |
| `LegacyMigration` | readiness, review, resolution, orphans, plan, preflight, the import command | candidates, `plans`, `executions`, where each request, command and console is (`reviewing`, `command`, `operators`), and the cases, consumers and units a migration can notice; one action per check, write or transaction |
| `UnitSale` | what booking, moving, selling and handing over promise | the abstract specification; variable `deal` |
| `HandlerTransactions` | the same handlers as PostgreSQL transactions, statement by statement | `tx` (the transaction each connection runs), `locks`; one action per kind of statement, `Commit`, `AbortDeadlock`, `Fail` |
| `TransactionInvariant` | | no state: `TxInvariant`, the inductive invariant of `HandlerTransactions`, apart from it because both TLC and the proofs use it |
| `SalesInvariantProofs`, `SalesEvidenceProofs`, `SalesHistoryProofs`, `CasePagesProofs`, `TransactionStepsProofs`, `HandlerTransactionsProofs`, `LegacyImportProofs`, `LegacyMigrationProofs` | | the proofs |
| `MCSalesOperations`, `MCHandlerTransactions`, `MCLegacyImport`, `MCLegacyMigration` | | the instances TLC checks: branches, the order of unit ids, handler sets, legacy plans and batches, symmetry |

The specifications form a chain: `HandlerTransactions` implements `SalesOperations` (`HandlersAreAtomic`), and
`SalesOperations` implements `UnitSale` (`ImplementsUnitSale`); TLC checks both on its instances, and both are proved.
`CaseWorkspace` and `CaseReports` extend `SalesOperations` by what is derived from its tables; `LegacyImport` extends it
by one more writer; `LegacyMigration` stands beside it and sees of the sales only bookings and closings.

### Correspondence with the code

* A table is a function from a finite set of ids to rows.  A row with status `ABSENT` has not been inserted; inserting
  picks an unused id.  `Found` is Eloquent's view (soft-deleted rows hidden), `Exists` that of the indexes.
* A handler that throws (validation, authorisation, missing row, unique violation) rolls back and is no step.  A guard
  is therefore the conjunction of every condition that must hold for it to reach its commit.
* A handler whose query has at most one answer takes that row as an argument (`old \in activePsjb(c)`), because the
  partial index, and the proved `OneActiveDocument`, leave one.  Where the request names a document, any document may
  be named, those of other cases included.
* `latest_bi` keeps what `BiCheck::latestForCase` returns, not the whole table: among equal dates the row inserted last.
* Amounts, document numbers, names, users and all dates but the BI check's are left out: no condition of a handler
  that changes these tables depends on them.  Branch authorisation is left out except for the branch rule of a move.
* `LegacyImport` takes a plan as a sequence of candidates, each the rows of one case in source order; the resolution
  of consumers, units and banks is reduced to its result.  The import's loop over operations is one step, as it is one
  transaction: each table gets the rows of all candidates at once, each row under its own id, and a column that several
  operations write (the stage of a case, the status of a unit) gets what the last of them writes.  An import that
  throws, or violates an index or a foreign key, is no step.
* `CreateSalesCase` gets its consumer as an argument: the find-or-create of a consumer by NIK is reduced to its result.
* Saving a record form is one action per column the properties depend on (`EditUnitStatus`, `EditFinancingType`); a
  form saved late writes any value, so the old value it was opened with is not remembered.  Deleting a case for good is
  left out: it is offered for an already deleted case, and the foreign keys of its documents refuse it.

### Pages and reports

* `visible(c, button)` is the condition of a button in `WorkspaceActions`, with the queries the page makes;
  `press(c, button)` is the handler with what its form can send: the case, the ACTIVE document the page reads for it,
  anything the user may enter.  `hasRoom` only says that the instance still has an id for the row to insert, which a
  database never lacks, and a unit to move to.
* The form of a move shows at most 50 of the units whose code contains what the user typed, in no order.
  `moveTargetUnitOptions(c, found)` is the set of lists it may show: all of `moveTargetUnits(c, found)`, or any
  `ListLimit` of them.  Which sets of units a search can find is left open; if more than 50 free units of a branch share
  every part of their codes with another one's, that one may never be listed.
* The page is compared with the handlers in one and the same state; nothing is said of a page that has gone stale
  except what holds of every request: the specifications let any request come in any state, whatever its page showed,
  and the invariants of the handlers survive it.  The button that updates the Akad readiness, and permissions, are
  left out.
* `CaseReports` keeps of every report which records it looks for; periods, scopes and the aging buckets, which compare
  dates, are left out.  `daysCountFrom(c, loaded)` is the relation or column `daysInCurrentStage` takes its date from:
  `loaded` tells whether the case came with the `withMax` aggregates of the resource's query, of which the code finds
  again the three whose name is the same in snake case (`foundAgain`).  Which of several rows of a relation has the
  latest date is left out; every row the handlers write has one (imported rows need not, and are not covered).

### Legacy migration

* A batch is a constant: for each candidate the codes of its exceptions, its life cycle, unit, consumer and
  predecessor, and whether the planner finds what it needs in it.  `readiness` is the stored column, `calculate` what
  `LegacyMigrationReadinessService` makes of exceptions, resolutions and reviews.
* `review` checks and writes outside a transaction, so it is two actions (`BeginReview`, `EndReview`).  The console
  command writes resolutions in one loop and readiness in the next: two actions, each of which may die anywhere in its
  loop; one such command runs at a time.  A resolution from the page is one step: two of one exception are both kept.
* A plan is identified by its content, which is what its fingerprint hashes.  `Generate` is one step: it reads
  candidates before orphans and fingerprints, and as readiness only grows and orphans are only decided, nothing it has
  read gets worse meanwhile.
* `legacy:import` is a step per statement that others can see: `Preflight`, the wait for the backup,
  `CreateExecution`, `RunExecution`, `BeginImport` (freshness and the counts before), `CommitImport` or `RollBack`,
  `EndExecution`; `Abort` is the death of the process, or its giving up, at any of them.  A COMMIT that succeeds while
  its answer is lost, which the command would record as FAILED, is not modelled: `RollBack` rolls back.  The
  reconciliation of eight tables' counts is that of the cases: a handler that inserts into another one makes the
  import fail in the same way.
* Left out: the comparison of names and of a bank's active flag in preflight, projects and branches; NEEDS_CORRECTION,
  which nothing reads differently from REJECT; the completion of live cases (a sold unit blocks a candidate as a booked
  one does); a move is a closing and a booking.  Consumers are never deleted.

### Transactions

`HandlerTransactions` gives each connection a handler, a request and the list of statements left.  A `lockForUpdate`
waits for the row, then reads the latest committed version; unlocked reads see what is committed when they run
(READ COMMITTED, the default of `config/database.php`).  The writes of a transaction become visible at its commit,
computed from the row it locked, and a column is written only when Eloquent finds it dirty.  Three waits are not on
row locks: the foreign key of an inserted submission shares its PSJB's lock, the `INSERT` of a case waits for another
transaction's uncommitted entry in the two unique indexes, and for the uncommitted end of an ACTIVE entry.
`DB::transaction` is called without a number of attempts, so the transaction the deadlock detector picks fails.
The three handlers that close a case differ in the status they write, so one stands for them here.

## Runs

All bounds are the sizes of the id sets, plus `MaxDate` (BI dates `1..MaxDate`), `MaxSequence` (submissions per case)
and `ListLimit` (units in the form of a move, 50 in the code, 1 in the runs).  Deadlock checking is off everywhere:
ids run out, and a system driven by users may stop.

| Run | Question | Instance and why it is enough | States |
|---|---|---|---|
| `Workflow` | Do stage, documents, financing and history agree in every order of the document handlers, and does the case's page show what its handlers accept, and its reports what the stage says? | one case; three PSJBs (a reissue after a cancellation), two submissions, answers and PPJBs (two banks, a reissued PPJB), two BI dates (a back-dated check) | 58,455 |
| `Booking` | Do unit status, moves and the abstract sale survive booking, moving, closing and rebooking, and does a move offer the units it accepts? | three cases (a case moved and moved again, or rebooked), four units of two branches (a case can have two to move to where the list takes one) and every set of them as the result of a search, two consumers, enough documents for one Akad | 220,045 |
| `Edits` | Which invariants survive the record pages, can a request reach into another case (`SalesInvariant` has `TypeOK` and `ReferencesStayInCase` as parts), is an ACTIVE case ever stuck, what can still happen to a closed one? | two cases on one unit, one after the other, with every kind of document and every edit at any time; a request for one case may name the documents of the other | 790,443 |
| `BookingTransactions` | Are booking, closing and moving atomic and free of deadlock? | two connections; four cases, so that two opposing moves between two units are possible; all CASH, as no lifecycle handler reads the financing | 39,183 |
| `DocumentTransactions` | Are the document handlers atomic, who can deadlock, and is the invariant the proofs rest on one (`TxInvariant`)? | two connections, all handlers on one case | 333,909 |
| `TransactionsEnd` | Does every transaction end? | two connections around the PSJB, where both lock orders meet; no symmetry, as liveness requires | 5,119 |
| `LegacyImport` | What do the handlers make of imported cases? | two cases of one unit and consumer; plans of one case with every combination of sheets that differ in a column a handler reads (two PSJB rows, one of them superseded, or both ACTIVE, which the index refuses; an approval with and without its SP3K; a dateless BI check before a dated one), and of two cases of one unit in both orders; imported before or between handlers; with them the invariant the proofs rest on (`ImportInvariant`) | 1,064,602 |
| `LegacyMigration` | Is only what was accepted imported, each plan once, and does its execution say so? | a batch of two candidates that share unit and consumer, one blocked and one not; two reviewers and two consoles, as every race here is one of two; two plans (one imported or dead, one generated after it); two cases (a plan of both, the second import of one, or a booking and an import); the consumer registered before or not, without which no second import would get as far as the indexes; two reviews and one resolution of a candidate | 586,338 |
| `ImmutableHistory`, `LatestBi`, `DaysFromApproval`, `StuckImport` | Does what a document or comment says hold? | the smallest instances that show the disagreement | violated |

Two connections suffice to show that an unlocked read or a missing index breaks atomicity; a cycle of three would need
three different lock orders, and the handlers have two.  Symmetry is used over ids that occur in no ordering (units are
ordered by id, so they are never symmetric).  Every property of a passing run is shown to fail on a mutated
definition: an operator marked `Mutant` next to the original (a dropped guard, a forgotten link, a wrong order).

### What the passing runs show

The stage column agrees with the documents in both directions (`StageMatchesDocuments`); it goes back by three
corrections only; a late answer of a bank neither reopens a submission nor moves a stage; superseded, cancelled and
closed rows never change again, and no document changes what it refers to; the Akad rests on an ACTIVE PPJB and PSJB
for ever; a unit is BOOKING exactly while an ACTIVE case before the Akad holds it.  Of these, `SalesInvariant` and
`OneActiveCase` hold with the record edits too, as does that a closed case keeps its row and its documents; unit
status and financing evidence do not, and are checked without them.  An ACTIVE case always has a handler that takes it
nearer to its BAST (`NoCaseIsStuck`), edits of the financing type in the middle of a sale included.

An imported case can be behind its documents, never ahead of them (`StageNeverAheadOfDocuments`), so no handler
accepts a step whose ground is missing, and its rows refer to each other as the handlers' rows do.  Three kinds of
imported case have no next step (`StuckOnlyAsKnown`): a CASH Pemberkasan without its stage, a BI check without a date
that is not CLEAR (it stays the latest one for ever), and a BAST on a case whose row says ACTIVE.  A unit under an
ACTIVE case is on sale only where a closed case of the same unit is on record too
(`UnitOnSaleOnlyWithClosedCandidate`).  A plan with two ACTIVE PSJB or PPJB rows for one case, or two ACTIVE cases for
one unit or consumer, never gets into the tables: the unique indexes roll it back as a whole (part of
`ImportInvariant`).

Under row locks, index waits, lost connections and deadlock aborts, what is committed is always one handler at a time,
and the only handlers that can be part of a deadlock are `CancelPsjb` and `CancelDeveloperPpjb`, the two that lock a
document before its case.

The page and the handlers, which state their conditions separately, agree: every button shown is accepted
(`VisibleButtonIsAccepted`), whatever its handler accepts is shown (`HiddenButtonIsRefused`), and the button put first
for a stage is among those shown (`PrimaryButtonIsVisible`).  The exceptions are named in the properties.  The PSJB of a
CASH case waits on the page for a CLEAR BI check, which the handler does not ask for (nor does `docs/UAT_GUIDE.md:65`,
which expects no BI check of a CASH case).  The reissue of a PSJB after the Akad, and the cancellation of the PSJB of a
closed case, are hidden but accepted.  After a back-dated CLEAR check the page puts a button first that it does not
show.  These hold for the handlers alone: an edit of the financing type can put evidence of both kinds into one case.

The form of a move never lists a unit the handler refuses, and lists every one it accepts among those a search finds,
unless they are more than the limit (`OfferedUnitsAreAccepted`).

The SP3K stock, read from documents, is the KPR cases at PPJB_DEV and AKAD (`StockAwaitsAkad`), and every stage has its
documents (`StageHasItsRecords`): the stepper shows no gap, and the days in a stage count from the record that took the
case there.  The property names what the code does not do.  A CASH case with a BI check that is not CLEAR is in a stage
its stepper does not show.  A KPR case at PPJB_DEV counts from its PSJB.  A CASH case whose PSJB was cancelled may have
no BI check to count from.  A case loaded without the resource's query (a plain `find` or `refresh`) has no date at
BAST, and at COMPLETED that of the closing.

In the legacy migration readiness only grows (`ReadinessOnlyGrows`), although checks and writes race: a decision that
lands late never takes away what an earlier one gave, which is why a plan need not look at it again.  What is imported
was passed or accepted (`ImportedAreAccepted`).  A candidate may be imported twice, by two plans, as planning does not
exclude what was imported, but never with two ACTIVE cases and never by one plan (`SecondImportNeedsSecondPlan`).
COMPLETED means all of a plan is in the tables, PENDING and FAILED that none of it is, and a RUNNING execution whose
process died is the one state that leaves it open, with all or nothing there (`ExecutionTellsImport`); it stays RUNNING
and stands in the way of every retry, so a plan whose import failed has to be generated anew after something changed.

### Where code and documentation disagree

* `ImmutableHistory`: the PSJB of a closed case can be cancelled, which changes the closed case's stage.  But for the
  case's own edit page this is the only way a closed case changes (`ClosedCaseGainsNothing`).
* `LatestBi`: a back-dated BI check moves the stage without being the latest check, while the derivation of the days in
  a stage assumes it is.
* `DaysFromApproval`: the days of a KPR case at PPJB_DEV do not count from the bank's approval, as the doc block at
  `SalesCase.php:209` says: the attribute is looked for as `currentApprovedBankProcess_max_response_date` and stored as
  `current_approved_bank_process_max_response_date`, and no query stands behind it.
* Without a run: the doc block also announces the days since the case was created where the record is missing
  (`SalesCase.php:215`), which the code has for DATA_KONSUMEN only; elsewhere there are no days.  And it lets a CASH
  case at PPJB_DEV count from its PSJB ("no record"); the code takes the Pemberkasan, which is what leads there.
* `StuckImport`: an imported CASH Pemberkasan leaves its case at PEMBERKASAN; the PPJB demands a later stage and the
  Pemberkasan, which would give it, is refused as already done.  The mapping document promises the PPJB next.

## Fairness

No specification but one has any: a handler, a review, a console command is started by a user who may never come.
`FairTxSpec` asks for a transaction that has begun what the server gives it: strong fairness of its next statement
(the process goes on, and PostgreSQL queues the waiters for a row, so a row that is free again and again is obtained)
and weak fairness of the deadlock detector, which PostgreSQL runs after `deadlock_timeout`. Beginning and failing are
never assumed.

## Proofs

The sales modules assume `TablesAssumption` (every unit has a branch, the bounds are naturals, the null reference is
no id), the page `WorkspaceAssumption` (finitely many units, a list takes at least one), the import `PlansAssumption`
(a plan is a sequence of candidates, and the rows of the bank's sheet name submissions of their own candidate, without
which the candidate is not planned), the transactions `TransactionsAssumption` (units are ordered by id, finitely many
connections and submissions, `MaxSequence`, which the code does not have, no smaller than the number of submissions),
the migration `MigrationAssumption` (finitely many candidates, the types of the batch, what the console command can
resolve is blocking, the null reference is no candidate or plan).  There is no bound on the number of cases, units,
documents, users, connections, consoles or plans, nor on the length of a plan or of a candidate's sheets.

### The handlers

* `SalesInvariantProofs`: `TypeCorrect` and `EditTypeCorrect`, one step per handler and edit; then
  `EditsKeepSalesInvariant`, for the handlers and the edits together, hence `StageIsRight`, `ReferencesAreRight`,
  `DocumentsAreUnique` and `AkadIsFounded`.
  From the same invariant `CasesGoOn`: if a check can be dated at all (`MaxDate > 0`), `NoCaseIsStuck` holds.  The cases
  of the proof are the handlers: what blocks one of them is, by the invariant, what another one waits for.

`SalesInvariant` is the inductive invariant.  `StageMatchesDocuments` alone is not inductive: cancelling the ACTIVE
PSJB empties the case's ACTIVE ones only if there was one (`OneActiveDocument`); the cancellation's check that nothing
names the PSJB protects the stage only if submissions name PSJBs of their own case (`ReferencesStayInCase`); and a row
not inserted yet must not count for any case (`AbsentRowsAreBlank`).  The proof states what the invariant says of one
case (`Coherent`), shows that a case a handler does not touch stays coherent, and treats the handled case once per
handler.

The other invariants build on it and add what they need to be inductive:

* `SalesEvidenceProofs` (handlers alone): `FinancingIsFounded` needs that a PPJB belongs to a case that exists
  (`PpjbsOfCases`), `ApprovalsClose` that an answer not given yet names no submission (`BlankProcesses`);
  `SequencesAreGapless` holds with the edits.  So does the refinement `EditsImplementUnitSale`, and from it
  `CasesAreUnique`: `HeldOnce` of `UnitSale`, proved on the abstract steps, read back through the mapping.
* `SalesHistoryProofs`: `MovesAreLinked` needs that a case not opened yet has no predecessor (`Unlinked`);
  `UnitStatusIsRight` needs `OneActiveCase`, which the refinement gives, because closing frees the unit on the ground
  that no other ACTIVE case holds it.  Of the action properties `StagesGoBackByCorrection`, `DocumentsStay` and
  `ClosedCasesStay` hold with the edits, `AkadStays` for the handlers.  After an Akad every PPJB of the case is out of
  the handlers' reach.  A closed case keeps its rows, the answers to its submissions included, because each handler
  but `CancelPsjb` wants an ACTIVE one and a row not inserted yet names no case (`AbsentRowsAreBlank`, `BlankPsjbs`,
  `BlankPpjbs`); what `CancelPsjb` can still reach is, by `StageMatchesBank`, a case that never had a submission, and
  it changes one PSJB's status and the stage.  `DocumentsStay` covers the links of every document and the whole of
  those that are final.
* `CasePagesProofs`: `PrimaryIsVisible`; the financing of a case decides which documents can be there, so
  `FinancingInvariant` is what makes the stage tell the buttons.  `StockIsRight` needs that an authoritative answer is
  an approval (`Approving`), `RecordsAreThere` that a KPR case past its first stage has a BI check on record
  (`Checked`), and that the records of the earlier stages survive corrections (`RecordsOfStage`).
  `HiddenRequestsAreRefused` and `OfferedUnitsMeetCondition` say what `HiddenButtonIsRefused` and
  `OfferedUnitsAreAccepted` say, the one of the steps a form's request can take, the other of the handler's condition
  (`MoveIsAccepted`, which `MoveCondition` shows to be all the handler asks): two formulations that need no ENABLED.
  The latter holds for every limit of the list: one that leaves out a unit found is `ListLimit` long
  (`ShortSearchListsAll`). In the same way `VisibleRequestsMeetConditions` says what `VisibleButtonIsAccepted` says,
  if a check can be dated at all: every button shown has a request of its form that meets its handler's condition
  (`isAccepted`).  One lemma per handler (`CreatePsjbCondition` and so on) shows that a handler is its condition and
  the assignments it makes, so the condition is all there is to meet.  The theorem needs that a submission on record
  has a type (`Typed`).

### The transactions

`TransactionsAreAtomic` is the refinement: every commit is one step of one atomic handler, for any number of
connections.  So whatever is proved of `Spec` holds of what transactions commit.  It is not provable from the commit
alone, which writes what the transaction decided on reads made earlier.  The inductive invariant is `TxInvariant`
(`ReadsStayTrue`), together with what the handlers keep in the tables (`DataInvariant`, the invariants above):

* `Own`: the statements a transaction has left are an end of its handler's script; what it has locked is in `locks`
  (`Holding`); and what it has read, found or checked is true now (`Fresh`), not only when it was read.
* `Apart`: no two transactions insert the same row or the same entry of a unique index; `OneHolder`: a row is locked
  by one transaction, or shared by all that lock it; `Claimed`: every lock is one its transaction asked for.

`TransactionStepsProofs` shows that every statement but the commit, the detector's abort and a failure keep it; the
first section shows that a script is short and without repetition, so that what is done can be read off what is left.
`HandlerTransactionsProofs` treats the commits.  The heart of it is that a commit of one transaction leaves the reads of
the others true: a case's row, its documents and its Akad are written only under the case's lock, so a commit that
touches them excludes another transaction past its own lock on that case; where a check looks at other rows (the cases
of a unit, of a consumer), the unit's lock or the wait in the unique index takes the place of the case's.  The two
handlers that lock a document first are why `Fresh` keeps the status they have read.  Then:

* `MovesInsertCleanly`: the INSERT of a move waits for every transaction that is inserting a clashing case or closing
  one, so what it finds in the index is settled; the unit's lock and the check under it exclude a case on the unit, and
  the lock on the moved case, the consumer's only ACTIVE one by `OneActiveCase`, a case of the consumer.
* `OthersNeverDeadlock`: in a cycle of waits without `CancelPsjb` and `CancelDeveloperPpjb` every transaction waits for
  one that stands later (`WaitsAscend`), and the connections being finite, no cycle ascends for ever
  (`NoEndlessAscent`).  A connection's `standing` is the lock it asks for next, in this order: the case; the first lock
  of a document or unit; the second unit of a move where the old unit has the smaller id; a booking's insert; the unit's
  own update; the second unit of a move where the new unit has the smaller id; a move's insert.  Two moves at the same
  place are ordered by the id of the unit they hold (`firstId`).  The cycle may have any length, where TLC has
  two connections.

### The import

`LegacyImportProofs` proves of `ImportSpec`, the imports of any plans between the handlers in any order, what the run
`LegacyImport` checks.  None of the invariants above can be used: an import breaks `SalesInvariant` (an imported case
is behind its documents) and the types of two columns (a check without a date, a submission numbered by its row).  The
inductive invariant is `ImportInvariant`: what is proved (`ImportedStagesAreFounded`, `ImportedReferencesAreRight`,
`ImportedUnitsAreKept`) and what these need of one another.

* The handlers look for the ACTIVE PSJB or PPJB and rely on there being one.  At an import the unique indexes see to
  that, in between the handlers' own guards (`OneActiveDocument`, `OneActiveCase`): a reissue supersedes what it
  replaces, an approval is authoritative only where there was none.
* The stage of a case rests on its documents, so documents must stay: a handler, whatever it does, leaves every
  document on record with its case and its references (`HandlersStay`, `EvidenceStays`), and an import inserts rows
  that were not there (`ImportsStay`).  That a row not there yet names no case, and no submission names a PSJB not there
  yet, is `RowsHangTogether`; without it an import could slip a document under another one.
* A handler that advances a case was given ground for the new stage (`TakenToIsGrounded`); one that sets it back has
  left the ground of the earlier stage (`ClosingHandlersTakeTo`); every other case keeps its ground (`GroundedStays`).
  An import grounds what it inserts, sheet by sheet (`ImportKeepsGround`).
* Rows of several candidates are inserted at once, each by an id no other one has (`InsertCases`, `InsertRow`), so every
  imported document can be traced to one row of one candidate (`ImportedPsjbs`, `ImportedSubmissions`,
  `ImportedProcesses`, `ImportedPpjbs`).  The status of a unit is that of its last candidate (`MaxIsLast`): if that one
  is closed, it is the closed case `ImportedUnitsAreKept` asks for.

`CasesAreStuckOnlyAsKnown` (if a check can be dated at all, `MaxDate > 0`) follows from the types alone: for
each stage, what the next handler asks for is either there, or is one of the three known gaps.

### The migration

* `LegacyMigrationProofs`: `MigrationInvariant` says of every console how far its execution and the tables are
  (`OperatorsMatchExecutions`), and that no two consoles import one plan (`OneConsolePerPlan`), which the unique index
  on the execution's plan gives; of readiness, that what is stored as ready was passed or accepted (`ReadyIsSettled`,
  `PlansAreSettled`), which holds for ever because decisions are only added.  From it `OnlyAcceptedIsImported`,
  `PlansAreImportedOnce`, `ExecutionsTellImports`, `StoredIsSafe`, and the action properties `ReadinessNeverShrinks`
  and `ExecutionsOnlyGoOn`.

### Checked by TLC only

`TransactionsEnd` (liveness is out of reach of the proof system), and the ENABLED forms `VisibleButtonIsAccepted`,
`HiddenButtonIsRefused` and `OfferedUnitsAreAccepted` of what is proved above, as ENABLED is out of its reach too.

## Plan

1. Done: the handlers (`SalesOperations`), the record edits, the abstract sale, the transactions; what a legacy import
   writes (`LegacyImport`).
2. Done: `LegacyMigration`, readiness to execution with crashes, retries and two consoles, and its proofs.
3. Done: `CaseWorkspace`.
4. Done in part: `CaseReports`.  Left are the monitoring counts over periods, which need dates on every document.
5. Done: proofs of every safety and action property of the handlers, the transactions, the import and the migration; of
   the pages in forms that do not ask for ENABLED.

## Not modelled

* Policies and branch scoping: a refusal is no step.  The branch rule of a move is modelled.
* The Akad readiness (one row per case, written under the case's lock, read by dashboards only) and case notes
  (append-only): no other state depends on them.
* The reading of spreadsheets, the normalisation of their strings, and the backup command: input and output.
* Pages other than the case's, tables, widgets, seeders, exports, notifications and user administration: presentation.
* JavaScript.  The program is PHP; the `.js` files of the repository are the published builds of Filament's form, table
  and widget components (`public/js/filament`), the build configuration and an editor plugin.  They hold none of the
  program's rules, so no definition stands for them.
