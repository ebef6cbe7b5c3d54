-------------------------- MODULE LegacyMigration --------------------------
(***************************************************************************)
(* How candidates of an audited batch come to be imported: readiness,      *)
(* review, resolution, orphans, plan, preflight and the import command,    *)
(* with its executions, crashes and retries, next to a live system.        *)
(*                                                                         *)
(* What an import writes for one candidate is the subject of LegacyImport. *)
(* Here a candidate becomes one row of sales_cases, and the live handlers  *)
(* are what the migration can notice of them: cases booked and closed.     *)
(***************************************************************************)
EXTENDS Integers, Sequences, FiniteSets

CONSTANTS
    Candidate, Code,    \* the candidates of the batch, the codes of their exceptions
    Batch,              \* what the audit found out about each candidate
    Resolvable,         \* codes for which the page has a resolution that needs no value
    BlockingOrphan,     \* rows of the sheets that belong to no candidate, of severity BLOCKING
    Unit, Consumer,
    User, Operator,     \* those who review and plan, and consoles that run an import
    MaxReviews, MaxResolutions, MaxPlans, MaxCases,     \* bounds
    None

VARIABLES
    readiness,          \* legacy_migration_candidates.readiness
    reviews,            \* decisions on each candidate, oldest first
    resolutions,        \* per candidate and code, the number of resolutions
    pending_orphans,    \* blocking orphans nobody has decided on
    reviewing,          \* the candidate each user's request has checked and not yet reviewed
    command,            \* how far the run of legacy:resolve-deterministic is
    plans,              \* plans by content, which is what the unique fingerprint hashes
    executions,         \* status of each plan's execution, for those that have one
    operators,          \* where each legacy:import run is
    sales_cases,        \* the live cases, the imported ones among them
    consumers,          \* consumers that are registered
    unit_status

decisions == << readiness, reviews, resolutions, pending_orphans >>
live == << sales_cases, consumers, unit_status >>
vars == << decisions, reviewing, command, plans, executions, operators, live >>

Case == 1..MaxCases
Readiness == { "AUTO", "REVIEW", "BLOCKED" }
Decision == { "ACCEPT", "REJECT" }     \* NEEDS_CORRECTION is read nowhere, as is REJECT
Lifecycle == { "ACTIVE", "COMPLETED", "MUNDUR", "REJECT", "PINDAH_KAVLING" }
UnitStatus == { "TERSEDIA", "BOOKING", "TERJUAL" }
ExecutionStatus == { "PENDING", "RUNNING", "COMPLETED", "FAILED" }

\* plannable: the planner finds the NIK, the dates and the banks it needs;
\* deterministic: the console command can resolve MISSING_PROCESS_STATUS.
AuditedCandidate ==
    [ blocking : SUBSET Code, review : SUBSET Code, previous : Candidate \cup {None},
      lifecycle : Lifecycle, unit : Unit, consumer : Consumer,
      plannable : BOOLEAN, deterministic : SUBSET Code ]

\* A plan says whom it imports, which consumers exist already, and keeps the state it
\* was made from, which is what its fingerprints hash.
Plan ==
    [ candidates : SUBSET Candidate, reuse : SUBSET Consumer,
      readiness : [Candidate -> Readiness], reviews : [Candidate -> Seq(Decision)],
      resolutions : [Candidate -> [Code -> Nat]] ]

ASSUME MigrationAssumption ==
    /\ IsFiniteSet(Candidate)
    /\ Batch \in [Candidate -> AuditedCandidate]
    /\ \A k \in Candidate : Batch[k].deterministic \subseteq Batch[k].blocking
    /\ Resolvable \subseteq Code
    /\ None \notin Candidate \cup Plan
    /\ {MaxReviews, MaxResolutions, MaxPlans, MaxCases} \subseteq Nat

-----------------------------------------------------------------------------
(* Readiness. *)

\* Mutant: exceptions found while the batch is built leave what the audit said.
AuditedReadinessAsReported(k) == IF Batch[k].review # {} THEN "REVIEW" ELSE "AUTO"

\* The readiness the batch is stored with: a BLOCKING exception found while the
\* batch is built takes the candidate back from what the audit said.
AuditedReadiness(k) ==
    IF Batch[k].blocking # {} THEN "BLOCKED"
    ELSE IF Batch[k].review # {} THEN "REVIEW" ELSE "AUTO"

\* Whatever resolution there is for a code resolves every exception of the code.
unresolved(k, codes) == \E code \in codes : resolutions[k][code] = 0

\* Mutant: the latest decision counts, not any ACCEPT on record.
acceptedLast(k) == reviews[k] # << >> /\ reviews[k][Len(reviews[k])] = "ACCEPT"

accepted(k) == \E i \in DOMAIN reviews[k] : reviews[k][i] = "ACCEPT"

calculate(k) ==
    IF unresolved(k, Batch[k].blocking) THEN "BLOCKED"
    ELSE IF ~ accepted(k) /\ (readiness[k] # "AUTO" \/ unresolved(k, Batch[k].review))
         THEN "REVIEW"
         ELSE "AUTO"

-----------------------------------------------------------------------------
(* Review and resolution.  A request checks the candidate, then writes; the *)
(* buttons of the page go by the stored readiness.                          *)

BeginReview(u, k) ==
    /\ reviewing[u] = None
    /\ readiness[k] = "REVIEW" /\ calculate(k) = "REVIEW"
    /\ reviewing' = [reviewing EXCEPT ![u] = k]
    /\ UNCHANGED << decisions, command, plans, executions, operators, live >>

\* Nothing is written if the request dies first.
EndReview(u, decision) ==
    /\ reviewing[u] # None
    /\ \/ /\ Len(reviews[reviewing[u]]) < MaxReviews
          /\ reviews' = [reviews EXCEPT ![reviewing[u]] = Append(@, decision)]
       \/ UNCHANGED reviews
    /\ reviewing' = [reviewing EXCEPT ![u] = None]
    /\ UNCHANGED << readiness, resolutions, pending_orphans, command, plans, executions,
                    operators, live >>

\* The form sends a bank or nothing, so only some codes have a resolution it can write.
ResolveBlockingException(k, code) ==
    /\ readiness[k] = "BLOCKED"
    /\ code \in Batch[k].blocking \cap Resolvable
    /\ resolutions[k][code] < MaxResolutions
    /\ resolutions' = [resolutions EXCEPT ![k][code] = @ + 1]
    /\ UNCHANGED << readiness, reviews, pending_orphans, reviewing, command, plans, executions,
                    operators, live >>

\* Every decision takes an orphan out of PENDING, to leave it unresolved as well.
ResolveOrphan(o) ==
    /\ pending_orphans' = pending_orphans \ {o}
    /\ UNCHANGED << readiness, reviews, resolutions, reviewing, command, plans, executions,
                    operators, live >>

-----------------------------------------------------------------------------
(* legacy:resolve-deterministic: first the resolutions, one transaction per *)
(* candidate, then the stored readiness of every candidate.  Each loop is   *)
(* one step, which may end early: what it does to one candidate is never    *)
(* read for another.                                                        *)

resolvedOnce(k, codes) ==
    [code \in Code |-> resolutions[k][code] + IF code \in codes THEN 1 ELSE 0]

ResolveDeterministic(done) ==
    LET todo == { k \in Candidate : Batch[k].deterministic # {} } IN
    /\ command = "IDLE" /\ done \subseteq todo
    /\ \A k \in done : \A code \in Batch[k].deterministic : resolutions[k][code] < MaxResolutions
    /\ resolutions' = [k \in Candidate |->
          IF k \in done THEN resolvedOnce(k, Batch[k].deterministic) ELSE resolutions[k]]
    /\ command' = IF done = todo THEN "RESOLVED" ELSE "IDLE"
    /\ UNCHANGED << readiness, reviews, pending_orphans, reviewing, plans, executions,
                    operators, live >>

\* Mutant: a blocked candidate is stored as ready once its blockers are resolved.
RecalculateSkippingReview(done) ==
    /\ command = "RESOLVED" /\ done \subseteq Candidate
    /\ readiness' = [k \in Candidate |->
          IF k \in done /\ ~ unresolved(k, Batch[k].blocking) THEN "AUTO" ELSE readiness[k]]
    /\ command' = "IDLE"
    /\ UNCHANGED << reviews, resolutions, pending_orphans, reviewing, plans, executions,
                    operators, live >>

Recalculate(done) ==
    /\ command = "RESOLVED" /\ done \subseteq Candidate
    /\ readiness' = [k \in Candidate |-> IF k \in done THEN calculate(k) ELSE readiness[k]]
    /\ command' = "IDLE"
    /\ UNCHANGED << reviews, resolutions, pending_orphans, reviewing, plans, executions,
                    operators, live >>

-----------------------------------------------------------------------------
(* Planning. *)

NewPlan(eligible) ==
    [ candidates |-> eligible,
      reuse |-> { Batch[k].consumer : k \in eligible } \cap consumers,
      readiness |-> readiness, reviews |-> reviews, resolutions |-> resolutions ]

\* One candidate the planner cannot use refuses the plan of all.
writablePlan(eligible) ==
    \A k \in eligible : Batch[k].plannable /\ Batch[k].previous \in eligible \cup {None}

\* An identical plan has the fingerprint of the first: its unique index refuses it.
Generate ==
    LET eligible == { k \in Candidate : calculate(k) = "AUTO" } IN
    /\ pending_orphans = {}
    /\ writablePlan(eligible)
    /\ Cardinality(plans) < MaxPlans
    /\ NewPlan(eligible) \notin plans
    /\ plans' = plans \cup { NewPlan(eligible) }
    /\ UNCHANGED << decisions, reviewing, command, executions, operators, live >>

-----------------------------------------------------------------------------
(* The import command. *)

isStale(p) ==
    p.readiness # readiness \/ p.reviews # reviews \/ p.resolutions # resolutions

Exists(c) == sales_cases[c].status # "ABSENT"
ActiveOn(u, k) ==
    \E c \in Case : /\ sales_cases[c].status = "ACTIVE"
                    /\ sales_cases[c].unit = u \/ sales_cases[c].consumer = k
casesOfPlan(p) == { c \in Case : Exists(c) /\ sales_cases[c].plan = p }
executionOf(p) == IF p \in DOMAIN executions THEN executions[p] ELSE "NONE"

\* The comparison of a reused consumer's name is left out: names do not change here.
preflight(p) ==
    /\ ~ isStale(p)
    /\ executionOf(p) # "COMPLETED"
    /\ \A k \in p.candidates : calculate(k) = "AUTO"
    /\ pending_orphans = {}
    /\ casesOfPlan(p) = {}
    /\ p.reuse \subseteq consumers
    /\ \A k \in p.candidates : Batch[k].lifecycle = "ACTIVE" =>
          /\ unit_status[Batch[k].unit] = "TERSEDIA"
          /\ ~ ActiveOn(Batch[k].unit, Batch[k].consumer)

Resting == [pc |-> "REST", plan |-> None, before |-> {}]
At(pc, p) == [pc |-> pc, plan |-> p, before |-> {}]

\* The rows whose number an import compares before and after; a row that another
\* handler inserts in any of the counted tables does what a booked case does here.
counted == { c \in Case : Exists(c) }

\* Everything but the operator's own place in the command stays.
OnlyOperator == UNCHANGED << decisions, reviewing, command, plans, executions, live >>

\* Then the operator confirms and the backup runs, for as long as it takes.
Preflight(o, p) ==
    /\ operators[o] = Resting
    /\ preflight(p)
    /\ operators' = [operators EXCEPT ![o] = At("BACKUP", p)]
    /\ OnlyOperator

setExecution(p, status) ==
    [ q \in DOMAIN executions \cup {p} |-> IF q = p THEN status ELSE executions[q] ]

\* Mutant: the unique index on the plan of an execution is missing.
CreateExecutionAgain(o) ==
    /\ operators[o].pc = "BACKUP"
    /\ executions' = setExecution(operators[o].plan, "PENDING")
    /\ operators' = [operators EXCEPT ![o] = At("PENDING", operators[o].plan)]
    /\ UNCHANGED << decisions, reviewing, command, plans, live >>

\* unique (plan_id, plan_fingerprint): any earlier execution stands in the way.
CreateExecution(o) ==
    /\ operators[o].pc = "BACKUP"
    /\ operators[o].plan \notin DOMAIN executions
    /\ executions' = setExecution(operators[o].plan, "PENDING")
    /\ operators' = [operators EXCEPT ![o] = At("PENDING", operators[o].plan)]
    /\ UNCHANGED << decisions, reviewing, command, plans, live >>

RunExecution(o) ==
    /\ operators[o].pc = "PENDING"
    /\ executions' = setExecution(operators[o].plan, "RUNNING")
    /\ operators' = [operators EXCEPT ![o] = At("RUNNING", operators[o].plan)]
    /\ UNCHANGED << decisions, reviewing, command, plans, live >>

\* execute checks that the plan is fresh, then opens its transaction and counts.
BeginImport(o) ==
    /\ operators[o].pc = "RUNNING"
    /\ ~ isStale(operators[o].plan)
    /\ operators' = [operators EXCEPT
          ![o] = [At("IMPORT", operators[o].plan) EXCEPT !.before = counted]]
    /\ OnlyOperator

importedCase(p, k) ==
    [ status |-> IF Batch[k].lifecycle = "ACTIVE" THEN "ACTIVE" ELSE "CLOSED",
      unit |-> Batch[k].unit, consumer |-> Batch[k].consumer, candidate |-> k, plan |-> p ]

\* The order in which a plan lists its candidates is that of an unsorted query.
orders(p) ==
    { order \in [1 .. Cardinality(p.candidates) -> p.candidates] :
        /\ \A k \in p.candidates : \E i \in DOMAIN order : order[i] = k
        /\ \A i, j \in DOMAIN order : i # j => order[i] # order[j] }

\* Ids follow the ones in use.
isNewId(c, i) == c = Cardinality(counted) + i /\ ~ Exists(c)

insertCases(p) ==
    \E order \in orders(p) :
        /\ \A i \in DOMAIN order : \E c \in Case : isNewId(c, i)
        /\ sales_cases' = [c \in Case |->
              IF \E i \in DOMAIN order : isNewId(c, i)
              THEN importedCase(p, order[c - Cardinality(counted)]) ELSE sales_cases[c]]

finalUnitState(lifecycle) ==
    CASE lifecycle = "COMPLETED" -> "TERJUAL"
      [] lifecycle = "ACTIVE"    -> "BOOKING"
      [] OTHER                   -> "TERSEDIA"

\* Of two candidates of one unit, the one that comes last writes the unit's status.
setFinalUnitStates(p) ==
    \E final \in [Unit -> UnitStatus] :
        /\ \A u \in Unit :
              \/ final[u] = unit_status[u] /\ \A k \in p.candidates : Batch[k].unit # u
              \/ \E k \in p.candidates :
                    Batch[k].unit = u /\ final[u] = finalUnitState(Batch[k].lifecycle)
        /\ unit_status' = final

UniqueActive ==
    \A c, d \in Case :
        (c # d /\ sales_cases[c].status = "ACTIVE" /\ sales_cases[d].status = "ACTIVE") =>
            /\ sales_cases[c].unit # sales_cases[d].unit
            /\ sales_cases[c].consumer # sales_cases[d].consumer

\* One transaction: it commits only if nobody else inserted a row that is counted,
\* no consumer to create has been registered, and the unique indexes hold.
CommitImport(o) ==
    LET p == operators[o].plan IN
    /\ operators[o].pc = "IMPORT"
    /\ operators[o].before = counted
    /\ { Batch[k].consumer : k \in p.candidates } \cap consumers \subseteq p.reuse
    /\ insertCases(p)
    /\ UniqueActive'
    /\ consumers' = consumers \cup { Batch[k].consumer : k \in p.candidates }
    /\ setFinalUnitStates(p)
    /\ operators' = [operators EXCEPT ![o] = At("COMMITTED", p)]
    /\ UNCHANGED << decisions, reviewing, command, plans, executions >>

\* A stale plan, a failed check or a lost connection: everything is rolled back.
RollBack(o) ==
    /\ operators[o].pc \in {"RUNNING", "IMPORT"}
    /\ operators' = [operators EXCEPT ![o] = At("THROWN", operators[o].plan)]
    /\ OnlyOperator

\* Mutant: the exception of the import is caught and forgotten.
EndExecutionAsCompleted(o) ==
    /\ operators[o].pc \in {"COMMITTED", "THROWN"}
    /\ executions' = setExecution(operators[o].plan, "COMPLETED")
    /\ operators' = [operators EXCEPT ![o] = Resting]
    /\ UNCHANGED << decisions, reviewing, command, plans, live >>

\* Mutant: the status, a plain string, is written in other words.
EndExecutionInWords(o) ==
    /\ operators[o].pc \in {"COMMITTED", "THROWN"}
    /\ executions' = setExecution(operators[o].plan,
                        IF operators[o].pc = "COMMITTED" THEN "DONE" ELSE "FAILED")
    /\ operators' = [operators EXCEPT ![o] = Resting]
    /\ UNCHANGED << decisions, reviewing, command, plans, live >>

EndExecution(o) ==
    /\ operators[o].pc \in {"COMMITTED", "THROWN"}
    /\ executions' = setExecution(operators[o].plan,
                        IF operators[o].pc = "COMMITTED" THEN "COMPLETED" ELSE "FAILED")
    /\ operators' = [operators EXCEPT ![o] = Resting]
    /\ UNCHANGED << decisions, reviewing, command, plans, live >>

\* The command gives up (backup, unique index), or its process dies anywhere.
Abort(o) ==
    /\ operators[o] # Resting
    /\ operators' = [operators EXCEPT ![o] = Resting]
    /\ OnlyOperator

-----------------------------------------------------------------------------
(* The live system. *)

OnlyLive == UNCHANGED << decisions, reviewing, command, plans, executions, operators >>

Book(c, u, k) ==
    /\ isNewId(c, 1)
    /\ ~ ActiveOn(u, k)
    /\ sales_cases' = [sales_cases EXCEPT
          ![c] = [status |-> "ACTIVE", unit |-> u, consumer |-> k,
                  candidate |-> None, plan |-> None]]
    /\ consumers' = consumers \cup {k}
    /\ unit_status' = [unit_status EXCEPT ![u] = "BOOKING"]
    /\ OnlyLive

Close(c) ==
    /\ sales_cases[c].status = "ACTIVE"
    /\ sales_cases' = [sales_cases EXCEPT ![c].status = "CLOSED"]
    /\ unit_status' = [unit_status EXCEPT ![sales_cases[c].unit] = "TERSEDIA"]
    /\ UNCHANGED consumers /\ OnlyLive

-----------------------------------------------------------------------------
NoCase ==
    [status |-> "ABSENT", unit |-> None, consumer |-> None, candidate |-> None, plan |-> None]

\* A consumer may have been registered on its own page, before any case.
Init ==
    /\ readiness = [k \in Candidate |-> AuditedReadiness(k)]
    /\ reviews = [k \in Candidate |-> << >>]
    /\ resolutions = [k \in Candidate |-> [code \in Code |-> 0]]
    /\ pending_orphans = BlockingOrphan
    /\ reviewing = [u \in User |-> None]
    /\ command = "IDLE"
    /\ plans = {}
    /\ executions = << >>
    /\ operators = [o \in Operator |-> Resting]
    /\ sales_cases = [c \in Case |-> NoCase]
    /\ consumers \in SUBSET Consumer
    /\ unit_status = [u \in Unit |-> "TERSEDIA"]

ReviewNext ==
    \/ \E u \in User : \/ \E k \in Candidate : BeginReview(u, k)
                      \/ \E decision \in Decision : EndReview(u, decision)
    \/ \E k \in Candidate, code \in Code : ResolveBlockingException(k, code)
    \/ \E o \in BlockingOrphan : ResolveOrphan(o)

CommandNext == \E done \in SUBSET Candidate : ResolveDeterministic(done) \/ Recalculate(done)

ImportNext ==
    \E o \in Operator :
        \/ \E p \in plans : Preflight(o, p)
        \/ CreateExecution(o) \/ RunExecution(o)
        \/ BeginImport(o) \/ CommitImport(o) \/ RollBack(o)
        \/ EndExecution(o) \/ Abort(o)

LiveNext ==
    \E c \in Case : Close(c) \/ \E u \in Unit, k \in Consumer : Book(c, u, k)

Next == ReviewNext \/ CommandNext \/ Generate \/ ImportNext \/ LiveNext

Spec == Init /\ [][Next]_vars

-----------------------------------------------------------------------------
(* Properties. *)

CaseRow ==
    [ status : {"ACTIVE", "CLOSED"}, unit : Unit, consumer : Consumer,
      candidate : Candidate \cup {None}, plan : plans \cup {None} ]
Place == { "BACKUP", "PENDING", "RUNNING", "IMPORT", "COMMITTED", "THROWN" }

\* Every column keeps its domain; cases, executions and operators name plans that exist.
TypeOK ==
    /\ readiness \in [Candidate -> Readiness]
    /\ reviews \in [Candidate -> Seq(Decision)]
    /\ resolutions \in [Candidate -> [Code -> Nat]]
    /\ pending_orphans \subseteq BlockingOrphan
    /\ reviewing \in [User -> Candidate \cup {None}]
    /\ command \in {"IDLE", "RESOLVED"}
    /\ plans \subseteq Plan
    /\ DOMAIN executions \subseteq plans
    /\ executions \in [DOMAIN executions -> ExecutionStatus]
    /\ operators \in [Operator -> {Resting}
                        \cup [pc : Place, plan : plans, before : SUBSET Case]]
    /\ sales_cases \in [Case -> CaseRow \cup {NoCase}]
    /\ consumers \subseteq Consumer
    /\ unit_status \in [Unit -> UnitStatus]

\* The readiness a candidate is stored with is never ahead of what its exceptions,
\* resolutions and reviews give: a page that shows AUTO shows a candidate that may
\* be planned, one that shows REVIEW a candidate without blockers.
rank(r) == CASE r = "BLOCKED" -> 1 [] r = "REVIEW" -> 2 [] r = "AUTO" -> 3

StoredNeverAheadOfCalculated == \A k \in Candidate : rank(readiness[k]) <= rank(calculate(k))

\* Whatever users, the command and imports do, in whatever order their checks and
\* writes meet, no candidate becomes less ready than it was: what was eligible when
\* a plan was written is eligible when it is imported.
ReadinessOnlyGrows ==
    [][\A k \in Candidate : rank(calculate(k)) <= rank(calculate(k)')]_decisions

\* Nothing is imported that the audit did not pass and nobody accepted, and nothing
\* with a blocker left.
settled(k) ==
    /\ ~ unresolved(k, Batch[k].blocking)
    /\ AuditedReadiness(k) = "AUTO" \/ accepted(k)

ImportedAreAccepted ==
    \A c \in Case :
        (Exists(c) /\ sales_cases[c].candidate # None) => settled(sales_cases[c].candidate)

\* A candidate has two cases only if two plans imported it, and then at most one of
\* them is ACTIVE: two consoles, a crash and a retry never import one plan twice.
SecondImportNeedsSecondPlan ==
    \A c, d \in Case :
        ( /\ c # d /\ Exists(c) /\ Exists(d)
          /\ sales_cases[c].candidate # None
          /\ sales_cases[c].candidate = sales_cases[d].candidate ) =>
            /\ sales_cases[c].plan # sales_cases[d].plan
            /\ ~ (sales_cases[c].status = "ACTIVE" /\ sales_cases[d].status = "ACTIVE")

\* The execution tells what is in the tables: COMPLETED that every candidate of the
\* plan has its case, PENDING and FAILED that none has, whatever died when.  Only a
\* RUNNING one that nobody runs any more leaves it open.
wholly(p) == \A k \in p.candidates : \E c \in casesOfPlan(p) : sales_cases[c].candidate = k

ExecutionTellsImport ==
    \A p \in plans :
        /\ executionOf(p) = "COMPLETED" => wholly(p)
        /\ executionOf(p) \in {"NONE", "PENDING", "FAILED"} => casesOfPlan(p) = {}
        /\ casesOfPlan(p) # {} => wholly(p)

\* An execution is created once and only goes on from PENDING over RUNNING to its end.
ExecutionsGoForward ==
    [][\A p \in DOMAIN executions :
          executions'[p] # executions[p] =>
              << executions[p], executions'[p] >> \in
                 { <<"PENDING", "RUNNING">>, <<"RUNNING", "COMPLETED">>, <<"RUNNING", "FAILED">> }]_executions

=============================================================================
