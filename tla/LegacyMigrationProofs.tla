----------------------- MODULE LegacyMigrationProofs -----------------------
(***************************************************************************)
(* Proofs about LegacyMigration: readiness only grows, nothing unaccepted  *)
(* is imported, and no plan is imported twice, for every batch, any number *)
(* of users and consoles, and every bound.                                 *)
(***************************************************************************)
EXTENDS LegacyMigration, FiniteSetTheorems, TLAPS

-----------------------------------------------------------------------------
(* The inductive invariant. *)

\* What is stored as ready was passed by the audit or accepted.
ReadyIsSettled == \A k \in Candidate : readiness[k] = "AUTO" => settled(k)

\* A plan lists settled candidates, and an imported case belongs to its plan.
PlansAreSettled == \A p \in plans : \A k \in p.candidates : settled(k)

ImportedRow(c) ==
    (Exists(c) /\ sales_cases[c].candidate # None) =>
        /\ sales_cases[c].plan \in plans
        /\ sales_cases[c].candidate \in sales_cases[c].plan.candidates
        /\ sales_cases[c].unit = Batch[sales_cases[c].candidate].unit

ImportedRowsHavePlans == \A c \in Case : ImportedRow(c)

\* How far each console is, against the execution of its plan and the tables.
Importing(o) == operators[o].pc \in {"PENDING", "RUNNING", "IMPORT", "COMMITTED", "THROWN"}

Fits(o) ==
    LET p == operators[o].plan IN
    Importing(o) =>
        /\ executionOf(p) = IF operators[o].pc = "PENDING" THEN "PENDING" ELSE "RUNNING"
        /\ IF operators[o].pc = "COMMITTED" THEN wholly(p) ELSE casesOfPlan(p) = {}

OperatorsMatchExecutions == \A o \in Operator : Fits(o)

OneConsolePerPlan ==
    \A o1, o2 \in Operator :
        (Importing(o1) /\ Importing(o2) /\ operators[o1].plan = operators[o2].plan) => o1 = o2

OneCasePerCandidate ==
    \A c, d \in Case :
        ( /\ c # d /\ Exists(c) /\ Exists(d) /\ sales_cases[c].candidate # None
          /\ sales_cases[c].candidate = sales_cases[d].candidate ) =>
            sales_cases[c].plan # sales_cases[d].plan

MigrationInvariant ==
    /\ TypeOK
    /\ ReadyIsSettled /\ PlansAreSettled /\ ImportedRowsHavePlans
    /\ OperatorsMatchExecutions /\ OneConsolePerPlan
    /\ ExecutionTellsImport /\ OneCasePerCandidate /\ UniqueActive

-----------------------------------------------------------------------------
(* Type correctness. *)

LEMMA TypeInit == Init => TypeOK
  <1> SUFFICES ASSUME Init PROVE TypeOK
    OBVIOUS
  <1> USE MigrationAssumption DEF Init
  <1>1. readiness \in [Candidate -> Readiness]
    BY DEF AuditedReadiness, Readiness
  <1>2. /\ reviews \in [Candidate -> Seq(Decision)]
        /\ resolutions \in [Candidate -> [Code -> Nat]]
        /\ pending_orphans \subseteq BlockingOrphan
        /\ reviewing \in [User -> Candidate \cup {None}]
        /\ command \in {"IDLE", "RESOLVED"}
    OBVIOUS
  <1>3. /\ plans \subseteq Plan /\ DOMAIN executions \subseteq plans
        /\ executions \in [DOMAIN executions -> ExecutionStatus]
    OBVIOUS
  <1>4. operators \in [Operator -> {Resting} \cup [pc : Place, plan : plans, before : SUBSET Case]]
    OBVIOUS
  <1>5. sales_cases \in [Case -> CaseRow \cup {NoCase}]
    OBVIOUS
  <1>6. consumers \subseteq Consumer /\ unit_status \in [Unit -> UnitStatus]
    BY DEF UnitStatus
  <1> QED
    BY <1>1, <1>2, <1>3, <1>4, <1>5, <1>6 DEF TypeOK

LEMMA CalculateType ==
    ASSUME NEW k \in Candidate
    PROVE  calculate(k) \in Readiness
  BY DEF calculate, Readiness

\* An operator's new place is one of its type's, whatever the console does.
LEMMA OperatorType ==
    ASSUME TypeOK, NEW o \in Operator, NEW x, plans' = plans,
           operators' = [operators EXCEPT ![o] = x],
           x \in {Resting} \cup [pc : Place, plan : plans, before : SUBSET Case]
    PROVE  operators' \in [Operator -> {Resting} \cup [pc : Place, plan : plans', before : SUBSET Case]]
  BY DEF TypeOK

LEMMA AtType ==
    ASSUME NEW p \in plans, NEW pc \in Place
    PROVE  At(pc, p) \in [pc : Place, plan : plans, before : SUBSET Case]
  BY DEF At

LEMMA OperatorsPlan ==
    ASSUME TypeOK, NEW o \in Operator, operators[o].pc \in Place
    PROVE  operators[o].plan \in plans
  BY DEF TypeOK, Resting, Place

\* What the steps of an import leave alone.
Untouched == << readiness, reviews, resolutions, pending_orphans, reviewing, command, plans >>

LEMMA ConsoleType ==
    ASSUME TypeOK, UNCHANGED Untouched,
           DOMAIN executions' \subseteq plans',
           executions' \in [DOMAIN executions' -> ExecutionStatus],
           operators' \in [Operator -> {Resting} \cup [pc : Place, plan : plans', before : SUBSET Case]],
           sales_cases' \in [Case -> CaseRow' \cup {NoCase}],
           consumers' \subseteq Consumer, unit_status' \in [Unit -> UnitStatus]
    PROVE  TypeOK'
  BY DEF TypeOK, Untouched

LEMMA SetExecutionType ==
    ASSUME TypeOK, NEW p \in plans, NEW status \in ExecutionStatus, plans' = plans,
           executions' = setExecution(p, status)
    PROVE  /\ DOMAIN executions' \subseteq plans'
           /\ executions' \in [DOMAIN executions' -> ExecutionStatus]
  BY DEF TypeOK, setExecution

\* A step that changes only executions and the place of one console.
LEMMA ExecutionStepType ==
    ASSUME TypeOK, UNCHANGED << Untouched, live >>, NEW o \in Operator, NEW p \in plans,
           NEW x \in {Resting} \cup [pc : Place, plan : plans, before : SUBSET Case],
           operators' = [operators EXCEPT ![o] = x],
           \/ executions' = executions
           \/ \E status \in ExecutionStatus : executions' = setExecution(p, status)
    PROVE  TypeOK'
  <1>1. plans' = plans /\ sales_cases' = sales_cases /\ consumers' = consumers
        /\ unit_status' = unit_status
    BY DEF Untouched, live
  <1>2. operators' \in [Operator -> {Resting} \cup [pc : Place, plan : plans', before : SUBSET Case]]
    BY <1>1, OperatorType
  <1>3. /\ DOMAIN executions' \subseteq plans'
        /\ executions' \in [DOMAIN executions' -> ExecutionStatus]
    <2>1. CASE executions' = executions
      BY <1>1, <2>1 DEF TypeOK
    <2>2. ASSUME NEW status \in ExecutionStatus, executions' = setExecution(p, status)
          PROVE  /\ DOMAIN executions' \subseteq plans'
                 /\ executions' \in [DOMAIN executions' -> ExecutionStatus]
      BY <1>1, <2>2, SetExecutionType
    <2> QED
      BY <2>1, <2>2
  <1>4. sales_cases' \in [Case -> CaseRow' \cup {NoCase}]
    BY <1>1 DEF TypeOK, CaseRow
  <1> QED
    BY <1>1, <1>2, <1>3, <1>4, ConsoleType DEF TypeOK, Untouched

LEMMA ReviewType == ASSUME TypeOK, ReviewNext PROVE TypeOK'
  <1>1. ASSUME NEW u \in User, NEW k \in Candidate, BeginReview(u, k) PROVE TypeOK'
    BY <1>1 DEF TypeOK, BeginReview, decisions, live, CaseRow
  <1>2. ASSUME NEW u \in User, NEW d \in Decision, EndReview(u, d) PROVE TypeOK'
    <2>1. reviewing[u] \in Candidate
      BY <1>2 DEF EndReview, TypeOK
    <2>2. Append(reviews[reviewing[u]], d) \in Seq(Decision)
      BY <2>1 DEF TypeOK
    <2>3. reviews' \in [Candidate -> Seq(Decision)]
      BY <1>2, <2>1, <2>2 DEF EndReview, TypeOK
    <2>4. reviewing' \in [User -> Candidate \cup {None}]
      BY <1>2 DEF EndReview, TypeOK
    <2> QED
      BY <1>2, <2>3, <2>4 DEF EndReview, TypeOK, live, CaseRow
  <1>3. ASSUME NEW k \in Candidate, NEW code \in Code, ResolveBlockingException(k, code) PROVE TypeOK'
    <2>1. resolutions' \in [Candidate -> [Code -> Nat]]
      BY <1>3 DEF ResolveBlockingException, TypeOK
    <2> QED
      BY <1>3, <2>1 DEF ResolveBlockingException, TypeOK, live, CaseRow
  <1>4. ASSUME NEW o \in BlockingOrphan, ResolveOrphan(o) PROVE TypeOK'
    BY <1>4 DEF ResolveOrphan, TypeOK, live, CaseRow
  <1> QED
    BY <1>1, <1>2, <1>3, <1>4 DEF ReviewNext

LEMMA CommandType == ASSUME TypeOK, CommandNext PROVE TypeOK'
  <1>1. ASSUME NEW done \in SUBSET Candidate, ResolveDeterministic(done) PROVE TypeOK'
    <2>1. \A k \in Candidate : resolvedOnce(k, Batch[k].deterministic) \in [Code -> Nat]
      BY DEF TypeOK, resolvedOnce
    <2>2. resolutions' \in [Candidate -> [Code -> Nat]]
      BY <1>1, <2>1 DEF ResolveDeterministic, TypeOK
    <2>3. command' \in {"IDLE", "RESOLVED"}
      BY <1>1 DEF ResolveDeterministic
    <2> QED
      BY <1>1, <2>2, <2>3 DEF ResolveDeterministic, TypeOK, live, CaseRow
  <1>2. ASSUME NEW done \in SUBSET Candidate, Recalculate(done) PROVE TypeOK'
    <2>1. readiness' \in [Candidate -> Readiness]
      BY <1>2, CalculateType DEF Recalculate, TypeOK
    <2>2. command' \in {"IDLE", "RESOLVED"}
      BY <1>2 DEF Recalculate
    <2> QED
      BY <1>2, <2>1, <2>2 DEF Recalculate, TypeOK, live, CaseRow
  <1> QED
    BY <1>1, <1>2 DEF CommandNext

LEMMA GenerateType == ASSUME TypeOK, Generate PROVE TypeOK'
  <1> DEFINE eligible == { k \in Candidate : calculate(k) = "AUTO" }
  <1>1. NewPlan(eligible) \in Plan
    BY DEF NewPlan, Plan, TypeOK
  <1>2. plans' = plans \cup { NewPlan(eligible) }
    BY DEF Generate
  <1>3. plans' \subseteq Plan /\ plans \subseteq plans'
    BY <1>1, <1>2 DEF TypeOK
  <1>4. operators' \in [Operator -> {Resting} \cup [pc : Place, plan : plans', before : SUBSET Case]]
    BY <1>3 DEF Generate, TypeOK
  <1>5. sales_cases' \in [Case -> CaseRow' \cup {NoCase}]
    BY <1>3 DEF Generate, TypeOK, live, CaseRow
  <1> QED
    BY <1>3, <1>4, <1>5 DEF Generate, TypeOK, decisions, live

LEMMA LiveType == ASSUME TypeOK, LiveNext PROVE TypeOK'
  <1>1. ASSUME NEW c \in Case, NEW u \in Unit, NEW k \in Consumer, Book(c, u, k) PROVE TypeOK'
    <2>1. UNCHANGED Untouched /\ UNCHANGED << executions, operators >>
      BY <1>1 DEF Book, OnlyLive, Untouched, decisions
    <2>2. sales_cases' \in [Case -> CaseRow' \cup {NoCase}]
      BY <1>1, <2>1 DEF Book, TypeOK, CaseRow, Untouched
    <2>3. consumers' \subseteq Consumer /\ unit_status' \in [Unit -> UnitStatus]
      BY <1>1 DEF Book, TypeOK, UnitStatus
    <2> QED
      BY <2>1, <2>2, <2>3, ConsoleType DEF TypeOK, Untouched
  <1>2. ASSUME NEW c \in Case, Close(c) PROVE TypeOK'
    <2>1. UNCHANGED Untouched /\ UNCHANGED << executions, operators >>
      BY <1>2 DEF Close, OnlyLive, Untouched, decisions
    <2>2. sales_cases[c] \in CaseRow
      BY <1>2 DEF Close, TypeOK, NoCase
    <2>3. [sales_cases[c] EXCEPT !.status = "CLOSED"] \in CaseRow'
      BY <2>1, <2>2 DEF CaseRow, Untouched
    <2>4. sales_cases' \in [Case -> CaseRow' \cup {NoCase}]
      BY <1>2, <2>1, <2>3 DEF Close, TypeOK, CaseRow, Untouched
    <2>5. consumers' \subseteq Consumer /\ unit_status' \in [Unit -> UnitStatus]
      BY <1>2 DEF Close, TypeOK, UnitStatus
    <2> QED
      BY <2>1, <2>4, <2>5, ConsoleType DEF TypeOK, Untouched
  <1> QED
    BY <1>1, <1>2 DEF LiveNext

\* The number of cases that exist.
LEMMA CountedType == counted \subseteq Case /\ Cardinality(counted) \in Nat
  <1>1. MaxCases \in Int /\ 1 \in Int
    BY MigrationAssumption
  <1>2. IsFiniteSet(Case)
    BY <1>1, FS_Interval DEF Case
  <1>3. counted \in SUBSET Case
    BY DEF counted
  <1>4. IsFiniteSet(counted)
    BY <1>2, <1>3, FS_Subset
  <1> QED
    BY <1>3, <1>4, FS_CardinalityType

\* The row an import writes is one of the table's.
LEMMA ImportedCaseType ==
    ASSUME NEW p \in plans, NEW k \in p.candidates, k \in Candidate
    PROVE  importedCase(p, k) \in CaseRow
  BY MigrationAssumption DEF importedCase, CaseRow, AuditedCandidate

LEMMA CommitType ==
    ASSUME TypeOK, NEW o \in Operator, CommitImport(o) PROVE TypeOK'
  <1> DEFINE p == operators[o].plan
  <1>1. p \in plans /\ p.candidates \subseteq Candidate
    BY OperatorsPlan DEF CommitImport, Place, TypeOK, Plan
  <1>2. UNCHANGED Untouched /\ executions' = executions
    BY DEF CommitImport, decisions, Untouched
  <1>3. sales_cases' \in [Case -> CaseRow' \cup {NoCase}]
    <2>1. PICK order \in orders(p) :
             sales_cases' = [c \in Case |->
                IF \E i \in DOMAIN order : isNewId(c, i)
                THEN importedCase(p, order[c - Cardinality(counted)]) ELSE sales_cases[c]]
      BY DEF CommitImport, insertCases
    <2>2. ASSUME NEW c \in Case, NEW i \in DOMAIN order, isNewId(c, i)
          PROVE  importedCase(p, order[c - Cardinality(counted)]) \in CaseRow
      <3>1. counted \subseteq Case /\ Cardinality(counted) \in Nat
        BY CountedType
      <3>2. c - Cardinality(counted) = i
        BY <2>2, <3>1 DEF isNewId, Case, orders
      <3>3. order[i] \in p.candidates
        BY <2>2 DEF orders
      <3> QED
        BY <1>1, <3>2, <3>3, ImportedCaseType
    <2>3. CaseRow' = CaseRow
      BY <1>2 DEF CaseRow, Untouched
    <2> QED
      BY <2>1, <2>2, <2>3 DEF TypeOK
  <1>4. consumers' \subseteq Consumer
    BY <1>1, MigrationAssumption DEF CommitImport, TypeOK, AuditedCandidate
  <1>5. unit_status' \in [Unit -> UnitStatus]
    BY DEF CommitImport, setFinalUnitStates
  <1>6. At("COMMITTED", p) \in [pc : Place, plan : plans, before : SUBSET Case]
    BY <1>1, AtType DEF Place
  <1>7. operators' \in [Operator -> {Resting} \cup [pc : Place, plan : plans', before : SUBSET Case]]
    BY <1>2, <1>6, OperatorType DEF CommitImport, Untouched
  <1> QED
    BY <1>2, <1>3, <1>4, <1>5, <1>7, ConsoleType DEF TypeOK, Untouched

LEMMA ImportType == ASSUME TypeOK, ImportNext PROVE TypeOK'
  <1> PICK o \in Operator :
         \/ \E p \in plans : Preflight(o, p)
         \/ CreateExecution(o) \/ RunExecution(o)
         \/ BeginImport(o) \/ CommitImport(o) \/ RollBack(o)
         \/ EndExecution(o) \/ Abort(o)
    BY DEF ImportNext
  <1> DEFINE p == operators[o].plan
             places == {Resting} \cup [pc : Place, plan : plans, before : SUBSET Case]
  <1>1. Resting \in places /\ \A q \in plans, pc \in Place : At(pc, q) \in places
    BY AtType
  <1>2. operators[o].pc \in Place => p \in plans
    BY OperatorsPlan
  <1>3. ASSUME NEW q \in plans, Preflight(o, q) PROVE TypeOK'
    <2>1. At("BACKUP", q) \in places
      BY <1>1 DEF Place
    <2> QED
      BY <1>3, <2>1, ExecutionStepType DEF Preflight, OnlyOperator, Untouched, decisions, live
  <1>4. CASE CreateExecution(o)
    <2>1. p \in plans /\ At("PENDING", p) \in places
      BY <1>1, <1>2, <1>4 DEF CreateExecution, Place
    <2> QED
      BY <1>4, <2>1, ExecutionStepType DEF CreateExecution, ExecutionStatus, Untouched, decisions
  <1>5. CASE RunExecution(o)
    <2>1. p \in plans /\ At("RUNNING", p) \in places
      BY <1>1, <1>2, <1>5 DEF RunExecution, Place
    <2> QED
      BY <1>5, <2>1, ExecutionStepType DEF RunExecution, ExecutionStatus, Untouched, decisions
  <1>6. CASE BeginImport(o)
    <2>1. p \in plans
      BY <1>2, <1>6 DEF BeginImport, Place
    <2>2. [At("IMPORT", p) EXCEPT !.before = counted] \in places
      BY <2>1 DEF At, Place, counted
    <2> QED
      BY <1>6, <2>1, <2>2, ExecutionStepType DEF BeginImport, OnlyOperator, Untouched, decisions, live
  <1>7. CASE CommitImport(o)
    BY <1>7, CommitType
  <1>8. CASE RollBack(o)
    <2>1. p \in plans /\ At("THROWN", p) \in places
      BY <1>1, <1>2, <1>8 DEF RollBack, Place
    <2> QED
      BY <1>8, <2>1, ExecutionStepType DEF RollBack, OnlyOperator, Untouched, decisions, live
  <1>9. CASE EndExecution(o)
    <2>1. p \in plans
      BY <1>2, <1>9 DEF EndExecution, Place
    <2>2. \E status \in ExecutionStatus : executions' = setExecution(p, status)
      BY <1>9 DEF EndExecution, ExecutionStatus
    <2> QED
      BY <1>1, <1>9, <2>1, <2>2, ExecutionStepType DEF EndExecution, Untouched, decisions
  <1>10. CASE Abort(o)
    <2>1. operators[o].pc \in Place
      BY <1>10 DEF Abort, TypeOK
    <2> QED
      BY <1>1, <1>2, <1>10, <2>1, ExecutionStepType
      DEF Abort, OnlyOperator, Untouched, decisions, live
  <1> QED
    BY <1>3, <1>4, <1>5, <1>6, <1>7, <1>8, <1>9, <1>10

LEMMA TypeStep == TypeOK /\ [Next]_vars => TypeOK'
  <1>1. CASE UNCHANGED vars
    BY <1>1 DEF vars, decisions, live, TypeOK, CaseRow
  <1> QED
    BY <1>1, ReviewType, CommandType, GenerateType, ImportType, LiveType DEF Next

\* TypeOK: every column of the legacy tables keeps its domain, and executions, cases
\* and consoles name plans that exist.
THEOREM TypeCorrect == Spec => []TypeOK
  BY TypeInit, TypeStep, PTL DEF Spec

-----------------------------------------------------------------------------
(* Readiness only grows. *)

\* What readiness is calculated from is only ever added to.
EvidenceGrows(k) ==
    /\ accepted(k) => accepted(k)'
    /\ \A code \in Code : resolutions[k][code] # 0 => resolutions'[k][code] # 0

LEMMA SameEvidence ==
    ASSUME NEW k, reviews' = reviews, resolutions' = resolutions
    PROVE  EvidenceGrows(k)
  BY DEF EvidenceGrows, accepted

LEMMA EvidenceStep ==
    ASSUME TypeOK, [Next]_vars, NEW k \in Candidate
    PROVE  EvidenceGrows(k)
  <1>1. CASE UNCHANGED << reviews, resolutions >>
    BY <1>1, SameEvidence
  <1>2. ASSUME NEW u \in User, NEW d \in Decision, EndReview(u, d) PROVE EvidenceGrows(k)
    <2>1. resolutions' = resolutions /\ reviewing[u] \in Candidate
      BY <1>2 DEF EndReview, TypeOK
    <2>2. CASE reviews' = reviews
      BY <2>1, <2>2, SameEvidence
    <2>3. CASE reviews' = [reviews EXCEPT ![reviewing[u]] = Append(@, d)]
      <3>1. reviews[k] \in Seq(Decision) /\ reviews[reviewing[u]] \in Seq(Decision)
        BY <2>1 DEF TypeOK
      <3>2. reviews'[k] = IF k = reviewing[u] THEN Append(reviews[k], d) ELSE reviews[k]
        BY <2>3 DEF TypeOK
      <3>3. \A i \in DOMAIN reviews[k] : i \in DOMAIN reviews'[k] /\ reviews'[k][i] = reviews[k][i]
        BY <3>1, <3>2
      <3> QED
        BY <2>1, <3>3 DEF EvidenceGrows, accepted
    <2> QED
      BY <1>2, <2>2, <2>3 DEF EndReview
  <1>3. ASSUME NEW c \in Candidate, NEW code \in Code, ResolveBlockingException(c, code)
        PROVE  EvidenceGrows(k)
    BY <1>3 DEF ResolveBlockingException, EvidenceGrows, accepted, TypeOK
  <1>4. ASSUME NEW done \in SUBSET Candidate, ResolveDeterministic(done) PROVE EvidenceGrows(k)
    BY <1>4 DEF ResolveDeterministic, resolvedOnce, EvidenceGrows, accepted, TypeOK
  <1>5. ASSUME ReviewNext PROVE EvidenceGrows(k)
    BY <1>1, <1>2, <1>3, <1>5 DEF ReviewNext, BeginReview, ResolveOrphan, decisions
  <1>6. ASSUME CommandNext PROVE EvidenceGrows(k)
    BY <1>1, <1>4, <1>6 DEF CommandNext, Recalculate
  <1>7. ASSUME ImportNext PROVE EvidenceGrows(k)
    BY <1>1, <1>7 DEF ImportNext, Preflight, CreateExecution, RunExecution, BeginImport, CommitImport,
       RollBack, EndExecution, Abort, OnlyOperator, decisions
  <1>8. ASSUME Generate \/ LiveNext \/ UNCHANGED vars PROVE EvidenceGrows(k)
    BY <1>1, <1>8 DEF Generate, LiveNext, Book, Close, OnlyLive, vars, decisions
  <1> QED
    BY <1>5, <1>6, <1>7, <1>8 DEF Next

\* The stored readiness is written by the console command only, and with what it calculates.
LEMMA ReadinessStep ==
    ASSUME TypeOK, [Next]_vars, NEW k \in Candidate
    PROVE  readiness'[k] = readiness[k] \/ readiness'[k] = calculate(k)
  <1>1. ASSUME NEW done \in SUBSET Candidate, Recalculate(done)
        PROVE  readiness'[k] = readiness[k] \/ readiness'[k] = calculate(k)
    BY <1>1 DEF Recalculate
  <1>2. ASSUME ReviewNext \/ Generate \/ LiveNext \/ UNCHANGED vars PROVE readiness' = readiness
    BY <1>2 DEF ReviewNext, BeginReview, EndReview, ResolveBlockingException, ResolveOrphan,
       Generate, LiveNext, Book, Close, OnlyLive, vars, decisions
  <1>3. ASSUME ImportNext PROVE readiness' = readiness
    BY <1>3 DEF ImportNext, Preflight, CreateExecution, RunExecution, BeginImport, CommitImport,
       RollBack, EndExecution, Abort, OnlyOperator, decisions
  <1>4. ASSUME NEW done \in SUBSET Candidate, ResolveDeterministic(done) PROVE readiness' = readiness
    BY <1>4 DEF ResolveDeterministic
  <1> QED
    BY <1>1, <1>2, <1>3, <1>4 DEF Next, CommandNext

LEMMA CalculateGrows ==
    ASSUME TypeOK, NEW k \in Candidate, EvidenceGrows(k),
           readiness'[k] = readiness[k] \/ readiness'[k] = calculate(k)
    PROVE  /\ rank(calculate(k)) <= rank(calculate(k)')
           /\ rank(readiness[k]) <= rank(calculate(k)) => rank(readiness'[k]) <= rank(calculate(k)')
  <1>1. /\ unresolved(k, Batch[k].blocking)' => unresolved(k, Batch[k].blocking)
        /\ unresolved(k, Batch[k].review)' => unresolved(k, Batch[k].review)
    BY MigrationAssumption DEF unresolved, EvidenceGrows, AuditedCandidate
  <1>2. readiness[k] \in Readiness
    BY DEF TypeOK
  <1> QED
    BY <1>1, <1>2 DEF EvidenceGrows, calculate, rank, Readiness

\* ReadinessOnlyGrows: what is eligible when a plan is written stays eligible.
THEOREM ReadinessNeverShrinks == Spec => ReadinessOnlyGrows
  <1>1. ASSUME TypeOK, [Next]_vars
        PROVE  [\A k \in Candidate : rank(calculate(k)) <= rank(calculate(k)')]_decisions
    BY <1>1, EvidenceStep, ReadinessStep, CalculateGrows
  <1> QED
    BY <1>1, TypeCorrect, PTL DEF Spec, ReadinessOnlyGrows

\* StoredNeverAheadOfCalculated: the readiness a page shows is never ahead of the facts.
THEOREM StoredIsSafe == Spec => []StoredNeverAheadOfCalculated
  <1>1. Init => StoredNeverAheadOfCalculated
    <2> SUFFICES ASSUME Init, NEW k \in Candidate
                 PROVE  rank(readiness[k]) <= rank(calculate(k))
      BY DEF StoredNeverAheadOfCalculated
    <2>1. readiness[k] = AuditedReadiness(k)
      BY DEF Init
    <2>2. /\ unresolved(k, Batch[k].blocking) => Batch[k].blocking # {}
          /\ unresolved(k, Batch[k].review) => Batch[k].review # {}
      BY DEF unresolved
    <2> QED
      BY <2>1, <2>2 DEF AuditedReadiness, calculate, rank
  <1>2. TypeOK /\ StoredNeverAheadOfCalculated /\ [Next]_vars => StoredNeverAheadOfCalculated'
    BY EvidenceStep, ReadinessStep, CalculateGrows DEF StoredNeverAheadOfCalculated
  <1> QED
    BY <1>1, <1>2, TypeCorrect, PTL DEF Spec

-----------------------------------------------------------------------------
(* Nothing unaccepted is imported. *)

LEMMA SettledGrows ==
    ASSUME NEW k \in Candidate, EvidenceGrows(k), settled(k)
    PROVE  settled(k)'
  BY MigrationAssumption DEF EvidenceGrows, settled, unresolved, AuditedCandidate, AuditedReadiness

LEMMA EligibleIsSettled ==
    ASSUME ReadyIsSettled, NEW k \in Candidate, calculate(k) = "AUTO"
    PROVE  settled(k)
  BY DEF ReadyIsSettled, calculate, settled

LEMMA ReadyStep ==
    ASSUME TypeOK, ReadyIsSettled, [Next]_vars
    PROVE  ReadyIsSettled'
  BY EvidenceStep, ReadinessStep, SettledGrows, EligibleIsSettled DEF ReadyIsSettled

LEMMA PlansStep ==
    ASSUME TypeOK, [Next]_vars
    PROVE  plans' = plans \/ Generate
  BY DEF Next, ReviewNext, BeginReview, EndReview, ResolveBlockingException, ResolveOrphan, CommandNext,
     ResolveDeterministic, Recalculate, ImportNext, Preflight, CreateExecution, RunExecution,
     BeginImport, CommitImport, RollBack, EndExecution, Abort, OnlyOperator, LiveNext, Book, Close,
     OnlyLive, vars

LEMMA PlansSettledStep ==
    ASSUME TypeOK, ReadyIsSettled, PlansAreSettled, [Next]_vars
    PROVE  PlansAreSettled'
  <1>1. SUFFICES ASSUME NEW p \in plans', NEW k \in p.candidates PROVE settled(k)'
    BY DEF PlansAreSettled
  <1>2. CASE p \in plans
    BY <1>2, EvidenceStep, SettledGrows DEF PlansAreSettled, TypeOK, Plan
  <1>3. CASE p \notin plans
    <2>1. p = NewPlan({ c \in Candidate : calculate(c) = "AUTO" })
      BY <1>3, PlansStep DEF Generate
    <2>2. k \in Candidate /\ calculate(k) = "AUTO"
      BY <2>1 DEF NewPlan
    <2> QED
      BY <2>2, EvidenceStep, SettledGrows, EligibleIsSettled
  <1> QED
    BY <1>2, <1>3

-----------------------------------------------------------------------------
(* What the steps do to the cases of a plan. *)

\* The rows an import inserts: one new row for each candidate.
LEMMA CommitRows ==
    ASSUME TypeOK, NEW o \in Operator, CommitImport(o)
    PROVE  LET p == operators[o].plan IN
           /\ p \in plans
           /\ \A c \in Case : ~ Exists(c) \/ sales_cases'[c] = sales_cases[c]
           /\ \A c \in Case : sales_cases'[c] # sales_cases[c] =>
                 \E k \in p.candidates : sales_cases'[c] = importedCase(p, k)
           /\ \A c, d \in Case :
                 (c # d /\ ~ Exists(c) /\ ~ Exists(d) /\ Exists(c)' /\ Exists(d)') =>
                    sales_cases'[c].candidate # sales_cases'[d].candidate
           /\ \A k \in p.candidates : \E c \in Case : sales_cases'[c] = importedCase(p, k)
  <1> DEFINE p == operators[o].plan
             n == Cardinality(counted)
  <1>1. p \in plans
    BY OperatorsPlan DEF CommitImport, Place
  <1>2. PICK order \in orders(p) :
           /\ \A i \in DOMAIN order : \E c \in Case : isNewId(c, i)
           /\ sales_cases' = [c \in Case |->
                IF \E i \in DOMAIN order : isNewId(c, i)
                THEN importedCase(p, order[c - Cardinality(counted)]) ELSE sales_cases[c]]
    BY DEF CommitImport, insertCases
  <1>3. n \in Nat
    BY CountedType
  <1>4. /\ order \in [1 .. Cardinality(p.candidates) -> p.candidates]
        /\ \A k \in p.candidates : \E i \in DOMAIN order : order[i] = k
        /\ \A i, j \in DOMAIN order : i # j => order[i] # order[j]
    BY DEF orders
  <1>5. ASSUME NEW c \in Case, NEW i \in DOMAIN order, isNewId(c, i)
        PROVE  /\ c = n + i /\ i \in Int /\ ~ Exists(c)
               /\ sales_cases'[c] = importedCase(p, order[i])
               /\ order[i] \in p.candidates
    <2>1. c = n + i /\ i \in Int /\ ~ Exists(c) /\ order[i] \in p.candidates
      BY <1>4, <1>5 DEF isNewId
    <2>2. c - n = i
      BY <1>3, <2>1
    <2>3. sales_cases'[c] = importedCase(p, order[c - n])
      BY <1>2, <1>5
    <2> QED
      BY <2>1, <2>2, <2>3
  <1>6. ASSUME NEW c \in Case, sales_cases'[c] # sales_cases[c]
        PROVE  \E i \in DOMAIN order : isNewId(c, i)
    BY <1>2, <1>6
  <1>7. ASSUME NEW c \in Case, NEW d \in Case, c # d, ~ Exists(c), ~ Exists(d), Exists(c)', Exists(d)'
        PROVE  sales_cases'[c].candidate # sales_cases'[d].candidate
    <2>1. PICK i \in DOMAIN order : isNewId(c, i)
      BY <1>6, <1>7 DEF Exists
    <2>2. PICK j \in DOMAIN order : isNewId(d, j)
      BY <1>6, <1>7 DEF Exists
    <2>3. i # j
      BY <1>5, <1>7, <2>1, <2>2
    <2>4. order[i] # order[j]
      BY <1>4, <2>3
    <2>5. importedCase(p, order[i]).candidate = order[i] /\ importedCase(p, order[j]).candidate = order[j]
      BY DEF importedCase
    <2>6. sales_cases'[c] = importedCase(p, order[i]) /\ sales_cases'[d] = importedCase(p, order[j])
      BY <1>5, <2>1, <2>2
    <2> QED
      BY <2>4, <2>5, <2>6
  <1>8. ASSUME NEW k \in p.candidates
        PROVE  \E c \in Case : sales_cases'[c] = importedCase(p, k)
    BY <1>2, <1>4, <1>5
  <1> QED
    BY <1>1, <1>5, <1>6, <1>7, <1>8

\* The live handlers insert rows of no plan, and change nothing an import wrote but the status.
SameRow(c) ==
    /\ Exists(c)' = Exists(c)
    /\ sales_cases'[c].unit = sales_cases[c].unit
    /\ sales_cases'[c].candidate = sales_cases[c].candidate
    /\ sales_cases'[c].plan = sales_cases[c].plan

BookedRow(c) ==
    /\ ~ Exists(c) /\ Exists(c)'
    /\ sales_cases'[c].candidate = None /\ sales_cases'[c].plan = None

LEMMA LiveRows ==
    ASSUME TypeOK, LiveNext, NEW x \in Case
    PROVE  SameRow(x) \/ BookedRow(x)
  <1>1. ASSUME NEW c \in Case, Close(c) PROVE SameRow(x)
    BY <1>1 DEF Close, SameRow, Exists, TypeOK, CaseRow, NoCase
  <1>2. ASSUME NEW c \in Case, NEW u \in Unit, NEW k \in Consumer, Book(c, u, k)
        PROVE  SameRow(x) \/ BookedRow(x)
    BY <1>2 DEF Book, isNewId, SameRow, BookedRow, Exists, TypeOK
  <1> QED
    BY <1>1, <1>2 DEF LiveNext

\* Every step but an import that commits keeps the rows of every plan.
OtherStep == ReviewNext \/ CommandNext \/ Generate \/ LiveNext \/ UNCHANGED vars

ConsoleStep(o) ==
    \/ \E p \in plans : Preflight(o, p)
    \/ CreateExecution(o) \/ RunExecution(o) \/ BeginImport(o)
    \/ RollBack(o) \/ EndExecution(o) \/ Abort(o)

LEMMA KeptRows ==
    ASSUME TypeOK, NEW x \in Case,
           OtherStep \/ \E o \in Operator : ConsoleStep(o)
    PROVE  SameRow(x) \/ BookedRow(x)
  <1>1. CASE sales_cases' = sales_cases
    BY <1>1 DEF SameRow, Exists
  <1>2. ASSUME ReviewNext \/ CommandNext \/ Generate \/ UNCHANGED vars PROVE sales_cases' = sales_cases
    BY <1>2 DEF ReviewNext, BeginReview, EndReview, ResolveBlockingException, ResolveOrphan,
       CommandNext, ResolveDeterministic, Recalculate, Generate, vars, live
  <1>3. ASSUME NEW o \in Operator, ConsoleStep(o) PROVE sales_cases' = sales_cases
    BY <1>3 DEF ConsoleStep, Preflight, CreateExecution, RunExecution, BeginImport, RollBack,
       EndExecution, Abort, OnlyOperator, live
  <1> QED
    BY <1>1, <1>2, <1>3, LiveRows DEF OtherStep

LEMMA NextSteps ==
    ASSUME [Next]_vars
    PROVE  OtherStep \/ (\E o \in Operator : ConsoleStep(o)) \/ (\E o \in Operator : CommitImport(o))
  BY DEF Next, ImportNext, OtherStep, ConsoleStep

LEMMA RowsStep ==
    ASSUME TypeOK, ImportedRowsHavePlans, [Next]_vars
    PROVE  ImportedRowsHavePlans'
  <1>1. plans \subseteq plans'
    BY PlansStep DEF Generate
  <1>2. SUFFICES ASSUME NEW c \in Case PROVE ImportedRow(c)'
    BY DEF ImportedRowsHavePlans
  <1>3. CASE SameRow(c) \/ BookedRow(c)
    BY <1>1, <1>3 DEF SameRow, BookedRow, ImportedRow, ImportedRowsHavePlans
  <1>4. ASSUME NEW o \in Operator, CommitImport(o) PROVE ImportedRow(c)'
    <2>1. CASE sales_cases'[c] = sales_cases[c]
      BY <1>1, <2>1 DEF ImportedRow, ImportedRowsHavePlans, Exists
    <2>2. ASSUME NEW p \in plans, NEW k \in p.candidates, sales_cases'[c] = importedCase(p, k)
          PROVE  ImportedRow(c)'
      BY <1>1, <2>2 DEF ImportedRow, importedCase
    <2> QED
      BY <1>4, <2>1, <2>2, CommitRows
  <1> QED
    BY <1>3, <1>4, KeptRows, NextSteps

-----------------------------------------------------------------------------
(* No plan is imported twice, and executions tell what was imported. *)

Told(p) ==
    /\ executionOf(p) = "COMPLETED" => wholly(p)
    /\ executionOf(p) \in {"NONE", "PENDING", "FAILED"} => casesOfPlan(p) = {}
    /\ casesOfPlan(p) # {} => wholly(p)

\* The cases of a plan and its execution stay.
SameCases(p) == casesOfPlan(p)' = casesOfPlan(p) /\ (wholly(p) => wholly(p)')
SameExecution(p) == executionOf(p)' = executionOf(p)

LEMMA KeptCases ==
    ASSUME \A c \in Case : SameRow(c) \/ BookedRow(c), NEW p \in Plan
    PROVE  SameCases(p)
  <1>1. \A c \in Case : (c \in casesOfPlan(p))' <=> c \in casesOfPlan(p)
    BY MigrationAssumption DEF casesOfPlan, SameRow, BookedRow
  <1>2. casesOfPlan(p)' = casesOfPlan(p)
    BY <1>1 DEF casesOfPlan
  <1>3. \A c \in casesOfPlan(p) : sales_cases'[c].candidate = sales_cases[c].candidate
    BY MigrationAssumption, <1>1 DEF casesOfPlan, SameRow, BookedRow
  <1> QED
    BY <1>2, <1>3 DEF SameCases, wholly

LEMMA FitsStays ==
    ASSUME NEW o \in Operator, Fits(o), operators'[o] = operators[o],
           Importing(o) => SameCases(operators[o].plan) /\ SameExecution(operators[o].plan)
    PROVE  Fits(o)'
  BY DEF Fits, Importing, SameCases, SameExecution

LEMMA ToldStays ==
    ASSUME NEW p, Told(p), SameCases(p), SameExecution(p)
    PROVE  Told(p)'
  BY DEF Told, SameCases, SameExecution

\* What the consoles, the executions and the tables say of each other.
ImportState ==
    /\ OperatorsMatchExecutions /\ OneConsolePerPlan
    /\ \A p \in plans : Told(p)

\* A step that leaves consoles and executions alone.
LEMMA OtherImportState ==
    ASSUME TypeOK, ImportState, OtherStep
    PROVE  ImportState'
  <1>1. operators' = operators /\ executions' = executions
    BY DEF OtherStep, ReviewNext, BeginReview, EndReview, ResolveBlockingException, ResolveOrphan,
       CommandNext, ResolveDeterministic, Recalculate, Generate, LiveNext, Book, Close, OnlyLive, vars
  <1>2. \A p \in Plan : SameCases(p) /\ SameExecution(p)
    BY <1>1, KeptRows, KeptCases DEF SameExecution, executionOf
  <1>3. OperatorsMatchExecutions'
    <2>1. ASSUME NEW o \in Operator, Importing(o) PROVE operators[o].plan \in Plan
      BY <2>1, OperatorsPlan DEF Importing, Place, TypeOK
    <2> QED
      BY <1>1, <1>2, <2>1, FitsStays DEF ImportState, OperatorsMatchExecutions
  <1>4. OneConsolePerPlan'
    BY <1>1 DEF ImportState, OneConsolePerPlan, Importing
  <1>5. ASSUME NEW p \in plans' PROVE Told(p)'
    <2>1. CASE p \in plans
      BY <1>2, <2>1, ToldStays DEF ImportState, TypeOK
    <2>2. CASE p \notin plans
      <3>1. Generate
        BY <2>2 DEF OtherStep, ReviewNext, BeginReview, EndReview, ResolveBlockingException, ResolveOrphan,
           CommandNext, ResolveDeterministic, Recalculate, LiveNext, Book, Close, OnlyLive, vars
      <3>2. p \in Plan
        BY <3>1, GenerateType DEF TypeOK
      <3>3. p \notin DOMAIN executions /\ p # None
        BY <2>2, <3>2, MigrationAssumption DEF TypeOK
      <3>4. \A c \in Case : Exists(c) => sales_cases[c].plan \in plans \cup {None}
        BY DEF TypeOK, CaseRow, NoCase, Exists
      <3>5. casesOfPlan(p) = {}
        BY <2>2, <3>3, <3>4 DEF casesOfPlan
      <3>6. casesOfPlan(p)' = {} /\ executionOf(p)' = "NONE"
        BY <1>1, <1>2, <3>2, <3>3, <3>5 DEF SameCases, executionOf
      <3> QED
        BY <3>6 DEF Told
    <2> QED
      BY <2>1, <2>2
  <1> QED
    BY <1>3, <1>4, <1>5 DEF ImportState

\* A step of one console that leaves the tables alone: what its own plan says is to be
\* shown, the rest follows.
LEMMA ConsoleImportState ==
    ASSUME TypeOK, ImportState, NEW o \in Operator, NEW p \in plans, plans' = plans,
           \A q \in plans : q # p => SameCases(q) /\ SameExecution(q),
           \A other \in Operator \ {o} : operators'[other] = operators[other],
           (SameCases(p) /\ SameExecution(p)) \/
              (\A other \in Operator \ {o} : Importing(other) => operators[other].plan # p),
           Importing(o)' => operators'[o].plan = p /\
              \A other \in Operator \ {o} : Importing(other) => operators[other].plan # p,
           Fits(o)', Told(p)'
    PROVE  ImportState'
  <1>1. ASSUME NEW x \in Operator \ {o} PROVE Fits(x)'
    <2>1. Importing(x) => operators[x].plan \in plans
      BY OperatorsPlan DEF Importing, Place
    <2>2. Importing(x) => SameCases(operators[x].plan) /\ SameExecution(operators[x].plan)
      BY <2>1
    <2> QED
      BY <2>2, FitsStays DEF ImportState, OperatorsMatchExecutions
  <1>2. OneConsolePerPlan'
    BY DEF ImportState, OneConsolePerPlan, Importing
  <1>3. ASSUME NEW q \in plans PROVE Told(q)'
    BY ToldStays DEF ImportState
  <1> QED
    BY <1>1, <1>2, <1>3 DEF ImportState, OperatorsMatchExecutions

LEMMA SetExecutionElsewhere ==
    ASSUME NEW p, NEW status, executions' = setExecution(p, status)
    PROVE  /\ executionOf(p)' = status
           /\ \A q : q # p => SameExecution(q)
  BY DEF setExecution, SameExecution, executionOf

\* The steps of a console that do not write the execution.
LEMMA PlaceImportState ==
    ASSUME TypeOK, ImportState, NEW o \in Operator,
           (\E p \in plans : Preflight(o, p)) \/ BeginImport(o) \/ RollBack(o) \/ Abort(o)
    PROVE  ImportState'
  <1>1. plans' = plans /\ executions' = executions /\ sales_cases' = sales_cases
    BY DEF Preflight, BeginImport, RollBack, Abort, OnlyOperator, live
  <1>2. \A q \in plans : SameCases(q) /\ SameExecution(q)
    BY <1>1 DEF SameCases, SameExecution, casesOfPlan, Exists, wholly, executionOf
  <1>3. \A other \in Operator \ {o} : operators'[other] = operators[other]
    BY DEF Preflight, BeginImport, RollBack, Abort, TypeOK
  <1>4. \A q \in plans : Told(q)'
    BY <1>2, ToldStays DEF ImportState
  <1>5. CASE (\E p \in plans : Preflight(o, p)) \/ Abort(o)
    <2>1. ~ Importing(o)'
      BY <1>5 DEF Preflight, Abort, Importing, At, Resting, TypeOK
    <2>2. PICK p \in plans : TRUE
      BY <1>5 DEF Abort, TypeOK
    <2> QED
      BY <1>1, <1>2, <1>3, <1>4, <2>1, <2>2, ConsoleImportState DEF Fits
  <1>6. CASE BeginImport(o) \/ RollBack(o)
    <2>p. PICK p \in plans : p = operators[o].plan
      BY <1>6, OperatorsPlan DEF BeginImport, RollBack, Place
    <2>1. Importing(o) /\ operators[o].pc \in {"RUNNING", "IMPORT"}
      BY <1>6 DEF BeginImport, RollBack, Importing
    <2>2. operators'[o].plan = p /\ operators'[o].pc \in {"IMPORT", "THROWN"}
      BY <1>6, <2>p DEF BeginImport, RollBack, OnlyOperator, At, TypeOK
    <2>3. Fits(o)'
      BY <1>2, <2>p, <2>1, <2>2 DEF ImportState, OperatorsMatchExecutions, Fits, Importing, SameCases, SameExecution
    <2>4. \A other \in Operator \ {o} : Importing(other) => operators[other].plan # p
      BY <2>p, <2>1 DEF ImportState, OneConsolePerPlan
    <2> QED
      BY <1>1, <1>2, <1>3, <1>4, <2>2, <2>3, <2>4, ConsoleImportState
  <1> QED
    BY <1>5, <1>6

\* The steps that do.
LEMMA ExecutionImportState ==
    ASSUME TypeOK, ImportState, NEW o \in Operator,
           CreateExecution(o) \/ RunExecution(o) \/ EndExecution(o)
    PROVE  ImportState'
  <1> PICK p \in plans : p = operators[o].plan
    BY OperatorsPlan DEF CreateExecution, RunExecution, EndExecution, Place
  <1>1. plans' = plans /\ sales_cases' = sales_cases
    BY DEF CreateExecution, RunExecution, EndExecution, live
  <1>2. \A q \in plans : SameCases(q)
    BY <1>1 DEF SameCases, casesOfPlan, Exists, wholly
  <1>3. \A q \in plans : q # p => SameExecution(q)
    BY SetExecutionElsewhere DEF CreateExecution, RunExecution, EndExecution
  <1>4. \A other \in Operator \ {o} : operators'[other] = operators[other]
    BY DEF CreateExecution, RunExecution, EndExecution, TypeOK
  <1>5. Told(p) /\ Fits(o)
    BY <1>1 DEF ImportState, OperatorsMatchExecutions
  <1>6. CASE CreateExecution(o)
    <2>1. executionOf(p) = "NONE" /\ casesOfPlan(p) = {}
      BY <1>5, <1>6 DEF CreateExecution, executionOf, Told
    <2>2. operators'[o] = At("PENDING", p) /\ executionOf(p)' = "PENDING"
      BY <1>6, SetExecutionElsewhere DEF CreateExecution, TypeOK
    <2>3. casesOfPlan(p)' = {}
      BY <1>1, <1>2, <2>1 DEF SameCases
    <2>4. Fits(o)' /\ Told(p)' /\ operators'[o].plan = p
      BY <2>2, <2>3 DEF Fits, Told, Importing, At
    <2>5. \A other \in Operator \ {o} : Importing(other) => operators[other].plan # p
      BY <2>1 DEF ImportState, OperatorsMatchExecutions, Fits
    <2> QED
      BY <1>1, <1>2, <1>3, <1>4, <2>4, <2>5, ConsoleImportState
  <1>7. CASE RunExecution(o)
    <2>1. Importing(o) /\ casesOfPlan(p) = {}
      BY <1>5, <1>7 DEF RunExecution, Fits, Importing
    <2>2. operators'[o] = At("RUNNING", p) /\ executionOf(p)' = "RUNNING"
      BY <1>7, SetExecutionElsewhere DEF RunExecution, TypeOK
    <2>3. casesOfPlan(p)' = {}
      BY <1>1, <1>2, <2>1 DEF SameCases
    <2>4. Fits(o)' /\ Told(p)' /\ operators'[o].plan = p
      BY <2>2, <2>3 DEF Fits, Told, Importing, At
    <2>5. \A other \in Operator \ {o} : Importing(other) => operators[other].plan # p
      BY <2>1 DEF ImportState, OneConsolePerPlan
    <2> QED
      BY <1>1, <1>2, <1>3, <1>4, <2>4, <2>5, ConsoleImportState
  <1>8. CASE EndExecution(o)
    <2>1. Importing(o) /\ IF operators[o].pc = "COMMITTED" THEN wholly(p) ELSE casesOfPlan(p) = {}
      BY <1>5, <1>8 DEF EndExecution, Fits, Importing
    <2>2. /\ operators'[o] = Resting
          /\ executionOf(p)' = IF operators[o].pc = "COMMITTED" THEN "COMPLETED" ELSE "FAILED"
      BY <1>8, SetExecutionElsewhere DEF EndExecution, TypeOK
    <2>3. ~ Importing(o)' /\ Fits(o)'
      BY <2>2 DEF Fits, Importing, Resting
    <2>4. Told(p)'
      BY <1>1, <1>2, <2>1, <2>2 DEF Told, SameCases
    <2>5. \A other \in Operator \ {o} : Importing(other) => operators[other].plan # p
      BY <2>1 DEF ImportState, OneConsolePerPlan
    <2> QED
      BY <1>1, <1>2, <1>3, <1>4, <2>3, <2>4, <2>5, ConsoleImportState
  <1> QED
    BY <1>6, <1>7, <1>8

LEMMA CommitImportState ==
    ASSUME TypeOK, ImportState, NEW o \in Operator, CommitImport(o)
    PROVE  ImportState'
  <1> PICK p \in plans : p = operators[o].plan
    BY CommitRows
  <1>1. plans' = plans /\ executions' = executions
    BY DEF CommitImport
  <1>2. \A other \in Operator \ {o} : operators'[other] = operators[other]
    BY DEF CommitImport, TypeOK
  <1>3. operators'[o] = At("COMMITTED", p) /\ operators[o].pc = "IMPORT"
    BY DEF CommitImport, TypeOK
  <1>4. executionOf(p)' = "RUNNING" /\ Importing(o)
    BY <1>1, <1>3 DEF ImportState, OperatorsMatchExecutions, Fits, Importing, executionOf
  <1>5. ASSUME NEW q \in plans, q # p PROVE SameCases(q)
    <2>1. ASSUME NEW c \in Case
          PROVE  /\ (c \in casesOfPlan(q))' <=> c \in casesOfPlan(q)
                 /\ c \in casesOfPlan(q) => sales_cases'[c] = sales_cases[c]
      <3>1. CASE sales_cases'[c] = sales_cases[c]
        BY <3>1 DEF casesOfPlan, Exists
      <3>2. ASSUME NEW k \in p.candidates, sales_cases'[c] = importedCase(p, k), ~ Exists(c)
            PROVE  (c \notin casesOfPlan(q))' /\ c \notin casesOfPlan(q)
        BY <1>5, <3>2 DEF casesOfPlan, importedCase
      <3> QED
        BY <3>1, <3>2, CommitRows
    <2>2. casesOfPlan(q)' = casesOfPlan(q)
      BY <2>1 DEF casesOfPlan
    <2> QED
      BY <2>1, <2>2 DEF SameCases, wholly, casesOfPlan
  <1>6. \A q \in plans : SameExecution(q)
    BY <1>1 DEF SameExecution, executionOf
  <1>7. wholly(p)'
    <2>1. ASSUME NEW k \in p.candidates
          PROVE  \E c \in casesOfPlan(p)' : sales_cases'[c].candidate = k
      <3>1. PICK c \in Case : sales_cases'[c] = importedCase(p, k)
        BY <2>1, CommitRows
      <3>2. sales_cases'[c].candidate = k /\ sales_cases'[c].plan = p /\ Exists(c)'
        BY <3>1 DEF importedCase, Exists
      <3> QED
        BY <3>2 DEF casesOfPlan
    <2> QED
      BY <2>1 DEF wholly
  <1>8. Fits(o)' /\ Told(p)' /\ operators'[o].plan = p
    BY <1>3, <1>4, <1>7 DEF Fits, Told, At
  <1>9. \A other \in Operator \ {o} : Importing(other) => operators[other].plan # p
    BY <1>4 DEF ImportState, OneConsolePerPlan
  <1> QED
    BY <1>1, <1>2, <1>5, <1>6, <1>8, <1>9, ConsoleImportState

LEMMA ImportStateStep ==
    ASSUME TypeOK, ImportState, [Next]_vars
    PROVE  ImportState'
  BY NextSteps, OtherImportState, PlaceImportState, ExecutionImportState, CommitImportState
  DEF ConsoleStep

LEMMA ToldTells == ExecutionTellsImport <=> \A p \in plans : Told(p)
  BY DEF ExecutionTellsImport, Told

\* The rows of one candidate come from different plans.
LEMMA CandidateStep ==
    ASSUME TypeOK, ImportState, OneCasePerCandidate, [Next]_vars
    PROVE  OneCasePerCandidate'
  <1>1. SUFFICES ASSUME NEW c \in Case, NEW d \in Case,
                        (/\ c # d /\ Exists(c) /\ Exists(d) /\ sales_cases[c].candidate # None
                         /\ sales_cases[c].candidate = sales_cases[d].candidate)'
                 PROVE  sales_cases'[c].plan # sales_cases'[d].plan
    BY DEF OneCasePerCandidate
  <1>2. CASE (SameRow(c) \/ BookedRow(c)) /\ (SameRow(d) \/ BookedRow(d))
    BY <1>1, <1>2 DEF SameRow, BookedRow, OneCasePerCandidate
  <1>3. ASSUME NEW o \in Operator, CommitImport(o) PROVE sales_cases'[c].plan # sales_cases'[d].plan
    <2> PICK p \in plans : p = operators[o].plan
      BY <1>3, CommitRows
    <2>1. casesOfPlan(p) = {}
      BY <1>3 DEF CommitImport, ImportState, OperatorsMatchExecutions, Fits, Importing
    <2>2. \A x \in Case : Exists(x) => sales_cases'[x] = sales_cases[x] /\ sales_cases[x].plan # p
      BY <1>3, <2>1, CommitRows DEF casesOfPlan
    <2>3. \A x \in Case : (~ Exists(x) /\ Exists(x)') => sales_cases'[x].plan = p
      <3>1. ASSUME NEW x \in Case, NEW k \in p.candidates, sales_cases'[x] = importedCase(p, k)
            PROVE  sales_cases'[x].plan = p
        BY <3>1 DEF importedCase
      <3> QED
        BY <1>3, <3>1, CommitRows DEF Exists
    <2>4. CASE Exists(c) /\ Exists(d)
      BY <1>1, <2>2, <2>4 DEF OneCasePerCandidate
    <2>5. CASE Exists(c) /\ ~ Exists(d)
      BY <1>1, <2>2, <2>3, <2>5
    <2>6. CASE ~ Exists(c) /\ Exists(d)
      BY <1>1, <2>2, <2>3, <2>6
    <2>7. CASE ~ Exists(c) /\ ~ Exists(d)
      BY <1>1, <1>3, <2>7, CommitRows
    <2> QED
      BY <2>4, <2>5, <2>6, <2>7
  <1> QED
    BY <1>2, <1>3, KeptRows, NextSteps

\* Two ACTIVE cases never share a unit or a consumer: the indexes, and what booking checks.
LEMMA UniqueActiveStep ==
    ASSUME TypeOK, UniqueActive, [Next]_vars
    PROVE  UniqueActive'
  <1>1. CASE sales_cases' = sales_cases
    BY <1>1 DEF UniqueActive
  <1>2. ASSUME NEW o \in Operator, CommitImport(o) PROVE UniqueActive'
    BY <1>2 DEF CommitImport
  <1>3. ASSUME NEW c \in Case, Close(c) PROVE UniqueActive'
    BY <1>3 DEF Close, UniqueActive, TypeOK, CaseRow, NoCase
  <1>4. ASSUME NEW c \in Case, NEW u \in Unit, NEW k \in Consumer, Book(c, u, k) PROVE UniqueActive'
    BY <1>4 DEF Book, isNewId, ActiveOn, UniqueActive, TypeOK
  <1>5. ASSUME OtherStep, ~ LiveNext PROVE sales_cases' = sales_cases
    BY <1>5 DEF OtherStep, ReviewNext, BeginReview, EndReview, ResolveBlockingException, ResolveOrphan,
       CommandNext, ResolveDeterministic, Recalculate, Generate, vars, live
  <1>6. ASSUME NEW o \in Operator, ConsoleStep(o) PROVE sales_cases' = sales_cases
    BY <1>6 DEF ConsoleStep, Preflight, CreateExecution, RunExecution, BeginImport, RollBack,
       EndExecution, Abort, OnlyOperator, live
  <1> QED
    BY <1>1, <1>2, <1>3, <1>4, <1>5, <1>6, NextSteps DEF LiveNext

-----------------------------------------------------------------------------
(* The invariant, and what follows. *)

LEMMA InvariantInit == Init => MigrationInvariant
  <1> SUFFICES ASSUME Init PROVE MigrationInvariant
    OBVIOUS
  <1>1. TypeOK
    BY TypeInit
  <1>2. ReadyIsSettled
    BY DEF Init, ReadyIsSettled, settled, AuditedReadiness, unresolved
  <1>3. PlansAreSettled /\ ExecutionTellsImport
    BY DEF Init, PlansAreSettled, ExecutionTellsImport
  <1>4. ImportedRowsHavePlans /\ OneCasePerCandidate /\ UniqueActive
    BY DEF Init, ImportedRowsHavePlans, ImportedRow, OneCasePerCandidate, UniqueActive, NoCase, Exists
  <1>5. OperatorsMatchExecutions /\ OneConsolePerPlan
    BY DEF Init, OperatorsMatchExecutions, Fits, OneConsolePerPlan, Importing, Resting
  <1> QED
    BY <1>1, <1>2, <1>3, <1>4, <1>5 DEF MigrationInvariant

LEMMA InvariantStep == MigrationInvariant /\ [Next]_vars => MigrationInvariant'
  <1> SUFFICES ASSUME MigrationInvariant, [Next]_vars PROVE MigrationInvariant'
    OBVIOUS
  <1>1. TypeOK /\ TypeOK'
    BY TypeStep DEF MigrationInvariant
  <1>2. ReadyIsSettled' /\ PlansAreSettled' /\ ImportedRowsHavePlans'
    BY <1>1, ReadyStep, PlansSettledStep, RowsStep DEF MigrationInvariant
  <1>3. ImportState
    BY ToldTells DEF MigrationInvariant, ImportState
  <1>4. ImportState'
    BY <1>1, <1>3, ImportStateStep
  <1>5. ExecutionTellsImport' /\ OperatorsMatchExecutions' /\ OneConsolePerPlan'
    BY <1>4, ToldTells DEF ImportState, ExecutionTellsImport, Told
  <1>6. OneCasePerCandidate' /\ UniqueActive'
    BY <1>1, <1>3, CandidateStep, UniqueActiveStep DEF MigrationInvariant
  <1> QED
    BY <1>1, <1>2, <1>5, <1>6 DEF MigrationInvariant

\* The inductive invariant holds, for every batch and any number of consoles.
THEOREM MigrationIsConsistent == Spec => []MigrationInvariant
  BY InvariantInit, InvariantStep, PTL DEF Spec

\* ImportedAreAccepted: nothing is imported that nobody passed, or with a blocker left.
THEOREM OnlyAcceptedIsImported == Spec => []ImportedAreAccepted
  <1>1. MigrationInvariant => ImportedAreAccepted
    BY DEF MigrationInvariant, PlansAreSettled, ImportedRowsHavePlans, ImportedRow, ImportedAreAccepted
  <1> QED
    BY <1>1, MigrationIsConsistent, PTL

\* SecondImportNeedsSecondPlan: crashes, retries and a second console never import one plan twice.
THEOREM PlansAreImportedOnce == Spec => []SecondImportNeedsSecondPlan
  <1>1. MigrationInvariant => SecondImportNeedsSecondPlan
    BY DEF MigrationInvariant, OneCasePerCandidate, UniqueActive, ImportedRowsHavePlans, ImportedRow,
       SecondImportNeedsSecondPlan
  <1> QED
    BY <1>1, MigrationIsConsistent, PTL

\* ExecutionTellsImport: the status of an execution tells what its plan left in the tables.
THEOREM ExecutionsTellImports == Spec => []ExecutionTellsImport
  BY MigrationIsConsistent, PTL DEF MigrationInvariant

\* ExecutionsGoForward: an execution is created once and only goes on.
THEOREM ExecutionsOnlyGoOn == Spec => ExecutionsGoForward
  <1> DEFINE Forward == \A p \in DOMAIN executions :
                executions'[p] # executions[p] =>
                    << executions[p], executions'[p] >> \in
                       { <<"PENDING", "RUNNING">>, <<"RUNNING", "COMPLETED">>, <<"RUNNING", "FAILED">> }
  <1>1. ASSUME MigrationInvariant, [Next]_vars PROVE [Forward]_executions
    <2>1. CASE executions' = executions
      BY <2>1
    <2>2. ASSUME NEW o \in Operator, CreateExecution(o) \/ RunExecution(o) \/ EndExecution(o)
          PROVE  Forward
      <3>1. Fits(o)
        BY <1>1 DEF MigrationInvariant, OperatorsMatchExecutions
      <3>2. CASE CreateExecution(o)
        BY <3>2 DEF CreateExecution, setExecution
      <3>3. CASE RunExecution(o)
        BY <3>1, <3>3 DEF RunExecution, setExecution, Fits, Importing, executionOf
      <3>4. CASE EndExecution(o)
        BY <3>1, <3>4 DEF EndExecution, setExecution, Fits, Importing, executionOf
      <3> QED
        BY <2>2, <3>2, <3>3, <3>4
    <2>3. ASSUME OtherStep PROVE executions' = executions
      BY <2>3 DEF OtherStep, ReviewNext, BeginReview, EndReview, ResolveBlockingException, ResolveOrphan,
         CommandNext, ResolveDeterministic, Recalculate, Generate, LiveNext, Book, Close, OnlyLive, vars
    <2>4. ASSUME NEW o \in Operator, CommitImport(o) PROVE executions' = executions
      BY <2>4 DEF CommitImport
    <2>5. ASSUME NEW o \in Operator, ConsoleStep(o)
          PROVE  executions' = executions \/ CreateExecution(o) \/ RunExecution(o) \/ EndExecution(o)
      BY <2>5 DEF ConsoleStep, Preflight, BeginImport, RollBack, Abort, OnlyOperator
    <2> QED
      BY <1>1, <2>1, <2>2, <2>3, <2>4, <2>5, NextSteps
  <1> QED
    BY <1>1, MigrationIsConsistent, PTL DEF Spec, ExecutionsGoForward

=============================================================================
