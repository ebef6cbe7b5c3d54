------------------------- MODULE LegacyImportProofs --------------------------
(***************************************************************************)
(* Proofs about LegacyImport, for every plan and every number of cases,    *)
(* units and documents: what imports and handlers in any order preserve.   *)
(***************************************************************************)
EXTENDS LegacyImport, SalesEvidenceProofs, FiniteSetTheorems, WellFoundedInduction

-----------------------------------------------------------------------------
(* Inserting rows into a table. *)

LEMMA InsertType ==
    ASSUME NEW D, NEW T, NEW table \in [D -> T], NEW rows, \A r \in rows : r.row \in T
    PROVE  insert(table, rows) \in [D -> T]
  BY DEF insert

\* A row is either one of the inserted ones or as it was.
LEMMA InsertCases ==
    ASSUME NEW D, NEW T, NEW table \in [D -> T], NEW rows, NEW id \in D
    PROVE  \/ insert(table, rows)[id] = table[id] /\ \A r \in rows : r.id # id
           \/ \E r \in rows : r.id = id /\ insert(table, rows)[id] = r.row
  BY DEF insert

\* With an id of its own, a row is inserted as it is.
LEMMA InsertRow ==
    ASSUME NEW D, NEW T, NEW table \in [D -> T], NEW rows,
           \A r, t \in rows : r.id = t.id => r = t,
           NEW r \in rows, r.id \in D
    PROVE  insert(table, rows)[r.id] = r.row
  BY DEF insert

\* Some index of a nonempty set of indexes is the last one.
LEMMA MaxIsLast ==
    ASSUME NEW n \in Nat, NEW S \in SUBSET (1..n), S # {}
    PROVE  Max(S) \in S /\ \A i \in S : i <= Max(S)
  <1> DEFINE after(i) == { j \in S : j > i }
  <1> DEFINE afters == { after(i) : i \in S }
  <1>1. IsWellFoundedOn(StrictSubsetOrdering(S), FiniteSubsetsOf(S))
    BY FS_StrictSubsetOrderingWellFounded
  <1>2. afters \subseteq FiniteSubsetsOf(S) /\ afters # {}
    <2>1. IsFiniteSet(1..n)
      BY FS_Interval
    <2>2. \A A \in SUBSET S : IsFiniteSet(A)
      BY <2>1, FS_Subset
    <2> QED
      BY <2>2 DEF FiniteSubsetsOf
  <1> HIDE DEF afters
  <1>3. PICK A \in afters : \A B \in afters : << B, A >> \notin StrictSubsetOrdering(S)
    BY <1>1, <1>2, WFMin
  <1>4. PICK i \in S : A = after(i)
    BY DEF afters
  <1>5. \A j \in S : j <= i
    <2> SUFFICES ASSUME NEW j \in S, j > i PROVE FALSE
      OBVIOUS
    <2>1. \A l \in S : l \in Nat
      OBVIOUS
    <2>2. after(j) \subseteq after(i) /\ j \in after(i) /\ j \notin after(j)
      <3>1. j \in Nat /\ i \in Nat
        BY <2>1
      <3>2. ASSUME NEW l \in S, l > j PROVE l > i
        <4>1. l \in Nat
          BY <2>1
        <4> QED
          BY <3>1, <3>2, <4>1
      <3>3. ~ (j > j)
        BY <3>1
      <3> QED
        BY <3>2, <3>3
    <2>3. << after(j), after(i) >> \in StrictSubsetOrdering(S)
      BY <2>2 DEF StrictSubsetOrdering
    <2> QED
      BY <1>3, <1>4, <2>3 DEF afters
  <1> QED
    BY <1>5 DEF Max

-----------------------------------------------------------------------------
(* The candidates of a plan. *)

LEMMA CandidateOfPlan ==
    ASSUME NEW c \in Case, NEW plan \in Plans[c], NEW k \in Range(plan)
    PROVE  /\ k \in Candidate
           /\ \A i \in DOMAIN k.processes : k.processes[i].submission \in Range(k.submissions)
  BY PlansAssumption DEF Range

LEMMA ElementOfSeq ==
    ASSUME NEW T, NEW q \in Seq(T), NEW i \in DOMAIN q
    PROVE  q[i] \in T
  OBVIOUS

\* What an import relates: a plan of candidates and the tables before and after.
Imports(plan) == \E c \in Case : plan \in Plans[c] /\ Import(plan)

LEMMA CandidateTypes ==
    ASSUME NEW plan, Imports(plan), NEW k \in Range(plan)
    PROVE  /\ k \in Candidate /\ k.case \in Case /\ k.unit \in Unit
           /\ \A i \in DOMAIN k.psjbs : k.psjbs[i].id \in Psjb
           /\ \A i \in DOMAIN k.submissions : k.submissions[i] \in Submission
           /\ \A i \in DOMAIN k.ppjbs : k.ppjbs[i] \in Ppjb
           /\ \A i \in DOMAIN processRows(k) :
                 /\ processRows(k)[i] \in [ id : BankProcess, submission : Submission,
                                            response : BankResponseType, sp3k : BOOLEAN ]
                 /\ k.financing = "KPR_SUBSIDI"
                 /\ \E j \in DOMAIN k.submissions :
                       processRows(k)[i].submission = k.submissions[j]
  <1>1. /\ k \in Candidate
        /\ \A i \in DOMAIN k.processes : k.processes[i].submission \in Range(k.submissions)
    BY CandidateOfPlan DEF Imports
  <1>2. /\ k.case \in Case /\ k.unit \in Unit
        /\ k.psjbs \in Seq([id : Psjb, status : DocumentStatus \cup {Other}])
        /\ k.submissions \in Seq(Submission)
        /\ k.ppjbs \in Seq(Ppjb)
        /\ k.processes \in Seq([ id : BankProcess, submission : Submission,
                                 response : BankResponseType, sp3k : BOOLEAN ])
    BY <1>1 DEF Candidate
  <1>3. \A i \in DOMAIN processRows(k) :
           /\ k.financing = "KPR_SUBSIDI"
           /\ i \in DOMAIN k.processes /\ processRows(k)[i] = k.processes[i]
    BY DEF processRows
  <1>4. \A i \in DOMAIN k.psjbs :
           k.psjbs[i] \in [id : Psjb, status : DocumentStatus \cup {Other}]
    BY <1>2, ElementOfSeq
  <1>5. \A i \in DOMAIN k.submissions : k.submissions[i] \in Submission
    BY <1>2, ElementOfSeq
  <1>6. \A i \in DOMAIN k.ppjbs : k.ppjbs[i] \in Ppjb
    BY <1>2, ElementOfSeq
  <1>7. \A i \in DOMAIN k.processes :
           k.processes[i] \in [ id : BankProcess, submission : Submission,
                                response : BankResponseType, sp3k : BOOLEAN ]
    BY <1>2, ElementOfSeq
  <1> QED
    BY <1>1, <1>2, <1>3, <1>4, <1>5, <1>6, <1>7 DEF Range

-----------------------------------------------------------------------------
(* The rows a candidate is imported as are rows of the tables. *)

LEMMA ImportedRowTypes ==
    ASSUME NEW plan, Imports(plan), NEW k \in Range(plan)
    PROVE  /\ importedCase(k) \in CaseRow
           /\ importedBi(k) \in [check_date : 0..Dateless, result : BiCheckResult \cup {Absent}]
           /\ \A i \in DOMAIN k.psjbs : importedPsjb(k, k.psjbs[i]) \in PsjbRow
           /\ \A i \in DOMAIN k.submissions :
                 importedSubmission(k, i) \in
                    [ sales_case_id : Case \cup {None}, psjb_id : Psjb \cup {None},
                      type : SubmissionType \cup {None}, sequence : Nat,
                      status : SubmissionStatus \cup {Absent} ]
           /\ \A i \in DOMAIN processRows(k) : importedProcess(k, i) \in ProcessRow
           /\ importedPpjb(k) \in PpjbRow
           /\ importedAkad(k) \in Ppjb \cup {None}
           /\ importedBast(k) \in Case \cup {None}
  <1>1. k \in Candidate /\ k.case \in Case
    BY CandidateTypes
  <1>2. importedCase(k) \in CaseRow
    <2>1. importedStage(k) \in Stage
      BY DEF importedStage, Stage
    <2>2. /\ k.lifecycle \in CaseStatus /\ k.financing \in FinancingType /\ k.unit \in Unit
          /\ k.consumer \in Consumer /\ k.previous \in Case \cup {None}
      BY <1>1 DEF Candidate
    <2> QED
      BY <2>1, <2>2, TablesAssumption DEF importedCase, CaseRow
  <1>3. importedBi(k) \in [check_date : 0..Dateless, result : BiCheckResult \cup {Absent}]
    <2>1. CASE latestChecks(k) = {}
      BY <2>1, TablesAssumption DEF importedBi, Dateless
    <2>2. CASE latestChecks(k) # {}
      <3> DEFINE i == CHOOSE j \in latestChecks(k) : TRUE
      <3>1. i \in DOMAIN k.bi
        BY <2>2 DEF latestChecks
      <3>2. k.bi \in Seq([date : (1..MaxDate) \cup {None}, result : BiCheckResult \cup {None, Other}])
        BY <1>1 DEF Candidate
      <3> HIDE DEF i
      <3>3. k.bi[i] \in [date : (1..MaxDate) \cup {None}, result : BiCheckResult \cup {None, Other}]
        BY <3>1, <3>2, ElementOfSeq
      <3>4. biDate(k.bi[i]) \in 0..Dateless
        BY <3>3, TablesAssumption DEF biDate, Dateless
      <3>5. biResult(k.bi[i].result) \in BiCheckResult
        BY <3>3 DEF biResult, BiCheckResult
      <3> QED
        BY <2>2, <3>4, <3>5 DEF importedBi, i
    <2> QED
      BY <2>1, <2>2
  <1>4. \A i \in DOMAIN k.psjbs : importedPsjb(k, k.psjbs[i]) \in PsjbRow
    BY <1>1 DEF importedPsjb, PsjbRow, DocumentStatus
  <1>5. lastPsjb(k) \in Psjb \cup {None}
    <2>1. k.psjbs \in Seq([id : Psjb, status : DocumentStatus \cup {Other}])
      BY <1>1 DEF Candidate
    <2>2. k.psjbs # << >> => Len(k.psjbs) \in DOMAIN k.psjbs
      BY <2>1
    <2> QED
      BY <2>2, CandidateTypes DEF lastPsjb
  <1>6. ASSUME NEW i \in DOMAIN k.submissions
        PROVE  importedSubmission(k, i) \in
                  [ sales_case_id : Case \cup {None}, psjb_id : Psjb \cup {None},
                    type : SubmissionType \cup {None}, sequence : Nat,
                    status : SubmissionStatus \cup {Absent} ]
    <2>1. i \in Nat
      BY <1>1 DEF Candidate
    <2>2. importedType(k) \in SubmissionType
      BY DEF importedType, SubmissionType
    <2> QED
      BY <1>1, <1>5, <2>1, <2>2 DEF importedSubmission, SubmissionStatus
  <1>7. \A i \in DOMAIN processRows(k) : importedProcess(k, i) \in ProcessRow
    BY <1>1, CandidateTypes DEF importedProcess, ProcessRow
  <1>8. importedPpjb(k) \in PpjbRow
    <2>1. authoritative(k) \subseteq DOMAIN processRows(k)
      BY DEF authoritative, approvals
    <2> QED
      BY <1>1, <2>1, CandidateTypes DEF importedPpjb, PpjbRow, DocumentStatus
  <1>9. importedAkad(k) \in Ppjb \cup {None}
    <2>1. k.ppjbs \in Seq(Ppjb) /\ (k.akad => k.ppjbs # << >>)
      BY <1>1 DEF Candidate, Imports, Import, Resolvable
    <2>2. k.akad => Len(k.ppjbs) \in DOMAIN k.ppjbs
      BY <2>1
    <2> QED
      BY <2>2, CandidateTypes DEF importedAkad
  <1> QED
    BY <1>1, <1>2, <1>3, <1>4, <1>6, <1>7, <1>8, <1>9 DEF importedBast

-----------------------------------------------------------------------------
(* What an import does to each table: a row is as it was, or it was free    *)
(* and is a row of the plan; and every row of the plan is inserted.        *)

LEMMA ImportedPsjbs ==
    ASSUME ImportTypeOK, NEW plan, Imports(plan)
    PROVE  /\ \A p \in Psjb :
                \/ psjbs'[p] = psjbs[p]
                \/ /\ psjbs[p].status = Absent
                   /\ \E k \in Range(plan) : \E i \in DOMAIN k.psjbs :
                         p = k.psjbs[i].id /\ psjbs'[p] = importedPsjb(k, k.psjbs[i])
           /\ \A k \in Range(plan) : \A i \in DOMAIN k.psjbs :
                 psjbs'[k.psjbs[i].id] = importedPsjb(k, k.psjbs[i])
  <1>1. /\ psjbs' = insert(psjbs, psjbRows(plan))
        /\ \A r, t \in psjbRows(plan) : r.id = t.id => r = t
        /\ \A r \in psjbRows(plan) : psjbs[r.id].status = Absent
    BY DEF Imports, Import, Fresh
  <1>2. psjbs \in [Psjb -> PsjbRow]
    BY DEF ImportTypeOK
  <1>3. \A r \in psjbRows(plan) : \E k \in Range(plan) : \E i \in DOMAIN k.psjbs :
           r.id = k.psjbs[i].id /\ r.row = importedPsjb(k, k.psjbs[i])
    BY DEF psjbRows, Row
  <1>4. ASSUME NEW k \in Range(plan), NEW i \in DOMAIN k.psjbs
        PROVE  \E r \in psjbRows(plan) : /\ r.id = k.psjbs[i].id
                                         /\ r.row = importedPsjb(k, k.psjbs[i])
    <2>1. Row(k.psjbs[i].id, importedPsjb(k, k.psjbs[i])) \in psjbRows(plan)
      BY DEF psjbRows
    <2> QED
      BY <2>1 DEF Row
  <1>5. ASSUME NEW k \in Range(plan), NEW i \in DOMAIN k.psjbs
        PROVE  psjbs'[k.psjbs[i].id] = importedPsjb(k, k.psjbs[i])
    <2>1. k.psjbs[i].id \in Psjb
      BY CandidateTypes
    <2> QED
      BY <1>1, <1>2, <1>4, <2>1, InsertRow
  <1>6. ASSUME NEW p \in Psjb, psjbs'[p] # psjbs[p]
        PROVE  \E r \in psjbRows(plan) : r.id = p /\ psjbs'[p] = r.row
    BY <1>1, <1>2, <1>6, InsertCases
  <1> QED
    BY <1>1, <1>3, <1>5, <1>6

LEMMA ImportedSubmissions ==
    ASSUME ImportTypeOK, NEW plan, Imports(plan)
    PROVE  /\ \A s \in Submission :
                \/ submissions'[s] = submissions[s]
                \/ /\ submissions[s].status = Absent
                   /\ \E k \in Range(plan) : \E i \in DOMAIN k.submissions :
                         s = k.submissions[i] /\ submissions'[s] = importedSubmission(k, i)
           /\ \A k \in Range(plan) : \A i \in DOMAIN k.submissions :
                 submissions'[k.submissions[i]] = importedSubmission(k, i)
  <1>1. /\ submissions' = insert(submissions, submissionRows(plan))
        /\ \A r, t \in submissionRows(plan) : r.id = t.id => r = t
        /\ \A r \in submissionRows(plan) : submissions[r.id].status = Absent
    BY DEF Imports, Import, Fresh
  <1> DEFINE T == [ sales_case_id : Case \cup {None}, psjb_id : Psjb \cup {None},
                    type : SubmissionType \cup {None}, sequence : Nat,
                    status : SubmissionStatus \cup {Absent} ]
  <1>2. submissions \in [Submission -> T]
    BY DEF ImportTypeOK
  <1> HIDE DEF T
  <1>3. \A r \in submissionRows(plan) : \E k \in Range(plan) : \E i \in DOMAIN k.submissions :
           r.id = k.submissions[i] /\ r.row = importedSubmission(k, i)
    BY DEF submissionRows, Row
  <1>4. ASSUME NEW k \in Range(plan), NEW i \in DOMAIN k.submissions
        PROVE  \E r \in submissionRows(plan) : /\ r.id = k.submissions[i]
                                               /\ r.row = importedSubmission(k, i)
    <2>1. Row(k.submissions[i], importedSubmission(k, i)) \in submissionRows(plan)
      BY DEF submissionRows
    <2> QED
      BY <2>1 DEF Row
  <1>5. ASSUME NEW k \in Range(plan), NEW i \in DOMAIN k.submissions
        PROVE  submissions'[k.submissions[i]] = importedSubmission(k, i)
    <2>1. k.submissions[i] \in Submission
      BY CandidateTypes
    <2> QED
      BY <1>1, <1>2, <1>4, <2>1, InsertRow
  <1>6. ASSUME NEW s \in Submission, submissions'[s] # submissions[s]
        PROVE  \E r \in submissionRows(plan) : r.id = s /\ submissions'[s] = r.row
    BY <1>1, <1>2, <1>6, InsertCases
  <1> QED
    BY <1>1, <1>3, <1>5, <1>6

LEMMA ImportedProcesses ==
    ASSUME ImportTypeOK, NEW plan, Imports(plan)
    PROVE  /\ \A b \in BankProcess :
                \/ bank_processes'[b] = bank_processes[b]
                \/ /\ bank_processes[b].response_type = Absent
                   /\ \E k \in Range(plan) : \E i \in DOMAIN processRows(k) :
                         b = processRows(k)[i].id /\ bank_processes'[b] = importedProcess(k, i)
           /\ \A k \in Range(plan) : \A i \in DOMAIN processRows(k) :
                 bank_processes'[processRows(k)[i].id] = importedProcess(k, i)
  <1>1. /\ bank_processes' = insert(bank_processes, bankRows(plan))
        /\ \A r, t \in bankRows(plan) : r.id = t.id => r = t
        /\ \A r \in bankRows(plan) : bank_processes[r.id].response_type = Absent
    BY DEF Imports, Import, Fresh
  <1>2. bank_processes \in [BankProcess -> ProcessRow]
    BY DEF ImportTypeOK
  <1>3. \A r \in bankRows(plan) : \E k \in Range(plan) : \E i \in DOMAIN processRows(k) :
           r.id = processRows(k)[i].id /\ r.row = importedProcess(k, i)
    BY DEF bankRows, Row
  <1>4. ASSUME NEW k \in Range(plan), NEW i \in DOMAIN processRows(k)
        PROVE  \E r \in bankRows(plan) : /\ r.id = processRows(k)[i].id
                                         /\ r.row = importedProcess(k, i)
    <2>1. Row(processRows(k)[i].id, importedProcess(k, i)) \in bankRows(plan)
      BY DEF bankRows
    <2> QED
      BY <2>1 DEF Row
  <1>5. ASSUME NEW k \in Range(plan), NEW i \in DOMAIN processRows(k)
        PROVE  bank_processes'[processRows(k)[i].id] = importedProcess(k, i)
    <2>1. processRows(k)[i].id \in BankProcess
      BY CandidateTypes
    <2> QED
      BY <1>1, <1>2, <1>4, <2>1, InsertRow
  <1>6. ASSUME NEW b \in BankProcess, bank_processes'[b] # bank_processes[b]
        PROVE  \E r \in bankRows(plan) : r.id = b /\ bank_processes'[b] = r.row
    BY <1>1, <1>2, <1>6, InsertCases
  <1> QED
    BY <1>1, <1>3, <1>5, <1>6

LEMMA ImportedPpjbs ==
    ASSUME ImportTypeOK, NEW plan, Imports(plan)
    PROVE  /\ \A d \in Ppjb :
                \/ ppjbs'[d] = ppjbs[d]
                \/ /\ ppjbs[d].status = Absent
                   /\ \E k \in Range(plan) : \E i \in DOMAIN k.ppjbs :
                         d = k.ppjbs[i] /\ ppjbs'[d] = importedPpjb(k)
           /\ \A k \in Range(plan) : \A i \in DOMAIN k.ppjbs :
                 ppjbs'[k.ppjbs[i]] = importedPpjb(k)
  <1>1. /\ ppjbs' = insert(ppjbs, ppjbRows(plan))
        /\ \A r, t \in ppjbRows(plan) : r.id = t.id => r = t
        /\ \A r \in ppjbRows(plan) : ppjbs[r.id].status = Absent
    BY DEF Imports, Import, Fresh
  <1>2. ppjbs \in [Ppjb -> PpjbRow]
    BY DEF ImportTypeOK
  <1>3. \A r \in ppjbRows(plan) : \E k \in Range(plan) : \E i \in DOMAIN k.ppjbs :
           r.id = k.ppjbs[i] /\ r.row = importedPpjb(k)
    BY DEF ppjbRows, Row
  <1>4. ASSUME NEW k \in Range(plan), NEW i \in DOMAIN k.ppjbs
        PROVE  \E r \in ppjbRows(plan) : r.id = k.ppjbs[i] /\ r.row = importedPpjb(k)
    <2>1. Row(k.ppjbs[i], importedPpjb(k)) \in ppjbRows(plan)
      BY DEF ppjbRows
    <2> QED
      BY <2>1 DEF Row
  <1>5. ASSUME NEW k \in Range(plan), NEW i \in DOMAIN k.ppjbs
        PROVE  ppjbs'[k.ppjbs[i]] = importedPpjb(k)
    <2>1. k.ppjbs[i] \in Ppjb
      BY CandidateTypes
    <2> QED
      BY <1>1, <1>2, <1>4, <2>1, InsertRow
  <1>6. ASSUME NEW d \in Ppjb, ppjbs'[d] # ppjbs[d]
        PROVE  \E r \in ppjbRows(plan) : r.id = d /\ ppjbs'[d] = r.row
    BY <1>1, <1>2, <1>6, InsertCases
  <1> QED
    BY <1>1, <1>3, <1>5, <1>6

LEMMA ImportedCases ==
    ASSUME ImportTypeOK, NEW plan, Imports(plan)
    PROVE  /\ \A k \in Range(plan) :
                /\ ~ Exists(k.case)
                /\ sales_cases'[k.case] = importedCase(k)
                /\ latest_bi'[k.case] = importedBi(k)
                /\ akads'[k.case] = importedAkad(k)
                /\ basts'[k.case] = importedBast(k)
           /\ \A x \in Case : (\A k \in Range(plan) : k.case # x) =>
                /\ sales_cases'[x] = sales_cases[x]
                /\ latest_bi'[x] = latest_bi[x]
                /\ akads'[x] = akads[x]
                /\ basts'[x] = basts[x]
  <1>1. \A k \in Range(plan) : ~ Exists(k.case) /\ k.case \in Case
    BY CandidateTypes DEF Imports, Import, Fresh
  <1>2. \A k, l \in Range(plan) : k.case = l.case => k = l
    BY DEF Imports, Import, Fresh
  <1>3. /\ \A k \in Range(plan) : sales_cases'[k.case] = importedCase(k)
        /\ \A x \in Case : (\A k \in Range(plan) : k.case # x) => sales_cases'[x] = sales_cases[x]
    <2> DEFINE T == CaseRow
               rows == caseRows(plan)
    <2>1. sales_cases \in [Case -> T] /\ sales_cases' = insert(sales_cases, rows)
      BY DEF ImportTypeOK, Imports, Import
    <2>2. /\ \A r \in rows : \E k \in Range(plan) : r = Row(k.case, importedCase(k))
          /\ \A k \in Range(plan) : Row(k.case, importedCase(k)) \in rows
      BY DEF caseRows
    <2> HIDE DEF T, rows
    <2>3. ASSUME NEW r \in rows PROVE \E k \in Range(plan) : r.id = k.case /\ r.row = importedCase(k)
      BY <2>2 DEF Row
    <2>4. ASSUME NEW k \in Range(plan)
          PROVE  \E r \in rows : r.id = k.case /\ r.row = importedCase(k)
      BY <2>2 DEF Row
    <2>5. \A r, t \in rows : r.id = t.id => r = t
      BY <1>2, <2>2, <2>3 DEF Row
    <2>6. ASSUME NEW k \in Range(plan) PROVE sales_cases'[k.case] = importedCase(k)
      BY <1>1, <2>1, <2>4, <2>5, InsertRow
    <2>7. ASSUME NEW x \in Case, \A k \in Range(plan) : k.case # x PROVE sales_cases'[x] = sales_cases[x]
      BY <2>1, <2>3, <2>7, InsertCases
    <2> QED
      BY <2>6, <2>7
  <1>4. /\ \A k \in Range(plan) : latest_bi'[k.case] = importedBi(k)
        /\ \A x \in Case : (\A k \in Range(plan) : k.case # x) => latest_bi'[x] = latest_bi[x]
    <2> DEFINE T == [check_date : 0..Dateless, result : BiCheckResult \cup {Absent}]
               rows == biRows(plan)
    <2>1. latest_bi \in [Case -> T] /\ latest_bi' = insert(latest_bi, rows)
      BY DEF ImportTypeOK, Imports, Import
    <2>2. /\ \A r \in rows : \E k \in Range(plan) : r = Row(k.case, importedBi(k))
          /\ \A k \in Range(plan) : Row(k.case, importedBi(k)) \in rows
      BY DEF biRows
    <2> HIDE DEF T, rows
    <2>3. ASSUME NEW r \in rows PROVE \E k \in Range(plan) : r.id = k.case /\ r.row = importedBi(k)
      BY <2>2 DEF Row
    <2>4. ASSUME NEW k \in Range(plan)
          PROVE  \E r \in rows : r.id = k.case /\ r.row = importedBi(k)
      BY <2>2 DEF Row
    <2>5. \A r, t \in rows : r.id = t.id => r = t
      BY <1>2, <2>2, <2>3 DEF Row
    <2>6. ASSUME NEW k \in Range(plan) PROVE latest_bi'[k.case] = importedBi(k)
      BY <1>1, <2>1, <2>4, <2>5, InsertRow
    <2>7. ASSUME NEW x \in Case, \A k \in Range(plan) : k.case # x PROVE latest_bi'[x] = latest_bi[x]
      BY <2>1, <2>3, <2>7, InsertCases
    <2> QED
      BY <2>6, <2>7
  <1>5. /\ \A k \in Range(plan) : akads'[k.case] = importedAkad(k)
        /\ \A x \in Case : (\A k \in Range(plan) : k.case # x) => akads'[x] = akads[x]
    <2> DEFINE T == Ppjb \cup {None}
               rows == akadRows(plan)
    <2>1. akads \in [Case -> T] /\ akads' = insert(akads, rows)
      BY DEF ImportTypeOK, Imports, Import
    <2>2. /\ \A r \in rows : \E k \in Range(plan) : r = Row(k.case, importedAkad(k))
          /\ \A k \in Range(plan) : Row(k.case, importedAkad(k)) \in rows
      BY DEF akadRows
    <2> HIDE DEF T, rows
    <2>3. ASSUME NEW r \in rows PROVE \E k \in Range(plan) : r.id = k.case /\ r.row = importedAkad(k)
      BY <2>2 DEF Row
    <2>4. ASSUME NEW k \in Range(plan)
          PROVE  \E r \in rows : r.id = k.case /\ r.row = importedAkad(k)
      BY <2>2 DEF Row
    <2>5. \A r, t \in rows : r.id = t.id => r = t
      BY <1>2, <2>2, <2>3 DEF Row
    <2>6. ASSUME NEW k \in Range(plan) PROVE akads'[k.case] = importedAkad(k)
      BY <1>1, <2>1, <2>4, <2>5, InsertRow
    <2>7. ASSUME NEW x \in Case, \A k \in Range(plan) : k.case # x PROVE akads'[x] = akads[x]
      BY <2>1, <2>3, <2>7, InsertCases
    <2> QED
      BY <2>6, <2>7
  <1>6. /\ \A k \in Range(plan) : basts'[k.case] = importedBast(k)
        /\ \A x \in Case : (\A k \in Range(plan) : k.case # x) => basts'[x] = basts[x]
    <2> DEFINE T == Case \cup {None}
               rows == bastRows(plan)
    <2>1. basts \in [Case -> T] /\ basts' = insert(basts, rows)
      BY DEF ImportTypeOK, Imports, Import
    <2>2. /\ \A r \in rows : \E k \in Range(plan) : r = Row(k.case, importedBast(k))
          /\ \A k \in Range(plan) : Row(k.case, importedBast(k)) \in rows
      BY DEF bastRows
    <2> HIDE DEF T, rows
    <2>3. ASSUME NEW r \in rows PROVE \E k \in Range(plan) : r.id = k.case /\ r.row = importedBast(k)
      BY <2>2 DEF Row
    <2>4. ASSUME NEW k \in Range(plan)
          PROVE  \E r \in rows : r.id = k.case /\ r.row = importedBast(k)
      BY <2>2 DEF Row
    <2>5. \A r, t \in rows : r.id = t.id => r = t
      BY <1>2, <2>2, <2>3 DEF Row
    <2>6. ASSUME NEW k \in Range(plan) PROVE basts'[k.case] = importedBast(k)
      BY <1>1, <2>1, <2>4, <2>5, InsertRow
    <2>7. ASSUME NEW x \in Case, \A k \in Range(plan) : k.case # x PROVE basts'[x] = basts[x]
      BY <2>1, <2>3, <2>7, InsertCases
    <2> QED
      BY <2>6, <2>7
  <1> QED
    BY <1>1, <1>3, <1>4, <1>5, <1>6

-----------------------------------------------------------------------------
(* The types. *)

LEMMA ImportTypeInit == Init => ImportTypeOK
  BY TablesAssumption DEF Init, ImportTypeOK, CaseRow, PsjbRow, ProcessRow, PpjbRow, Dateless,
     NoCaseRow, NoSubmissionRow, NoProcessRow, UnitStatus, Stage, FinancingType

LEMMA ImportKeepsTypes ==
    ASSUME ImportTypeOK, NEW plan, Imports(plan)
    PROVE  ImportTypeOK'
  <1> DEFINE S == [ sales_case_id : Case \cup {None}, psjb_id : Psjb \cup {None},
                    type : SubmissionType \cup {None}, sequence : Nat,
                    status : SubmissionStatus \cup {Absent} ]
             B == [check_date : 0..Dateless, result : BiCheckResult \cup {Absent}]
  <1>1. /\ sales_cases \in [Case -> CaseRow] /\ unit_status \in [Unit -> UnitStatus]
        /\ latest_bi \in [Case -> B] /\ psjbs \in [Psjb -> PsjbRow]
        /\ submissions \in [Submission -> S] /\ bank_processes \in [BankProcess -> ProcessRow]
        /\ ppjbs \in [Ppjb -> PpjbRow] /\ akads \in [Case -> Ppjb \cup {None}]
        /\ basts \in [Case -> Case \cup {None}]
    BY DEF ImportTypeOK
  <1>2. \A k \in Range(plan) :
           /\ importedCase(k) \in CaseRow /\ importedBi(k) \in B
           /\ \A i \in DOMAIN k.psjbs : importedPsjb(k, k.psjbs[i]) \in PsjbRow
           /\ \A i \in DOMAIN k.submissions : importedSubmission(k, i) \in S
           /\ \A i \in DOMAIN processRows(k) : importedProcess(k, i) \in ProcessRow
           /\ importedPpjb(k) \in PpjbRow
           /\ importedAkad(k) \in Ppjb \cup {None} /\ importedBast(k) \in Case \cup {None}
    BY ImportedRowTypes
  <1>3. /\ sales_cases' = insert(sales_cases, caseRows(plan))
        /\ unit_status' = statusAfter(plan)
        /\ latest_bi' = insert(latest_bi, biRows(plan))
        /\ psjbs' = insert(psjbs, psjbRows(plan))
        /\ submissions' = insert(submissions, submissionRows(plan))
        /\ bank_processes' = insert(bank_processes, bankRows(plan))
        /\ ppjbs' = insert(ppjbs, ppjbRows(plan))
        /\ akads' = insert(akads, akadRows(plan))
        /\ basts' = insert(basts, bastRows(plan))
    BY DEF Imports, Import
  <1> HIDE DEF S, B
  <1>4. sales_cases' \in [Case -> CaseRow]
    <2>1. \A r \in caseRows(plan) : r.row \in CaseRow
      BY <1>2 DEF caseRows, Row
    <2> QED
      BY <1>1, <1>3, <2>1, InsertType
  <1>5. latest_bi' \in [Case -> B]
    <2>1. \A r \in biRows(plan) : r.row \in B
      BY <1>2 DEF biRows, Row
    <2> QED
      BY <1>1, <1>3, <2>1, InsertType
  <1>6. psjbs' \in [Psjb -> PsjbRow]
    <2>1. \A r \in psjbRows(plan) : r.row \in PsjbRow
      BY <1>2 DEF psjbRows, Row
    <2> QED
      BY <1>1, <1>3, <2>1, InsertType
  <1>7. submissions' \in [Submission -> S]
    <2>1. \A r \in submissionRows(plan) : r.row \in S
      BY <1>2 DEF submissionRows, Row
    <2> QED
      BY <1>1, <1>3, <2>1, InsertType
  <1>8. bank_processes' \in [BankProcess -> ProcessRow]
    <2>1. \A r \in bankRows(plan) : r.row \in ProcessRow
      BY <1>2 DEF bankRows, Row
    <2> QED
      BY <1>1, <1>3, <2>1, InsertType
  <1>9. ppjbs' \in [Ppjb -> PpjbRow]
    <2>1. \A r \in ppjbRows(plan) : r.row \in PpjbRow
      BY <1>2 DEF ppjbRows, Row
    <2> QED
      BY <1>1, <1>3, <2>1, InsertType
  <1>10. akads' \in [Case -> Ppjb \cup {None}]
    <2>1. \A r \in akadRows(plan) : r.row \in Ppjb \cup {None}
      BY <1>2 DEF akadRows, Row
    <2> QED
      BY <1>1, <1>3, <2>1, InsertType
  <1>11. basts' \in [Case -> Case \cup {None}]
    <2>1. \A r \in bastRows(plan) : r.row \in Case \cup {None}
      BY <1>2 DEF bastRows, Row
    <2> QED
      BY <1>1, <1>3, <2>1, InsertType
  <1>12. unit_status' \in [Unit -> UnitStatus]
    <2>1. \A l : finalUnitState(l) \in UnitStatus
      BY DEF finalUnitState, UnitStatus
    <2> QED
      BY <1>1, <1>3, <2>1 DEF statusAfter
  <1> QED
    BY <1>4, <1>5, <1>6, <1>7, <1>8, <1>9, <1>10, <1>11, <1>12 DEF ImportTypeOK, S, B

\* What a handler writes is still well typed.
LEMMA HandlersKeepTypes ==
    ASSUME ImportTypeOK, [Next]_vars
    PROVE  ImportTypeOK'
  <1> USE TablesAssumption
  <1> DEFINE S == [ sales_case_id : Case \cup {None}, psjb_id : Psjb \cup {None},
                    type : SubmissionType \cup {None}, sequence : Nat,
                    status : SubmissionStatus \cup {Absent} ]
             B == [check_date : 0..Dateless, result : BiCheckResult \cup {Absent}]
  <1>1. SharedTypeOK'
    BY SharedTypeStep DEF ImportTypeOK, SharedTypeOK, AnyNext
  <1>2. latest_bi \in [Case -> B] /\ submissions \in [Submission -> S]
    BY DEF ImportTypeOK
  <1>3. latest_bi' \in [Case -> B]
    <2>1. ASSUME NEW c \in Case, NEW d \in 1..MaxDate, NEW r \in BiCheckResult,
                 RecordBiCheck(c, d, r)
          PROVE  latest_bi' \in [Case -> B]
      <3>1. latestForCase(latest_bi[c], d, r) \in B
        BY <1>2 DEF latestForCase, Dateless
      <3> HIDE DEF B
      <3> QED
        BY <1>2, <2>1, <3>1 DEF RecordBiCheck
    <2>2. \/ \E c \in Case, d \in 1..MaxDate, r \in BiCheckResult : RecordBiCheck(c, d, r)
          \/ latest_bi' = latest_bi
      BY DEF Next, LifecycleNext, PsjbNext, BankNext, ClosingNext, CreateSalesCase,
         CancelSalesCase, MarkSalesCaseMundur, MarkSalesCaseRejected, CloseSalesCase,
         MoveSalesCaseUnit, CreatePsjb, ReissuePsjb, CancelPsjb, CreateDocumentSubmission,
         CompleteCashPemberkasan, RecordBankResponse, CreateDeveloperPpjb,
         ReissueDeveloperPpjb, CancelDeveloperPpjb, CreateAkad, CreateBast, vars, documents
    <2> QED
      BY <1>2, <2>1, <2>2
  <1>4. submissions' \in [Submission -> S]
    <2>1. ASSUME NEW c \in Case, NEW p \in Psjb, NEW s \in Submission, NEW n \in 1..MaxSequence,
                 NewSubmissionStepOf(c, p, s, n)
          PROVE  submissions' \in [Submission -> S]
      <3>1. \A type \in SubmissionType : NewSubmission(c, p, type, n) \in S
        BY DEF NewSubmission, SubmissionStatus
      <3> HIDE DEF S
      <3> QED
        BY <1>2, <2>1, <3>1 DEF NewSubmissionStepOf, CreateDocumentSubmission,
           CompleteCashPemberkasan, SubmissionType
    <2>2. ASSUME NEW c \in Case, NEW s \in Submission, NEW b \in BankProcess,
                 NEW r \in BankResponseType, RecordBankResponse(c, s, b, r)
          PROVE  submissions' \in [Submission -> S]
      BY <1>2, <2>2 DEF RecordBankResponse, SubmissionStatus
    <2> QED
      BY <1>2, <2>1, <2>2, WhoWrites DEF NewSubmissionNext, BankAnswerNext
  <1> QED
    BY <1>1, <1>3, <1>4 DEF SharedTypeOK, ImportTypeOK

-----------------------------------------------------------------------------
(* Documents stay: a row that is there keeps its case and what it names.    *)

DocumentsStay ==
    /\ \A p \in Psjb : psjbs[p].status # Absent =>
          /\ psjbs'[p].status # Absent
          /\ psjbs'[p].sales_case_id = psjbs[p].sales_case_id
    /\ \A s \in Submission : submissions[s].status # Absent =>
          /\ submissions'[s].status # Absent
          /\ submissions'[s].sales_case_id = submissions[s].sales_case_id
          /\ submissions'[s].psjb_id = submissions[s].psjb_id
          /\ submissions'[s].type = submissions[s].type
    /\ \A b \in BankProcess : bank_processes[b].response_type # Absent =>
          bank_processes'[b] = bank_processes[b]
    /\ \A d \in Ppjb : ppjbs[d].status # Absent =>
          /\ ppjbs'[d].status # Absent
          /\ ppjbs'[d].sales_case_id = ppjbs[d].sales_case_id
          /\ ppjbs'[d].bank_process_id = ppjbs[d].bank_process_id

LEMMA ImportsStay ==
    ASSUME ImportTypeOK, NEW plan, Imports(plan)
    PROVE  DocumentsStay
  BY ImportedPsjbs, ImportedSubmissions, ImportedProcesses, ImportedPpjbs DEF DocumentsStay

LEMMA HandlersStay ==
    ASSUME ImportTypeOK, [Next]_vars
    PROVE  DocumentsStay
  <1>1. \A p \in Psjb : psjbs[p].status # Absent =>
           /\ psjbs'[p].status # Absent
           /\ psjbs'[p].sales_case_id = psjbs[p].sales_case_id
    <2>1. psjbs \in [Psjb -> PsjbRow]
      BY DEF ImportTypeOK
    <2>2. \/ psjbs' = psjbs
          \/ \E c \in Case, p \in Psjb : CreatePsjb(c, p)
          \/ \E c \in Case, old, p \in Psjb : ReissuePsjb(c, old, p)
          \/ \E p \in Psjb : CancelPsjb(p)
      BY DEF Next, LifecycleNext, PsjbNext, BankNext, ClosingNext, CreateSalesCase,
         CancelSalesCase, MarkSalesCaseMundur, MarkSalesCaseRejected, CloseSalesCase,
         MoveSalesCaseUnit, RecordBiCheck, CreateDocumentSubmission,
         CompleteCashPemberkasan, RecordBankResponse, CreateDeveloperPpjb,
         ReissueDeveloperPpjb, CancelDeveloperPpjb, CreateAkad, CreateBast, vars, documents
    <2> QED
      BY <2>1, <2>2 DEF CreatePsjb, ReissuePsjb, CancelPsjb, NewPsjb, PsjbRow, Absent
  <1>2. \A s \in Submission : submissions[s].status # Absent =>
           /\ submissions'[s].status # Absent
           /\ submissions'[s].sales_case_id = submissions[s].sales_case_id
           /\ submissions'[s].psjb_id = submissions[s].psjb_id
           /\ submissions'[s].type = submissions[s].type
    <2>1. submissions \in [Submission -> [ sales_case_id : Case \cup {None},
             psjb_id : Psjb \cup {None}, type : SubmissionType \cup {None}, sequence : Nat,
             status : SubmissionStatus \cup {Absent} ]]
      BY DEF ImportTypeOK
    <2> QED
      BY <2>1, WhoWrites DEF NewSubmissionNext, NewSubmissionStepOf, CreateDocumentSubmission,
         CompleteCashPemberkasan, NewSubmission, BankAnswerNext, RecordBankResponse, Absent
  <1>3. \A b \in BankProcess : bank_processes[b].response_type # Absent =>
           bank_processes'[b] = bank_processes[b]
    <2>1. bank_processes \in [BankProcess -> ProcessRow]
      BY DEF ImportTypeOK
    <2> QED
      BY <2>1, WhoWrites DEF BankAnswerNext, RecordBankResponse
  <1>4. \A d \in Ppjb : ppjbs[d].status # Absent =>
           /\ ppjbs'[d].status # Absent
           /\ ppjbs'[d].sales_case_id = ppjbs[d].sales_case_id
           /\ ppjbs'[d].bank_process_id = ppjbs[d].bank_process_id
    <2>1. ppjbs \in [Ppjb -> PpjbRow]
      BY DEF ImportTypeOK
    <2> QED
      BY <2>1, WhoWrites DEF PpjbNext, CreateDeveloperPpjb, ReissueDeveloperPpjb,
         CancelDeveloperPpjb, NewPpjb, PpjbRow, Absent
  <1> QED
    BY <1>1, <1>2, <1>3, <1>4 DEF DocumentsStay

\* So what a case rests on only grows: an absent row belongs to no case.
LEMMA EvidenceStays ==
    ASSUME RowsHangTogether, DocumentsStay, NEW c \in Case
    PROVE  /\ submissionsOf(c) \subseteq submissionsOf(c)'
           /\ cashPemberkasan(c) \subseteq cashPemberkasan(c)'
           /\ approvalOf(c) \subseteq approvalOf(c)'
           /\ ppjbsOf(c) \subseteq ppjbsOf(c)'
  <1>1. c # None
    BY TablesAssumption
  <1> QED
    BY <1>1 DEF RowsHangTogether, DocumentsStay, submissionsOf, cashPemberkasan, approvalOf, ppjbsOf

-----------------------------------------------------------------------------
(* Rows hang together. *)

\* The status an import gives a row is none a missing row has.
LEMMA ImportedRowsExist ==
    ASSUME NEW plan, Imports(plan), NEW k \in Range(plan)
    PROVE  /\ importedCase(k).case_status # Absent
           /\ \A i \in DOMAIN k.psjbs : importedPsjb(k, k.psjbs[i]).status # Absent
           /\ \A i \in DOMAIN k.submissions : importedSubmission(k, i).status # Absent
           /\ \A i \in DOMAIN processRows(k) : importedProcess(k, i).response_type # Absent
           /\ importedPpjb(k).status # Absent
  <1>1. k \in Candidate
    BY CandidateTypes
  <1>2. importedCase(k).case_status # Absent
    BY <1>1 DEF Candidate, importedCase, CaseStatus, Absent
  <1>3. \A i \in DOMAIN processRows(k) : processRows(k)[i].response # Absent
    BY CandidateTypes DEF BankResponseType, Absent
  <1> QED
    BY <1>2, <1>3 DEF importedPsjb, importedSubmission, importedProcess, importedPpjb, Absent

\* A submission hangs on the last PSJB of its sheet, which is imported with it.
LEMMA LastPsjbIsImported ==
    ASSUME ImportTypeOK, NEW plan, Imports(plan), NEW k \in Range(plan), lastPsjb(k) # None
    PROVE  /\ lastPsjb(k) \in Psjb
           /\ psjbs'[lastPsjb(k)].sales_case_id = k.case
           /\ psjbs'[lastPsjb(k)].status # Absent
  <1>1. k.psjbs \in Seq([id : Psjb, status : DocumentStatus \cup {Other}])
    <2>1. k \in Candidate
      BY CandidateTypes
    <2> QED
      BY <2>1 DEF Candidate
  <1>2. k.psjbs # << >> /\ lastPsjb(k) = k.psjbs[Len(k.psjbs)].id
    BY DEF lastPsjb
  <1>3. PICK i \in DOMAIN k.psjbs : lastPsjb(k) = k.psjbs[i].id
    BY <1>1, <1>2
  <1>4. psjbs'[k.psjbs[i].id] = importedPsjb(k, k.psjbs[i])
    BY ImportedPsjbs
  <1>5. importedPsjb(k, k.psjbs[i]).status # Absent
    BY ImportedRowsExist
  <1> QED
    BY <1>3, <1>4, <1>5, CandidateTypes DEF importedPsjb

LEMMA ImportHangsTogether ==
    ASSUME ImportTypeOK, RowsHangTogether, NEW plan, Imports(plan)
    PROVE  RowsHangTogether'
  <1>1. \A c \in Case : Exists(c)' => sales_cases'[c].unit_id \in Unit
    <2> SUFFICES ASSUME NEW c \in Case, Exists(c)' PROVE sales_cases'[c].unit_id \in Unit
      OBVIOUS
    <2>1. ASSUME NEW k \in Range(plan), k.case = c PROVE sales_cases'[c].unit_id \in Unit
      <3>1. sales_cases'[c] = importedCase(k)
        BY <2>1, ImportedCases
      <3> QED
        BY <3>1, CandidateTypes DEF importedCase
    <2>2. CASE \A k \in Range(plan) : k.case # c
      BY <2>2, ImportedCases DEF RowsHangTogether, Exists, status
    <2> QED
      BY <2>1, <2>2
  <1>2. ASSUME NEW s \in Submission, submissions'[s].status # Absent, submissions'[s].psjb_id # None
        PROVE  psjbs'[submissions'[s].psjb_id].status # Absent
    <2>1. CASE submissions'[s] = submissions[s]
      <3> DEFINE p == submissions[s].psjb_id
      <3>1. p \in Psjb /\ psjbs[p].status # Absent
        BY <1>2, <2>1 DEF RowsHangTogether, ImportTypeOK
      <3> QED
        BY <2>1, <3>1, ImportsStay DEF DocumentsStay
    <2>2. ASSUME NEW k \in Range(plan), NEW i \in DOMAIN k.submissions,
                 submissions'[s] = importedSubmission(k, i)
          PROVE  psjbs'[submissions'[s].psjb_id].status # Absent
      BY <1>2, <2>2, LastPsjbIsImported DEF importedSubmission
    <2> QED
      BY <2>1, <2>2, ImportedSubmissions
  <1>3. \A s \in Submission : submissions'[s].status = Absent =>
           submissions'[s].sales_case_id = None
    BY ImportedSubmissions, ImportedRowsExist DEF RowsHangTogether
  <1>4. \A b \in BankProcess : bank_processes'[b].response_type = Absent =>
           bank_processes'[b].sales_case_id = None
    BY ImportedProcesses, ImportedRowsExist DEF RowsHangTogether
  <1>5. \A d \in Ppjb : ppjbs'[d].status = Absent => ppjbs'[d].sales_case_id = None
    BY ImportedPpjbs, ImportedRowsExist DEF RowsHangTogether
  <1> QED
    BY <1>1, <1>2, <1>3, <1>4, <1>5 DEF RowsHangTogether, Exists, status

\* What a handler may do to a row: nothing, insert it, or change its status.
LEMMA HandlerRows ==
    ASSUME ImportTypeOK, RowsHangTogether, [Next]_vars
    PROVE  /\ \A s \in Submission :
                \/ submissions'[s] = submissions[s]
                \/ \E c \in Case : \E p \in activePsjb(c), type \in SubmissionType, n \in Nat :
                      submissions'[s] = NewSubmission(c, p, type, n)
                \/ submissions[s].status # Absent /\ submissions'[s].status # Absent
           /\ \A b \in BankProcess :
                \/ bank_processes'[b] = bank_processes[b]
                \/ \E c \in Case : \E s \in submissionsOf(c), r \in BankResponseType :
                      /\ submissions[s].type = "BANK"
                      /\ bank_processes'[b] =
                            [sales_case_id |-> c, document_submission_id |-> s,
                             response_type |-> r, is_authoritative |-> r = "APPROVED"]
           /\ \A d \in Ppjb :
                \/ ppjbs'[d] = ppjbs[d]
                \/ \E c \in Case :
                      \/ ppjbs'[d] = NewPpjb(c, None)
                      \/ \E b \in approvalOf(c) : ppjbs'[d] = NewPpjb(c, b)
                      \/ \E old \in activePpjb(c) :
                            ppjbs'[d] = NewPpjb(c, ppjbs[old].bank_process_id)
                \/ ppjbs[d].status # Absent /\ ppjbs'[d].status # Absent
  <1>1. ASSUME NEW s \in Submission
        PROVE  \/ submissions'[s] = submissions[s]
               \/ \E c \in Case : \E p \in activePsjb(c), type \in SubmissionType, n \in Nat :
                     submissions'[s] = NewSubmission(c, p, type, n)
               \/ submissions[s].status # Absent /\ submissions'[s].status # Absent
    <2>1. ASSUME NEW c \in Case, NEW p \in Psjb, NEW t \in Submission, NEW n \in 1..MaxSequence,
                 NewSubmissionStepOf(c, p, t, n), submissions'[s] # submissions[s]
          PROVE  /\ p \in activePsjb(c)
                 /\ \E type \in SubmissionType : submissions'[s] = NewSubmission(c, p, type, n)
      BY <2>1 DEF NewSubmissionStepOf, CreateDocumentSubmission, CompleteCashPemberkasan,
         ImportTypeOK, SubmissionType
    <2>2. ASSUME NEW c \in Case, NEW t \in Submission, NEW b \in BankProcess,
                 NEW r \in BankResponseType, RecordBankResponse(c, t, b, r),
                 submissions'[s] # submissions[s]
          PROVE  submissions[s].status # Absent
      <3>1. s = t /\ submissions[s].sales_case_id = c
        BY <2>2 DEF RecordBankResponse, ImportTypeOK, submissionsOf
      <3> QED
        BY <3>1, TablesAssumption DEF RowsHangTogether
    <2> QED
      BY <2>1, <2>2, WhoWrites, HandlersStay
         DEF NewSubmissionNext, BankAnswerNext, DocumentsStay
  <1>2. ASSUME NEW b \in BankProcess, bank_processes'[b] # bank_processes[b]
        PROVE  \E c \in Case : \E s \in submissionsOf(c), r \in BankResponseType :
                  /\ submissions[s].type = "BANK"
                  /\ bank_processes'[b] =
                        [sales_case_id |-> c, document_submission_id |-> s,
                         response_type |-> r, is_authoritative |-> r = "APPROVED"]
    <2>1. PICK c \in Case, s \in Submission, x \in BankProcess, r \in BankResponseType :
             RecordBankResponse(c, s, x, r)
      BY <1>2, WhoWrites DEF BankAnswerNext
    <2> QED
      BY <1>2, <2>1 DEF RecordBankResponse, ImportTypeOK
  <1>3. ASSUME NEW d \in Ppjb, ppjbs'[d] # ppjbs[d], ppjbs[d].status = Absent
        PROVE  \E c \in Case :
                  \/ ppjbs'[d] = NewPpjb(c, None)
                  \/ \E b \in approvalOf(c) : ppjbs'[d] = NewPpjb(c, b)
                  \/ \E old \in activePpjb(c) : ppjbs'[d] = NewPpjb(c, ppjbs[old].bank_process_id)
    <2>1. ppjbs \in [Ppjb -> PpjbRow]
      BY DEF ImportTypeOK
    <2>2. ASSUME NEW c \in Case, NEW x \in Ppjb, NEW b \in BankProcess \cup {None},
                 CreateDeveloperPpjb(c, x, b)
          PROVE  ppjbs'[d] = NewPpjb(c, b) /\ (b = None \/ b \in approvalOf(c))
      BY <1>3, <2>1, <2>2 DEF CreateDeveloperPpjb, ppjbBasis
    <2>3. ASSUME NEW c \in Case, NEW old \in Ppjb, NEW x \in Ppjb, ReissueDeveloperPpjb(c, old, x)
          PROVE  old \in activePpjb(c) /\ ppjbs'[d] = NewPpjb(c, ppjbs[old].bank_process_id)
      BY <1>3, <2>1, <2>3 DEF ReissueDeveloperPpjb, activePpjb, Absent
    <2>4. ASSUME NEW x \in Ppjb, CancelDeveloperPpjb(x) PROVE FALSE
      BY <1>3, <2>1, <2>4 DEF CancelDeveloperPpjb, Absent
    <2> QED
      BY <1>3, <2>2, <2>3, <2>4, WhoWrites DEF PpjbNext
  <1> QED
    BY <1>1, <1>2, <1>3, HandlersStay DEF DocumentsStay

LEMMA HandlersHangTogether ==
    ASSUME ImportTypeOK, RowsHangTogether, [Next]_vars
    PROVE  RowsHangTogether'
  <1>1. \A c \in Case : Exists(c)' => sales_cases'[c].unit_id \in Unit
    <2> SUFFICES ASSUME NEW c \in Case, Exists(c)' PROVE sales_cases'[c].unit_id \in Unit
      OBVIOUS
    <2>1. CASE Exists(c)
      <3>1. SharedTypeOK
        BY DEF ImportTypeOK, SharedTypeOK
      <3> QED
        BY <2>1, <3>1, SalesStay DEF SameSale, RowsHangTogether
    <2>2. CASE ~ Exists(c)
      <3>1. sales_cases \in [Case -> CaseRow]
        BY DEF ImportTypeOK
      <3>2. CASE LifecycleNext
        <4>1. ASSUME NEW x \in Case, NEW u \in Unit, NEW n \in Consumer, NEW f \in FinancingType,
                     CreateSalesCase(x, u, n, f)
              PROVE  sales_cases'[c].unit_id \in Unit
          BY <2>2, <3>1, <4>1 DEF CreateSalesCase, NewCase, Exists, status
        <4>2. ASSUME NEW x \in Case, NEW z, CloseSalesCase(x, z)
              PROVE  sales_cases'[c].unit_id \in Unit
          BY <2>2, <3>1, <4>2 DEF CloseSalesCase, IsActive, Found, Exists, status, Absent
        <4>3. ASSUME NEW x \in Case, NEW n \in Case, NEW u \in Unit, MoveSalesCaseUnit(x, n, u)
              PROVE  sales_cases'[c].unit_id \in Unit
          BY <2>2, <3>1, <4>3 DEF MoveSalesCaseUnit, NewCase, IsActive, Found, Exists, status, Absent
        <4> QED
          BY <3>2, <4>1, <4>2, <4>3
             DEF LifecycleNext, CancelSalesCase, MarkSalesCaseMundur, MarkSalesCaseRejected
      <3>3. ASSUME NEW x, NEW st, SetStage(x, st) PROVE FALSE
        BY <2>2, <3>1, <3>3 DEF SetStage, Exists, status, CaseRow
      <3>4. ASSUME NEW x \in Case, NEW a \in Case, CreateBast(x, a) PROVE FALSE
        BY <2>2, <3>1, <3>4 DEF CreateBast, IsActive, Found, Exists, status, CaseRow
      <3>5. CASE UNCHANGED vars
        BY <2>2, <3>5 DEF vars, Exists, status
      <3> QED
        BY <3>2, <3>3, <3>4, <3>5, DocumentHandlersSetStage DEF Next, ClosingNext, PpjbNext
    <2> QED
      BY <2>1, <2>2
  <1>2. ASSUME NEW s \in Submission, submissions'[s].status # Absent, submissions'[s].psjb_id # None
        PROVE  psjbs'[submissions'[s].psjb_id].status # Absent
    <2>1. CASE submissions[s].status # Absent
      <3> DEFINE p == submissions[s].psjb_id
      <3>1. p # None /\ submissions'[s].psjb_id = p
        BY <1>2, <2>1, HandlersStay DEF DocumentsStay
      <3>2. p \in Psjb /\ psjbs[p].status # Absent
        BY <2>1, <3>1 DEF RowsHangTogether, ImportTypeOK
      <3> QED
        BY <3>1, <3>2, HandlersStay DEF DocumentsStay
    <2>2. CASE submissions[s].status = Absent
      <3>1. submissions'[s] # submissions[s]
        BY <1>2, <2>2
      <3>2. PICK c \in Case : \E p \in activePsjb(c), type \in SubmissionType, n \in Nat :
               submissions'[s] = NewSubmission(c, p, type, n)
        BY <2>2, <3>1, HandlerRows
      <3>3. submissions'[s].psjb_id \in activePsjb(c)
        BY <3>2 DEF NewSubmission
      <3> QED
        BY <3>3, HandlersStay DEF DocumentsStay, activePsjb, Absent
    <2> QED
      BY <2>1, <2>2
  <1>3. ASSUME NEW s \in Submission, submissions'[s].status = Absent
        PROVE  submissions'[s].sales_case_id = None
    <2>1. \A c, p, type, n : NewSubmission(c, p, type, n).status # Absent
      BY DEF NewSubmission, Absent
    <2>2. submissions'[s] = submissions[s]
      BY <1>3, <2>1, HandlerRows
    <2> QED
      BY <1>3, <2>2 DEF RowsHangTogether
  <1>4. ASSUME NEW b \in BankProcess, bank_processes'[b].response_type = Absent
        PROVE  bank_processes'[b].sales_case_id = None
    <2>1. \A r \in BankResponseType : r # Absent
      BY DEF BankResponseType, Absent
    <2>2. bank_processes'[b] = bank_processes[b]
      <3>1. SUFFICES ASSUME bank_processes'[b] # bank_processes[b] PROVE FALSE
        OBVIOUS
      <3>2. PICK c \in Case : \E s \in submissionsOf(c), r \in BankResponseType :
               bank_processes'[b] = [sales_case_id |-> c, document_submission_id |-> s,
                                     response_type |-> r, is_authoritative |-> r = "APPROVED"]
        BY <3>1, HandlerRows
      <3> QED
        BY <1>4, <2>1, <3>2
    <2> QED
      BY <1>4, <2>2 DEF RowsHangTogether
  <1>5. ASSUME NEW d \in Ppjb, ppjbs'[d].status = Absent PROVE ppjbs'[d].sales_case_id = None
    <2>1. \A c, b : NewPpjb(c, b).status # Absent
      BY DEF NewPpjb, Absent
    <2>2. ppjbs'[d] = ppjbs[d]
      BY <1>5, <2>1, HandlerRows
    <2> QED
      BY <1>5, <2>2 DEF RowsHangTogether
  <1> QED
    BY <1>1, <1>2, <1>3, <1>4, <1>5 DEF RowsHangTogether, Exists, status

-----------------------------------------------------------------------------
(* Cases: what a handler does to one, and one ACTIVE case per unit and      *)
(* consumer.                                                               *)

\* A case opened by a step: at its first stage, on a unit it books, with no other
\* ACTIVE case on the unit or of the consumer.
Opened(x) ==
    /\ ~ Exists(x)
    /\ stage(x)' = "DATA_KONSUMEN"
    /\ unit_status'[sales_cases'[x].unit_id] = "BOOKING"
    /\ \A y \in Case \ {x} : (status(y) = "ACTIVE")' =>
          /\ sales_cases'[y].unit_id # sales_cases'[x].unit_id
          /\ sales_cases'[y].consumer_id # sales_cases'[x].consumer_id

LEMMA SetStageKeepsStatus ==
    ASSUME SharedTypeOK, NEW c, NEW s, SetStage(c, s), NEW x \in Case
    PROVE  status(x)' = status(x)
  BY SetStageKeepsSales

LEMMA HandlerStatus ==
    ASSUME SharedTypeOK, [Next]_vars, NEW x \in Case
    PROVE  /\ Closed(x) => status(x)' = status(x)
           /\ (status(x) = "ACTIVE")' => status(x) = "ACTIVE" \/ Opened(x)
  <1>1. sales_cases \in [Case -> CaseRow] /\ unit_status \in [Unit -> UnitStatus]
    BY DEF SharedTypeOK
  <1>2. ASSUME NEW c \in Case, NEW u \in Unit, NEW k \in Consumer, NEW f \in FinancingType,
               CreateSalesCase(c, u, k, f)
        PROVE  /\ Closed(x) => status(x)' = status(x)
               /\ (status(x) = "ACTIVE")' => status(x) = "ACTIVE" \/ Opened(x)
    <2>1. /\ ~ Exists(c) /\ UniqueActiveCase(u, k, Case)
          /\ sales_cases' = [sales_cases EXCEPT ![c] = NewCase(u, k, f, None)]
          /\ unit_status' = [unit_status EXCEPT ![u] = "BOOKING"]
      BY <1>2 DEF CreateSalesCase
    <2>2. CASE x # c
      BY <1>1, <2>1, <2>2 DEF status
    <2>3. CASE x = c
      <3>1. ~ Closed(x)
        BY <2>1, <2>3 DEF Closed, Exists
      <3>2. /\ stage(x)' = "DATA_KONSUMEN" /\ sales_cases'[x].unit_id = u
            /\ sales_cases'[x].consumer_id = k /\ unit_status'[u] = "BOOKING"
        BY <1>1, <2>1, <2>3 DEF NewCase, stage
      <3>3. \A y \in Case \ {x} : (status(y) = "ACTIVE")' =>
               sales_cases'[y].unit_id # u /\ sales_cases'[y].consumer_id # k
        BY <1>1, <2>1, <2>3 DEF UniqueActiveCase, status
      <3> QED
        BY <2>1, <2>3, <3>1, <3>2, <3>3 DEF Opened
    <2> QED
      BY <2>2, <2>3
  <1>3. ASSUME NEW c \in Case, NEW z \in {"CANCELLED", "MUNDUR", "REJECT"}, CloseSalesCase(c, z)
        PROVE  /\ Closed(x) => status(x)' = status(x)
               /\ (status(x) = "ACTIVE")' => status(x) = "ACTIVE" \/ Opened(x)
    BY <1>1, <1>3 DEF CloseSalesCase, IsActive, Closed, status, CaseRow
  <1>4. ASSUME NEW c \in Case, NEW n \in Case, NEW u \in Unit, MoveSalesCaseUnit(c, n, u)
        PROVE  /\ Closed(x) => status(x)' = status(x)
               /\ (status(x) = "ACTIVE")' => status(x) = "ACTIVE" \/ Opened(x)
    <2> DEFINE old == sales_cases[c]
               new == NewCase(u, old.consumer_id, old.financing_type, c)
    <2>1. /\ ~ Exists(n) /\ status(c) = "ACTIVE" /\ c # n
          /\ UniqueActiveCase(u, old.consumer_id, Case \ {c})
          /\ sales_cases' = [sales_cases EXCEPT ![c].case_status = "PINDAH_KAVLING", ![n] = new]
          /\ unit_status' = [unit_status EXCEPT ![old.unit_id] = "TERSEDIA", ![u] = "BOOKING"]
      BY <1>4 DEF MoveSalesCaseUnit, IsActive, Found, Exists, Absent
    <2>2. CASE x # n
      BY <1>1, <2>1, <2>2 DEF status, Closed, CaseRow
    <2>3. CASE x = n
      <3>1. ~ Closed(x)
        BY <2>1, <2>3 DEF Closed, Exists
      <3>2. /\ stage(x)' = "DATA_KONSUMEN" /\ sales_cases'[x].unit_id = u
            /\ sales_cases'[x].consumer_id = old.consumer_id /\ unit_status'[u] = "BOOKING"
        BY <1>1, <2>1, <2>3 DEF NewCase, stage
      <3>3. \A y \in Case \ {x} : (status(y) = "ACTIVE")' =>
               sales_cases'[y].unit_id # u /\ sales_cases'[y].consumer_id # old.consumer_id
        <4>1. status(c)' = "PINDAH_KAVLING"
          BY <1>1, <2>1 DEF status, CaseRow
        <4>2. \A y \in Case \ {c, n} : sales_cases'[y] = sales_cases[y]
          BY <1>1, <2>1
        <4>3. ASSUME NEW y \in Case \ {n}, (status(y) = "ACTIVE")'
              PROVE  sales_cases'[y].unit_id # u /\ sales_cases'[y].consumer_id # old.consumer_id
          <5>1. y # c
            BY <4>1, <4>3
          <5>2. sales_cases'[y] = sales_cases[y] /\ status(y) = "ACTIVE"
            BY <4>2, <4>3, <5>1 DEF status
          <5> QED
            BY <2>1, <5>1, <5>2 DEF UniqueActiveCase
        <4> QED
          BY <2>3, <4>3
      <3> QED
        BY <2>1, <2>3, <3>1, <3>2, <3>3 DEF Opened
    <2> QED
      BY <2>2, <2>3
  <1>5. ASSUME NEW c, NEW s, SetStage(c, s)
        PROVE  /\ Closed(x) => status(x)' = status(x)
               /\ (status(x) = "ACTIVE")' => status(x) = "ACTIVE" \/ Opened(x)
    BY <1>5, SetStageKeepsStatus
  <1>6. ASSUME NEW c \in Case, NEW a \in Case, CreateBast(c, a)
        PROVE  /\ Closed(x) => status(x)' = status(x)
               /\ (status(x) = "ACTIVE")' => status(x) = "ACTIVE" \/ Opened(x)
    BY <1>1, <1>6 DEF CreateBast, IsActive, Closed, status, CaseRow
  <1>7. CASE UNCHANGED vars
    BY <1>7 DEF vars, status
  <1> QED
    BY <1>2, <1>3, <1>4, <1>5, <1>6, <1>7, DocumentHandlersSetStage
       DEF Next, LifecycleNext, ClosingNext, PpjbNext, CancelSalesCase, MarkSalesCaseMundur,
       MarkSalesCaseRejected

LEMMA SharedByImport == ImportTypeOK => SharedTypeOK
  BY DEF ImportTypeOK, SharedTypeOK

LEMMA HandlersKeepOneActiveCase ==
    ASSUME ImportTypeOK, OneActiveCase, [Next]_vars
    PROVE  OneActiveCase'
  <1>1. SharedTypeOK
    BY SharedByImport
  <1> SUFFICES ASSUME NEW c \in Case, NEW d \in Case, c # d,
                      (status(c) = "ACTIVE")', (status(d) = "ACTIVE")'
               PROVE  /\ sales_cases'[c].unit_id # sales_cases'[d].unit_id
                      /\ sales_cases'[c].consumer_id # sales_cases'[d].consumer_id
    BY DEF OneActiveCase
  <1>2. CASE Opened(c) \/ Opened(d)
    BY <1>2 DEF Opened
  <1>3. CASE status(c) = "ACTIVE" /\ status(d) = "ACTIVE"
    <2>1. SameSale(c) /\ SameSale(d)
      BY <1>1, <1>3, SalesStay DEF Exists, Absent
    <2> QED
      BY <1>3, <2>1 DEF OneActiveCase, SameSale
  <1> QED
    BY <1>1, <1>2, <1>3, HandlerStatus

-----------------------------------------------------------------------------
(* The ACTIVE documents of a case. *)

LEMMA PsjbWriters ==
    ASSUME [Next]_vars
    PROVE  \/ psjbs' = psjbs
           \/ \E c \in Case, p \in Psjb : CreatePsjb(c, p)
           \/ \E c \in Case, old, p \in Psjb : ReissuePsjb(c, old, p)
           \/ \E p \in Psjb : CancelPsjb(p)
  BY DEF Next, LifecycleNext, PsjbNext, BankNext, ClosingNext, CreateSalesCase, CancelSalesCase,
     MarkSalesCaseMundur, MarkSalesCaseRejected, CloseSalesCase, MoveSalesCaseUnit,
     RecordBiCheck, CreateDocumentSubmission, CompleteCashPemberkasan, RecordBankResponse,
     CreateDeveloperPpjb, ReissueDeveloperPpjb, CancelDeveloperPpjb, CreateAkad, CreateBast,
     vars, documents

\* A case keeps one ACTIVE PSJB at most, and loses it only by going back to PSJB.
LEMMA ActivePsjbStep ==
    ASSUME ImportTypeOK, [Next]_vars, NEW c \in Case, OneOf(activePsjb(c))
    PROVE  /\ OneOf(activePsjb(c)')
           /\ activePsjb(c) # {} => activePsjb(c)' # {} \/ stage(c)' = "PSJB"
  <1>1. psjbs \in [Psjb -> PsjbRow] /\ SharedTypeOK
    BY SharedByImport DEF ImportTypeOK
  <1>2. CASE psjbs' = psjbs
    BY <1>2 DEF activePsjb
  <1>3. ASSUME NEW x \in Case, NEW p \in Psjb, CreatePsjb(x, p)
        PROVE  OneOf(activePsjb(c)') /\ activePsjb(c) \subseteq activePsjb(c)'
    <2>1. /\ activePsjb(x) = {} /\ psjbs[p].status = Absent
          /\ psjbs' = [psjbs EXCEPT ![p] = [sales_case_id |-> x, status |-> "ACTIVE"]]
      BY <1>3 DEF CreatePsjb, NewPsjb
    <2>2. activePsjb(c)' = IF c = x THEN {p} ELSE activePsjb(c)
      BY <1>1, <2>1 DEF activePsjb, Absent
    <2> QED
      BY <2>1, <2>2 DEF OneOf
  <1>4. ASSUME NEW x \in Case, NEW old \in Psjb, NEW p \in Psjb, ReissuePsjb(x, old, p)
        PROVE  OneOf(activePsjb(c)') /\ (activePsjb(c) # {} => activePsjb(c)' # {})
    <2>1. /\ old \in activePsjb(x) /\ psjbs[p].status = Absent
          /\ psjbs' = [psjbs EXCEPT ![old].status = "SUPERSEDED",
                                    ![p] = [sales_case_id |-> x, status |-> "ACTIVE"]]
      BY <1>4 DEF ReissuePsjb, NewPsjb
    <2>2. activePsjb(c)' = IF c = x THEN (activePsjb(c) \ {old}) \cup {p} ELSE activePsjb(c)
      BY <1>1, <2>1 DEF activePsjb, PsjbRow, Absent
    <2> QED
      BY <2>1, <2>2 DEF OneOf
  <1>5. ASSUME NEW p \in Psjb, CancelPsjb(p)
        PROVE  /\ OneOf(activePsjb(c)')
               /\ activePsjb(c) # {} => activePsjb(c)' # {} \/ stage(c)' = "PSJB"
    <2> DEFINE x == psjbs[p].sales_case_id
    <2>1. psjbs[p].status = "ACTIVE" /\ psjbs' = [psjbs EXCEPT ![p].status = "CANCELLED"]
      BY <1>5 DEF CancelPsjb
    <2>2. activePsjb(c)' = IF c = x THEN activePsjb(c) \ {p} ELSE activePsjb(c)
      BY <1>1, <2>1 DEF activePsjb, PsjbRow
    <2>3. c = x => stage(c)' = "PSJB"
      BY <1>1, <1>5, SetStageWrites DEF CancelPsjb
    <2> QED
      BY <2>2, <2>3 DEF OneOf
  <1> QED
    BY <1>2, <1>3, <1>4, <1>5, PsjbWriters

\* A case keeps one ACTIVE PPJB at most; the one its Akad names stays, and it loses
\* the one it has only before its Akad, to go back to PPJB_DEV.
LEMMA ActivePpjbStep ==
    ASSUME ImportTypeOK, [Next]_vars, NEW c \in Case, OneOf(activePpjb(c)),
           hasAkad(c) => akads[c] \in activePpjb(c)
    PROVE  /\ OneOf(activePpjb(c)')
           /\ hasAkad(c)' => akads'[c] \in activePpjb(c)'
           /\ activePpjb(c) # {} =>
                 \/ activePpjb(c)' # {}
                 \/ /\ status(c) = "ACTIVE" /\ ~ hasAkad(c)
                    /\ stage(c)' = IF isBeyond(stage(c), "AKAD") THEN stage(c) ELSE "PPJB_DEV"
  <1>1. ppjbs \in [Ppjb -> PpjbRow] /\ SharedTypeOK /\ akads \in [Case -> Ppjb \cup {None}]
    BY SharedByImport DEF ImportTypeOK
  <1>2. CASE ppjbs' = ppjbs /\ akads' = akads
    BY <1>2 DEF activePpjb, hasAkad
  <1>3. ASSUME NEW x \in Case, NEW d \in Ppjb, NEW b \in BankProcess \cup {None},
               CreateDeveloperPpjb(x, d, b)
        PROVE  OneOf(activePpjb(c)') /\ activePpjb(c) \subseteq activePpjb(c)' /\ akads' = akads
    <2>1. /\ activePpjb(x) = {} /\ ppjbs[d].status = Absent /\ akads' = akads
          /\ ppjbs' = [ppjbs EXCEPT ![d] = [sales_case_id |-> x, bank_process_id |-> b,
                                            status |-> "ACTIVE"]]
      BY <1>3 DEF CreateDeveloperPpjb, NewPpjb
    <2>2. activePpjb(c)' = IF c = x THEN {d} ELSE activePpjb(c)
      BY <1>1, <2>1 DEF activePpjb, Absent
    <2> QED
      BY <2>1, <2>2 DEF OneOf
  <1>4. ASSUME NEW x \in Case, NEW old \in Ppjb, NEW d \in Ppjb, ReissueDeveloperPpjb(x, old, d)
        PROVE  /\ OneOf(activePpjb(c)') /\ akads' = akads
               /\ activePpjb(c) # {} => activePpjb(c)' # {}
               /\ hasAkad(c) => activePpjb(c)' = activePpjb(c)
    <2>1. /\ old \in activePpjb(x) /\ ppjbs[d].status = Absent /\ akads' = akads /\ ~ hasAkad(x)
          /\ ppjbs' = [ppjbs EXCEPT ![old].status = "SUPERSEDED",
                          ![d] = [sales_case_id |-> x, status |-> "ACTIVE",
                                  bank_process_id |-> ppjbs[old].bank_process_id]]
      BY <1>4 DEF ReissueDeveloperPpjb, NewPpjb
    <2>2. activePpjb(c)' = IF c = x THEN (activePpjb(c) \ {old}) \cup {d} ELSE activePpjb(c)
      BY <1>1, <2>1 DEF activePpjb, PpjbRow, Absent
    <2> QED
      BY <2>1, <2>2 DEF OneOf
  <1>5. ASSUME NEW d \in Ppjb, CancelDeveloperPpjb(d)
        PROVE  /\ OneOf(activePpjb(c)') /\ akads' = akads
               /\ hasAkad(c) => activePpjb(c)' = activePpjb(c)
               /\ activePpjb(c) # {} =>
                     \/ activePpjb(c)' # {}
                     \/ /\ status(c) = "ACTIVE" /\ ~ hasAkad(c)
                        /\ stage(c)' = IF isBeyond(stage(c), "AKAD") THEN stage(c)
                                       ELSE "PPJB_DEV"
    <2> DEFINE x == ppjbs[d].sales_case_id
    <2>1. /\ ppjbs[d].status = "ACTIVE" /\ akads' = akads
          /\ ppjbs' = [ppjbs EXCEPT ![d].status = "CANCELLED"]
      BY <1>5 DEF CancelDeveloperPpjb
    <2>2. activePpjb(c)' = IF c = x THEN activePpjb(c) \ {d} ELSE activePpjb(c)
      BY <1>1, <2>1 DEF activePpjb, PpjbRow
    <2>3. c = x =>
             /\ status(c) = "ACTIVE" /\ ~ hasAkad(c)
             /\ stage(c)' = IF isBeyond(stage(c), "AKAD") THEN stage(c) ELSE "PPJB_DEV"
      BY <1>1, <1>5, SetStageWrites DEF CancelDeveloperPpjb, IsActive
    <2> QED
      BY <2>1, <2>2, <2>3 DEF OneOf
  <1>6. ASSUME NEW x \in Case, NEW d \in Ppjb, CreateAkad(x, d)
        PROVE  /\ activePpjb(c)' = activePpjb(c)
               /\ hasAkad(c)' => akads'[c] \in activePpjb(c)
    <2>1. /\ ppjbs' = ppjbs /\ akads' = [akads EXCEPT ![x] = d]
          /\ ppjbs[d].sales_case_id = x /\ ppjbs[d].status = "ACTIVE"
      BY <1>6 DEF CreateAkad
    <2> QED
      BY <1>1, <2>1 DEF activePpjb, hasAkad
  <1>7. \/ ppjbs' = ppjbs /\ akads' = akads
        \/ PpjbNext
        \/ \E x \in Case, d \in Ppjb : CreateAkad(x, d)
    <2>1. CASE LifecycleNext
      BY <2>1 DEF LifecycleNext, CreateSalesCase, CancelSalesCase, MarkSalesCaseMundur,
         MarkSalesCaseRejected, CloseSalesCase, MoveSalesCaseUnit, documents
    <2>2. CASE PsjbNext
      BY <2>2 DEF PsjbNext, RecordBiCheck, CreatePsjb, ReissuePsjb, CancelPsjb
    <2>3. CASE BankNext
      BY <2>3 DEF BankNext, CreateDocumentSubmission, CompleteCashPemberkasan,
         RecordBankResponse
    <2>4. CASE ClosingNext
      <3>1. ASSUME NEW x \in Case, NEW a \in Case, CreateBast(x, a)
            PROVE  ppjbs' = ppjbs /\ akads' = akads
        BY <3>1 DEF CreateBast
      <3> QED
        BY <2>4, <3>1 DEF ClosingNext, PpjbNext
    <2>5. CASE UNCHANGED vars
      BY <2>5 DEF vars, documents
    <2> QED
      BY <2>1, <2>2, <2>3, <2>4, <2>5 DEF Next
  <1> QED
    BY <1>2, <1>3, <1>4, <1>5, <1>6, <1>7 DEF PpjbNext, hasAkad

LEMMA OneApprovalStep ==
    ASSUME ImportTypeOK, [Next]_vars, NEW c \in Case, OneOf(approvalOf(c))
    PROVE  OneOf(approvalOf(c)')
  <1>1. bank_processes \in [BankProcess -> ProcessRow]
    BY DEF ImportTypeOK
  <1>2. ASSUME NEW x \in Case, NEW s \in Submission, NEW b \in BankProcess,
               NEW r \in BankResponseType, RecordBankResponse(x, s, b, r)
        PROVE  OneOf(approvalOf(c)')
    <2>1. /\ r = "APPROVED" => approvalOf(x) = {}
          /\ bank_processes' = [bank_processes EXCEPT ![b] =
                [sales_case_id |-> x, document_submission_id |-> s, response_type |-> r,
                 is_authoritative |-> r = "APPROVED"]]
      BY <1>2 DEF RecordBankResponse
    <2>2. approvalOf(c)' \subseteq
             approvalOf(c) \cup (IF c = x /\ r = "APPROVED" THEN {b} ELSE {})
      BY <1>1, <2>1 DEF approvalOf
    <2> QED
      BY <2>1, <2>2 DEF OneOf
  <1>3. CASE bank_processes' = bank_processes
    BY <1>3 DEF approvalOf
  <1>4. CASE BankAnswerNext
    BY <1>2, <1>4 DEF BankAnswerNext
  <1> QED
    BY <1>3, <1>4, WhoWrites

LEMMA HandlersKeepOneActiveDocument ==
    ASSUME ImportTypeOK, OneActiveDocument,
           \A c \in Case : hasAkad(c) => akads[c] \in activePpjb(c), [Next]_vars
    PROVE  OneActiveDocument'
  <1>1. ASSUME NEW c \in Case
        PROVE  OneOf(activePsjb(c)') /\ OneOf(activePpjb(c)') /\ OneOf(approvalOf(c)')
    <2>1. OneOf(activePsjb(c)) /\ OneOf(activePpjb(c)) /\ OneOf(approvalOf(c))
      BY DEF OneActiveDocument
    <2> QED
      BY <2>1, ActivePsjbStep, ActivePpjbStep, OneApprovalStep
  <1>2. \A c \in Case : OneOf(activePsjb(c)') <=> OneOf(activePsjb(c))'
    BY DEF OneOf
  <1>3. \A c \in Case : OneOf(activePpjb(c)') <=> OneOf(activePpjb(c))'
    BY DEF OneOf
  <1>4. \A c \in Case : OneOf(approvalOf(c)') <=> OneOf(approvalOf(c))'
    BY DEF OneOf
  <1> QED
    BY <1>1, <1>2, <1>3, <1>4 DEF OneActiveDocument

-----------------------------------------------------------------------------
(* References. *)

\* A submission names a PSJB of its case, a BAST needs an Akad.
SubmissionsNameOwnPsjb ==
    \A s \in Submission : (submissions[s].status # Absent /\ submissions[s].psjb_id # None) =>
        psjbs[submissions[s].psjb_id].sales_case_id = submissions[s].sales_case_id
ClosingLinks ==
    \A c \in Case : /\ hasAkad(c) => akads[c] \in activePpjb(c)
                    /\ hasBast(c) => hasAkad(c)

LEMMA ReferencesByParts ==
    ImportedReferencesStayInCase
        <=> SubmissionsNameOwnPsjb /\ ProcessLinks /\ PpjbLinks /\ ClosingLinks
  BY DEF ImportedReferencesStayInCase, SubmissionsNameOwnPsjb, ClosingLinks

\* Rows that stay keep naming what they named.
LEMMA OldReferencesStay ==
    ASSUME ImportTypeOK, RowsHangTogether, ImportedReferencesStayInCase, DocumentsStay
    PROVE  /\ \A s \in Submission :
                (submissions[s].status # Absent /\ submissions'[s].psjb_id # None) =>
                   psjbs'[submissions'[s].psjb_id].sales_case_id = submissions'[s].sales_case_id
           /\ \A b \in BankProcess : bank_processes[b].response_type # Absent =>
                /\ bank_processes'[b].sales_case_id \in Case
                /\ bank_processes'[b].document_submission_id \in Submission
                /\ submissions'[bank_processes'[b].document_submission_id].sales_case_id
                      = bank_processes'[b].sales_case_id
                /\ submissions'[bank_processes'[b].document_submission_id].type = "BANK"
           /\ \A d \in Ppjb : ppjbs[d].status # Absent =>
                /\ ppjbs'[d].sales_case_id \in Case
                /\ ppjbs'[d].bank_process_id # None =>
                      \E c \in Case : /\ ppjbs'[d].sales_case_id = c
                                      /\ ppjbs'[d].bank_process_id \in approvalOf(c)'
  <1>1. ASSUME NEW s \in Submission, submissions[s].status # Absent, submissions'[s].psjb_id # None
        PROVE  psjbs'[submissions'[s].psjb_id].sales_case_id = submissions'[s].sales_case_id
    <2> DEFINE p == submissions[s].psjb_id
    <2>1. /\ submissions'[s].psjb_id = p
          /\ submissions'[s].sales_case_id = submissions[s].sales_case_id
      BY <1>1 DEF DocumentsStay
    <2>2. p \in Psjb /\ psjbs[p].status # Absent
      BY <1>1, <2>1 DEF RowsHangTogether, ImportTypeOK
    <2>3. psjbs'[p].sales_case_id = psjbs[p].sales_case_id
      BY <2>2 DEF DocumentsStay
    <2>4. psjbs[p].sales_case_id = submissions[s].sales_case_id
      BY <1>1, <2>1, ReferencesByParts DEF SubmissionsNameOwnPsjb
    <2> QED
      BY <2>1, <2>3, <2>4
  <1>2. ASSUME NEW b \in BankProcess, bank_processes[b].response_type # Absent
        PROVE  /\ bank_processes'[b].sales_case_id \in Case
               /\ bank_processes'[b].document_submission_id \in Submission
               /\ submissions'[bank_processes'[b].document_submission_id].sales_case_id
                     = bank_processes'[b].sales_case_id
               /\ submissions'[bank_processes'[b].document_submission_id].type = "BANK"
    <2> DEFINE s == bank_processes[b].document_submission_id
    <2>1. bank_processes'[b] = bank_processes[b]
      BY <1>2 DEF DocumentsStay
    <2>2. /\ bank_processes[b].sales_case_id \in Case /\ s \in Submission
          /\ submissions[s].sales_case_id = bank_processes[b].sales_case_id
          /\ submissions[s].type = "BANK"
      BY <1>2, ReferencesByParts DEF ProcessLinks
    <2>3. submissions[s].status # Absent
      BY <2>2, TablesAssumption DEF RowsHangTogether
    <2> QED
      BY <2>1, <2>2, <2>3 DEF DocumentsStay
  <1>3. ASSUME NEW d \in Ppjb, ppjbs[d].status # Absent
        PROVE  /\ ppjbs'[d].sales_case_id \in Case
               /\ ppjbs'[d].bank_process_id # None =>
                     \E c \in Case : /\ ppjbs'[d].sales_case_id = c
                                     /\ ppjbs'[d].bank_process_id \in approvalOf(c)'
    <2>1. PICK c \in Case :
             /\ ppjbs[d].sales_case_id = c
             /\ ppjbs[d].bank_process_id # None => ppjbs[d].bank_process_id \in approvalOf(c)
      BY <1>3, ReferencesByParts DEF PpjbLinks
    <2>2. /\ ppjbs'[d].sales_case_id = c
          /\ ppjbs'[d].bank_process_id = ppjbs[d].bank_process_id
      BY <1>3, <2>1 DEF DocumentsStay
    <2>3. approvalOf(c) \subseteq approvalOf(c)'
      BY EvidenceStays
    <2> QED
      BY <2>1, <2>2, <2>3
  <1> QED
    BY <1>1, <1>2, <1>3

\* From one step's rows to the formula about the next state.
LEMMA ReferencesNext ==
    ASSUME \A s \in Submission :
              (submissions'[s].status # Absent /\ submissions'[s].psjb_id # None) =>
                 psjbs'[submissions'[s].psjb_id].sales_case_id = submissions'[s].sales_case_id,
           \A b \in BankProcess : bank_processes'[b].response_type # Absent =>
              /\ bank_processes'[b].sales_case_id \in Case
              /\ bank_processes'[b].document_submission_id \in Submission
              /\ submissions'[bank_processes'[b].document_submission_id].sales_case_id
                    = bank_processes'[b].sales_case_id
              /\ submissions'[bank_processes'[b].document_submission_id].type = "BANK",
           \A d \in Ppjb : ppjbs'[d].status # Absent =>
              /\ ppjbs'[d].sales_case_id \in Case
              /\ ppjbs'[d].bank_process_id # None =>
                    \E c \in Case : /\ ppjbs'[d].sales_case_id = c
                                    /\ ppjbs'[d].bank_process_id \in approvalOf(c)',
           \A c \in Case : /\ hasAkad(c)' => akads'[c] \in activePpjb(c)'
                           /\ hasBast(c)' => hasAkad(c)'
    PROVE  ImportedReferencesStayInCase'
  <1>1. SubmissionsNameOwnPsjb'
    BY DEF SubmissionsNameOwnPsjb
  <1>2. ProcessLinks'
    BY DEF ProcessLinks
  <1>3. PpjbLinks'
    BY DEF PpjbLinks, approvalOf
  <1>4. ClosingLinks'
    BY DEF ClosingLinks, hasAkad, hasBast, activePpjb
  <1> QED
    BY <1>1, <1>2, <1>3, <1>4 DEF ImportedReferencesStayInCase, SubmissionsNameOwnPsjb, ClosingLinks

LEMMA ImportKeepsReferences ==
    ASSUME ImportTypeOK, RowsHangTogether, ImportedReferencesStayInCase, NEW plan, Imports(plan)
    PROVE  ImportedReferencesStayInCase'
  <1>1. DocumentsStay
    BY ImportsStay
  <1>2. ASSUME NEW s \in Submission, submissions'[s].status # Absent, submissions'[s].psjb_id # None
        PROVE  psjbs'[submissions'[s].psjb_id].sales_case_id = submissions'[s].sales_case_id
    <2>1. CASE submissions[s].status # Absent
      BY <1>1, <1>2, <2>1, OldReferencesStay
    <2>2. ASSUME NEW k \in Range(plan), NEW i \in DOMAIN k.submissions,
                 submissions'[s] = importedSubmission(k, i)
          PROVE  psjbs'[submissions'[s].psjb_id].sales_case_id = submissions'[s].sales_case_id
      BY <1>2, <2>2, LastPsjbIsImported DEF importedSubmission
    <2> QED
      BY <1>2, <2>1, <2>2, ImportedSubmissions
  <1>3. ASSUME NEW b \in BankProcess, bank_processes'[b].response_type # Absent
        PROVE  /\ bank_processes'[b].sales_case_id \in Case
               /\ bank_processes'[b].document_submission_id \in Submission
               /\ submissions'[bank_processes'[b].document_submission_id].sales_case_id
                     = bank_processes'[b].sales_case_id
               /\ submissions'[bank_processes'[b].document_submission_id].type = "BANK"
    <2>1. CASE bank_processes[b].response_type # Absent
      BY <1>1, <2>1, OldReferencesStay
    <2>2. ASSUME NEW k \in Range(plan), NEW i \in DOMAIN processRows(k),
                 bank_processes'[b] = importedProcess(k, i)
          PROVE  /\ bank_processes'[b].sales_case_id \in Case
                 /\ bank_processes'[b].document_submission_id \in Submission
                 /\ submissions'[bank_processes'[b].document_submission_id].sales_case_id
                       = bank_processes'[b].sales_case_id
                 /\ submissions'[bank_processes'[b].document_submission_id].type = "BANK"
      <3>1. k.financing = "KPR_SUBSIDI" /\ k.case \in Case
        BY CandidateTypes
      <3>2. PICK j \in DOMAIN k.submissions : processRows(k)[i].submission = k.submissions[j]
        BY CandidateTypes
      <3>3. k.submissions[j] \in Submission
        BY CandidateTypes
      <3>4. submissions'[k.submissions[j]] = importedSubmission(k, j)
        BY ImportedSubmissions
      <3>5. /\ bank_processes'[b].sales_case_id = k.case
            /\ bank_processes'[b].document_submission_id = k.submissions[j]
        BY <2>2, <3>2 DEF importedProcess
      <3>6. importedSubmission(k, j).sales_case_id = k.case
            /\ importedSubmission(k, j).type = "BANK"
        BY <3>1 DEF importedSubmission, importedType
      <3> QED
        BY <3>1, <3>3, <3>4, <3>5, <3>6
    <2> QED
      BY <1>3, <2>1, <2>2, ImportedProcesses
  <1>4. ASSUME NEW d \in Ppjb, ppjbs'[d].status # Absent
        PROVE  /\ ppjbs'[d].sales_case_id \in Case
               /\ ppjbs'[d].bank_process_id # None =>
                     \E c \in Case : /\ ppjbs'[d].sales_case_id = c
                                     /\ ppjbs'[d].bank_process_id \in approvalOf(c)'
    <2>1. CASE ppjbs[d].status # Absent
      <3>1. ppjbs'[d].sales_case_id = ppjbs[d].sales_case_id
        BY <1>1, <2>1 DEF DocumentsStay
      <3> QED
        BY <1>1, <2>1, <3>1, OldReferencesStay
    <2>2. ASSUME NEW k \in Range(plan), ppjbs'[d] = importedPpjb(k)
          PROVE  /\ ppjbs'[d].sales_case_id \in Case
                 /\ ppjbs'[d].bank_process_id # None =>
                       \E c \in Case : /\ ppjbs'[d].sales_case_id = c
                                       /\ ppjbs'[d].bank_process_id \in approvalOf(c)'
      <3>1. k.case \in Case /\ ppjbs'[d].sales_case_id = k.case
        BY <2>2, CandidateTypes DEF importedPpjb
      <3>2. CASE authoritative(k) = {}
        BY <2>2, <3>1, <3>2 DEF importedPpjb
      <3>3. ASSUME NEW i \in authoritative(k),
                   ppjbs'[d].bank_process_id = processRows(k)[i].id
            PROVE  ppjbs'[d].bank_process_id \in approvalOf(k.case)'
        <4>1. i \in DOMAIN processRows(k)
          BY DEF authoritative, approvals
        <4>2. processRows(k)[i].id \in BankProcess
          BY <4>1, CandidateTypes
        <4>3. bank_processes'[processRows(k)[i].id] = importedProcess(k, i)
          BY <4>1, ImportedProcesses
        <4>4. /\ bank_processes'[processRows(k)[i].id].sales_case_id = k.case
              /\ bank_processes'[processRows(k)[i].id].is_authoritative
          <5>1. /\ importedProcess(k, i).sales_case_id = k.case
                /\ importedProcess(k, i).is_authoritative = (i \in authoritative(k))
            BY DEF importedProcess
          <5> QED
            BY <4>3, <5>1
        <4> QED
          BY <3>1, <3>3, <4>2, <4>4 DEF approvalOf
      <3>4. CASE authoritative(k) # {}
        BY <2>2, <3>1, <3>3, <3>4 DEF importedPpjb
      <3> QED
        BY <3>2, <3>4
    <2> QED
      BY <1>4, <2>1, <2>2, ImportedPpjbs
  <1>5. ASSUME NEW c \in Case
        PROVE  /\ hasAkad(c)' => akads'[c] \in activePpjb(c)'
               /\ hasBast(c)' => hasAkad(c)'
    <2>1. ASSUME NEW k \in Range(plan), k.case = c
          PROVE  /\ hasAkad(c)' => akads'[c] \in activePpjb(c)'
                 /\ hasBast(c)' => hasAkad(c)'
      <3>1. /\ k \in Candidate
            /\ k.akad => k.ppjbs # << >>
            /\ k.bast => k.akad
        BY CandidateTypes DEF Imports, Import, Resolvable
      <3>2. k.ppjbs \in Seq(Ppjb)
        BY <3>1 DEF Candidate
      <3>3. akads'[c] = importedAkad(k) /\ basts'[c] = importedBast(k)
        BY <2>1, ImportedCases
      <3>4. CASE ~ k.akad
        BY <3>1, <3>3, <3>4 DEF importedAkad, importedBast, hasAkad, hasBast
      <3>5. CASE k.akad
        <4>1. PICK i \in DOMAIN k.ppjbs : k.ppjbs[Len(k.ppjbs)] = k.ppjbs[i]
          BY <3>1, <3>2, <3>5
        <4>2. akads'[c] = k.ppjbs[i]
          BY <3>3, <3>5, <4>1 DEF importedAkad
        <4>3. k.ppjbs[i] \in Ppjb /\ k.ppjbs[i] # None
          BY CandidateTypes, TablesAssumption
        <4>4. ppjbs'[k.ppjbs[i]] = importedPpjb(k)
          BY ImportedPpjbs
        <4>5. k.ppjbs[i] \in activePpjb(c)'
          BY <2>1, <4>3, <4>4 DEF activePpjb, importedPpjb
        <4> QED
          BY <4>2, <4>3, <4>5 DEF hasAkad
      <3> QED
        BY <3>4, <3>5
    <2>2. CASE \A k \in Range(plan) : k.case # c
      <3>1. akads'[c] = akads[c] /\ basts'[c] = basts[c]
        BY <2>2, ImportedCases
      <3>2. hasBast(c)' => hasAkad(c)'
        BY <3>1, ReferencesByParts DEF ClosingLinks, hasAkad, hasBast
      <3>3. ASSUME hasAkad(c)' PROVE akads'[c] \in activePpjb(c)'
        <4>1. akads[c] \in activePpjb(c)
          BY <3>1, <3>3, ReferencesByParts DEF ClosingLinks, hasAkad
        <4>2. ppjbs'[akads[c]] = ppjbs[akads[c]]
          BY <4>1, ImportedPpjbs DEF activePpjb, Absent
        <4> QED
          BY <3>1, <4>1, <4>2 DEF activePpjb
      <3> QED
        BY <3>2, <3>3
    <2> QED
      BY <2>1, <2>2
  <1> QED
    BY <1>2, <1>3, <1>4, <1>5, ReferencesNext

\* An Akad stays, and a BAST is recorded on one.
LEMMA ClosingStep ==
    ASSUME ImportTypeOK, [Next]_vars, NEW c \in Case
    PROVE  /\ hasAkad(c) => hasAkad(c)'
           /\ hasBast(c)' => hasBast(c) \/ hasAkad(c)
           /\ hasAkad(c)' => hasAkad(c) \/ stage(c)' \in {"BAST", "COMPLETED"}
  <1>1. /\ akads \in [Case -> Ppjb \cup {None}] /\ basts \in [Case -> Case \cup {None}]
        /\ SharedTypeOK
    BY SharedByImport DEF ImportTypeOK
  <1>2. CASE akads' = akads /\ basts' = basts
    BY <1>2 DEF hasAkad, hasBast
  <1>3. ASSUME NEW x \in Case, NEW d \in Ppjb, CreateAkad(x, d)
        PROVE  /\ hasAkad(c) => hasAkad(c)'
               /\ hasBast(c)' => hasBast(c)
               /\ hasAkad(c)' => hasAkad(c) \/ stage(c)' \in {"BAST", "COMPLETED"}
    <2>1. basts' = basts /\ akads' = [akads EXCEPT ![x] = d]
      BY <1>3 DEF CreateAkad
    <2>2. stage(x)' = advanceStageTo(stage(x), "BAST")
      BY <1>1, <1>3, SetStageWrites DEF CreateAkad
    <2>3. advanceStageTo(stage(x), "BAST") \in {"BAST", "COMPLETED"}
      BY <1>1, StageIsStage DEF advanceStageTo, isBeyond, order, Stage
    <2> QED
      BY <1>1, <2>1, <2>2, <2>3, TablesAssumption DEF hasAkad, hasBast
  <1>4. ASSUME NEW x \in Case, NEW a \in Case, CreateBast(x, a)
        PROVE  akads' = akads /\ (hasBast(c)' => hasBast(c) \/ hasAkad(c))
    <2>1. akads' = akads /\ basts' = [basts EXCEPT ![x] = a] /\ hasAkad(x)
      BY <1>4 DEF CreateBast
    <2> QED
      BY <1>1, <2>1 DEF hasAkad, hasBast
  <1>5. \/ akads' = akads /\ basts' = basts
        \/ \E x \in Case, d \in Ppjb : CreateAkad(x, d)
        \/ \E x \in Case, a \in Case : CreateBast(x, a)
    <2>1. CASE LifecycleNext
      BY <2>1 DEF LifecycleNext, CreateSalesCase, CancelSalesCase, MarkSalesCaseMundur,
         MarkSalesCaseRejected, CloseSalesCase, MoveSalesCaseUnit, documents
    <2>2. CASE PsjbNext
      BY <2>2 DEF PsjbNext, RecordBiCheck, CreatePsjb, ReissuePsjb, CancelPsjb
    <2>3. CASE BankNext
      BY <2>3 DEF BankNext, CreateDocumentSubmission, CompleteCashPemberkasan,
         RecordBankResponse
    <2>4. CASE PpjbNext
      BY <2>4 DEF PpjbNext, CreateDeveloperPpjb, ReissueDeveloperPpjb, CancelDeveloperPpjb
    <2>5. CASE UNCHANGED vars
      BY <2>5 DEF vars, documents
    <2> QED
      BY <2>1, <2>2, <2>3, <2>4, <2>5 DEF Next, ClosingNext, PpjbNext
  <1> QED
    BY <1>2, <1>3, <1>4, <1>5 DEF hasAkad

LEMMA HandlersKeepReferences ==
    ASSUME ImportTypeOK, RowsHangTogether, OneActiveDocument, ImportedReferencesStayInCase,
           [Next]_vars
    PROVE  ImportedReferencesStayInCase'
  <1>1. DocumentsStay
    BY HandlersStay
  <1>2. ASSUME NEW s \in Submission, submissions'[s].status # Absent, submissions'[s].psjb_id # None
        PROVE  psjbs'[submissions'[s].psjb_id].sales_case_id = submissions'[s].sales_case_id
    <2>1. CASE submissions[s].status # Absent
      BY <1>1, <1>2, <2>1, OldReferencesStay
    <2>2. CASE submissions[s].status = Absent
      <3>1. submissions'[s] # submissions[s]
        BY <1>2, <2>2
      <3>2. PICK c \in Case : \E p \in activePsjb(c), type \in SubmissionType, n \in Nat :
               submissions'[s] = NewSubmission(c, p, type, n)
        BY <2>2, <3>1, HandlerRows
      <3>3. /\ submissions'[s].psjb_id \in activePsjb(c)
            /\ submissions'[s].sales_case_id = c
        BY <3>2 DEF NewSubmission
      <3> QED
        BY <1>1, <3>3 DEF DocumentsStay, activePsjb, Absent
    <2> QED
      BY <2>1, <2>2
  <1>3. ASSUME NEW b \in BankProcess, bank_processes'[b].response_type # Absent
        PROVE  /\ bank_processes'[b].sales_case_id \in Case
               /\ bank_processes'[b].document_submission_id \in Submission
               /\ submissions'[bank_processes'[b].document_submission_id].sales_case_id
                     = bank_processes'[b].sales_case_id
               /\ submissions'[bank_processes'[b].document_submission_id].type = "BANK"
    <2>1. CASE bank_processes[b].response_type # Absent
      BY <1>1, <2>1, OldReferencesStay
    <2>2. CASE bank_processes[b].response_type = Absent
      <3>1. bank_processes'[b] # bank_processes[b]
        BY <1>3, <2>2
      <3>2. PICK c \in Case : \E s \in submissionsOf(c), r \in BankResponseType :
               /\ submissions[s].type = "BANK"
               /\ bank_processes'[b] = [sales_case_id |-> c, document_submission_id |-> s,
                                        response_type |-> r, is_authoritative |-> r = "APPROVED"]
        BY <3>1, HandlerRows
      <3>3. PICK s \in submissionsOf(c) :
               /\ submissions[s].type = "BANK"
               /\ bank_processes'[b].sales_case_id = c
               /\ bank_processes'[b].document_submission_id = s
        BY <3>2
      <3>4. s \in Submission /\ submissions[s].sales_case_id = c /\ submissions[s].status # Absent
        BY TablesAssumption DEF submissionsOf, RowsHangTogether
      <3> QED
        BY <1>1, <3>3, <3>4 DEF DocumentsStay
    <2> QED
      BY <2>1, <2>2
  <1>4. ASSUME NEW d \in Ppjb, ppjbs'[d].status # Absent
        PROVE  /\ ppjbs'[d].sales_case_id \in Case
               /\ ppjbs'[d].bank_process_id # None =>
                     \E c \in Case : /\ ppjbs'[d].sales_case_id = c
                                     /\ ppjbs'[d].bank_process_id \in approvalOf(c)'
    <2>1. CASE ppjbs[d].status # Absent
      <3>1. ppjbs'[d].sales_case_id = ppjbs[d].sales_case_id
        BY <1>1, <2>1 DEF DocumentsStay
      <3> QED
        BY <1>1, <2>1, <3>1, OldReferencesStay
    <2>2. CASE ppjbs[d].status = Absent
      <3>1. ppjbs'[d] # ppjbs[d]
        BY <1>4, <2>2
      <3>2. PICK c \in Case :
               \/ ppjbs'[d] = NewPpjb(c, None)
               \/ \E b \in approvalOf(c) : ppjbs'[d] = NewPpjb(c, b)
               \/ \E old \in activePpjb(c) : ppjbs'[d] = NewPpjb(c, ppjbs[old].bank_process_id)
        BY <2>2, <3>1, HandlerRows
      <3>3. approvalOf(c) \subseteq approvalOf(c)'
        BY <1>1, EvidenceStays
      <3>4. ASSUME NEW old \in activePpjb(c)
            PROVE  ppjbs[old].bank_process_id # None =>
                      ppjbs[old].bank_process_id \in approvalOf(c)
        BY ReferencesByParts DEF PpjbLinks, activePpjb, Absent
      <3>5. \A b : /\ NewPpjb(c, b).sales_case_id = c
                   /\ NewPpjb(c, b).bank_process_id = b
        BY DEF NewPpjb
      <3>6. ppjbs'[d].sales_case_id = c
        BY <3>2, <3>5
      <3>7. ppjbs'[d].bank_process_id # None => ppjbs'[d].bank_process_id \in approvalOf(c)
        <4>1. CASE ppjbs'[d] = NewPpjb(c, None)
          BY <3>5, <4>1
        <4>2. ASSUME NEW b \in approvalOf(c), ppjbs'[d] = NewPpjb(c, b)
              PROVE  ppjbs'[d].bank_process_id \in approvalOf(c)
          BY <3>5, <4>2
        <4>3. ASSUME NEW old \in activePpjb(c), ppjbs'[d] = NewPpjb(c, ppjbs[old].bank_process_id)
              PROVE  ppjbs'[d].bank_process_id # None =>
                        ppjbs'[d].bank_process_id \in approvalOf(c)
          BY <3>4, <3>5, <4>3
        <4> QED
          BY <3>2, <4>1, <4>2, <4>3
      <3> QED
        BY <3>3, <3>6, <3>7
    <2> QED
      BY <2>1, <2>2
  <1>5. ASSUME NEW c \in Case
        PROVE  /\ hasAkad(c)' => akads'[c] \in activePpjb(c)'
               /\ hasBast(c)' => hasAkad(c)'
    <2>1. /\ OneOf(activePpjb(c)) /\ (hasAkad(c) => akads[c] \in activePpjb(c))
          /\ hasBast(c) => hasAkad(c)
      BY ReferencesByParts DEF OneActiveDocument, ClosingLinks
    <2> QED
      BY <2>1, ActivePpjbStep, ClosingStep
  <1> QED
    BY <1>2, <1>3, <1>4, <1>5, ReferencesNext

-----------------------------------------------------------------------------
(* Stages. *)

\* StageNeverAheadOfDocuments of one case, by stage sets.
Grounded(c) ==
    /\ stage(c) \in {"BAST", "COMPLETED"} => hasAkad(c)
    /\ stage(c) \notin BeforeAkad => hasAkad(c) \/ activePpjb(c) # {}
    /\ stage(c) \notin BeforePpjbDev =>
          ppjbsOf(c) # {} \/ approvalOf(c) # {} \/ cashPemberkasan(c) # {}
    /\ stage(c) \notin BeforePemberkasan =>
          activePsjb(c) # {} \/ submissionsOf(c) # {} \/ ppjbsOf(c) # {}

LEMMA StageByCases ==
    SharedTypeOK =>
        (StageNeverAheadOfDocuments <=> \A c \in Case : status(c) = "ACTIVE" => Grounded(c))
  <1> SUFFICES ASSUME SharedTypeOK, NEW c \in Case
               PROVE  ( /\ atOrBeyond(c, "BAST") => hasAkad(c)
                        /\ atOrBeyond(c, "AKAD") => hasAkad(c) \/ activePpjb(c) # {}
                        /\ atOrBeyond(c, "PPJB_DEV") =>
                              ppjbsOf(c) # {} \/ approvalOf(c) # {} \/ cashPemberkasan(c) # {}
                        /\ atOrBeyond(c, "PEMBERKASAN") =>
                              activePsjb(c) # {} \/ submissionsOf(c) # {} \/ ppjbsOf(c) # {} )
                          <=> Grounded(c)
    BY DEF StageNeverAheadOfDocuments
  <1>1. stage(c) \in Stage
    BY StageIsStage
  <1>2. stage(c) \notin BeforeBast <=> stage(c) \in {"BAST", "COMPLETED"}
    BY <1>1 DEF Stage, BeforeBast, BeforeAkad, BeforePpjbDev, BeforeProsesBank, BeforePemberkasan
  <1> QED
    BY <1>1, <1>2, StageOrder DEF atOrBeyond, Grounded

LEMMA StageByCasesNext ==
    ASSUME SharedTypeOK', \A c \in Case : (status(c) = "ACTIVE")' => Grounded(c)'
    PROVE  StageNeverAheadOfDocuments'
  <1>1. (\A c \in Case : status(c) = "ACTIVE" => Grounded(c))'
    OBVIOUS
  <1>2. (SharedTypeOK =>
            (StageNeverAheadOfDocuments
                <=> \A c \in Case : status(c) = "ACTIVE" => Grounded(c)))'
    BY StageByCases, PTL
  <1> QED
    BY <1>1, <1>2

\* The documents a stage rests on are still there.
EvidenceKept(c) ==
    /\ hasAkad(c) => hasAkad(c)'
    /\ activePpjb(c) # {} => activePpjb(c)' # {}
    /\ ppjbsOf(c) # {} => ppjbsOf(c)' # {}
    /\ approvalOf(c) # {} => approvalOf(c)' # {}
    /\ cashPemberkasan(c) # {} => cashPemberkasan(c)' # {}
    /\ activePsjb(c) # {} => activePsjb(c)' # {}
    /\ submissionsOf(c) # {} => submissionsOf(c)' # {}

LEMMA GroundedStays ==
    ASSUME NEW c \in Case, Grounded(c), stage(c)' = stage(c), EvidenceKept(c)
    PROVE  Grounded(c)'
  BY DEF Grounded, EvidenceKept

\* The stage a handler takes an ACTIVE case to, with what it rests on.
TakenTo(c) ==
    \/ stage(c)' \in BeforePemberkasan
    \/ stage(c)' = "PEMBERKASAN" /\ activePsjb(c)' # {}
    \/ stage(c)' = "PROSES_BANK" /\ submissionsOf(c)' # {}
    \/ /\ stage(c)' = "PPJB_DEV" /\ submissionsOf(c)' # {}
       /\ approvalOf(c)' # {} \/ cashPemberkasan(c)' # {}
    \/ stage(c)' = "PPJB_DEV" /\ ppjbsOf(c)' # {}
    \/ stage(c)' = "AKAD" /\ activePpjb(c)' # {}
    \/ stage(c)' = "BAST" /\ hasAkad(c)' /\ ppjbsOf(c)' # {}

LEMMA TakenToIsGrounded ==
    ASSUME NEW c \in Case, TakenTo(c)
    PROVE  Grounded(c)'
  <1>1. activePpjb(c)' # {} => ppjbsOf(c)' # {}
    BY DEF activePpjb, ppjbsOf
  <1> QED
    BY <1>1 DEF TakenTo, Grounded, BeforePemberkasan, BeforeProsesBank, BeforePpjbDev, BeforeAkad

\* A forward move leaves the stage, or takes it to the one it names.
LEMMA AdvanceTwoWays == \A s, t : advanceStageTo(s, t) = s \/ advanceStageTo(s, t) = t
  BY DEF advanceStageTo

LEMMA PsjbHandlersTakeTo ==
    ASSUME ImportTypeOK, PsjbNext, NEW c \in Case
    PROVE  stage(c)' = stage(c) \/ TakenTo(c)
  <1>1. SharedTypeOK /\ psjbs \in [Psjb -> PsjbRow]
    BY SharedByImport DEF ImportTypeOK
  <1>2. ASSUME NEW x \in Case, NEW d \in 1..MaxDate, NEW r \in BiCheckResult,
               RecordBiCheck(x, d, r)
        PROVE  stage(c)' = stage(c) \/ TakenTo(c)
    <2>1. SetStage(x, stageAfterBiCheck(stage(x), r))
      BY <1>2 DEF RecordBiCheck
    <2>2. stageAfterBiCheck(stage(x), r) \in {stage(x), "PSJB", "BI_CHECKING"}
      BY AdvanceTwoWays DEF stageAfterBiCheck
    <2>3. stage(c)' = stage(c) \/ stage(c)' \in {"PSJB", "BI_CHECKING"}
      BY <1>1, <2>1, <2>2, SetStageWrites
    <2> QED
      BY <2>3 DEF TakenTo, BeforePemberkasan
  <1>3. ASSUME NEW x \in Case, NEW p \in Psjb,
               CreatePsjb(x, p) \/ \E old \in Psjb : ReissuePsjb(x, old, p)
        PROVE  stage(c)' = stage(c) \/ TakenTo(c)
    <2>1. SetStage(x, advanceStageTo(stage(x), "PEMBERKASAN"))
      BY <1>3 DEF CreatePsjb, ReissuePsjb
    <2>2. psjbs'[p] = NewPsjb(x)
      BY <1>1, <1>3 DEF CreatePsjb, ReissuePsjb, activePsjb, Absent
    <2>3. p \in activePsjb(x)'
      BY <2>2 DEF activePsjb, NewPsjb
    <2>4. stage(c)' = stage(c) \/ (c = x /\ stage(c)' = "PEMBERKASAN")
      BY <1>1, <2>1, AdvanceTwoWays, SetStageWrites
    <2> QED
      BY <2>3, <2>4 DEF TakenTo
  <1>4. ASSUME NEW p \in Psjb, CancelPsjb(p)
        PROVE  stage(c)' = stage(c) \/ TakenTo(c)
    <2> DEFINE x == psjbs[p].sales_case_id
    <2>1. SetStage(x, "PSJB")
      BY <1>4 DEF CancelPsjb
    <2>2. stage(c)' \in {stage(c), "PSJB"}
      <3> HIDE DEF x
      <3> QED
        BY <1>1, <2>1 DEF SetStage, stage, SharedTypeOK, CaseRow
    <2> QED
      BY <2>2 DEF TakenTo, BeforePemberkasan
  <1> QED
    BY <1>2, <1>3, <1>4 DEF PsjbNext

LEMMA BankHandlersTakeTo ==
    ASSUME ImportTypeOK, RowsHangTogether, BankNext, NEW c \in Case
    PROVE  stage(c)' = stage(c) \/ TakenTo(c)
  <1>1. /\ SharedTypeOK
        /\ submissions \in [Submission -> [ sales_case_id : Case \cup {None},
              psjb_id : Psjb \cup {None}, type : SubmissionType \cup {None}, sequence : Nat,
              status : SubmissionStatus \cup {Absent} ]]
        /\ bank_processes \in [BankProcess -> ProcessRow]
    BY SharedByImport DEF ImportTypeOK
  <1>2. ASSUME NEW x \in Case, NEW p \in Psjb, NEW s \in Submission, NEW n \in 1..MaxSequence,
               CreateDocumentSubmission(x, p, s, n)
        PROVE  stage(c)' = stage(c) \/ TakenTo(c)
    <2>1. /\ SetStage(x, advanceStageTo(stage(x), "PROSES_BANK"))
          /\ submissions' = [submissions EXCEPT ![s] = NewSubmission(x, p, "BANK", n)]
      BY <1>2 DEF CreateDocumentSubmission
    <2>2. s \in submissionsOf(x)'
      BY <1>1, <2>1 DEF submissionsOf, NewSubmission
    <2>3. stage(c)' = stage(c) \/ (c = x /\ stage(c)' = "PROSES_BANK")
      BY <1>1, <2>1, AdvanceTwoWays, SetStageWrites
    <2> QED
      BY <2>2, <2>3 DEF TakenTo
  <1>3. ASSUME NEW x \in Case, NEW p \in Psjb, NEW s \in Submission, NEW n \in 1..MaxSequence,
               CompleteCashPemberkasan(x, p, s, n)
        PROVE  stage(c)' = stage(c) \/ TakenTo(c)
    <2>1. /\ SetStage(x, advanceStageTo(stage(x), "PPJB_DEV"))
          /\ submissions' = [submissions EXCEPT ![s] = NewSubmission(x, p, "CASH_INTERNAL", n)]
      BY <1>3 DEF CompleteCashPemberkasan
    <2>2. s \in submissionsOf(x)' /\ s \in cashPemberkasan(x)'
      BY <1>1, <2>1 DEF submissionsOf, cashPemberkasan, NewSubmission
    <2>3. stage(c)' = stage(c) \/ (c = x /\ stage(c)' = "PPJB_DEV")
      BY <1>1, <2>1, AdvanceTwoWays, SetStageWrites
    <2> QED
      BY <2>2, <2>3 DEF TakenTo
  <1>4. ASSUME NEW x \in Case, NEW s \in Submission, NEW b \in BankProcess,
               NEW r \in BankResponseType, RecordBankResponse(x, s, b, r)
        PROVE  stage(c)' = stage(c) \/ TakenTo(c)
    <2> DEFINE t == IF r = "APPROVED" THEN "PPJB_DEV" ELSE "PROSES_BANK"
    <2>1. /\ SetStage(x, advanceStageTo(stage(x), t)) /\ s \in submissionsOf(x)
          /\ submissions' = [submissions EXCEPT ![s].status =
                IF r = "APPROVED" THEN "CLOSED" ELSE IF @ = "SUBMITTED" THEN "PROCESSING" ELSE @]
          /\ bank_processes' = [bank_processes EXCEPT ![b] =
                [sales_case_id |-> x, document_submission_id |-> s, response_type |-> r,
                 is_authoritative |-> r = "APPROVED"]]
      BY <1>4 DEF RecordBankResponse
    <2>2. s \in submissionsOf(x)'
      BY <1>1, <2>1 DEF submissionsOf
    <2>3. r = "APPROVED" => b \in approvalOf(x)'
      BY <1>1, <2>1 DEF approvalOf
    <2>4. stage(c)' = stage(c) \/ (c = x /\ stage(c)' = t)
      BY <1>1, <2>1, AdvanceTwoWays, SetStageWrites
    <2> QED
      BY <2>2, <2>3, <2>4 DEF TakenTo
  <1> QED
    BY <1>2, <1>3, <1>4 DEF BankNext

LEMMA ClosingHandlersTakeTo ==
    ASSUME ImportTypeOK, ClosingNext, NEW c \in Case, (status(c) = "ACTIVE")',
           stage(c) \in {"BAST", "COMPLETED"} => hasAkad(c)
    PROVE  stage(c)' = stage(c) \/ TakenTo(c)
  <1>1. SharedTypeOK /\ ppjbs \in [Ppjb -> PpjbRow] /\ akads \in [Case -> Ppjb \cup {None}]
    BY SharedByImport DEF ImportTypeOK
  <1>2. ASSUME NEW x \in Case, NEW d \in Ppjb,
               \/ \E b \in BankProcess \cup {None} : CreateDeveloperPpjb(x, d, b)
               \/ \E old \in Ppjb : ReissueDeveloperPpjb(x, old, d)
        PROVE  stage(c)' = stage(c) \/ TakenTo(c)
    <2>1. SetStage(x, advanceStageTo(stage(x), "AKAD"))
      BY <1>2 DEF CreateDeveloperPpjb, ReissueDeveloperPpjb
    <2>2. \E b : ppjbs'[d] = NewPpjb(x, b)
      BY <1>1, <1>2 DEF CreateDeveloperPpjb, ReissueDeveloperPpjb, activePpjb, Absent
    <2>3. d \in activePpjb(x)'
      BY <2>2 DEF activePpjb, NewPpjb
    <2>4. stage(c)' = stage(c) \/ (c = x /\ stage(c)' = "AKAD")
      BY <1>1, <2>1, AdvanceTwoWays, SetStageWrites
    <2> QED
      BY <2>3, <2>4 DEF TakenTo
  <1>3. ASSUME NEW d \in Ppjb, CancelDeveloperPpjb(d)
        PROVE  stage(c)' = stage(c) \/ TakenTo(c)
    <2>1. PICK x \in Case : ppjbs[d].sales_case_id = x \/ ppjbs[d].sales_case_id \notin Case
      OBVIOUS
    <2>2. CASE ppjbs[d].sales_case_id = x
      <3>1. /\ SetStage(x, IF isBeyond(stage(x), "AKAD") THEN stage(x) ELSE "PPJB_DEV")
            /\ ppjbs' = [ppjbs EXCEPT ![d].status = "CANCELLED"]
        BY <1>3, <2>2 DEF CancelDeveloperPpjb
      <3>2. d \in ppjbsOf(x)'
        BY <1>1, <2>2, <3>1 DEF ppjbsOf, PpjbRow
      <3>3. stage(c)' = stage(c) \/ (c = x /\ stage(c)' = "PPJB_DEV")
        BY <1>1, <3>1, SetStageWrites
      <3> QED
        BY <3>2, <3>3 DEF TakenTo
    <2>3. CASE ppjbs[d].sales_case_id \notin Case
      <3>1. PICK y : y \notin Case /\ \E s : SetStage(y, s)
        BY <1>3, <2>3 DEF CancelDeveloperPpjb
      <3>2. sales_cases' = sales_cases
        BY <1>1, <3>1 DEF SetStage, SharedTypeOK
      <3> QED
        BY <3>2 DEF stage
    <2> QED
      BY <2>1, <2>2, <2>3
  <1>4. ASSUME NEW x \in Case, NEW d \in Ppjb, CreateAkad(x, d)
        PROVE  stage(c)' = stage(c) \/ TakenTo(c)
    <2>1. /\ SetStage(x, advanceStageTo(stage(x), "BAST"))
          /\ akads' = [akads EXCEPT ![x] = d] /\ ppjbs' = ppjbs /\ ppjbs[d].sales_case_id = x
      BY <1>4 DEF CreateAkad
    <2>2. hasAkad(x)' /\ d \in ppjbsOf(x)'
      BY <1>1, <2>1, TablesAssumption DEF hasAkad, ppjbsOf
    <2>3. stage(c)' = stage(c) \/ (c = x /\ stage(c)' = "BAST")
      BY <1>1, <2>1, AdvanceTwoWays, SetStageWrites
    <2> QED
      BY <2>2, <2>3 DEF TakenTo
  <1>5. ASSUME NEW x \in Case, NEW a \in Case, CreateBast(x, a)
        PROVE  stage(c)' = stage(c)
    BY <1>1, <1>5 DEF CreateBast, status, stage, SharedTypeOK, CaseRow
  <1> QED
    BY <1>2, <1>3, <1>4, <1>5 DEF ClosingNext

\* Opening, closing and moving a case leave the stage of every case on record.
LEMMA LifecycleKeepsStage ==
    ASSUME ImportTypeOK, LifecycleNext, NEW c \in Case, Exists(c)
    PROVE  stage(c)' = stage(c)
  <1>1. sales_cases \in [Case -> CaseRow]
    BY DEF ImportTypeOK
  <1>2. ASSUME NEW x \in Case, NEW u \in Unit, NEW k \in Consumer, NEW f \in FinancingType,
               CreateSalesCase(x, u, k, f)
        PROVE  stage(c)' = stage(c)
    BY <1>1, <1>2 DEF CreateSalesCase, stage
  <1>3. ASSUME NEW x \in Case, NEW z, CloseSalesCase(x, z)
        PROVE  stage(c)' = stage(c)
    BY <1>1, <1>3 DEF CloseSalesCase, stage, CaseRow
  <1>4. ASSUME NEW x \in Case, NEW n \in Case, NEW u \in Unit, MoveSalesCaseUnit(x, n, u)
        PROVE  stage(c)' = stage(c)
    BY <1>1, <1>4 DEF MoveSalesCaseUnit, stage, CaseRow
  <1> QED
    BY <1>2, <1>3, <1>4
       DEF LifecycleNext, CancelSalesCase, MarkSalesCaseMundur, MarkSalesCaseRejected

LEMMA HandlersKeepGround ==
    ASSUME ImportTypeOK, RowsHangTogether, OneActiveDocument, ImportedReferencesStayInCase,
           StageNeverAheadOfDocuments, [Next]_vars
    PROVE  StageNeverAheadOfDocuments'
  <1>1. SharedTypeOK /\ SharedTypeOK'
    BY SharedByImport, SharedTypeStep DEF AnyNext
  <1> SUFFICES ASSUME NEW c \in Case, (status(c) = "ACTIVE")' PROVE Grounded(c)'
    BY <1>1, StageByCasesNext
  <1>2. CASE Opened(c)
    BY <1>2, TakenToIsGrounded DEF Opened, TakenTo, BeforePemberkasan
  <1>3. CASE status(c) = "ACTIVE"
    <2>1. Grounded(c)
      BY <1>1, <1>3, StageByCases
    <2>2. stage(c)' = stage(c) \/ TakenTo(c)
      <3>1. CASE LifecycleNext
        BY <1>3, <3>1, LifecycleKeepsStage DEF Exists, Absent
      <3>2. CASE UNCHANGED vars
        BY <3>2 DEF vars, stage
      <3> QED
        BY <2>1, <3>1, <3>2, PsjbHandlersTakeTo, BankHandlersTakeTo, ClosingHandlersTakeTo
           DEF Next, Grounded
    <2>3. OneOf(activePsjb(c)) /\ OneOf(activePpjb(c)) /\ (hasAkad(c) => akads[c] \in activePpjb(c))
      BY ReferencesByParts DEF OneActiveDocument, ClosingLinks
    <2>4. CASE TakenTo(c)
      BY <2>4, TakenToIsGrounded
    <2>5. CASE stage(c)' = stage(c)
      <3>1. CASE stage(c)' = "PSJB"
        BY <3>1, TakenToIsGrounded DEF TakenTo, BeforePemberkasan
      <3>2. CASE stage(c)' # "PSJB"
        <4>1. /\ submissionsOf(c) \subseteq submissionsOf(c)'
              /\ cashPemberkasan(c) \subseteq cashPemberkasan(c)'
              /\ approvalOf(c) \subseteq approvalOf(c)'
              /\ ppjbsOf(c) \subseteq ppjbsOf(c)'
          BY HandlersStay, EvidenceStays
        <4>2. activePsjb(c) # {} => activePsjb(c)' # {}
          BY <2>3, <3>2, ActivePsjbStep
        <4>3. hasAkad(c) => hasAkad(c)'
          BY ClosingStep
        <4>4. CASE activePpjb(c) # {} => activePpjb(c)' # {}
          <5>1. EvidenceKept(c)
            BY <4>1, <4>2, <4>3, <4>4 DEF EvidenceKept
          <5> QED
            BY <2>1, <2>5, <5>1, GroundedStays
        <4>5. CASE activePpjb(c) # {} /\ activePpjb(c)' = {}
          <5>1. /\ ~ hasAkad(c)
                /\ stage(c)' = IF isBeyond(stage(c), "AKAD") THEN stage(c) ELSE "PPJB_DEV"
            BY <2>3, <4>5, ActivePpjbStep
          <5>2. ~ isBeyond(stage(c), "AKAD")
            BY <1>1, <2>1, <5>1, StageIsStage, StageOrder DEF Grounded
          <5>3. ppjbsOf(c)' # {}
            BY <4>1, <4>5 DEF activePpjb, ppjbsOf
          <5> QED
            BY <5>1, <5>2, <5>3, TakenToIsGrounded DEF TakenTo
        <4> QED
          BY <4>4, <4>5
      <3> QED
        BY <3>1, <3>2
    <2> QED
      BY <2>2, <2>4, <2>5
  <1> QED
    BY <1>1, <1>2, <1>3, HandlerStatus

LEMMA ImportKeepsGround ==
    ASSUME ImportTypeOK, RowsHangTogether, StageNeverAheadOfDocuments, NEW plan, Imports(plan)
    PROVE  StageNeverAheadOfDocuments'
  <1>1. SharedTypeOK /\ SharedTypeOK'
    BY SharedByImport, ImportKeepsTypes DEF ImportTypeOK, SharedTypeOK
  <1> SUFFICES ASSUME NEW c \in Case, (status(c) = "ACTIVE")' PROVE Grounded(c)'
    BY <1>1, StageByCasesNext
  <1>2. ASSUME NEW k \in Range(plan), k.case = c
        PROVE  Grounded(c)'
    <2>1. /\ k \in Candidate
          /\ k.akad => k.ppjbs # << >>
          /\ k.bast => k.akad
      BY CandidateTypes DEF Imports, Import, Resolvable
    <2>2. /\ k.ppjbs \in Seq(Ppjb) /\ k.submissions \in Seq(Submission)
          /\ processRows(k) \in Seq([ id : BankProcess, submission : Submission,
                                      response : BankResponseType, sp3k : BOOLEAN ])
      BY <2>1 DEF Candidate, processRows
    <2>3. /\ sales_cases'[c] = importedCase(k) /\ akads'[c] = importedAkad(k)
      BY <1>2, ImportedCases
    <2>4. stage(c)' = importedStage(k) /\ k.lifecycle # "COMPLETED"
      BY <2>3 DEF importedCase, stage, status
    <2>5. k.akad => hasAkad(c)'
      <3>1. ASSUME k.akad PROVE hasAkad(c)'
        <4>1. PICK i \in DOMAIN k.ppjbs : k.ppjbs[Len(k.ppjbs)] = k.ppjbs[i]
          BY <2>1, <2>2, <3>1
        <4>2. k.ppjbs[i] \in Ppjb
          BY CandidateTypes
        <4> QED
          BY <2>3, <3>1, <4>1, <4>2, TablesAssumption DEF importedAkad, hasAkad
      <3> QED
        BY <3>1
    <2>6. k.ppjbs # << >> => ppjbsOf(c)' # {}
      <3>1. ASSUME NEW i \in DOMAIN k.ppjbs PROVE k.ppjbs[i] \in ppjbsOf(c)'
        <4>1. k.ppjbs[i] \in Ppjb /\ ppjbs'[k.ppjbs[i]] = importedPpjb(k)
          BY CandidateTypes, ImportedPpjbs
        <4> QED
          BY <1>2, <4>1 DEF importedPpjb, ppjbsOf
      <3>2. k.ppjbs # << >> => 1 \in DOMAIN k.ppjbs
        BY <2>2
      <3> QED
        BY <3>1, <3>2
    <2>7. k.submissions # << >> => submissionsOf(c)' # {}
      <3>1. ASSUME NEW i \in DOMAIN k.submissions PROVE k.submissions[i] \in submissionsOf(c)'
        <4>1. /\ k.submissions[i] \in Submission
              /\ submissions'[k.submissions[i]] = importedSubmission(k, i)
          BY CandidateTypes, ImportedSubmissions
        <4> QED
          BY <1>2, <4>1 DEF importedSubmission, submissionsOf
      <3>2. k.submissions # << >> => 1 \in DOMAIN k.submissions
        BY <2>2
      <3> QED
        BY <3>1, <3>2
    <2>8. processRows(k) # << >> => k.submissions # << >>
      <3>1. processRows(k) # << >> => 1 \in DOMAIN processRows(k)
        BY <2>2
      <3>2. ASSUME NEW i \in DOMAIN processRows(k) PROVE k.submissions # << >>
        <4>1. PICK j \in DOMAIN k.submissions : processRows(k)[i].submission = k.submissions[j]
          BY CandidateTypes
        <4> QED
          BY <2>2, <4>1
      <3> QED
        BY <3>1, <3>2
    <2> QED
      BY <2>1, <2>4, <2>5, <2>6, <2>7, <2>8
         DEF importedStage, Grounded, BeforePemberkasan, BeforeProsesBank, BeforePpjbDev, BeforeAkad
  <1>3. CASE \A k \in Range(plan) : k.case # c
    <2>1. sales_cases'[c] = sales_cases[c] /\ akads'[c] = akads[c]
      BY <1>3, ImportedCases
    <2>2. activePsjb(c) \subseteq activePsjb(c)'
      BY ImportedPsjbs DEF activePsjb, Absent
    <2>3. activePpjb(c) \subseteq activePpjb(c)'
      BY ImportedPpjbs DEF activePpjb, Absent
    <2>4. EvidenceKept(c)
      BY <2>1, <2>2, <2>3, ImportsStay, EvidenceStays DEF EvidenceKept, hasAkad
    <2>5. Grounded(c) /\ stage(c)' = stage(c)
      BY <1>1, <2>1, StageByCases DEF status, stage
    <2> QED
      BY <2>4, <2>5, GroundedStays
  <1> QED
    BY <1>2, <1>3

-----------------------------------------------------------------------------
(* Units. *)

\* A handler puts a unit back on sale only by closing a case of it.
LEMMA ReleasedByClosing ==
    ASSUME ImportTypeOK, [Next]_vars, NEW u \in Unit,
           unit_status[u] # "TERSEDIA", unit_status'[u] = "TERSEDIA"
    PROVE  \E x \in Case : Exists(x) /\ sales_cases[x].unit_id = u /\ Closed(x)'
  <1>1. sales_cases \in [Case -> CaseRow] /\ unit_status \in [Unit -> UnitStatus]
    BY DEF ImportTypeOK
  <1>2. ASSUME NEW c \in Case, NEW z \in {"CANCELLED", "MUNDUR", "REJECT"}, CloseSalesCase(c, z)
        PROVE  Exists(c) /\ sales_cases[c].unit_id = u /\ Closed(c)'
    <2>1. status(c)' = z
      BY <1>1, <1>2 DEF CloseSalesCase, status, CaseRow
    <2>2. sales_cases[c].unit_id = u
      BY <1>1, <1>2 DEF CloseSalesCase, releaseUnitIfNoActiveCase
    <2> QED
      BY <1>2, <2>1, <2>2 DEF Closed, CloseSalesCase, IsActive, Found, Absent
  <1>3. ASSUME NEW c \in Case, NEW n \in Case, NEW v \in Unit, MoveSalesCaseUnit(c, n, v)
        PROVE  Exists(c) /\ sales_cases[c].unit_id = u /\ Closed(c)'
    <2>1. c # n /\ Exists(c)
      BY <1>3 DEF MoveSalesCaseUnit, IsActive, Found
    <2>2. status(c)' = "PINDAH_KAVLING"
      BY <1>1, <1>3, <2>1 DEF MoveSalesCaseUnit, status, CaseRow
    <2>3. sales_cases[c].unit_id = u
      BY <1>1, <1>3 DEF MoveSalesCaseUnit
    <2> QED
      BY <2>1, <2>2, <2>3 DEF Closed, Absent
  <1>4. ASSUME NEW c \in Case, NEW v \in Unit, NEW k \in Consumer, NEW f \in FinancingType,
               CreateSalesCase(c, v, k, f)
        PROVE  FALSE
    BY <1>1, <1>4 DEF CreateSalesCase
  <1>5. ASSUME NEW c \in Case, SellUnit(c) PROVE FALSE
    BY <1>1, <1>5 DEF SellUnit
  <1>6. CASE unit_status' = unit_status
    BY <1>6
  <1>7. PsjbNext \/ BankNext \/ PpjbNext \/ UNCHANGED vars => unit_status' = unit_status
    BY DEF PsjbNext, BankNext, PpjbNext, RecordBiCheck, CreatePsjb, ReissuePsjb, CancelPsjb,
       CreateDocumentSubmission, CompleteCashPemberkasan, RecordBankResponse, CreateDeveloperPpjb,
       ReissueDeveloperPpjb, CancelDeveloperPpjb, vars
  <1>8. ClosingNext => PpjbNext \/ \E c \in Case : SellUnit(c)
    BY DEF ClosingNext, PpjbNext, CreateAkad, CreateBast
  <1> QED
    BY <1>2, <1>3, <1>4, <1>5, <1>6, <1>7, <1>8
       DEF Next, LifecycleNext, CancelSalesCase, MarkSalesCaseMundur, MarkSalesCaseRejected

LEMMA HandlersKeepUnits ==
    ASSUME ImportTypeOK, RowsHangTogether, UnitOnSaleOnlyWithClosedCandidate, [Next]_vars
    PROVE  UnitOnSaleOnlyWithClosedCandidate'
  <1>1. SharedTypeOK
    BY SharedByImport
  <1> SUFFICES ASSUME NEW c \in Case, (status(c) = "ACTIVE")',
                      unit_status'[sales_cases'[c].unit_id] = "TERSEDIA"
               PROVE  \E d \in Case : /\ sales_cases'[d].unit_id = sales_cases'[c].unit_id
                                      /\ Closed(d)'
    BY DEF UnitOnSaleOnlyWithClosedCandidate, casesOn
  <1>2. status(c) = "ACTIVE"
    BY <1>1, HandlerStatus DEF Opened
  <1>3. SameSale(c)
    BY <1>1, <1>2, SalesStay DEF Exists, Absent
  <1>4. PICK u \in Unit : u = sales_cases[c].unit_id
    BY <1>2 DEF RowsHangTogether, Exists, Absent
  <1>5. sales_cases'[c].unit_id = u /\ unit_status'[u] = "TERSEDIA"
    BY <1>3, <1>4 DEF SameSale
  <1>6. CASE unit_status[u] = "TERSEDIA"
    <2>1. PICK d \in Case : sales_cases[d].unit_id = u /\ Closed(d)
      BY <1>2, <1>4, <1>6 DEF UnitOnSaleOnlyWithClosedCandidate, casesOn
    <2>2. status(d)' = status(d)
      BY <1>1, <2>1, HandlerStatus
    <2>3. SameSale(d)
      BY <1>1, <2>1, SalesStay DEF Closed, Exists
    <2> QED
      BY <1>5, <2>1, <2>2, <2>3 DEF Closed, SameSale
  <1>7. CASE unit_status[u] # "TERSEDIA"
    <2>1. PICK d \in Case : Exists(d) /\ sales_cases[d].unit_id = u /\ Closed(d)'
      BY <1>5, <1>7, ReleasedByClosing
    <2>2. SameSale(d)
      BY <1>1, <2>1, SalesStay
    <2> QED
      BY <1>5, <2>1, <2>2 DEF SameSale
  <1> QED
    BY <1>6, <1>7

\* The last candidate of a unit gives it its status: TERSEDIA, if that is closed.
LEMMA ImportKeepsUnits ==
    ASSUME ImportTypeOK, RowsHangTogether, UnitOnSaleOnlyWithClosedCandidate,
           NEW plan, Imports(plan)
    PROVE  UnitOnSaleOnlyWithClosedCandidate'
  <1> SUFFICES ASSUME NEW c \in Case, (status(c) = "ACTIVE")',
                      unit_status'[sales_cases'[c].unit_id] = "TERSEDIA"
               PROVE  \E d \in Case : /\ sales_cases'[d].unit_id = sales_cases'[c].unit_id
                                      /\ Closed(d)'
    BY DEF UnitOnSaleOnlyWithClosedCandidate, casesOn
  <1>1. RowsHangTogether'
    BY ImportHangsTogether
  <1>2. PICK u \in Unit : u = sales_cases'[c].unit_id
    BY <1>1 DEF RowsHangTogether, Exists, status, Absent
  <1> DEFINE of == { i \in DOMAIN plan : plan[i].unit = u }
  <1>3. unit_status'[u] = IF of = {} THEN unit_status[u]
                          ELSE finalUnitState(plan[Max(of)].lifecycle)
    BY DEF Imports, Import, statusAfter
  <1>4. CASE of # {}
    <2>1. plan \in Seq(Candidate)
      BY PlansAssumption DEF Imports
    <2>2. Len(plan) \in Nat /\ DOMAIN plan = 1..Len(plan)
      BY <2>1
    <2>3. of \in SUBSET (1..Len(plan))
      BY <2>2
    <2>4. Max(of) \in of
      <3> HIDE DEF of
      <3> QED
        BY <1>4, <2>2, <2>3, MaxIsLast
    <2>5. PICK k \in Range(plan) : k = plan[Max(of)]
      BY <2>4 DEF Range
    <2>6. k.unit = u
      BY <2>4, <2>5
    <2> HIDE DEF of
    <2>7. finalUnitState(k.lifecycle) = "TERSEDIA"
      BY <1>2, <1>3, <1>4, <2>5
    <2>8. k.lifecycle # "ACTIVE"
      BY <2>7 DEF finalUnitState
    <2>9. k.case \in Case /\ sales_cases'[k.case] = importedCase(k)
      BY CandidateTypes, ImportedCases
    <2>10. importedCase(k).case_status # Absent
      BY ImportedRowsExist
    <2>11. Closed(k.case)'
      BY <2>8, <2>9, <2>10 DEF Closed, status, importedCase
    <2>12. sales_cases'[k.case].unit_id = u
      BY <2>6, <2>9 DEF importedCase
    <2> QED
      BY <1>2, <2>9, <2>11, <2>12
  <1>5. CASE of = {}
    <2>1. unit_status[u] = "TERSEDIA"
      BY <1>2, <1>3, <1>5
    <2>2. \A k \in Range(plan) : k.unit # u
      BY <1>5 DEF Range
    <2>3. ASSUME NEW k \in Range(plan) PROVE k.case # c
      <3>1. sales_cases'[k.case] = importedCase(k) /\ importedCase(k).unit_id = k.unit
        BY ImportedCases DEF importedCase
      <3> QED
        BY <1>2, <2>2, <3>1
    <2>4. sales_cases'[c] = sales_cases[c]
      BY <2>3, ImportedCases
    <2>5. PICK d \in Case : sales_cases[d].unit_id = u /\ Closed(d)
      BY <1>2, <2>1, <2>4 DEF UnitOnSaleOnlyWithClosedCandidate, casesOn, status
    <2>6. \A k \in Range(plan) : k.case # d
      BY <2>5, ImportedCases DEF Closed, Exists
    <2>7. sales_cases'[d] = sales_cases[d]
      BY <2>6, ImportedCases
    <2> QED
      BY <1>2, <2>5, <2>7 DEF Closed, status
  <1> QED
    BY <1>4, <1>5

-----------------------------------------------------------------------------
(* The invariant holds. *)

LEMMA ImportInvariantInit == Init => ImportInvariant
  <1> SUFFICES ASSUME Init PROVE ImportInvariant
    OBVIOUS
  <1>1. ImportTypeOK
    BY ImportTypeInit
  <1>2. /\ \A c \in Case : status(c) = Absent /\ ~ hasAkad(c) /\ ~ hasBast(c)
        /\ \A p \in Psjb : psjbs[p].status = Absent
        /\ \A s \in Submission : submissions[s].status = Absent /\ submissions[s].sales_case_id = None
        /\ \A b \in BankProcess : /\ bank_processes[b].response_type = Absent
                                  /\ bank_processes[b].sales_case_id = None
        /\ \A d \in Ppjb : ppjbs[d].status = Absent /\ ppjbs[d].sales_case_id = None
    BY DEF Init, NoCaseRow, NoSubmissionRow, NoProcessRow, status, hasAkad, hasBast
  <1>3. RowsHangTogether
    BY <1>2 DEF RowsHangTogether, Exists
  <1>4. OneActiveCase /\ StageNeverAheadOfDocuments /\ UnitOnSaleOnlyWithClosedCandidate
    BY <1>2 DEF OneActiveCase, StageNeverAheadOfDocuments, UnitOnSaleOnlyWithClosedCandidate, Absent
  <1>5. OneActiveDocument
    <2>1. \A c \in Case : activePsjb(c) = {} /\ activePpjb(c) = {} /\ approvalOf(c) = {}
      BY <1>2, TablesAssumption DEF activePsjb, activePpjb, approvalOf, Absent
    <2> QED
      BY <2>1 DEF OneActiveDocument, OneOf
  <1>6. ImportedReferencesStayInCase
    BY <1>2 DEF ImportedReferencesStayInCase, ProcessLinks, PpjbLinks
  <1> QED
    BY <1>1, <1>3, <1>4, <1>5, <1>6 DEF ImportInvariant

LEMMA ImportInvariantStep == ImportInvariant /\ [ImportNext]_vars => ImportInvariant'
  <1> SUFFICES ASSUME ImportInvariant, [ImportNext]_vars PROVE ImportInvariant'
    OBVIOUS
  <1>1. /\ ImportTypeOK /\ RowsHangTogether /\ OneActiveCase /\ OneActiveDocument
        /\ StageNeverAheadOfDocuments /\ ImportedReferencesStayInCase
        /\ UnitOnSaleOnlyWithClosedCandidate
        /\ \A c \in Case : hasAkad(c) => akads[c] \in activePpjb(c)
    BY DEF ImportInvariant, ImportedReferencesStayInCase
  <1>2. CASE [Next]_vars
    BY <1>1, <1>2, HandlersKeepTypes, HandlersHangTogether, HandlersKeepOneActiveCase,
       HandlersKeepOneActiveDocument, HandlersKeepGround, HandlersKeepReferences,
       HandlersKeepUnits DEF ImportInvariant
  <1>3. ASSUME NEW plan, Imports(plan) PROVE ImportInvariant'
    <2>1. OneActiveCase' /\ OneActiveDocument'
      BY <1>3 DEF Imports, Import, UniqueIndexes
    <2> QED
      BY <1>1, <1>3, <2>1, ImportKeepsTypes, ImportHangsTogether, ImportKeepsGround,
         ImportKeepsReferences, ImportKeepsUnits DEF ImportInvariant
  <1>4. [Next]_vars \/ \E plan : Imports(plan)
    BY DEF ImportNext, Imports
  <1> QED
    BY <1>2, <1>3, <1>4

\* Whatever is imported, and whatever handlers do before and after, in any order
\* and for any plans: types, references, unique indexes, stages and units hold.
THEOREM ImportInvariantHolds == ImportSpec => []ImportInvariant
  BY ImportInvariantInit, ImportInvariantStep, PTL DEF ImportSpec

\* An ACTIVE case, imported or not, never stands at a stage whose documents it
\* lacks: the handlers' guards, which trust the stage, are founded.
THEOREM ImportedStagesAreFounded == ImportSpec => []StageNeverAheadOfDocuments
  <1>1. ImportInvariant => StageNeverAheadOfDocuments
    BY DEF ImportInvariant
  <1> QED
    BY <1>1, ImportInvariantHolds, PTL

\* Every row an import writes, and every row a handler hangs on it later, refers
\* to rows of its own case, a PPJB to the authoritative approval.
THEOREM ImportedReferencesAreRight == ImportSpec => []ImportedReferencesStayInCase
  <1>1. ImportInvariant => ImportedReferencesStayInCase
    BY DEF ImportInvariant
  <1> QED
    BY <1>1, ImportInvariantHolds, PTL

\* The unit of an ACTIVE case is on sale only where the unit has a closed case as
\* well, imported after it or closed under it.
THEOREM ImportedUnitsAreKept == ImportSpec => []UnitOnSaleOnlyWithClosedCandidate
  <1>1. ImportInvariant => UnitOnSaleOnlyWithClosedCandidate
    BY DEF ImportInvariant
  <1> QED
    BY <1>1, ImportInvariantHolds, PTL

-----------------------------------------------------------------------------
(* Stuck cases. *)

LEMMA StuckCases ==
    ASSUME ImportTypeOK, MaxDate > 0
    PROVE  StuckOnlyAsKnown
  <1> SUFFICES ASSUME NEW c \in Case, ~ canGoOn(c), ~ hasBast(c)
               PROVE  cashWithoutStage(c) \/ datelessBi(c)
    BY DEF StuckOnlyAsKnown
  <1>1. ~ hasAkad(c) /\ activePpjb(c) = {}
    BY DEF canGoOn
  <1>2. CASE activePsjb(c) = {}
    <2>1. ~ biAllowsPsjb(c) /\ ~ clearCheckCounts(c)
      BY <1>1, <1>2 DEF canGoOn
    <2>2. latest_bi[c].result # "CLEAR"
      BY <2>1 DEF biAllowsPsjb
    <2>3. latest_bi[c].check_date \in 0..Dateless /\ MaxDate \in Nat
      BY TablesAssumption DEF ImportTypeOK
    <2>4. latestForCase(latest_bi[c], MaxDate, "CLEAR").result # "CLEAR"
      BY <2>1, <2>3 DEF clearCheckCounts
    <2>5. ~ (MaxDate >= latest_bi[c].check_date)
      BY <2>4 DEF latestForCase
    <2>6. latest_bi[c].check_date = Dateless
      BY <2>3, <2>5 DEF Dateless
    <2> QED
      BY <2>2, <2>6 DEF datelessBi
  <1>3. CASE activePsjb(c) # {} /\ sales_cases[c].financing_type = "KPR_SUBSIDI"
    <2>1. approvalOf(c) # {}
      BY <1>1, <1>3 DEF canGoOn
    <2>2. PICK b \in BankProcess : b \in approvalOf(c)
      BY <2>1 DEF approvalOf
    <2>3. ppjbBasis(c, b)
      BY <1>3, <2>2 DEF ppjbBasis
    <2> QED
      BY <1>1, <2>3 DEF canGoOn
  <1>4. CASE activePsjb(c) # {} /\ sales_cases[c].financing_type # "KPR_SUBSIDI"
    <2>1. cashPemberkasan(c) # {} /\ ~ ppjbBasis(c, None)
      BY <1>1, <1>4 DEF canGoOn
    <2>2. ~ isBeyond(stage(c), "PEMBERKASAN")
      BY <1>4, <2>1 DEF ppjbBasis
    <2>3. sales_cases[c].financing_type = "CASH"
      BY <1>4 DEF ImportTypeOK, CaseRow, FinancingType
    <2> QED
      BY <2>1, <2>2, <2>3 DEF cashWithoutStage
  <1> QED
    BY <1>2, <1>3, <1>4

\* As long as a check can be dated at all, an ACTIVE case no handler leads on is one
\* of the three kinds an import makes, in every state imports and handlers reach.
THEOREM CasesAreStuckOnlyAsKnown ==
    ASSUME MaxDate > 0 PROVE ImportSpec => []StuckOnlyAsKnown
  <1>1. ImportInvariant => StuckOnlyAsKnown
    BY StuckCases DEF ImportInvariant
  <1> QED
    BY <1>1, ImportInvariantHolds, PTL

=============================================================================
