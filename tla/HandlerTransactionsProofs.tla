---------------------- MODULE HandlerTransactionsProofs ----------------------
(***************************************************************************)
(* Interleaved transactions, for any number of connections: a commit is one *)
(* step of a handler of SalesOperations, what a transaction read stays true *)
(* until it commits, its inserts meet the unique indexes, and connections  *)
(* wait for each other in a cycle only if a correction locks a document    *)
(* before its case.                                                        *)
(***************************************************************************)
EXTENDS TransactionStepsProofs, FiniteSetTheorems, WellFoundedInduction

-----------------------------------------------------------------------------
(* The commit: what it writes, row by row. *)

LEMMA CommitReady ==
    ASSUME DataInvariant, TxInvariant, NEW t \in Tx, Commit(t)
    PROVE  LET j == tx[t]
               c == caseOf(t)
               h == tx[t].handler
           IN  /\ Running(t) /\ j \in Job /\ h \in HandlerNames
               /\ Proper(t) /\ Fresh(t) /\ Holding(t)
               /\ \A s : s # "Commit" => Done(j, s)
               /\ OnCase(j) => /\ c \in Case /\ Exists(c) /\ CaseLocked(j)
                               /\ j.row = sales_cases[c] /\ accepts(t)
               /\ h \in {"ReissuePsjb", "CreateDocumentSubmission", "CompleteCashPemberkasan"} =>
                     j.document \in activePsjb(c)
               /\ h \in {"ReissueDeveloperPpjb", "CreateAkad"} => j.document \in activePpjb(c)
               /\ h = "CancelPsjb" =>
                     /\ j.document = req(t).document /\ j.document \in Psjb
                     /\ psjbs[j.document].status = "ACTIVE"
                     /\ psjbs[j.document].sales_case_id = c
               /\ h = "CancelDeveloperPpjb" =>
                     /\ j.document = req(t).document /\ j.document \in Ppjb
                     /\ ppjbs[j.document].status = "ACTIVE"
                     /\ ppjbs[j.document].sales_case_id = c
               /\ h \in {"ReissuePsjb", "CreateDocumentSubmission", "CancelPsjb"} => PsjbLocked(j)
               /\ h = "CompleteCashPemberkasan" => PsjbShared(j)
               /\ h \in {"ReissueDeveloperPpjb", "CancelDeveloperPpjb"} => PpjbLocked(j)
               /\ h \in {"CreateSalesCase", "MoveSalesCaseUnit"} => UnitChecked(j) /\ Inserted(j)
               /\ h \in {"CreateSalesCase", "MoveSalesCaseUnit"} => UnitLocked(j, req(t).unit)
               /\ h = "CloseSalesCase" => j.release
  <1> DEFINE j == tx[t]
             c == caseOf(t)
             h == tx[t].handler
  <1>1. j.todo # << >> /\ Head(j.todo) = "Commit"
    BY DEF Commit, At
  <1>2. Running(t)
    <2>1. Idle.todo = << >>
      BY DEF Idle
    <2> QED BY <1>1, <2>1 DEF TxInvariant, Own
  <1>3. /\ j \in Job /\ h \in HandlerNames /\ Orderly(j, "Commit")
        /\ Proper(t) /\ Fresh(t) /\ Holding(t)
    BY <1>1, <1>2, RunningProgresses DEF TxInvariant
  <1>4. \A s : s # "Commit" => Done(j, s)
    BY <1>3 DEF Orderly
  <1>5. OnCase(j) => c \in Case /\ Exists(c)
    BY <1>3, CaseOfExists
  <1>6. OnCase(j) => CaseLocked(j) /\ j.row = sales_cases[c] /\ accepts(t)
    BY <1>3, <1>4 DEF CaseLocked, Checked, Fresh
  <1>7. /\ h \in {"ReissuePsjb", "CreateDocumentSubmission", "CompleteCashPemberkasan"} =>
              j.document \in activePsjb(c)
        /\ h \in {"ReissueDeveloperPpjb", "CreateAkad"} => j.document \in activePpjb(c)
    BY <1>3, <1>4 DEF PsjbFound, PpjbFound, Fresh
  <1>8. h \in {"CancelPsjb", "CancelDeveloperPpjb"} => j.documentStatus = "ACTIVE"
    BY <1>6, <1>3 DEF OnCase, accepts
  <1>9. h = "CancelPsjb" => /\ j.document = req(t).document /\ j.document \in Psjb
                            /\ psjbs[j.document].status = "ACTIVE"
                            /\ psjbs[j.document].sales_case_id = c
    <2>1. h = "CancelPsjb" => PsjbLocked(j)
      BY <1>4 DEF PsjbLocked
    <2> QED BY <1>3, <1>8, <2>1 DEF Proper, Fresh, caseOf, req
  <1>10. h = "CancelDeveloperPpjb" => /\ j.document = req(t).document /\ j.document \in Ppjb
                                      /\ ppjbs[j.document].status = "ACTIVE"
                                      /\ ppjbs[j.document].sales_case_id = c
    <2>1. h = "CancelDeveloperPpjb" => PpjbLocked(j)
      BY <1>4 DEF PpjbLocked
    <2> QED BY <1>3, <1>8, <2>1 DEF Proper, Fresh, caseOf, req
  <1>11. /\ h \in {"ReissuePsjb", "CreateDocumentSubmission", "CancelPsjb"} => PsjbLocked(j)
         /\ h = "CompleteCashPemberkasan" => PsjbShared(j)
         /\ h \in {"ReissueDeveloperPpjb", "CancelDeveloperPpjb"} => PpjbLocked(j)
         /\ h \in {"CreateSalesCase", "MoveSalesCaseUnit"} => UnitChecked(j) /\ Inserted(j)
    BY <1>4 DEF PsjbLocked, PsjbShared, PpjbLocked, UnitChecked, Inserted
  <1>12. h \in {"CreateSalesCase", "MoveSalesCaseUnit"} => UnitLocked(j, req(t).unit)
    <2>1. j.request.unit \in {firstUnit(j), secondUnit(j)}
      BY DEF firstUnit, secondUnit
    <2> QED BY <1>4, <2>1 DEF UnitLocked, req
  <1>13. h = "CloseSalesCase" => j.release
    BY <1>3, <1>4 DEF Fresh, Released
  <1> QED BY <1>2, <1>3, <1>4, <1>5, <1>6, <1>7, <1>9, <1>10, <1>11, <1>12, <1>13

CaseInserting == {"CreateSalesCase", "MoveSalesCaseUnit"}

CaseWritten(t, k) ==
    LET new == sales_cases'[k]
    IN  \/ new = sales_cases[k]
        \/ /\ k = req(t).new /\ tx[t].handler \in CaseInserting
           /\ << new.unit_id, new.consumer_id >> = keys(t) /\ new.case_status # Absent
        \/ /\ k = caseOf(t) /\ OnCase(tx[t])
           /\ << new.unit_id, new.consumer_id >> = keysOfCase(k) /\ new.case_status # Absent
           /\ new.case_status = "ACTIVE" => status(k) = "ACTIVE"

LEMMA WriteIsNew ==
    ASSUME NEW a, NEW b
    PROVE  write(a, a, b) = b
BY DEF write

LEMMA CommitWritesCases ==
    ASSUME DataInvariant, TxInvariant, NEW t \in Tx, Commit(t), NEW k \in Case
    PROVE  CaseWritten(t, k)
  <1> DEFINE j == tx[t]
             c == caseOf(t)
             h == tx[t].handler
             r == req(t)
  <1>1. /\ h \in HandlerNames /\ Proper(t)
        /\ OnCase(j) => c \in Case /\ Exists(c) /\ j.row = sales_cases[c] /\ accepts(t)
    BY CommitReady
  <1>2. sales_cases \in [Case -> CaseRow] /\ sales_cases' = casesAfter(t)
    BY DEF DataInvariant, UnitInvariant, SalesInvariant, TypeOK, Commit
  <1> DEFINE closed == [sales_cases EXCEPT ![c].case_status = statusAfter(t)]
  <1>3. OnCase(j) => /\ j.row.case_status = sales_cases[c].case_status
                     /\ j.row.current_stage = sales_cases[c].current_stage
    BY <1>1
  <1>4. OnCase(j) => closed = [sales_cases EXCEPT ![c].case_status =
                                  write(@, j.row.case_status, statusAfter(t))]
    BY <1>2, <1>3, WriteIsNew
  <1>5. CASE h = "CreateSalesCase"
    <2>1. /\ sales_cases' = [sales_cases EXCEPT ![r.new] = NewCase(r.unit, r.data[1], r.data[2], None)]
          /\ keys(t) = << r.unit, r.data[1] >>
      BY <1>2, <1>5 DEF casesAfter, keys
    <2>2. CASE k # r.new
      BY <1>2, <2>1, <2>2 DEF CaseWritten
    <2>3. CASE k = r.new
      <3>1. sales_cases'[k] = NewCase(r.unit, r.data[1], r.data[2], None)
        BY <1>2, <2>1, <2>3
      <3> QED BY <1>5, <2>1, <2>3, <3>1 DEF CaseWritten, NewCase, keysOfCase, Exists, status,
                  CaseInserting, Absent
    <2> QED BY <2>2, <2>3
  <1>6. CASE h = "MoveSalesCaseUnit"
    <2>1. OnCase(j) /\ statusAfter(t) = "PINDAH_KAVLING" /\ r.new # c /\ r.new \in Case
      BY <1>1, <1>6 DEF OnCase, statusAfter, HandlerNames, Proper
    <2>2. /\ sales_cases' = [closed EXCEPT ![r.new] =
                              NewCase(r.unit, j.row.consumer_id, j.row.financing_type, c)]
          /\ keys(t) = << r.unit, j.row.consumer_id >>
      BY <1>2, <1>4, <1>6, <2>1 DEF casesAfter, keys
    <2>3. CASE k # r.new /\ k # c
      BY <1>2, <2>2, <2>3 DEF CaseWritten
    <2>4. CASE k = r.new
      <3>1. sales_cases'[k] = NewCase(r.unit, j.row.consumer_id, j.row.financing_type, c)
        BY <1>2, <2>2, <2>4
      <3> QED BY <1>6, <2>2, <2>4, <3>1 DEF CaseWritten, NewCase, keysOfCase, Exists, status,
                  CaseInserting, Absent
    <2>5. CASE k = c
      <3>1. sales_cases'[k] = [sales_cases[k] EXCEPT !.case_status = "PINDAH_KAVLING"]
        BY <1>2, <2>1, <2>2, <2>5
      <3> QED BY <1>2, <2>1, <2>5, <3>1 DEF CaseWritten, keysOfCase, Exists, status, Absent, CaseRow
    <2> QED BY <2>3, <2>4, <2>5
  <1>7. CASE h \notin CaseInserting
    <2>1. OnCase(j) /\ c \in Case
      BY <1>1, <1>7 DEF OnCase, CaseInserting
    <2>2. statusAfter(t) = sales_cases[c].case_status \/ statusAfter(t) \in {"CANCELLED", "COMPLETED"}
      BY <1>1, <1>7, <2>1 DEF statusAfter, CaseInserting, Proper, Closings, req
    <2>3. \/ sales_cases' = closed
          \/ sales_cases' = [closed EXCEPT ![c].current_stage = write(@, j.row.current_stage, stageAfter(t))]
      BY <1>2, <1>4, <1>7, <2>1 DEF casesAfter, CaseInserting
    <2>4. CASE k # c
      BY <1>2, <2>3, <2>4 DEF CaseWritten
    <2>5. CASE k = c
      <3>1. /\ sales_cases'[k].case_status = statusAfter(t)
            /\ sales_cases'[k].unit_id = sales_cases[k].unit_id
            /\ sales_cases'[k].consumer_id = sales_cases[k].consumer_id
        BY <1>2, <2>3, <2>5 DEF CaseRow
      <3> QED BY <1>1, <2>1, <2>2, <2>5, <3>1 DEF CaseWritten, keysOfCase, Exists, status, Absent
    <2> QED BY <2>4, <2>5
  <1> QED BY <1>5, <1>6, <1>7 DEF CaseInserting

PsjbWritten(t, p) ==
    \/ psjbs'[p] = psjbs[p]
    \/ p = req(t).new /\ tx[t].handler \in {"CreatePsjb", "ReissuePsjb"} /\ psjbs'[p] = NewPsjb(caseOf(t))
    \/ /\ p = tx[t].document /\ PsjbLocked(tx[t]) /\ OnCase(tx[t])
       /\ psjbs[p].sales_case_id = caseOf(t) /\ psjbs'[p].sales_case_id = caseOf(t)
       /\ psjbs'[p].status # Absent

LEMMA CommitWritesPsjbs ==
    ASSUME DataInvariant, TxInvariant, NEW t \in Tx, Commit(t), NEW p \in Psjb
    PROVE  PsjbWritten(t, p)
  <1> DEFINE j == tx[t]
             c == caseOf(t)
             h == tx[t].handler
             r == req(t)
  <1>1. /\ h \in HandlerNames
        /\ h = "ReissuePsjb" => j.document \in activePsjb(c)
        /\ h = "CancelPsjb" => psjbs[j.document].sales_case_id = c
        /\ h \in {"ReissuePsjb", "CreateDocumentSubmission", "CancelPsjb"} => PsjbLocked(j)
    BY CommitReady
  <1>2. psjbs \in [Psjb -> PsjbRow] /\ psjbs' = psjbsAfter(t)
    BY DEF DataInvariant, UnitInvariant, SalesInvariant, TypeOK, Commit
  <1>3. CASE h = "CreatePsjb"
    <2>1. psjbs' = [psjbs EXCEPT ![r.new] = NewPsjb(c)]
      BY <1>2, <1>3 DEF psjbsAfter
    <2> QED BY <1>2, <1>3, <2>1 DEF PsjbWritten
  <1>4. CASE h = "ReissuePsjb"
    <2>1. psjbs' = [psjbs EXCEPT ![j.document].status = "SUPERSEDED", ![r.new] = NewPsjb(c)]
      BY <1>2, <1>4 DEF psjbsAfter
    <2>2. OnCase(j) /\ PsjbLocked(j) /\ psjbs[j.document].sales_case_id = c
      BY <1>1, <1>4 DEF OnCase, HandlerNames, activePsjb
    <2> QED BY <1>2, <1>4, <2>1, <2>2 DEF PsjbWritten, PsjbRow, Absent
  <1>5. CASE h = "CancelPsjb"
    <2>1. psjbs' = [psjbs EXCEPT ![j.document].status = "CANCELLED"]
      BY <1>2, <1>5 DEF psjbsAfter
    <2>2. OnCase(j) /\ PsjbLocked(j) /\ psjbs[j.document].sales_case_id = c
      BY <1>1, <1>5 DEF OnCase, HandlerNames
    <2> QED BY <1>2, <1>5, <2>1, <2>2 DEF PsjbWritten, PsjbRow, Absent
  <1>6. CASE h \notin {"CreatePsjb", "ReissuePsjb", "CancelPsjb"}
    BY <1>2, <1>6 DEF psjbsAfter, PsjbWritten
  <1> QED BY <1>3, <1>4, <1>5, <1>6

PpjbWritten(t, d) ==
    \/ ppjbs'[d] = ppjbs[d]
    \/ /\ d = req(t).new /\ tx[t].handler \in {"CreateDeveloperPpjb", "ReissueDeveloperPpjb"}
       /\ ppjbs'[d].sales_case_id = caseOf(t) /\ ppjbs'[d].status = "ACTIVE"
    \/ /\ d = tx[t].document /\ PpjbLocked(tx[t]) /\ OnCase(tx[t])
       /\ ppjbs[d].sales_case_id = caseOf(t) /\ ppjbs'[d].sales_case_id = caseOf(t)
       /\ ppjbs'[d].status # Absent

LEMMA CommitWritesPpjbs ==
    ASSUME DataInvariant, TxInvariant, NEW t \in Tx, Commit(t), NEW d \in Ppjb
    PROVE  PpjbWritten(t, d)
  <1> DEFINE j == tx[t]
             c == caseOf(t)
             h == tx[t].handler
             r == req(t)
  <1>1. /\ h \in HandlerNames
        /\ h = "ReissueDeveloperPpjb" => j.document \in activePpjb(c)
        /\ h = "CancelDeveloperPpjb" => ppjbs[j.document].sales_case_id = c
        /\ h \in {"ReissueDeveloperPpjb", "CancelDeveloperPpjb"} => PpjbLocked(j)
    BY CommitReady
  <1>2. ppjbs \in [Ppjb -> PpjbRow] /\ ppjbs' = ppjbsAfter(t)
    BY DEF DataInvariant, UnitInvariant, SalesInvariant, TypeOK, Commit
  <1>3. CASE h = "CreateDeveloperPpjb"
    <2>1. \E b : ppjbs' = [ppjbs EXCEPT ![r.new] = NewPpjb(c, b)]
      BY <1>2, <1>3 DEF ppjbsAfter
    <2> QED BY <1>2, <1>3, <2>1 DEF PpjbWritten, NewPpjb
  <1>4. CASE h = "ReissueDeveloperPpjb"
    <2>1. ppjbs' = [ppjbs EXCEPT ![j.document].status = "SUPERSEDED",
                                 ![r.new] = NewPpjb(c, ppjbs[j.document].bank_process_id)]
      BY <1>2, <1>4 DEF ppjbsAfter
    <2>2. OnCase(j) /\ PpjbLocked(j) /\ ppjbs[j.document].sales_case_id = c
      BY <1>1, <1>4 DEF OnCase, HandlerNames, activePpjb
    <2> QED BY <1>2, <1>4, <2>1, <2>2 DEF PpjbWritten, PpjbRow, NewPpjb, Absent
  <1>5. CASE h = "CancelDeveloperPpjb"
    <2>1. ppjbs' = [ppjbs EXCEPT ![j.document].status = "CANCELLED"]
      BY <1>2, <1>5 DEF ppjbsAfter
    <2>2. OnCase(j) /\ PpjbLocked(j) /\ ppjbs[j.document].sales_case_id = c
      BY <1>1, <1>5 DEF OnCase, HandlerNames
    <2> QED BY <1>2, <1>5, <2>1, <2>2 DEF PpjbWritten, PpjbRow, Absent
  <1>6. CASE h \notin {"CreateDeveloperPpjb", "ReissueDeveloperPpjb", "CancelDeveloperPpjb"}
    BY <1>2, <1>6 DEF ppjbsAfter, PpjbWritten
  <1> QED BY <1>3, <1>4, <1>5, <1>6

SubmissionWritten(t, s) ==
    \/ submissions'[s] = submissions[s]
    \/ /\ s = req(t).new /\ tx[t].handler \in {"CreateDocumentSubmission", "CompleteCashPemberkasan"}
       /\ submissions'[s].sales_case_id = caseOf(t) /\ submissions'[s].psjb_id = tx[t].document
    \/ /\ s \in submissionsOf(caseOf(t)) /\ OnCase(tx[t])
       /\ submissions'[s].sales_case_id = caseOf(t)
       /\ submissions'[s].psjb_id = submissions[s].psjb_id
       /\ submissions'[s].type = submissions[s].type

LEMMA CommitWritesSubmissions ==
    ASSUME DataInvariant, TxInvariant, NEW t \in Tx, Commit(t), NEW s \in Submission
    PROVE  SubmissionWritten(t, s)
  <1> DEFINE j == tx[t]
             c == caseOf(t)
             h == tx[t].handler
             r == req(t)
             n == CHOOSE n \in 1..MaxSequence : isNextSequence(c, n)
  <1>1. OnCase(j) => accepts(t)
    BY CommitReady
  <1>2. submissions \in [Submission -> SubmissionRow] /\ submissions' = submissionsAfter(t)
    BY DEF DataInvariant, UnitInvariant, SalesInvariant, TypeOK, Commit
  <1>3. CASE h \in {"CreateDocumentSubmission", "CompleteCashPemberkasan"}
    <2>1. \E type : submissions' = [submissions EXCEPT ![r.new] = NewSubmission(c, j.document, type, n)]
      BY <1>2, <1>3 DEF submissionsAfter
    <2> HIDE DEF n
    <2> QED BY <1>2, <1>3, <2>1 DEF SubmissionWritten, NewSubmission
  <1>4. CASE h = "RecordBankResponse"
    <2>1. OnCase(j) /\ r.document \in submissionsOf(c)
      BY <1>1, <1>4 DEF OnCase, HandlerNames, accepts
    <2>2. \E new : submissions' = [submissions EXCEPT ![r.document].status = new]
      <3>1. submissions' = [submissions EXCEPT ![r.document].status =
                      IF r.data[1] = "APPROVED" THEN "CLOSED"
                      ELSE IF @ = "SUBMITTED" THEN "PROCESSING" ELSE @]
        BY <1>2, <1>4 DEF submissionsAfter
      <3> QED BY <3>1
    <2>3. submissions[r.document].sales_case_id = c
      BY <2>1 DEF submissionsOf
    <2> QED BY <1>2, <1>4, <2>1, <2>2, <2>3 DEF SubmissionWritten, SubmissionRow
  <1>5. CASE h \notin {"CreateDocumentSubmission", "CompleteCashPemberkasan", "RecordBankResponse"}
    BY <1>2, <1>5 DEF submissionsAfter, SubmissionWritten
  <1> QED BY <1>3, <1>4, <1>5

LEMMA CommitWritesTheRest ==
    ASSUME DataInvariant, TxInvariant, NEW t \in Tx, Commit(t)
    PROVE  /\ \A b \in BankProcess : \/ bank_processes'[b] = bank_processes[b]
                                     \/ /\ b = req(t).new /\ tx[t].handler = "RecordBankResponse"
                                        /\ bank_processes'[b].sales_case_id = caseOf(t)
           /\ \A k \in Case : k # caseOf(t) \/ ~ OnCase(tx[t]) =>
                  latest_bi'[k] = latest_bi[k] /\ akads'[k] = akads[k] /\ basts'[k] = basts[k]
  <1>1. TypeOK
    BY DEF DataInvariant, UnitInvariant, SalesInvariant
  <1>2. ASSUME NEW b \in BankProcess
        PROVE  \/ bank_processes'[b] = bank_processes[b]
               \/ /\ b = req(t).new /\ tx[t].handler = "RecordBankResponse"
                  /\ bank_processes'[b].sales_case_id = caseOf(t)
    BY <1>1 DEF TypeOK, Commit, processesAfter
  <1>3. ASSUME NEW k \in Case, k # caseOf(t) \/ ~ OnCase(tx[t])
        PROVE  latest_bi'[k] = latest_bi[k] /\ akads'[k] = akads[k] /\ basts'[k] = basts[k]
    <2>1. tx[t].handler \in {"RecordBiCheck", "CreateAkad", "CreateBast"} => k # caseOf(t)
      BY <1>3 DEF OnCase, HandlerNames
    <2>2. latest_bi'[k] = latest_bi[k]
      BY <1>1, <2>1 DEF TypeOK, Commit
    <2>3. akads'[k] = akads[k]
      BY <1>1, <2>1 DEF TypeOK, Commit
    <2>4. basts'[k] = basts[k]
      BY <1>1, <2>1 DEF TypeOK, Commit
    <2> QED BY <2>2, <2>3, <2>4
  <1> QED BY <1>2, <1>3

-----------------------------------------------------------------------------
(* The commit leaves alone what the locks of others protect. *)

LEMMA LocksDiffer ==
    ASSUME OneHolder, NEW t, NEW x, t # x, NEW r, NEW q, NEW m, NEW n, "UPDATE" \in {m, n},
           Lock(t, r, m) \in locks, Lock(x, q, n) \in locks
    PROVE  r # q
BY DEF OneHolder, Lock

LEMMA CaseOfOther ==
    ASSUME DataInvariant, TxInvariant, NEW t \in Tx, Commit(t), NEW x \in Tx \ {t}
    PROVE  caseOf(x)' = caseOf(x) /\ tx'[x] = tx[x] /\ req(x)' = req(x)
  <1>1. tx'[x] = tx[x] /\ req(x)' = req(x)
    BY DEF Commit, End, TxInvariant, TxTypeOK, req
  <1>2. Own(x) /\ Proper(t) /\ tx[t].handler \in HandlerNames
    BY CommitReady DEF TxInvariant
  <1>3. CASE tx[x].handler = "CancelPsjb"
    <2>1. Proper(x)
      BY <1>2, <1>3, RunningProgresses, TransactionsAssumption DEF Own, Running, HandlerNames
    <2>2. req(x).document \in Psjb /\ psjbs[req(x).document].status # Absent
      BY <1>3, <2>1 DEF Proper
    <2>3. PsjbWritten(t, req(x).document)
      BY <2>2, CommitWritesPsjbs
    <2>4. psjbs'[req(x).document].sales_case_id = psjbs[req(x).document].sales_case_id
      BY <1>2, <2>2, <2>3 DEF PsjbWritten, Proper
    <2> QED BY <1>1, <1>3, <2>4 DEF caseOf
  <1>4. CASE tx[x].handler = "CancelDeveloperPpjb"
    <2>1. Proper(x)
      BY <1>2, <1>4, RunningProgresses, TransactionsAssumption DEF Own, Running, HandlerNames
    <2>2. req(x).document \in Ppjb /\ ppjbs[req(x).document].status # Absent
      BY <1>4, <2>1 DEF Proper
    <2>3. PpjbWritten(t, req(x).document)
      BY <2>2, CommitWritesPpjbs
    <2>4. ppjbs'[req(x).document].sales_case_id = ppjbs[req(x).document].sales_case_id
      BY <1>2, <2>2, <2>3 DEF PpjbWritten, Proper
    <2> QED BY <1>1, <1>4, <2>4 DEF caseOf
  <1>5. CASE tx[x].handler \notin {"CancelPsjb", "CancelDeveloperPpjb"}
    BY <1>1, <1>5 DEF caseOf
  <1> QED BY <1>1, <1>3, <1>4, <1>5

LEMMA CommitKeepsRows ==
    ASSUME DataInvariant, TxInvariant, NEW t \in Tx, Commit(t)
    PROVE  RowsStay
  <1>1. \A k \in Case : Exists(k) => Exists(k)'
    <2> SUFFICES ASSUME NEW k \in Case, Exists(k) PROVE Exists(k)'
      OBVIOUS
    <2>1. CaseWritten(t, k)
      BY CommitWritesCases
    <2> QED BY <2>1 DEF CaseWritten, Exists, status
  <1>2. \A p \in Psjb : psjbs[p].status # Absent => psjbs'[p].status # Absent
    <2> SUFFICES ASSUME NEW p \in Psjb, psjbs[p].status # Absent PROVE psjbs'[p].status # Absent
      OBVIOUS
    <2>1. PsjbWritten(t, p)
      BY CommitWritesPsjbs
    <2> QED BY <2>1 DEF PsjbWritten, NewPsjb, Absent
  <1>3. \A d \in Ppjb : ppjbs[d].status # Absent => ppjbs'[d].status # Absent
    <2> SUFFICES ASSUME NEW d \in Ppjb, ppjbs[d].status # Absent PROVE ppjbs'[d].status # Absent
      OBVIOUS
    <2>1. PpjbWritten(t, d)
      BY CommitWritesPpjbs
    <2> QED BY <2>1 DEF PpjbWritten, Absent
  <1> QED BY <1>1, <1>2, <1>3 DEF RowsStay

LEMMA CommitKeepsNewRow ==
    ASSUME DataInvariant, TxInvariant, NEW t \in Tx, Commit(t), NEW x \in Tx \ {t},
           tx[x].handler \in Inserting
    PROVE  NewRowStays(x)
  <1> DEFINE n == req(x).new
  <1>1. /\ tx[t].handler \in Inserting => req(t).new # n
        /\ TypeOK /\ tx[t].handler \in HandlerNames
        /\ OnCase(tx[t]) => /\ Exists(caseOf(t)) /\ accepts(t) /\ caseOf(t) \in Case
    <2>1. Apart(t, x)
      BY DEF TxInvariant
    <2>2. TypeOK
      BY DEF DataInvariant, UnitInvariant, SalesInvariant
    <2> QED BY <2>1, <2>2, CommitReady DEF Apart
  <1>2. req(x)' = req(x)
    BY CaseOfOther
  <1>3. n \in Case /\ ~ Exists(n) => ~ Exists(n)'
    <2> SUFFICES ASSUME n \in Case, ~ Exists(n) PROVE ~ Exists(n)'
      OBVIOUS
    <2>1. CaseWritten(t, n)
      BY CommitWritesCases
    <2>2. OnCase(tx[t]) => n # caseOf(t)
      BY <1>1
    <2>3. sales_cases'[n] = sales_cases[n]
      BY <1>1, <2>1, <2>2 DEF CaseWritten, CaseInserting, Inserting
    <2> QED BY <1>2, <2>3 DEF Exists, status
  <1>4. n \in Psjb /\ psjbs[n].status = Absent => psjbs'[n].status = Absent
    <2> SUFFICES ASSUME n \in Psjb, psjbs[n].status = Absent PROVE psjbs'[n].status = Absent
      OBVIOUS
    <2>1. PsjbWritten(t, n)
      BY CommitWritesPsjbs
    <2>2. PsjbLocked(tx[t]) /\ OnCase(tx[t]) => psjbs[tx[t].document].status # Absent
      <3>1. CASE tx[t].handler = "CancelPsjb"
        BY <3>1, CommitReady DEF Absent
      <3>2. CASE tx[t].handler \in {"ReissuePsjb", "CreateDocumentSubmission"}
        BY <3>2, CommitReady DEF activePsjb, Absent
      <3> QED BY <3>1, <3>2 DEF PsjbLocked
    <2> QED BY <1>1, <2>1, <2>2 DEF PsjbWritten, Inserting
  <1>5. n \in Submission /\ submissions[n].status = Absent => submissions'[n].status = Absent
    <2> SUFFICES ASSUME n \in Submission, submissions[n].status = Absent
                 PROVE  submissions'[n].status = Absent
      OBVIOUS
    <2>1. SubmissionWritten(t, n)
      BY CommitWritesSubmissions
    <2>2. submissions[n].sales_case_id = None
      BY DEF DataInvariant, UnitInvariant, SalesInvariant, AbsentRowsAreBlank
    <2>3. OnCase(tx[t]) => n \notin submissionsOf(caseOf(t))
      BY <1>1, <2>2, TablesAssumption DEF submissionsOf
    <2> QED BY <1>1, <2>1, <2>3 DEF SubmissionWritten, Inserting
  <1>6. n \in BankProcess /\ bank_processes[n].response_type = Absent =>
           bank_processes'[n].response_type = Absent
    BY <1>1, CommitWritesTheRest DEF Inserting
  <1>7. n \in Ppjb /\ ppjbs[n].status = Absent => ppjbs'[n].status = Absent
    <2> SUFFICES ASSUME n \in Ppjb, ppjbs[n].status = Absent PROVE ppjbs'[n].status = Absent
      OBVIOUS
    <2>1. PpjbWritten(t, n)
      BY CommitWritesPpjbs
    <2>2. PpjbLocked(tx[t]) /\ OnCase(tx[t]) => ppjbs[tx[t].document].status # Absent
      <3>1. CASE tx[t].handler = "CancelDeveloperPpjb"
        BY <3>1, CommitReady DEF Absent
      <3>2. CASE tx[t].handler \in {"ReissueDeveloperPpjb", "CreateAkad"}
        BY <3>2, CommitReady DEF activePpjb, Absent
      <3> QED BY <3>1, <3>2 DEF PpjbLocked
    <2> QED BY <1>1, <2>1, <2>2 DEF PpjbWritten, Inserting
  <1> HIDE DEF n
  <1> QED BY <1>2, <1>3, <1>4, <1>5, <1>6, <1>7 DEF NewRowStays, n

\* What a transaction knows of a case depends on the rows of that case only.
LEMMA CommitKeepsCaseView ==
    ASSUME DataInvariant, TxInvariant, NEW t \in Tx, Commit(t), NEW k \in Case, Exists(k),
           OnCase(tx[t]) => k # caseOf(t)
    PROVE  SameCaseView(k)
  <1>1. /\ tx[t].handler \in HandlerNames /\ Proper(t) /\ TypeOK
        /\ OnCase(tx[t]) => caseOf(t) \in Case
        /\ AbsentRowsAreBlank /\ k # None
    BY CommitReady, TablesAssumption DEF DataInvariant, UnitInvariant, SalesInvariant
  <1>2. sales_cases'[k] = sales_cases[k]
    <2>1. CaseWritten(t, k)
      BY CommitWritesCases
    <2> QED BY <1>1, <2>1 DEF CaseWritten, CaseInserting, Proper
  <1>3. latest_bi'[k] = latest_bi[k] /\ akads'[k] = akads[k] /\ basts'[k] = basts[k]
    BY CommitWritesTheRest
  <1>4. activePsjb(k)' = activePsjb(k)
    <2>1. ASSUME NEW p \in Psjb PROVE p \in activePsjb(k)' <=> p \in activePsjb(k)
      <3>1. PsjbWritten(t, p)
        BY CommitWritesPsjbs
      <3>2. CASE psjbs'[p] = psjbs[p]
        BY <3>2 DEF activePsjb
      <3>3. CASE psjbs'[p] # psjbs[p]
        <4>1. OnCase(tx[t]) /\ psjbs'[p].sales_case_id = caseOf(t)
          BY <3>1, <3>3 DEF PsjbWritten, OnCase, HandlerNames, NewPsjb
        <4>2. psjbs[p].status = Absent \/ psjbs[p].sales_case_id = caseOf(t)
          BY <1>1, <3>1, <3>3 DEF PsjbWritten, Proper
        <4> QED BY <4>1, <4>2 DEF activePsjb, Absent
      <3> QED BY <3>2, <3>3
    <2>2. activePsjb(k)' \subseteq Psjb /\ activePsjb(k) \subseteq Psjb
      BY DEF activePsjb
    <2> QED BY <2>1, <2>2, Zenon
  <1>5. activePpjb(k)' = activePpjb(k)
    <2>1. ASSUME NEW d \in Ppjb PROVE d \in activePpjb(k)' <=> d \in activePpjb(k)
      <3>1. PpjbWritten(t, d)
        BY CommitWritesPpjbs
      <3>2. CASE ppjbs'[d] = ppjbs[d]
        BY <3>2 DEF activePpjb
      <3>3. CASE ppjbs'[d] # ppjbs[d]
        <4>1. OnCase(tx[t]) /\ ppjbs'[d].sales_case_id = caseOf(t)
          BY <3>1, <3>3 DEF PpjbWritten, OnCase, HandlerNames
        <4>2. ppjbs[d].status = Absent \/ ppjbs[d].sales_case_id = caseOf(t)
          BY <1>1, <3>1, <3>3 DEF PpjbWritten, Proper
        <4> QED BY <4>1, <4>2 DEF activePpjb, Absent
      <3> QED BY <3>2, <3>3
    <2>2. activePpjb(k)' \subseteq Ppjb /\ activePpjb(k) \subseteq Ppjb
      BY DEF activePpjb
    <2> QED BY <2>1, <2>2, Zenon
  <1>6. ASSUME NEW s \in Submission
        PROVE  /\ s \in submissionsOf(k)' <=> s \in submissionsOf(k)
               /\ s \in submissionsOf(k) => submissions'[s] = submissions[s]
    <2>1. SubmissionWritten(t, s)
      BY CommitWritesSubmissions
    <2>2. CASE submissions'[s] = submissions[s]
      BY <2>2 DEF submissionsOf
    <2>3. CASE submissions'[s] # submissions[s]
      <3>1. OnCase(tx[t]) /\ submissions'[s].sales_case_id = caseOf(t)
        BY <2>1, <2>3 DEF SubmissionWritten, OnCase, HandlerNames
      <3>2. submissions[s].status = Absent \/ submissions[s].sales_case_id = caseOf(t)
        BY <1>1, <2>1, <2>3 DEF SubmissionWritten, Proper, submissionsOf
      <3>3. submissions[s].sales_case_id # k
        BY <1>1, <3>1, <3>2 DEF AbsentRowsAreBlank
      <3> QED BY <3>1, <3>3 DEF submissionsOf
    <2> QED BY <2>2, <2>3
  <1>7. submissionsOf(k)' \subseteq Submission /\ submissionsOf(k) \subseteq Submission
    BY DEF submissionsOf
  <1>8. cashPemberkasan(k)' = cashPemberkasan(k)
    <2>1. ASSUME NEW s \in Submission PROVE s \in cashPemberkasan(k)' <=> s \in cashPemberkasan(k)
      BY <1>6 DEF cashPemberkasan
    <2>2. cashPemberkasan(k)' \subseteq Submission /\ cashPemberkasan(k) \subseteq Submission
      BY <1>7 DEF cashPemberkasan
    <2> QED BY <2>1, <2>2, Zenon
  <1>9. approvalOf(k)' = approvalOf(k)
    <2>1. ASSUME NEW b \in BankProcess PROVE b \in approvalOf(k)' <=> b \in approvalOf(k)
      <3>1. CASE bank_processes'[b] = bank_processes[b]
        BY <3>1 DEF approvalOf
      <3>2. CASE bank_processes'[b] # bank_processes[b]
        <4>1. /\ b = req(t).new /\ tx[t].handler = "RecordBankResponse"
              /\ bank_processes'[b].sales_case_id = caseOf(t)
          BY <3>2, CommitWritesTheRest
        <4>2. bank_processes[b].response_type = Absent
          BY <1>1, <4>1 DEF Proper
        <4>3. bank_processes[b].sales_case_id = None
          BY <1>1, <4>2 DEF AbsentRowsAreBlank
        <4>4. OnCase(tx[t])
          BY <4>1 DEF OnCase, HandlerNames
        <4> QED BY <1>1, <4>1, <4>3, <4>4 DEF approvalOf
      <3> QED BY <3>1, <3>2
    <2>2. approvalOf(k)' \subseteq BankProcess /\ approvalOf(k) \subseteq BankProcess
      BY DEF approvalOf
    <2> QED BY <2>1, <2>2, Zenon
  <1>10. \A s \in submissionsOf(k) : s \in submissionsOf(k)' /\ submissions'[s].type = submissions[s].type
    BY <1>6, <1>7
  <1> QED BY <1>2, <1>3, <1>4, <1>5, <1>8, <1>9, <1>10 DEF SameCaseView

\* Nobody else has locked the case, or a document the commit writes.
LEMMA CommitKeepsLockedCase ==
    ASSUME DataInvariant, TxInvariant, NEW t \in Tx, Commit(t), NEW x \in Tx \ {t},
           CaseLocked(tx[x])
    PROVE  SameCaseView(caseOf(x))
  <1> DEFINE k == caseOf(x)
  <1>1. Running(x)
    BY TransactionsAssumption DEF CaseLocked, OnCase, Running
  <1>2. /\ tx[x].handler \in HandlerNames /\ Proper(x) /\ Holding(x) /\ OneHolder
    BY <1>1, RunningProgresses DEF TxInvariant
  <1>3. k \in Case /\ Exists(k)
    BY <1>2, CaseOfExists DEF CaseLocked
  <1>4. OnCase(tx[t]) => k # caseOf(t)
    <2> SUFFICES ASSUME OnCase(tx[t]) PROVE k # caseOf(t)
      OBVIOUS
    <2>1. Lock(t, << "case", caseOf(t) >>, "UPDATE") \in locks
      BY CommitReady DEF Holding
    <2>2. Lock(x, << "case", k >>, "UPDATE") \in locks
      BY <1>2 DEF Holding
    <2>3. << "case", caseOf(t) >> # << "case", k >>
      BY <1>2, <2>1, <2>2, LocksDiffer
    <2> QED BY <2>3
  <1> HIDE DEF k
  <1>5. SameCaseView(k)
    BY <1>3, <1>4, CommitKeepsCaseView
  <1> QED BY <1>5 DEF k

LEMMA CommitKeepsLockedPsjb ==
    ASSUME DataInvariant, TxInvariant, NEW t \in Tx, Commit(t), NEW x \in Tx \ {t},
           PsjbLocked(tx[x])
    PROVE  LET p == tx[x].document IN
           /\ psjbs'[p].status = psjbs[p].status
           /\ Unnamed(p) => \A s \in Submission : submissions'[s].psjb_id # p
  <1> DEFINE p == tx[x].document
  <1>1. Running(x)
    BY TransactionsAssumption DEF PsjbLocked, Running, HandlerNames
  <1>2. /\ tx[x].handler \in HandlerNames /\ Proper(x) /\ Fresh(x) /\ Holding(x) /\ OneHolder
        /\ Orderly(tx[x], Head(tx[x].todo))
    BY <1>1, RunningProgresses DEF TxInvariant
  <1>3. p \in Psjb /\ psjbs[p].status # Absent
    <2>1. CASE tx[x].handler = "CancelPsjb"
      BY <1>2, <2>1 DEF Proper
    <2>2. CASE tx[x].handler # "CancelPsjb"
      <3>1. PsjbFound(tx[x])
        BY <1>2, <2>2 DEF Orderly
      <3> QED BY <1>2, <3>1 DEF Fresh, activePsjb, Absent
    <2> QED BY <2>1, <2>2
  <1>4. ASSUME PsjbLocked(tx[t]) \/ PsjbShared(tx[t]) PROVE tx[t].document # p
    <2>1. \E m : Lock(t, << "psjb", tx[t].document >>, m) \in locks
      BY <1>4, CommitReady DEF Holding
    <2>2. Lock(x, << "psjb", p >>, "UPDATE") \in locks
      BY <1>2 DEF Holding
    <2>3. << "psjb", tx[t].document >> # << "psjb", p >>
      BY <1>2, <2>1, <2>2, LocksDiffer
    <2> QED BY <2>3
  <1>5. psjbs'[p].status = psjbs[p].status
    <2>1. PsjbWritten(t, p) /\ Proper(t)
      BY <1>3, CommitWritesPsjbs, CommitReady
    <2> QED BY <1>3, <1>4, <2>1 DEF PsjbWritten, Proper
  <1>6. ASSUME Unnamed(p), NEW s \in Submission PROVE submissions'[s].psjb_id # p
    <2>1. SubmissionWritten(t, s)
      BY CommitWritesSubmissions
    <2>2. submissions[s].psjb_id # p
      BY <1>6 DEF Unnamed
    <2>3. tx[t].handler \in {"CreateDocumentSubmission", "CompleteCashPemberkasan"} =>
             tx[t].document # p
      BY <1>4, CommitReady
    <2> QED BY <2>1, <2>2, <2>3 DEF SubmissionWritten
  <1> QED BY <1>5, <1>6

LEMMA CommitKeepsLockedPpjb ==
    ASSUME DataInvariant, TxInvariant, NEW t \in Tx, Commit(t), NEW x \in Tx \ {t},
           PpjbLocked(tx[x])
    PROVE  ppjbs'[tx[x].document].status = ppjbs[tx[x].document].status
  <1> DEFINE d == tx[x].document
  <1>1. Running(x)
    BY TransactionsAssumption DEF PpjbLocked, Running, HandlerNames
  <1>2. /\ tx[x].handler \in HandlerNames /\ Proper(x) /\ Fresh(x) /\ Holding(x) /\ OneHolder
        /\ Orderly(tx[x], Head(tx[x].todo))
    BY <1>1, RunningProgresses DEF TxInvariant
  <1>3. d \in Ppjb /\ ppjbs[d].status # Absent
    <2>1. CASE tx[x].handler \in {"CancelDeveloperPpjb", "CreateAkad"}
      BY <1>2, <2>1 DEF Proper
    <2>2. CASE tx[x].handler = "ReissueDeveloperPpjb"
      <3>1. PpjbFound(tx[x])
        BY <1>2, <2>2 DEF Orderly
      <3> QED BY <1>2, <3>1 DEF Fresh, activePpjb, Absent
    <2> QED BY <2>1, <2>2 DEF PpjbLocked
  <1>4. ASSUME PpjbLocked(tx[t]) PROVE tx[t].document # d
    <2>1. Lock(t, << "ppjb", tx[t].document >>, "UPDATE") \in locks
      BY <1>4, CommitReady DEF Holding
    <2>2. Lock(x, << "ppjb", d >>, "UPDATE") \in locks
      BY <1>2 DEF Holding
    <2>3. << "ppjb", tx[t].document >> # << "ppjb", d >>
      BY <1>2, <2>1, <2>2, LocksDiffer
    <2> QED BY <2>3
  <1>5. PpjbWritten(t, d) /\ Proper(t)
    BY <1>3, CommitWritesPpjbs, CommitReady
  <1> QED BY <1>3, <1>4, <1>5 DEF PpjbWritten, Proper

\* A unit checked by x has been locked by x, so no case is opened on it meanwhile.
LEMMA CommitKeepsCheckedUnit ==
    ASSUME DataInvariant, TxInvariant, NEW t \in Tx, Commit(t), NEW x \in Tx \ {t},
           UnitChecked(tx[x]), activeSalesCases(req(x).unit) = {}
    PROVE  \A k \in Case : sales_cases'[k].case_status = "ACTIVE" =>
                              sales_cases'[k].unit_id # req(x).unit
  <1> DEFINE u == req(x).unit
  <1>1. Running(x)
    BY TransactionsAssumption DEF UnitChecked, Running, HandlerNames
  <1>2. /\ Proper(x) /\ Holding(x) /\ OneHolder /\ Orderly(tx[x], Head(tx[x].todo))
    BY <1>1, RunningProgresses DEF TxInvariant
  <1>3. u \in Unit /\ UnitLocked(tx[x], u)
    <2>1. u \in {firstUnit(tx[x]), secondUnit(tx[x])}
      BY DEF firstUnit, secondUnit, req
    <2> QED BY <1>2, <2>1 DEF Proper, Orderly, UnitLocked, UnitChecked, req
  <1>4. ASSUME tx[t].handler \in CaseInserting PROVE req(t).unit # u
    <2>1. UnitLocked(tx[t], req(t).unit) /\ req(t).unit \in Unit
      BY <1>4, CommitReady DEF CaseInserting, Proper
    <2>2. Lock(t, << "unit", req(t).unit >>, "UPDATE") \in locks
      BY <2>1, CommitReady DEF Holding
    <2>3. Lock(x, << "unit", u >>, "UPDATE") \in locks
      BY <1>2, <1>3 DEF Holding
    <2>4. << "unit", req(t).unit >> # << "unit", u >>
      BY <1>2, <2>2, <2>3, LocksDiffer
    <2> QED BY <2>4
  <1>5. ASSUME NEW k \in Case, sales_cases'[k].case_status = "ACTIVE",
               sales_cases'[k].unit_id = u
        PROVE  FALSE
    <2>1. CaseWritten(t, k)
      BY CommitWritesCases
    <2>2. ~ (status(k) = "ACTIVE" /\ sales_cases[k].unit_id = u)
      BY DEF DataInvariant, Untrashed, activeSalesCases, IsActive, Found, Exists, Absent
    <2>3. keys(t)[1] = req(t).unit /\ keysOfCase(k)[1] = sales_cases[k].unit_id
      BY DEF keys, keysOfCase
    <2> QED BY <1>4, <1>5, <2>1, <2>2, <2>3 DEF CaseWritten, status
  <1> QED BY <1>5

LEMMA CommitKeepsNoClash ==
    ASSUME DataInvariant, TxInvariant, NEW t \in Tx, Commit(t), NEW x \in Tx \ {t},
           Inserted(tx[x])
    PROVE  NoNewClash(x)
  <1>1. keys(x)' = keys(x)
    BY CaseOfOther DEF keys
  <1>2. tx[t].handler \in CaseInserting => ~ clash(keys(x), keys(t))
    BY CommitReady DEF TxInvariant, Apart, CaseInserting
  <1>3. ASSUME NEW k \in Case, status(k)' = "ACTIVE", clash(keys(x), keysOfCase(k)')
        PROVE  status(k) = "ACTIVE" /\ clash(keys(x), keysOfCase(k))
    <2>1. CaseWritten(t, k)
      BY CommitWritesCases
    <2>2. /\ status(k)' = sales_cases'[k].case_status
          /\ keysOfCase(k)' = << sales_cases'[k].unit_id, sales_cases'[k].consumer_id >>
      BY DEF status, keysOfCase
    <2> QED BY <1>2, <1>3, <2>1, <2>2 DEF CaseWritten, status, keysOfCase
  <1> QED BY <1>3 DEF NoNewClash

LEMMA CommitDisturbsNobody ==
    ASSUME DataInvariant, TxInvariant, NEW t \in Tx, Commit(t), NEW x \in Tx \ {t}
    PROVE  Undisturbed(x)
  <1>1. tx'[x] = tx[x] /\ caseOf(x)' = caseOf(x) /\ req(x)' = req(x)
    BY CaseOfOther
  <1>2. PsjbLocked(tx[x]) =>
           /\ psjbs'[tx[x].document].status = psjbs[tx[x].document].status
           /\ Unnamed(tx[x].document) => Unnamed(tx[x].document)'
    BY <1>1, CommitKeepsLockedPsjb DEF Unnamed
  <1>3. UnitChecked(tx[x]) /\ activeSalesCases(req(x).unit) = {} =>
           activeSalesCases(req(x).unit)' = {}
    <2> SUFFICES ASSUME UnitChecked(tx[x]), activeSalesCases(req(x).unit) = {}
                 PROVE  activeSalesCases(req(x).unit)' = {}
      OBVIOUS
    <2>1. \A k \in Case : sales_cases'[k].case_status = "ACTIVE" =>
                             sales_cases'[k].unit_id # req(x).unit
      BY CommitKeepsCheckedUnit
    <2> HIDE DEF req
    <2> QED BY <1>1, <2>1 DEF activeSalesCases, IsActive, status
  <1> QED BY <1>1, <1>2, <1>3, CommitKeepsRows, CommitKeepsNewRow, CommitKeepsLockedCase,
         CommitKeepsLockedPpjb, CommitKeepsNoClash DEF Undisturbed

LEMMA CommitKeepsInvariant ==
    ASSUME DataInvariant, TxInvariant, NEW t \in Tx, Commit(t)
    PROVE  TxInvariant'
  <1>1. End(t)
    BY DEF Commit
  <1>2. \A x \in Tx \ {t} : Undisturbed(x)
    BY CommitDisturbsNobody
  <1> QED BY <1>1, <1>2, EndKeepsInvariant

LEMMA TxInvariantInit == TxInit => TxInvariant
  <1> SUFFICES ASSUME TxInit PROVE TxInvariant
    OBVIOUS
  <1>1. tx \in [Tx -> Job] /\ \A t \in Tx : tx[t] = Idle
    BY IdleIsJob DEF TxInit
  <1>2. \A t \in Tx : Own(t)
    BY <1>1 DEF Own, Running, Idle
  <1>3. Idle.handler = None
    BY DEF Idle
  <1>4. ~ Inserted(Idle) /\ Idle.handler \notin Inserting
    BY <1>3, IdleClaimsNothing
  <1>5. \A t, x \in Tx : t # x => Apart(t, x)
    BY <1>1, <1>4 DEF Apart
  <1>6. locks = {}
    BY DEF TxInit
  <1> QED BY <1>1, <1>2, <1>5, <1>6 DEF TxInvariant, TxTypeOK, OneHolder

LEMMA TxInvariantStep ==
    ASSUME DataInvariant, TxInvariant, [TxNext]_allVars
    PROVE  TxInvariant'
  <1>1. ASSUME NEW t \in Tx, Begin(t) PROVE TxInvariant'
    BY <1>1, BeginKeepsInvariant
  <1>2. ASSUME NEW t \in Tx, Rollback(t) PROVE TxInvariant'
    BY <1>2, RollbackKeepsInvariant
  <1>3. ASSUME NEW t \in Tx, Statement(t) PROVE TxInvariant'
    <2>1. Running(t) /\ (Commit(t) \/ Rollback(t) \/ \E a : \E k \in Job : Performs(t, a, k))
      BY <1>3, StatementPerforms
    <2>2. UnitsExist
      BY UnitsDoExist
    <2>3. ASSUME NEW a, NEW k \in Job, Performs(t, a, k) PROVE TxInvariant'
      BY <2>1, <2>2, <2>3, PerformsKeepsInvariant
    <2> QED BY <1>2, <2>1, <2>3, CommitKeepsInvariant
  <1>4. CASE UNCHANGED allVars
    <2>1. tx' = tx /\ locks' = locks /\ UNCHANGED vars
      BY <1>4 DEF allVars, txVars
    <2>2. ASSUME NEW x \in Tx PROVE Undisturbed(x)
      BY <2>1, ReadersDisturbNobody
    <2>3. ASSUME NEW x \in Tx PROVE Own(x)'
      BY <2>1, <2>2, OwnStays DEF TxInvariant
    <2>4. ASSUME NEW x \in Tx, NEW y \in Tx, x # y PROVE Apart(x, y)'
      BY <2>1, <2>4 DEF TxInvariant, Apart, req, keys
    <2>5. ASSUME NEW l \in locks' PROVE Claimed(l)'
      <3>1. Claimed(l)
        BY <2>1 DEF TxInvariant
      <3>2. l.tx \in Tx
        BY <3>1 DEF Claimed
      <3>3. caseOf(l.tx)' = caseOf(l.tx)
        BY <2>2, <3>2 DEF Undisturbed
      <3> QED BY <2>1, <3>1, <3>3, ClaimsOfOthers
    <2>6. TxTypeOK' /\ OneHolder'
      BY <2>1 DEF TxInvariant, TxTypeOK, OneHolder
    <2> QED BY <2>3, <2>4, <2>5, <2>6 DEF TxInvariant
  <1> QED BY <1>1, <1>2, <1>3, <1>4 DEF TxNext, AbortDeadlock, Fail

-----------------------------------------------------------------------------
(* The commit is a step of the atomic handler. *)

\* The bound on the sequence leaves a number for every submission still to be inserted.
LEMMA NextSequenceExists ==
    ASSUME TypeOK, NEW c \in Case, Gapless(c),
           NEW new \in Submission, new \notin submissionsOf(c)
    PROVE  \E n \in 1..MaxSequence : isNextSequence(c, n)
  <1> DEFINE S == submissionsOf(c)
             f == [s \in S |-> submissions[s].sequence]
             T == { submissions[s].sequence : s \in S }
  <1>1. \A s \in S : submissions[s].sequence \in Nat /\ submissions[s].sequence > 0
    BY DEF TypeOK, SubmissionRow, submissionsOf, Gapless
  <1>2. /\ IsFiniteSet(S) /\ Cardinality(S) \in Nat /\ Cardinality(S) + 1 <= MaxSequence
    <2>1. IsFiniteSet(Submission) /\ Cardinality(Submission) <= MaxSequence /\ MaxSequence \in Nat
      BY TransactionsAssumption, TablesAssumption
    <2>2. /\ IsFiniteSet(Submission \ {new})
          /\ Cardinality(Submission \ {new}) = Cardinality(Submission) - 1
      BY <2>1, FS_RemoveElement
    <2>3. S \in SUBSET (Submission \ {new})
      BY DEF submissionsOf
    <2>4. IsFiniteSet(S) /\ Cardinality(S) <= Cardinality(Submission \ {new})
      BY <2>2, <2>3, FS_Subset
    <2>5. Cardinality(S) \in Nat /\ Cardinality(Submission) \in Nat
      BY <2>1, <2>4, FS_CardinalityType
    <2> HIDE DEF S
    <2> QED BY <2>1, <2>2, <2>4, <2>5
  <1>3. f \in Surjection(S, T)
    BY DEF Surjection
  <1>4. f \in Injection(S, T)
    <2>1. f \in [S -> T]
      BY <1>3 DEF Surjection
    <2>2. ASSUME NEW s \in S, NEW q \in S, f[s] = f[q] PROVE s = q
      <3>1. submissions[s].sequence = submissions[q].sequence
        BY <2>2
      <3>2. \A p \in S \ {s} : submissions[s].sequence # submissions[p].sequence
        BY DEF Gapless
      <3> HIDE DEF S, f
      <3> QED BY <3>1, <3>2
    <2> HIDE DEF S, T, f
    <2>3. \A s, q \in S : f[s] = f[q] => s = q
      BY <2>2
    <2> QED BY <2>1, <2>3 DEF Injection, IsInjective
  <1>5. IsFiniteSet(T) /\ Cardinality(T) = Cardinality(S)
    <2> HIDE DEF f, T, S
    <2> QED BY <1>2, <1>3, <1>4, FS_Surjection
  <1> DEFINE m == Cardinality(T)
  <1>6. m \in Nat
    BY <1>2, <1>5
  <1>7. ASSUME NEW k \in T PROVE k \in 1..m
    <2>1. k \in Nat /\ k > 0
      BY <1>1
    <2>2. 1..k \in SUBSET T
      <3>1. PICK s \in S : k = submissions[s].sequence
        OBVIOUS
      <3>2. \A i \in 1..k : \E q \in S : submissions[q].sequence = i
        BY <3>1 DEF Gapless
      <3> QED BY <3>2
    <2>3. Cardinality(1..k) <= Cardinality(T)
      <3> HIDE DEF T
      <3> QED BY <1>5, <2>2, FS_Subset
    <2>4. Cardinality(1..k) = k
      BY <2>1, FS_Interval
    <2> HIDE DEF T
    <2> QED BY <1>6, <2>1, <2>3, <2>4
  <1>8. T = 1..m
    <2> HIDE DEF T
    <2>1. T \in SUBSET (1..m)
      BY <1>7
    <2>2. IsFiniteSet(1..m) /\ Cardinality(1..m) = m
      <3> HIDE DEF m
      <3>1. IsFiniteSet(1..m) /\ Cardinality(1..m) = IF 1 > m THEN 0 ELSE m - 1 + 1
        BY <1>6, FS_Interval
      <3> QED BY <1>6, <3>1
    <2> QED BY <2>1, <2>2, FS_Subset
  <1>9. isNextSequence(c, m + 1)
    <2> HIDE DEF m
    <2>1. \A s \in S : submissions[s].sequence < m + 1
      <3>1. \A s \in S : submissions[s].sequence \in T
        OBVIOUS
      <3> HIDE DEF T
      <3> QED BY <1>1, <1>6, <1>7, <3>1
    <2>2. m + 1 = 1 \/ \E s \in S : submissions[s].sequence + 1 = m + 1
      <3>1. CASE m = 0
        BY <3>1
      <3>2. CASE m # 0
        <4>1. m \in T
          BY <1>6, <1>8, <3>2
        <4>2. PICK s \in S : m = submissions[s].sequence
          BY <4>1
        <4> QED BY <4>2
      <3> QED BY <3>1, <3>2
    <2> QED BY <2>1, <2>2 DEF isNextSequence
  <1>10. m + 1 \in 1..MaxSequence
    <2> HIDE DEF m
    <2>1. m + 1 <= MaxSequence
      BY <1>2, <1>5 DEF m
    <2> QED BY <1>6, <2>1, TablesAssumption
  <1> QED BY <1>9, <1>10

\* What a handler that holds its case finds there.
LEMMA HeldCase ==
    ASSUME DataInvariant, TxInvariant, NEW t \in Tx, Commit(t), OnCase(tx[t])
    PROVE  LET c == caseOf(t)
               row == tx[t].row
           IN  /\ c \in Case /\ Found(c) /\ row = sales_cases[c]
               /\ row.case_status = status(c) /\ row.current_stage = stage(c)
               /\ tx[t].handler # "CancelPsjb" => IsActive(c)
  <1>1. LET c == caseOf(t) IN
        c \in Case /\ Exists(c) /\ tx[t].row = sales_cases[c] /\ accepts(t)
    BY CommitReady
  <1>2. ~ sales_cases[caseOf(t)].trashed
    BY <1>1 DEF DataInvariant, Untrashed
  <1> QED BY <1>1, <1>2 DEF Found, IsActive, status, stage, accepts

OnStage == HandlerNames \ {"CreateSalesCase", "CloseSalesCase", "MoveSalesCaseUnit", "CreateBast"}

\* Every handler but the lifecycle's and the BAST writes the stage of its case only.
LEMMA CommitSetsStage ==
    ASSUME DataInvariant, TxInvariant, NEW t \in Tx, Commit(t), tx[t].handler \in OnStage
    PROVE  SetStage(caseOf(t), stageAfter(t))
  <1> DEFINE c == caseOf(t)
  <1>1. OnCase(tx[t])
    BY DEF OnStage, OnCase
  <1>2. /\ c \in Case /\ tx[t].row.case_status = sales_cases[c].case_status
        /\ tx[t].row.current_stage = sales_cases[c].current_stage
    BY <1>1, HeldCase DEF status, stage
  <1>3. sales_cases \in [Case -> CaseRow] /\ sales_cases' = casesAfter(t)
    BY DEF DataInvariant, UnitInvariant, SalesInvariant, TypeOK, Commit
  <1>4. statusAfter(t) = sales_cases[c].case_status
    BY <1>2 DEF statusAfter, OnStage
  <1> DEFINE closed == [sales_cases EXCEPT ![c].case_status = write(@, tx[t].row.case_status, statusAfter(t))]
  <1>5. closed = sales_cases
    <2>1. closed = [sales_cases EXCEPT ![c].case_status = sales_cases[c].case_status]
      BY <1>2, <1>4 DEF write
    <2>2. [sales_cases[c] EXCEPT !.case_status = sales_cases[c].case_status] = sales_cases[c]
      BY <1>2, <1>3 DEF CaseRow
    <2> QED BY <1>3, <2>1, <2>2
  <1>6. sales_cases' = [closed EXCEPT ![c].current_stage =
                           write(@, tx[t].row.current_stage, stageAfter(t))]
    BY <1>3 DEF casesAfter, OnStage
  <1>7. sales_cases' = [sales_cases EXCEPT ![c].current_stage = stageAfter(t)]
    <2> HIDE DEF closed
    <2>1. sales_cases' = [sales_cases EXCEPT ![c].current_stage =
                           write(@, tx[t].row.current_stage, stageAfter(t))]
      BY <1>5, <1>6
    <2> QED BY <1>2, <2>1, WriteIsNew
  <1> QED BY <1>7 DEF SetStage

\* Which tables the handler of a commit writes beside sales_cases.
LEMMA CommitLeaves ==
    ASSUME NEW t \in Tx, Commit(t)
    PROVE  LET h == tx[t].handler IN
           /\ h \notin {"CreateSalesCase", "CloseSalesCase", "MoveSalesCaseUnit", "CreateAkad", "CreateBast"}
                 => unit_status' = unit_status
           /\ h # "RecordBiCheck" => latest_bi' = latest_bi
           /\ h \notin {"CreatePsjb", "ReissuePsjb", "CancelPsjb"} => psjbs' = psjbs
           /\ h \notin {"CreateDocumentSubmission", "CompleteCashPemberkasan", "RecordBankResponse"}
                 => submissions' = submissions
           /\ h # "RecordBankResponse" => bank_processes' = bank_processes
           /\ h \notin {"CreateDeveloperPpjb", "ReissueDeveloperPpjb", "CancelDeveloperPpjb"}
                 => ppjbs' = ppjbs
           /\ h # "CreateAkad" => akads' = akads
           /\ h # "CreateBast" => basts' = basts
  <1> DEFINE h == tx[t].handler
  <1>1. h \notin {"CreateSalesCase", "CloseSalesCase", "MoveSalesCaseUnit", "CreateAkad", "CreateBast"}
                   => unit_status' = unit_status
    BY DEF Commit, unitsAfter
  <1>2. h # "RecordBiCheck" => latest_bi' = latest_bi
    BY DEF Commit
  <1>3. h \notin {"CreatePsjb", "ReissuePsjb", "CancelPsjb"} => psjbs' = psjbs
    BY DEF Commit, psjbsAfter
  <1>4. h \notin {"CreateDocumentSubmission", "CompleteCashPemberkasan", "RecordBankResponse"}
                   => submissions' = submissions
    BY DEF Commit, submissionsAfter
  <1>5. h # "RecordBankResponse" => bank_processes' = bank_processes
    BY DEF Commit, processesAfter
  <1>6. h \notin {"CreateDeveloperPpjb", "ReissueDeveloperPpjb", "CancelDeveloperPpjb"} => ppjbs' = ppjbs
    BY DEF Commit, ppjbsAfter
  <1>7. h # "CreateAkad" => akads' = akads
    BY DEF Commit
  <1>8. h # "CreateBast" => basts' = basts
    BY DEF Commit
  <1> QED BY <1>1, <1>2, <1>3, <1>4, <1>5, <1>6, <1>7, <1>8

LEMMA PsjbCommits ==
    ASSUME DataInvariant, TxInvariant, NEW t \in Tx, Commit(t),
           tx[t].handler \in {"RecordBiCheck", "CreatePsjb", "ReissuePsjb", "CancelPsjb"}
    PROVE  PsjbNext
  <1> DEFINE c == caseOf(t)
             r == req(t)
             h == tx[t].handler
  <1>1. h \in OnStage /\ OnCase(tx[t])
    BY DEF OnStage, OnCase, HandlerNames
  <1>2. /\ c \in Case /\ Found(c) /\ tx[t].row = sales_cases[c] /\ tx[t].row.current_stage = stage(c)
        /\ h # "CancelPsjb" => IsActive(c)
    BY <1>1, HeldCase
  <1>3. accepts(t) /\ Proper(t)
    BY <1>1, CommitReady
  <1>4. SetStage(c, stageAfter(t))
    BY <1>1, CommitSetsStage
  <1>5. CASE h = "RecordBiCheck"
    <2>1. r.data[1] \in 1..MaxDate /\ r.data[2] \in BiCheckResult
      BY <1>3, <1>5 DEF Proper
    <2>2. stageAfter(t) = stageAfterBiCheck(stage(c), r.data[2])
      BY <1>2, <1>5 DEF stageAfter
    <2>3. latest_bi' = [latest_bi EXCEPT ![c] = latestForCase(@, r.data[1], r.data[2])]
      BY <1>5 DEF Commit
    <2>4. RecordBiCheck(c, r.data[1], r.data[2])
      BY <1>2, <1>4, <1>5, <2>2, <2>3, CommitLeaves DEF RecordBiCheck
    <2> QED BY <1>2, <2>1, <2>4 DEF PsjbNext
  <1>6. CASE h = "CreatePsjb"
    <2>1. r.new \in Psjb /\ psjbs[r.new].status = Absent
      BY <1>3, <1>6 DEF Proper
    <2>2. stageAfter(t) = advanceStageTo(stage(c), "PEMBERKASAN")
      BY <1>2, <1>6 DEF stageAfter
    <2>3. psjbs' = [psjbs EXCEPT ![r.new] = NewPsjb(c)]
      BY <1>6 DEF Commit, psjbsAfter
    <2>4. biAllowsPsjb(c) /\ activePsjb(c) = {}
      BY <1>2, <1>3, <1>6 DEF accepts, biAllowsPsjb
    <2>5. CreatePsjb(c, r.new)
      BY <1>2, <1>4, <1>6, <2>1, <2>2, <2>3, <2>4, CommitLeaves DEF CreatePsjb
    <2> QED BY <1>2, <2>1, <2>5 DEF PsjbNext
  <1>7. CASE h = "ReissuePsjb"
    <2>1. r.new \in Psjb /\ psjbs[r.new].status = Absent
      BY <1>3, <1>7 DEF Proper
    <2>2. stageAfter(t) = advanceStageTo(stage(c), "PEMBERKASAN")
      BY <1>2, <1>7 DEF stageAfter
    <2>3. psjbs' = [psjbs EXCEPT ![tx[t].document].status = "SUPERSEDED", ![r.new] = NewPsjb(c)]
      BY <1>7 DEF Commit, psjbsAfter
    <2>4. tx[t].document \in activePsjb(c) /\ tx[t].document \in Psjb
      BY <1>7, CommitReady DEF activePsjb
    <2>5. ReissuePsjb(c, tx[t].document, r.new)
      BY <1>2, <1>4, <1>7, <2>1, <2>2, <2>3, <2>4, CommitLeaves DEF ReissuePsjb
    <2> QED BY <1>2, <2>1, <2>4, <2>5 DEF PsjbNext
  <1>8. CASE h = "CancelPsjb"
    <2> DEFINE p == tx[t].document
    <2>1. p \in Psjb /\ psjbs[p].status = "ACTIVE" /\ psjbs[p].sales_case_id = c
      BY <1>8, CommitReady
    <2>2. stageAfter(t) = "PSJB"
      BY <1>8 DEF stageAfter
    <2>3. psjbs' = [psjbs EXCEPT ![p].status = "CANCELLED"]
      BY <1>8 DEF Commit, psjbsAfter
    <2>4. /\ \A s \in Submission : submissions[s].psjb_id # p
          /\ ~ isBeyond(stage(c), "PEMBERKASAN")
      BY <1>2, <1>3, <1>8 DEF accepts
    <2>5. CancelPsjb(p)
      BY <1>2, <1>4, <1>8, <2>1, <2>2, <2>3, <2>4, CommitLeaves DEF CancelPsjb
    <2> QED BY <2>1, <2>5 DEF PsjbNext
  <1> QED BY <1>5, <1>6, <1>7, <1>8

LEMMA BankCommits ==
    ASSUME DataInvariant, TxInvariant, NEW t \in Tx, Commit(t),
           tx[t].handler \in {"CreateDocumentSubmission", "CompleteCashPemberkasan", "RecordBankResponse"}
    PROVE  BankNext
  <1> DEFINE c == caseOf(t)
             r == req(t)
             h == tx[t].handler
             p == tx[t].document
             n == CHOOSE n \in 1..MaxSequence : isNextSequence(c, n)
  <1>1. h \in OnStage /\ OnCase(tx[t])
    BY DEF OnStage, OnCase, HandlerNames
  <1>2. /\ c \in Case /\ IsActive(c) /\ tx[t].row = sales_cases[c] /\ tx[t].row.current_stage = stage(c)
    BY <1>1, HeldCase
  <1>3. accepts(t) /\ Proper(t)
    BY <1>1, CommitReady
  <1>4. SetStage(c, stageAfter(t))
    BY <1>1, CommitSetsStage
  <1>5. ASSUME h # "RecordBankResponse"
        PROVE  /\ r.new \in Submission /\ submissions[r.new].status = Absent
               /\ p \in activePsjb(c) /\ p \in Psjb
               /\ n \in 1..MaxSequence /\ isNextSequence(c, n)
    <2>1. r.new \in Submission /\ submissions[r.new].status = Absent
      BY <1>3, <1>5 DEF Proper
    <2>2. r.new \notin submissionsOf(c)
      <3>1. submissions[r.new].sales_case_id = None
        BY <2>1 DEF DataInvariant, UnitInvariant, SalesInvariant, AbsentRowsAreBlank
      <3> QED BY <1>2, <3>1, TablesAssumption DEF submissionsOf
    <2>3. TypeOK /\ Gapless(c)
      BY <1>2 DEF DataInvariant, SequenceInvariant, SequenceIsGapless, SalesInvariant, Gapless
    <2>4. \E i \in 1..MaxSequence : isNextSequence(c, i)
      BY <1>2, <2>1, <2>2, <2>3, NextSequenceExists
    <2>5. n \in 1..MaxSequence /\ isNextSequence(c, n)
      BY <2>4
    <2>6. p \in activePsjb(c) /\ p \in Psjb
      BY <1>5, CommitReady DEF activePsjb
    <2> HIDE DEF n
    <2> QED BY <2>1, <2>5, <2>6
  <1>6. CASE h = "CreateDocumentSubmission"
    <2>1. submissions' = [submissions EXCEPT ![r.new] = NewSubmission(c, p, "BANK", n)]
      BY <1>6 DEF Commit, submissionsAfter
    <2>2. stageAfter(t) = advanceStageTo(stage(c), "PROSES_BANK")
      BY <1>2, <1>6 DEF stageAfter
    <2>3. sales_cases[c].financing_type = "KPR_SUBSIDI"
      BY <1>2, <1>3, <1>6 DEF accepts
    <2> HIDE DEF n
    <2>4. CreateDocumentSubmission(c, p, r.new, n)
      BY <1>2, <1>4, <1>5, <1>6, <2>1, <2>2, <2>3, CommitLeaves DEF CreateDocumentSubmission
    <2> QED BY <1>2, <1>5, <1>6, <2>4 DEF BankNext
  <1>7. CASE h = "CompleteCashPemberkasan"
    <2>1. submissions' = [submissions EXCEPT ![r.new] = NewSubmission(c, p, "CASH_INTERNAL", n)]
      BY <1>7 DEF Commit, submissionsAfter
    <2>2. stageAfter(t) = advanceStageTo(stage(c), "PPJB_DEV")
      BY <1>2, <1>7 DEF stageAfter
    <2>3. sales_cases[c].financing_type = "CASH" /\ cashPemberkasan(c) = {}
      BY <1>2, <1>3, <1>7 DEF accepts
    <2> HIDE DEF n
    <2>4. CompleteCashPemberkasan(c, p, r.new, n)
      BY <1>2, <1>4, <1>5, <1>7, <2>1, <2>2, <2>3, CommitLeaves DEF CompleteCashPemberkasan
    <2> QED BY <1>2, <1>5, <1>7, <2>4 DEF BankNext
  <1>8. CASE h = "RecordBankResponse"
    <2> DEFINE approved == r.data[1] = "APPROVED"
    <2>1. /\ r.document \in Submission /\ r.new \in BankProcess /\ r.data[1] \in BankResponseType
          /\ bank_processes[r.new].response_type = Absent
      BY <1>3, <1>8 DEF Proper
    <2>2. /\ sales_cases[c].financing_type = "KPR_SUBSIDI"
          /\ r.document \in submissionsOf(c) /\ submissions[r.document].type = "BANK"
          /\ approved => approvalOf(c) = {}
      BY <1>2, <1>3, <1>8 DEF accepts
    <2>3. stageAfter(t) = advanceStageTo(stage(c), IF approved THEN "PPJB_DEV" ELSE "PROSES_BANK")
      BY <1>2, <1>8 DEF stageAfter
    <2>4. bank_processes' = [bank_processes EXCEPT ![r.new] =
              [sales_case_id |-> c, document_submission_id |-> r.document,
               response_type |-> r.data[1], is_authoritative |-> approved]]
      BY <1>8 DEF Commit, processesAfter
    <2>5. submissions' = [submissions EXCEPT ![r.document].status =
              IF approved THEN "CLOSED" ELSE IF @ = "SUBMITTED" THEN "PROCESSING" ELSE @]
      BY <1>8 DEF Commit, submissionsAfter
    <2>6. RecordBankResponse(c, r.document, r.new, r.data[1])
      BY <1>2, <1>4, <1>8, <2>1, <2>2, <2>3, <2>4, <2>5, CommitLeaves DEF RecordBankResponse
    <2> QED BY <1>2, <2>1, <2>6 DEF BankNext
  <1> QED BY <1>6, <1>7, <1>8

LEMMA ClosingCommits ==
    ASSUME DataInvariant, TxInvariant, NEW t \in Tx, Commit(t),
           tx[t].handler \in {"CreateDeveloperPpjb", "ReissueDeveloperPpjb", "CancelDeveloperPpjb",
                              "CreateAkad", "CreateBast"}
    PROVE  ClosingNext
  <1> DEFINE c == caseOf(t)
             r == req(t)
             h == tx[t].handler
             d == tx[t].document
  <1>1. OnCase(tx[t]) /\ (h # "CreateBast" => h \in OnStage)
    BY DEF OnStage, OnCase, HandlerNames
  <1>2. /\ c \in Case /\ IsActive(c) /\ tx[t].row = sales_cases[c] /\ tx[t].row.current_stage = stage(c)
        /\ tx[t].row.case_status = status(c)
    BY <1>1, HeldCase
  <1>3. accepts(t) /\ Proper(t)
    BY <1>1, CommitReady
  <1>4. h # "CreateBast" => SetStage(c, stageAfter(t))
    BY <1>1, CommitSetsStage
  <1>5. TypeOK
    BY DEF DataInvariant, UnitInvariant, SalesInvariant
  <1>6. CASE h = "CreateDeveloperPpjb"
    <2> DEFINE b == IF tx[t].row.financing_type = "CASH" THEN None
                    ELSE CHOOSE x \in approvalOf(c) : TRUE
    <2>1. r.new \in Ppjb /\ ppjbs[r.new].status = Absent
      BY <1>3, <1>6 DEF Proper
    <2>2. stageAfter(t) = advanceStageTo(stage(c), "AKAD")
      BY <1>2, <1>6 DEF stageAfter
    <2>3. ppjbs' = [ppjbs EXCEPT ![r.new] = NewPpjb(c, b)]
      BY <1>6 DEF Commit, ppjbsAfter
    <2>4. activePpjb(c) = {} /\ ppjbBasis(c, b) /\ b \in BankProcess \cup {None}
      <3>1. sales_cases[c].financing_type \in {"KPR_SUBSIDI", "CASH"}
        BY <1>2, <1>5 DEF TypeOK, CaseRow, FinancingType
      <3>2. approvalOf(c) # {} => (CHOOSE x \in approvalOf(c) : TRUE) \in approvalOf(c)
        OBVIOUS
      <3>3. approvalOf(c) \subseteq BankProcess
        BY DEF approvalOf
      <3> QED BY <1>2, <1>3, <1>6, <3>1, <3>2, <3>3 DEF accepts, ppjbBasis
    <2> HIDE DEF b
    <2>5. CreateDeveloperPpjb(c, r.new, b)
      BY <1>2, <1>4, <1>6, <2>1, <2>2, <2>3, <2>4, CommitLeaves DEF CreateDeveloperPpjb
    <2> QED BY <1>2, <2>1, <2>4, <2>5 DEF ClosingNext
  <1>7. CASE h = "ReissueDeveloperPpjb"
    <2>1. r.new \in Ppjb /\ ppjbs[r.new].status = Absent
      BY <1>3, <1>7 DEF Proper
    <2>2. stageAfter(t) = advanceStageTo(stage(c), "AKAD")
      BY <1>2, <1>7 DEF stageAfter
    <2>3. ppjbs' = [ppjbs EXCEPT ![d].status = "SUPERSEDED",
                                 ![r.new] = NewPpjb(c, ppjbs[d].bank_process_id)]
      BY <1>7 DEF Commit, ppjbsAfter
    <2>4. d \in activePpjb(c) /\ d \in Ppjb /\ ~ hasAkad(c)
      BY <1>3, <1>7, CommitReady DEF activePpjb, accepts
    <2>5. ReissueDeveloperPpjb(c, d, r.new)
      BY <1>2, <1>4, <1>7, <2>1, <2>2, <2>3, <2>4, CommitLeaves DEF ReissueDeveloperPpjb
    <2> QED BY <1>2, <2>1, <2>4, <2>5 DEF ClosingNext
  <1>8. CASE h = "CancelDeveloperPpjb"
    <2>1. d \in Ppjb /\ ppjbs[d].status = "ACTIVE" /\ ppjbs[d].sales_case_id = c
      BY <1>8, CommitReady
    <2>2. stageAfter(t) = IF isBeyond(stage(c), "AKAD") THEN stage(c) ELSE "PPJB_DEV"
      BY <1>2, <1>8 DEF stageAfter
    <2>3. ppjbs' = [ppjbs EXCEPT ![d].status = "CANCELLED"]
      BY <1>8 DEF Commit, ppjbsAfter
    <2>4. ~ hasAkad(c)
      BY <1>3, <1>8 DEF accepts
    <2>5. CancelDeveloperPpjb(d)
      BY <1>2, <1>4, <1>8, <2>1, <2>2, <2>3, <2>4, CommitLeaves DEF CancelDeveloperPpjb
    <2> QED BY <2>1, <2>5 DEF ClosingNext
  <1>9. CASE h = "CreateAkad"
    <2>1. d \in Ppjb /\ ppjbs[d].sales_case_id = c /\ ppjbs[d].status = "ACTIVE"
      BY <1>9, CommitReady DEF activePpjb
    <2>2. stageAfter(t) = advanceStageTo(stage(c), "BAST")
      BY <1>2, <1>9 DEF stageAfter
    <2>3. akads' = [akads EXCEPT ![c] = d] /\ ~ hasAkad(c)
      BY <1>3, <1>9 DEF Commit, accepts
    <2>4. SellUnit(c)
      BY <1>2, <1>9 DEF Commit, unitsAfter, SellUnit
    <2>5. CreateAkad(c, d)
      BY <1>2, <1>4, <1>9, <2>1, <2>2, <2>3, <2>4, CommitLeaves DEF CreateAkad
    <2> QED BY <1>2, <2>1, <2>5 DEF ClosingNext
  <1>10. CASE h = "CreateBast"
    <2>1. hasAkad(c) /\ ~ hasBast(c) /\ basts' = [basts EXCEPT ![c] = c]
      BY <1>3, <1>10 DEF Commit, accepts
    <2>2. SellUnit(c)
      BY <1>2, <1>10 DEF Commit, unitsAfter, SellUnit
    <2>3. sales_cases' = [sales_cases EXCEPT ![c].current_stage = "COMPLETED",
                                             ![c].case_status = "COMPLETED"]
      <3>1. statusAfter(t) = "COMPLETED" /\ stageAfter(t) = "COMPLETED"
        BY <1>10 DEF statusAfter, stageAfter
      <3> DEFINE closed == [sales_cases EXCEPT ![c].case_status = "COMPLETED"]
      <3>2. closed = [sales_cases EXCEPT ![c].case_status =
                         write(@, tx[t].row.case_status, "COMPLETED")]
        BY <1>2, WriteIsNew DEF status
      <3>3. sales_cases' = [closed EXCEPT ![c].current_stage =
                               write(@, tx[t].row.current_stage, "COMPLETED")]
        BY <1>10, <3>1, <3>2 DEF Commit, casesAfter
      <3>4. closed[c].current_stage = tx[t].row.current_stage
        BY <1>2, <1>5 DEF TypeOK, CaseRow, stage
      <3>5. sales_cases' = [closed EXCEPT ![c].current_stage = "COMPLETED"]
        <4> HIDE DEF closed
        <4> QED BY <3>3, <3>4, WriteIsNew
      <3> QED BY <1>2, <1>5, <3>5 DEF TypeOK, CaseRow
    <2>4. CreateBast(c, c)
      BY <1>2, <1>10, <2>1, <2>2, <2>3, CommitLeaves DEF CreateBast
    <2> QED BY <1>2, <2>4 DEF ClosingNext
  <1> QED BY <1>6, <1>7, <1>8, <1>9, <1>10

LEMMA LifecycleCommits ==
    ASSUME DataInvariant, TxInvariant, NEW t \in Tx, Commit(t),
           tx[t].handler \in LifecycleHandlers
    PROVE  LifecycleNext
  <1> DEFINE c == caseOf(t)
             r == req(t)
             h == tx[t].handler
             u == r.unit
  <1>1. /\ Proper(t) /\ Fresh(t)
        /\ h \in {"CreateSalesCase", "MoveSalesCaseUnit"} => UnitChecked(tx[t]) /\ Inserted(tx[t])
        /\ h = "CloseSalesCase" => tx[t].release
    BY CommitReady
  <1>2. h # "CreateSalesCase" => /\ c \in Case /\ IsActive(c) /\ tx[t].row = sales_cases[c] /\ ~ hasAkad(c)
                                 /\ tx[t].row.case_status = sales_cases[c].case_status
    <2> SUFFICES ASSUME h # "CreateSalesCase"
                 PROVE  /\ c \in Case /\ IsActive(c) /\ tx[t].row = sales_cases[c] /\ ~ hasAkad(c)
                        /\ tx[t].row.case_status = sales_cases[c].case_status
      OBVIOUS
    <2>1. OnCase(tx[t])
      BY DEF OnCase, HandlerNames, LifecycleHandlers
    <2>2. accepts(t)
      BY <2>1, CommitReady
    <2>3. ~ hasAkad(c)
      BY <2>2 DEF accepts, LifecycleHandlers
    <2> QED BY <2>1, <2>3, HeldCase DEF LifecycleHandlers, status
  <1>3. h # "CloseSalesCase" =>
           /\ r.new \in Case /\ ~ Exists(r.new) /\ u \in Unit
           /\ activeSalesCases(u) = {}
           /\ \A k \in Case : status(k) = "ACTIVE" /\ clash(keys(t), keysOfCase(k)) =>
                 h = "MoveSalesCaseUnit" /\ k = c
    BY <1>1 DEF Proper, Fresh, LifecycleHandlers, req
  <1>4. /\ sales_cases' = casesAfter(t) /\ unit_status' = unitsAfter(t) /\ UNCHANGED documents
    BY CommitLeaves DEF Commit, documents, LifecycleHandlers
  <1>5. TypeOK
    BY DEF DataInvariant, UnitInvariant, SalesInvariant
  <1>6. CASE h = "CreateSalesCase"
    <2> DEFINE k == r.data[1]
               f == r.data[2]
    <2>1. k \in Consumer /\ f \in FinancingType
      BY <1>1, <1>6 DEF Proper
    <2>2. keys(t) = << u, k >>
      BY <1>6 DEF keys
    <2>3. ASSUME NEW x \in Case, status(x) = "ACTIVE"
          PROVE  sales_cases[x].unit_id # u /\ sales_cases[x].consumer_id # k
      <3>1. ~ clash(keys(t), keysOfCase(x))
        BY <1>3, <1>6, <2>3
      <3> QED BY <2>2, <3>1 DEF clash, keysOfCase
    <2>4. UniqueActiveCase(u, k, Case) /\ activeCasesOfConsumer(k) = {}
      BY <2>3 DEF UniqueActiveCase, activeCasesOfConsumer, IsActive
    <2>5. /\ sales_cases' = [sales_cases EXCEPT ![r.new] = NewCase(u, k, f, None)]
          /\ unit_status' = [unit_status EXCEPT ![u] = "BOOKING"]
      BY <1>4, <1>6 DEF casesAfter, unitsAfter
    <2>6. CreateSalesCase(r.new, u, k, f)
      BY <1>3, <1>4, <1>6, <2>4, <2>5 DEF CreateSalesCase
    <2>7. r.new \in Case /\ u \in Unit
      BY <1>3, <1>6
    <2> HIDE DEF k, f, u, r
    <2> QED BY <2>1, <2>6, <2>7 DEF LifecycleNext
  <1>7. CASE h = "CloseSalesCase"
    <2>1. statusAfter(t) = "CANCELLED"
      BY <1>1, <1>7 DEF statusAfter, Proper, Closings
    <2>2. sales_cases' = [sales_cases EXCEPT ![c].case_status = "CANCELLED"]
      <3>1. sales_cases' = [sales_cases EXCEPT ![c].case_status =
                               write(@, tx[t].row.case_status, "CANCELLED")]
        BY <1>4, <1>7, <2>1 DEF casesAfter
      <3> QED BY <1>2, <1>7, <3>1, WriteIsNew
    <2>3. unit_status' = [unit_status EXCEPT ![sales_cases[c].unit_id] = "TERSEDIA"]
      BY <1>1, <1>2, <1>4, <1>7 DEF unitsAfter
    <2>4. activeSalesCases(sales_cases[c].unit_id) \ {c} = {}
      BY <1>2, <1>7 DEF DataInvariant, OneActiveCase, activeSalesCases, IsActive
    <2>5. CancelSalesCase(c)
      BY <1>2, <1>4, <1>7, <2>2, <2>3, <2>4
         DEF CancelSalesCase, CloseSalesCase, releaseUnitIfNoActiveCase
    <2> QED BY <1>2, <1>7, <2>5 DEF LifecycleNext
  <1>8. CASE h = "MoveSalesCaseUnit"
    <2> DEFINE old == sales_cases[c]
    <2>1. UnitBranch[u] = old.branch_id
      BY <1>1, <1>2, <1>8 DEF Fresh, req
    <2>2. keys(t) = << u, old.consumer_id >>
      BY <1>2, <1>8 DEF keys
    <2>3. ASSUME NEW x \in Case \ {c}, status(x) = "ACTIVE"
          PROVE  sales_cases[x].unit_id # u /\ sales_cases[x].consumer_id # old.consumer_id
      <3>1. ~ clash(keys(t), keysOfCase(x))
        BY <1>3, <1>8, <2>3
      <3> HIDE DEF c, u, old
      <3> QED BY <2>2, <3>1 DEF clash, keysOfCase
    <2>4. UniqueActiveCase(u, old.consumer_id, Case \ {c}) /\ activeCasesOfConsumer(old.consumer_id) \ {c} = {}
      BY <2>3 DEF UniqueActiveCase, activeCasesOfConsumer, IsActive
    <2>5. u # old.unit_id
      BY <1>2, <1>3, <1>8 DEF activeSalesCases
    <2>6. statusAfter(t) = "PINDAH_KAVLING"
      BY <1>8 DEF statusAfter
    <2>7. sales_cases' = [sales_cases EXCEPT ![c].case_status = "PINDAH_KAVLING",
                                             ![r.new] = NewCase(u, old.consumer_id, old.financing_type, c)]
      <3> DEFINE closed == [sales_cases EXCEPT ![c].case_status = "PINDAH_KAVLING"]
      <3>1. closed = [sales_cases EXCEPT ![c].case_status =
                         write(@, tx[t].row.case_status, "PINDAH_KAVLING")]
        BY <1>2, <1>8, WriteIsNew
      <3>2. sales_cases' = [closed EXCEPT ![r.new] =
                               NewCase(u, tx[t].row.consumer_id, tx[t].row.financing_type, c)]
        BY <1>4, <1>8, <2>6, <3>1 DEF casesAfter
      <3> QED BY <1>2, <1>8, <3>2
    <2>8. unit_status' = [unit_status EXCEPT ![old.unit_id] = "TERSEDIA", ![u] = "BOOKING"]
      BY <1>2, <1>4, <1>8 DEF unitsAfter
    <2>9. MoveSalesCaseUnit(c, r.new, u)
      BY <1>2, <1>3, <1>4, <1>8, <2>1, <2>4, <2>5, <2>7, <2>8 DEF MoveSalesCaseUnit
    <2>10. c \in Case /\ r.new \in Case /\ u \in Unit
      BY <1>2, <1>3, <1>8
    <2> HIDE DEF c, r, u
    <2> QED BY <2>9, <2>10 DEF LifecycleNext
  <1> QED BY <1>6, <1>7, <1>8 DEF LifecycleHandlers

\* A commit is one step of one handler; nothing else changes the tables.
LEMMA CommitIsHandler ==
    ASSUME DataInvariant, TxInvariant, NEW t \in Tx, Commit(t)
    PROVE  Next
  <1>1. tx[t].handler \in HandlerNames
    BY CommitReady
  <1> QED BY <1>1, LifecycleCommits, PsjbCommits, BankCommits, ClosingCommits
         DEF HandlerNames, LifecycleHandlers, Next

LEMMA StatementsAreHandlers ==
    ASSUME DataInvariant, TxInvariant, [TxNext]_allVars
    PROVE  [Next]_vars
  <1>1. ASSUME NEW t \in Tx, Begin(t) PROVE UNCHANGED vars
    BY <1>1 DEF Begin
  <1>2. ASSUME NEW t \in Tx, Rollback(t) PROVE UNCHANGED vars
    BY <1>2 DEF Rollback
  <1>3. ASSUME NEW t \in Tx, Statement(t) PROVE [Next]_vars
    <2>1. Commit(t) \/ Rollback(t) \/ \E a : \E k \in Job : Performs(t, a, k)
      BY <1>3, StatementPerforms
    <2>2. ASSUME NEW a, NEW k \in Job, Performs(t, a, k) PROVE UNCHANGED vars
      BY <2>2 DEF Performs
    <2> QED BY <1>2, <2>1, <2>2, CommitIsHandler
  <1>4. UNCHANGED allVars => UNCHANGED vars
    BY DEF allVars
  <1> QED BY <1>1, <1>2, <1>3, <1>4 DEF TxNext, AbortDeadlock, Fail

-----------------------------------------------------------------------------
(* The data between two commits. *)

LEMMA OneActiveCaseStep ==
    ASSUME SalesInvariant, OneActiveCase, [Next]_vars
    PROVE  OneActiveCase'
  <1>1. [Sale!Next]_dealOf
    BY DealStep DEF AnyNext
  <1>2. Sale!HeldOnce
    BY HoldingIsActive
  <1>3. Sale!HeldOnce'
    BY <1>1, <1>2, HeldOnceStep
  <1>4. (OneActiveCase <=> Sale!HeldOnce)'
    BY HoldingIsActive, PTL
  <1> QED BY <1>3, <1>4

LEMMA DataInvariantInit == Init => DataInvariant
  <1>1. Init => OneActiveCase
    BY DEF Init, OneActiveCase, NoCaseRow, status, Absent
  <1> QED BY <1>1, UntrashedInit, FinancingInit, UnitInit, SequenceInit DEF DataInvariant

LEMMA DataInvariantStep ==
    ASSUME DataInvariant, [Next]_vars
    PROVE  DataInvariant'
  <1>1. /\ FinancingInvariant /\ UnitInvariant /\ SequenceInvariant /\ OneActiveCase /\ Untrashed
        /\ SalesInvariant /\ TypeOK
    BY DEF DataInvariant, UnitInvariant, SalesInvariant
  <1>2. FinancingInvariant'
    BY <1>1, FinancingStep
  <1>3. UnitInvariant'
    BY <1>1, UnitStep
  <1>4. SequenceInvariant'
    BY <1>1, SequenceStep DEF AnyNext
  <1>5. OneActiveCase'
    BY <1>1, OneActiveCaseStep
  <1>6. Untrashed'
    BY <1>1, UntrashedStep
  <1> QED BY <1>2, <1>3, <1>4, <1>5, <1>6 DEF DataInvariant

-----------------------------------------------------------------------------
(* The theorems. *)

LEMMA InvariantsHold == TxSpec => [](DataInvariant /\ TxInvariant)
  <1>1. TxInit => DataInvariant /\ TxInvariant
    BY DataInvariantInit, TxInvariantInit DEF TxInit
  <1>2. DataInvariant /\ TxInvariant /\ [TxNext]_allVars => DataInvariant' /\ TxInvariant'
    BY StatementsAreHandlers, DataInvariantStep, TxInvariantStep
  <1> QED BY <1>1, <1>2, PTL DEF TxSpec

\* TxInvariant: what a transaction has locked, read and checked stays true until it
\* commits, whatever the statements of the other connections do meanwhile.
THEOREM ReadsStayTrue == TxSpec => []TxInvariant
BY InvariantsHold, PTL

\* HandlersAreAtomic: however the statements of the handlers interleave, fail or
\* abort each other, the tables change as by one whole handler at a time.
THEOREM TransactionsAreAtomic == TxSpec => HandlersAreAtomic
  <1>1. TxInit => Init
    BY DEF TxInit
  <1>2. DataInvariant /\ TxInvariant /\ [TxNext]_allVars => [Next]_vars
    BY StatementsAreHandlers
  <1> QED BY <1>1, <1>2, InvariantsHold, PTL DEF TxSpec, HandlersAreAtomic, Spec

-----------------------------------------------------------------------------
(* Where a transaction stands.                                             *)

LEMMA Stands ==
    ASSUME TxInvariant, NEW t \in Tx, tx[t].handler \in HandlerNames \/ tx[t].todo # << >>
    PROVE  /\ Running(t) /\ tx[t].handler \in HandlerNames /\ tx[t] \in Job
           /\ tx[t].todo # << >> /\ Orderly(tx[t], Head(tx[t].todo))
           /\ Proper(t) /\ Fresh(t) /\ Holding(t)
  <1>1. Running(t)
    <2>1. Idle.todo = << >>
      BY DEF Idle
    <2> QED BY <2>1, TransactionsAssumption DEF TxInvariant, Own, Running
  <1> QED BY <1>1, RunningProgresses DEF TxInvariant

\* A handler past its checks holds its case, which is ACTIVE.
Settled(t) == CaseLocked(tx[t]) /\ Checked(tx[t]) /\ tx[t].handler # "CancelPsjb"

LEMMA SettledCase ==
    ASSUME DataInvariant, TxInvariant, NEW t \in Tx, Settled(t)
    PROVE  /\ caseOf(t) \in Case /\ IsActive(caseOf(t)) /\ status(caseOf(t)) = "ACTIVE"
           /\ tx[t].row = sales_cases[caseOf(t)]
           /\ Lock(t, << "case", caseOf(t) >>, "UPDATE") \in locks
  <1>1. tx[t].handler \in HandlerNames /\ OnCase(tx[t])
    BY DEF Settled, CaseLocked, OnCase
  <1>2. Proper(t) /\ Fresh(t) /\ Holding(t)
    BY <1>1, Stands
  <1>3. caseOf(t) \in Case /\ Exists(caseOf(t))
    BY <1>1, <1>2, CaseOfExists
  <1>4. tx[t].row = sales_cases[caseOf(t)] /\ accepts(t)
    BY <1>2 DEF Settled, Fresh
  <1>5. status(caseOf(t)) = "ACTIVE"
    BY <1>4 DEF Settled, accepts, status
  <1>6. IsActive(caseOf(t))
    BY <1>3, <1>5 DEF IsActive, Found, DataInvariant, Untrashed
  <1> QED BY <1>2, <1>3, <1>4, <1>5, <1>6 DEF Settled, Holding

LEMMA SettledCasesDiffer ==
    ASSUME DataInvariant, TxInvariant, NEW x \in Tx, NEW y \in Tx, x # y, Settled(x), Settled(y)
    PROVE  /\ tx[x].row.unit_id # tx[y].row.unit_id
           /\ tx[x].row.consumer_id # tx[y].row.consumer_id
  <1>1. << "case", caseOf(x) >> # << "case", caseOf(y) >>
    BY SettledCase, LocksDiffer DEF TxInvariant
  <1>2. caseOf(x) # caseOf(y)
    BY <1>1
  <1>3. /\ sales_cases[caseOf(x)].unit_id # sales_cases[caseOf(y)].unit_id
        /\ sales_cases[caseOf(x)].consumer_id # sales_cases[caseOf(y)].consumer_id
    <2>1. /\ caseOf(x) \in Case /\ status(caseOf(x)) = "ACTIVE"
          /\ caseOf(y) \in Case /\ status(caseOf(y)) = "ACTIVE"
      BY SettledCase
    <2> HIDE DEF caseOf
    <2> QED BY <1>2, <2>1 DEF DataInvariant, OneActiveCase
  <1> QED BY <1>3, SettledCase

\* No ACTIVE case is on a unit that has been checked.
LEMMA CheckedUnitIsFree ==
    ASSUME DataInvariant, TxInvariant, NEW x \in Tx, UnitChecked(tx[x]), NEW y \in Tx, Settled(y)
    PROVE  tx[y].row.unit_id # req(x).unit
  <1>1. Fresh(x)
    <2>1. tx[x].handler \in HandlerNames
      BY DEF UnitChecked, HandlerNames
    <2> QED BY <2>1, Stands
  <1>2. activeSalesCases(req(x).unit) = {}
    BY <1>1 DEF Fresh, req
  <1>3. /\ caseOf(y) \in Case /\ IsActive(caseOf(y)) /\ tx[y].row = sales_cases[caseOf(y)]
    BY SettledCase
  <1> HIDE DEF caseOf, req
  <1> QED BY <1>2, <1>3 DEF activeSalesCases

\* What blocks t is a lock some other transaction has claimed.
LEMMA BlockerHolds ==
    ASSUME TxInvariant, NEW x \in Tx, NEW y \in blockers(x)
    PROVE  /\ y \in Tx \ {x}
           /\ \E l \in locks : l.tx = y /\ l.row = target(x)
           /\ \/ target(x) = << "case", caseOf(y) >> /\ CaseLocked(tx[y])
              \/ target(x) = << "psjb", tx[y].document >> /\ (PsjbLocked(tx[y]) \/ PsjbShared(tx[y]))
              \/ target(x) = << "ppjb", tx[y].document >> /\ PpjbLocked(tx[y])
              \/ \E u \in Unit : target(x) = << "unit", u >> /\ UnitLocked(tx[y], u)
  <1>1. PICK l \in locks : l.tx = y /\ l.row = target(x) /\ l.tx # x
    BY DEF blockers
  <1>2. Claimed(l)
    BY DEF TxInvariant
  <1>3. y \in Tx \ {x}
    BY <1>1, <1>2 DEF Claimed
  <1> QED BY <1>1, <1>2, <1>3 DEF Claimed

-----------------------------------------------------------------------------
(* MoveSalesCaseUnit never violates an index. *)

LEMMA MoveFindsNoClash ==
    ASSUME DataInvariant, TxInvariant, NEW t \in Tx,
           tx[t].handler = "MoveSalesCaseUnit", At(t, "InsertCase")
    PROVE  ~ violatesIndex(t)
  <1>1. /\ Fresh(t) /\ UnitChecked(tx[t]) /\ CaseLocked(tx[t]) /\ Checked(tx[t])
    BY Stands DEF At, Orderly, HandlerNames
  <1>2. Settled(t)
    BY <1>1 DEF Settled
  <1>3. /\ caseOf(t) \in Case /\ status(caseOf(t)) = "ACTIVE" /\ tx[t].row = sales_cases[caseOf(t)]
    BY <1>2, SettledCase
  <1>4. activeSalesCases(req(t).unit) = {}
    BY <1>1 DEF Fresh, req
  <1>5. keys(t) = << req(t).unit, tx[t].row.consumer_id >>
    BY DEF keys
  <1>6. ASSUME NEW c \in Case, status(c) = "ACTIVE", clash(keys(t), keysOfCase(c))
        PROVE  c = caseOf(t)
    <2>1. sales_cases[c].unit_id # req(t).unit
      BY <1>4, <1>6 DEF activeSalesCases, IsActive, Found, Exists, Absent, DataInvariant, Untrashed
    <2>2. sales_cases[c].consumer_id = sales_cases[caseOf(t)].consumer_id
      BY <1>3, <1>5, <1>6, <2>1 DEF clash, keysOfCase
    <2> HIDE DEF caseOf
    <2> QED BY <1>3, <1>6, <2>2 DEF DataInvariant, OneActiveCase
  <1>7. hasClosedCase(t)
    BY DEF hasClosedCase
  <1> QED BY <1>6, <1>7 DEF violatesIndex

\* MoveNeverViolatesIndex: the checks and locks of a move leave no ACTIVE case that
\* its INSERT could clash with.
THEOREM MovesInsertCleanly == TxSpec => []MoveNeverViolatesIndex
  <1>1. DataInvariant /\ TxInvariant => MoveNeverViolatesIndex
    BY MoveFindsNoClash DEF MoveNeverViolatesIndex
  <1> QED BY <1>1, InvariantsHold, PTL

-----------------------------------------------------------------------------
(* Waiting ascends.  Without the two handlers that lock a document before  *)
(* its case, whoever is waited for stands higher: later in the order case, *)
(* document or unit, second unit, index; or, among moves that go for their *)
(* second unit, with a first unit of a higher id.                          *)

FirstLocks == {"LockPsjb", "SharePsjb", "LockPpjb", "LockUnit", "LockFirstUnit"}

standing(t) ==
    CASE At(t, "LockCase")                                               -> 0
      [] \E s \in FirstLocks : At(t, s)                                  -> 1
      [] At(t, "LockSecondUnit") /\ oldFirst(tx[t])                      -> 2
      [] At(t, "InsertCase") /\ tx[t].handler = "CreateSalesCase"        -> 3
      [] At(t, "UpdateUnit")                                             -> 4
      [] At(t, "LockSecondUnit") /\ ~ oldFirst(tx[t])                    -> 5
      [] At(t, "InsertCase") /\ tx[t].handler # "CreateSalesCase"        -> 6
      [] OTHER                                                           -> 7

firstId(t) == IF At(t, "LockSecondUnit") THEN UnitRank[firstUnit(tx[t])] ELSE 0

Higher(y, x) ==
    \/ standing(x) < standing(y)
    \/ standing(x) = standing(y) /\ firstId(x) < firstId(y)

LEMMA StandingOf ==
    ASSUME NEW t
    PROVE  /\ standing(t) \in 0..7
           /\ At(t, "LockCase") <=> standing(t) = 0
           /\ (\E s \in FirstLocks : At(t, s)) <=> standing(t) = 1
           /\ (At(t, "LockSecondUnit") /\ oldFirst(tx[t])) <=> standing(t) = 2
           /\ (At(t, "InsertCase") /\ tx[t].handler = "CreateSalesCase") <=> standing(t) = 3
           /\ At(t, "UpdateUnit") <=> standing(t) = 4
           /\ (At(t, "LockSecondUnit") /\ ~ oldFirst(tx[t])) <=> standing(t) = 5
           /\ (At(t, "InsertCase") /\ tx[t].handler # "CreateSalesCase") <=> standing(t) = 6
  <1> DEFINE o == oldFirst(tx[t])
  <1> HIDE DEF o
  <1>1. CASE tx[t].todo = << >>
    <2>1. \A s : ~ At(t, s)
      BY <1>1 DEF At
    <2>2. standing(t) = 7
      BY <2>1 DEF standing
    <2> QED BY <2>1, <2>2
  <1>2. CASE tx[t].todo # << >>
    <2>1. \A s : At(t, s) <=> Head(tx[t].todo) = s
      BY <1>2 DEF At
    <2> HIDE DEF At
    <2>2. CASE At(t, "LockCase")
      BY <2>1, <2>2 DEF standing, FirstLocks
    <2>3. CASE \E s \in FirstLocks : At(t, s)
      BY <2>1, <2>3 DEF standing, FirstLocks
    <2>4. CASE At(t, "LockSecondUnit")
      BY <2>1, <2>4 DEF standing, FirstLocks
    <2>5. CASE At(t, "InsertCase")
      BY <2>1, <2>5 DEF standing, FirstLocks
    <2>6. CASE At(t, "UpdateUnit")
      BY <2>1, <2>6 DEF standing, FirstLocks
    <2>7. CASE /\ ~ At(t, "LockCase") /\ ~ At(t, "LockSecondUnit") /\ ~ At(t, "InsertCase")
               /\ ~ At(t, "UpdateUnit") /\ ~ \E s \in FirstLocks : At(t, s)
      BY <2>1, <2>7 DEF standing
    <2> QED BY <2>2, <2>3, <2>4, <2>5, <2>6, <2>7
  <1> QED BY <1>1, <1>2

\* Where a transaction stands that holds a row.
LEMMA CaseHolderStands ==
    ASSUME TxInvariant, NEW y \in Tx, CaseLocked(tx[y])
    PROVE  standing(y) > 0
  <1>1. ~ At(y, "LockCase")
    BY Stands DEF At, Orderly, BeforeCase, NothingDone
  <1> QED BY <1>1, StandingOf

LEMMA DocumentHolderStands ==
    ASSUME TxInvariant, NEW y \in Tx, tx[y].handler \notin DocumentFirst,
           PsjbLocked(tx[y]) \/ PsjbShared(tx[y]) \/ PpjbLocked(tx[y])
    PROVE  standing(y) > 1
  <1>1. tx[y].handler \in HandlerNames
    BY DEF PsjbLocked, PsjbShared, PpjbLocked, HandlerNames
  <1>2. Orderly(tx[y], Head(tx[y].todo))
    BY <1>1, Stands
  <1>3. CaseLocked(tx[y])
    BY <1>2 DEF Orderly, DocumentFirst
  <1>4. ~ At(y, "LockCase")
    BY <1>2, <1>3 DEF At, Orderly, BeforeCase, NothingDone
  <1>5. ASSUME NEW s \in FirstLocks, At(y, s) PROVE FALSE
    <2>1. s = Head(tx[y].todo)
      BY <1>5 DEF At
    <2>2. CASE s \in {"LockPsjb", "SharePsjb"}
      BY <1>2, <2>1, <2>2 DEF Orderly, PsjbLocked, PsjbShared, PpjbLocked, DocumentFirst
    <2>3. CASE s = "LockPpjb"
      BY <1>2, <2>1, <2>3 DEF Orderly, PsjbLocked, PsjbShared, PpjbLocked, DocumentFirst
    <2>4. CASE s \in {"LockUnit", "LockFirstUnit"}
      BY <1>2, <2>1, <2>4 DEF Orderly, PsjbLocked, PsjbShared, PpjbLocked
    <2> QED BY <2>2, <2>3, <2>4 DEF FirstLocks
  <1> QED BY <1>4, <1>5, StandingOf

BookingHolds(y, u) == /\ tx[y].handler = "CreateSalesCase" /\ u = req(y).unit
                      /\ standing(y) = 7 \/ (standing(y) = 3 /\ UnitChecked(tx[y]))
MoveHolds(y, u) == /\ tx[y].handler = "MoveSalesCaseUnit" /\ Settled(y)
                   /\ \/ standing(y) \in {6, 7}
                      \/ At(y, "LockSecondUnit") /\ u = firstUnit(tx[y])
UpdateHolds(y, u) == tx[y].handler \in {"CloseSalesCase", "CreateAkad", "CreateBast"} /\ standing(y) = 7

LEMMA UnitHolderStands ==
    ASSUME TxInvariant, NEW y \in Tx, NEW u, UnitLocked(tx[y], u)
    PROVE  BookingHolds(y, u) \/ MoveHolds(y, u) \/ UpdateHolds(y, u)
  <1> DEFINE h == tx[y].handler
             a == Head(tx[y].todo)
  <1>1. /\ h \in {"CreateSalesCase", "MoveSalesCaseUnit", "CloseSalesCase", "CreateAkad", "CreateBast"}
        /\ h \in HandlerNames
    BY DEF UnitLocked, HandlerNames
  <1>2. Orderly(tx[y], a) /\ \A s : At(y, s) <=> a = s
    BY <1>1, Stands DEF At
  <1>3. ~ At(y, "LockCase") /\ ~ \E s \in FirstLocks : At(y, s)
    <2>1. a # "LockCase" /\ a # "LockUnit" /\ a # "LockFirstUnit"
      BY <1>2 DEF Orderly, BeforeCase, NothingDone
    <2>2. a # "LockPsjb" /\ a # "SharePsjb" /\ a # "LockPpjb"
      BY <1>1, <1>2 DEF Orderly
    <2> QED BY <1>2, <2>1, <2>2 DEF FirstLocks
  <1>4. h # "MoveSalesCaseUnit" => ~ At(y, "LockSecondUnit")
    BY <1>2 DEF Orderly
  <1>5. h \notin {"CreateSalesCase", "MoveSalesCaseUnit"} => ~ At(y, "InsertCase")
    BY <1>2 DEF Orderly
  <1>6. ~ At(y, "UpdateUnit")
    BY <1>2 DEF Orderly
  <1>7. standing(y) \in {2, 3, 5, 6, 7}
    BY <1>3, <1>6, StandingOf
  <1>8. CASE h = "CreateSalesCase"
    <2>1. standing(y) \in {3, 7}
      BY <1>4, <1>7, <1>8, StandingOf
    <2>2. standing(y) = 3 => UnitChecked(tx[y])
      BY <1>2, StandingOf DEF Orderly
    <2>3. u = req(y).unit
      BY <1>8 DEF UnitLocked, req
    <2> QED BY <1>8, <2>1, <2>2, <2>3 DEF BookingHolds
  <1>9. CASE h = "MoveSalesCaseUnit"
    <2>1. Settled(y)
      BY <1>2, <1>9 DEF Orderly, Settled
    <2>2. standing(y) \in {6, 7} \/ At(y, "LockSecondUnit")
      BY <1>7, <1>9, StandingOf
    <2>3. At(y, "LockSecondUnit") => u = firstUnit(tx[y])
      BY <1>2, <1>9 DEF Orderly, UnitLocked
    <2> QED BY <1>9, <2>1, <2>2, <2>3 DEF MoveHolds
  <1>10. CASE h \in {"CloseSalesCase", "CreateAkad", "CreateBast"}
    BY <1>4, <1>5, <1>7, <1>10, StandingOf DEF UpdateHolds
  <1> QED BY <1>1, <1>8, <1>9, <1>10

\* Nobody who holds the unit of a settled case stands below its handlers.
LEMMA HolderOfSettledUnit ==
    ASSUME DataInvariant, TxInvariant, NEW x \in Tx, NEW y \in Tx \ {x}, Settled(x),
           UnitLocked(tx[y], tx[x].row.unit_id)
    PROVE  \/ standing(y) \in {6, 7}
           \/ /\ standing(y) = 5 /\ tx[y].handler = "MoveSalesCaseUnit"
              /\ tx[x].row.unit_id = firstUnit(tx[y])
  <1> DEFINE u == tx[x].row.unit_id
  <1>1. CASE BookingHolds(y, u)
    <2>1. UnitChecked(tx[y]) => u # req(y).unit
      BY CheckedUnitIsFree
    <2> QED BY <1>1, <2>1 DEF BookingHolds
  <1>2. CASE MoveHolds(y, u)
    <2>1. u # tx[y].row.unit_id
      BY <1>2, SettledCasesDiffer DEF MoveHolds
    <2>2. At(y, "LockSecondUnit") /\ u = firstUnit(tx[y]) => ~ oldFirst(tx[y])
      BY <2>1 DEF firstUnit
    <2> QED BY <1>2, <2>2, StandingOf DEF MoveHolds
  <1>3. CASE UpdateHolds(y, u)
    BY <1>3 DEF UpdateHolds
  <1> QED BY <1>1, <1>2, <1>3, UnitHolderStands

\* The row a transaction goes for.
LEMMA TargetOf ==
    ASSUME NEW t
    PROVE  /\ At(t, "LockCase") => target(t) = << "case", caseOf(t) >>
           /\ At(t, "LockPsjb") \/ At(t, "SharePsjb") => target(t) = << "psjb", tx[t].document >>
           /\ At(t, "LockPpjb") => target(t) = << "ppjb", tx[t].document >>
           /\ At(t, "LockUnit") => target(t) = << "unit", req(t).unit >>
           /\ At(t, "UpdateUnit") => target(t) = << "unit", tx[t].row.unit_id >>
           /\ At(t, "LockFirstUnit") => target(t) = << "unit", firstUnit(tx[t]) >>
           /\ At(t, "LockSecondUnit") => target(t) = << "unit", secondUnit(tx[t]) >>
           /\ standing(t) = 7 => target(t) = << None, None >>
  <1>1. /\ unitOrder(t)[1] = firstUnit(tx[t]) /\ unitOrder(t)[2] = secondUnit(tx[t])
    BY DEF unitOrder, firstUnit, secondUnit, oldFirst, req
  <1>2. \A s, q : At(t, s) /\ At(t, q) => s = q
    BY DEF At
  <1>3. At(t, "LockCase") => target(t) = << "case", caseOf(t) >>
    BY <1>2 DEF target
  <1>4. At(t, "LockPsjb") \/ At(t, "SharePsjb") => target(t) = << "psjb", tx[t].document >>
    BY <1>2 DEF target
  <1>5. At(t, "LockPpjb") => target(t) = << "ppjb", tx[t].document >>
    BY <1>2 DEF target
  <1>6. At(t, "LockUnit") => target(t) = << "unit", req(t).unit >>
    BY <1>2 DEF target
  <1>7. At(t, "UpdateUnit") => target(t) = << "unit", tx[t].row.unit_id >>
    BY <1>2 DEF target
  <1>8. At(t, "LockFirstUnit") => target(t) = << "unit", firstUnit(tx[t]) >>
    BY <1>1, <1>2 DEF target
  <1>9. At(t, "LockSecondUnit") => target(t) = << "unit", secondUnit(tx[t]) >>
    BY <1>1, <1>2 DEF target
  <1>10. standing(t) = 7 => target(t) = << None, None >>
    <2> SUFFICES ASSUME standing(t) = 7 PROVE target(t) = << None, None >>
      OBVIOUS
    <2>1. /\ ~ At(t, "LockCase") /\ ~ At(t, "UpdateUnit") /\ ~ At(t, "LockSecondUnit")
          /\ ~ \E s \in FirstLocks : At(t, s)
      BY StandingOf
    <2>2. /\ ~ At(t, "LockPsjb") /\ ~ At(t, "SharePsjb") /\ ~ At(t, "LockPpjb")
          /\ ~ At(t, "LockUnit") /\ ~ At(t, "LockFirstUnit")
      BY <2>1 DEF FirstLocks
    <2> QED BY <2>1, <2>2 DEF target
  <1> QED BY <1>3, <1>4, <1>5, <1>6, <1>7, <1>8, <1>9, <1>10

\* A document that is locked has an id.
LEMMA LockedIdsExist ==
    ASSUME DataInvariant, TxInvariant, NEW y \in Tx
    PROVE  /\ CaseLocked(tx[y]) => caseOf(y) # None
           /\ PsjbLocked(tx[y]) \/ PsjbShared(tx[y]) \/ PpjbLocked(tx[y]) => tx[y].document # None
  <1> SUFFICES ASSUME CaseLocked(tx[y]) \/ PsjbLocked(tx[y]) \/ PsjbShared(tx[y]) \/ PpjbLocked(tx[y])
               PROVE  /\ CaseLocked(tx[y]) => caseOf(y) # None
                      /\ PsjbLocked(tx[y]) \/ PsjbShared(tx[y]) \/ PpjbLocked(tx[y]) =>
                            tx[y].document # None
    OBVIOUS
  <1>1. tx[y].handler \in HandlerNames
    BY DEF CaseLocked, OnCase, PsjbLocked, PsjbShared, PpjbLocked, HandlerNames
  <1>2. Orderly(tx[y], Head(tx[y].todo)) /\ Proper(y) /\ Fresh(y)
    BY <1>1, Stands
  <1>3. CaseLocked(tx[y]) => caseOf(y) \in Case
    BY <1>1, <1>2, CaseOfExists DEF CaseLocked
  <1>4. PsjbLocked(tx[y]) \/ PsjbShared(tx[y]) => tx[y].document \in Psjb
    BY <1>2 DEF Orderly, Proper, Fresh, activePsjb, PsjbLocked
  <1>5. PpjbLocked(tx[y]) => tx[y].document \in Ppjb
    BY <1>2 DEF Orderly, Proper, Fresh, activePpjb, PpjbLocked
  <1> HIDE DEF caseOf
  <1> QED BY <1>3, <1>4, <1>5, TablesAssumption

LEMMA SecondUnitHolder ==
    ASSUME DataInvariant, TxInvariant, NEW x \in Tx, NEW y \in blockers(x),
           At(x, "LockSecondUnit")
    PROVE  Higher(y, x)
  <1> DEFINE u == firstUnit(tx[x])
             v == secondUnit(tx[x])
             j == tx[x]
  <1>1. /\ y \in Tx \ {x} /\ UnitLocked(tx[y], v)
        /\ \E l \in locks : l.tx = y /\ l.row = << "unit", v >>
    <2>1. target(x) = << "unit", v >>
      BY TargetOf
    <2> HIDE DEF v
    <2> QED BY <2>1, BlockerHolds
  <1>2. /\ j.handler = "MoveSalesCaseUnit" /\ Settled(x) /\ Done(j, "LockFirstUnit") /\ Holding(x)
        /\ j.handler \in HandlerNames
    BY Stands DEF At, Orderly, Settled
  <1>3. j.row.unit_id \in Unit /\ j.request.unit \in Unit
    BY <1>2, UnitsDoExist DEF UnitsExist, Settled, req
  <1>4. /\ UnitRank[j.row.unit_id] \in Nat /\ UnitRank[j.request.unit] \in Nat
        /\ UnitRank[j.row.unit_id] = UnitRank[j.request.unit] => j.row.unit_id = j.request.unit
    BY <1>3, TransactionsAssumption
  <1>5. firstId(x) = UnitRank[u]
    BY DEF firstId
  <1>6. At(y, "LockSecondUnit") => firstId(y) = UnitRank[firstUnit(tx[y])]
    BY DEF firstId
  <1>7. u # v
    <2>1. u \in Unit /\ UnitLocked(j, u)
      BY <1>2, <1>3 DEF UnitLocked, firstUnit
    <2>2. Lock(x, << "unit", u >>, "UPDATE") \in locks
      BY <1>2, <2>1 DEF Holding
    <2>3. PICK l \in locks : l.tx = y /\ l.row = << "unit", v >>
      BY <1>1
    <2> HIDE DEF u, v
    <2>4. l.row # << "unit", u >>
      <3> DEFINE k == Lock(x, << "unit", u >>, "UPDATE")
      <3>1. k \in locks /\ k.tx = x /\ k.row = << "unit", u >> /\ k.mode = "UPDATE"
        BY <2>2 DEF Lock
      <3> HIDE DEF k
      <3> QED BY <1>1, <2>3, <3>1 DEF TxInvariant, OneHolder
    <2> QED BY <2>3, <2>4
  <1>8. CASE oldFirst(j)
    <2>1. v = j.request.unit /\ u = j.row.unit_id /\ standing(x) = 2
          /\ UnitRank[u] <= UnitRank[v]
      BY <1>8, StandingOf DEF firstUnit, secondUnit, oldFirst
    <2>2. UnitRank[u] < UnitRank[v]
      BY <1>4, <1>7, <2>1
    <2> HIDE DEF u, v
    <2>3. BookingHolds(y, v) \/ UpdateHolds(y, v) => standing(y) \in {3, 7}
      BY DEF BookingHolds, UpdateHolds
    <2>4. MoveHolds(y, v) => \/ standing(y) \in {5, 6, 7}
                             \/ standing(y) = 2 /\ firstId(y) = UnitRank[v]
      <3>1. At(y, "LockSecondUnit") => standing(y) \in {2, 5}
        BY StandingOf
      <3> QED BY <1>6, <3>1 DEF MoveHolds
    <2>5. standing(y) \in {3, 5, 6, 7} \/ (standing(y) = 2 /\ firstId(y) = UnitRank[v])
      BY <1>1, <2>3, <2>4, UnitHolderStands
    <2> QED BY <1>5, <2>1, <2>2, <2>5 DEF Higher
  <1>9. CASE ~ oldFirst(j)
    <2>1. v = j.row.unit_id /\ u = j.request.unit /\ standing(x) = 5
          /\ ~ (UnitRank[v] <= UnitRank[u])
      BY <1>9, StandingOf DEF firstUnit, secondUnit, oldFirst
    <2>2. \/ standing(y) \in {6, 7}
          \/ standing(y) = 5 /\ v = firstUnit(tx[y])
      BY <1>1, <1>2, <2>1, HolderOfSettledUnit
    <2>3. UnitRank[u] < UnitRank[v]
      BY <1>4, <2>1
    <2> HIDE DEF u, v
    <2>4. standing(y) = 5 => At(y, "LockSecondUnit")
      BY StandingOf
    <2> QED BY <1>5, <1>6, <2>1, <2>2, <2>3, <2>4 DEF Higher
  <1> QED BY <1>8, <1>9

LEMMA IndexHolder ==
    ASSUME DataInvariant, TxInvariant, NEW x \in Tx, NEW y \in waitsFor(x), At(x, "InsertCase")
    PROVE  y \in Tx /\ Higher(y, x)
  <1>1. y \in inserters(x) \cup closers(x)
    BY DEF waitsFor
  <1>2. y \in Tx \ {x}
    BY <1>1 DEF inserters, closers
  <1>3. standing(x) = IF tx[x].handler = "CreateSalesCase" THEN 3 ELSE 6
    BY StandingOf
  <1>4. CASE hasInsertedCase(y)
    <2>1. Head(tx[y].todo) = "Commit"
      BY <1>4 DEF hasInsertedCase, At
    <2>2. standing(y) = 7
      BY <2>1, StandingOf DEF At, FirstLocks
    <2> QED BY <1>2, <1>3, <2>2 DEF Higher
  <1>5. CASE hasClosedCase(y) /\ clash(keys(x), keysOfCase(caseOf(y)))
    <2>1. /\ tx[y].handler \in {"CloseSalesCase", "MoveSalesCaseUnit"} /\ tx[y].handler \in HandlerNames
          /\ Head(tx[y].todo) \in {"CheckRelease", "UpdateUnit", "InsertCase", "Commit"}
          /\ tx[y].handler = "CloseSalesCase" => Head(tx[y].todo) # "InsertCase"
          /\ tx[y].handler = "MoveSalesCaseUnit" => Head(tx[y].todo) \in {"InsertCase", "Commit"}
      BY <1>5 DEF hasClosedCase, At, HandlerNames
    <2>2. standing(y) \in {4, 6, 7}
      <3>1. ~ At(y, "LockCase") /\ ~ At(y, "LockSecondUnit") /\ ~ \E s \in FirstLocks : At(y, s)
        BY <2>1 DEF At, FirstLocks
      <3>2. tx[y].handler # "CreateSalesCase"
        BY <2>1
      <3> QED BY <3>1, <3>2, StandingOf
    <2>3. CASE tx[x].handler = "CreateSalesCase"
      BY <1>2, <1>3, <2>2, <2>3 DEF Higher
    <2>4. CASE tx[x].handler # "CreateSalesCase"
      <3>1. Orderly(tx[x], "InsertCase") /\ Orderly(tx[y], Head(tx[y].todo))
        BY <1>2, <2>1, Stands DEF At
      <3>2. Settled(x) /\ UnitChecked(tx[x]) /\ tx[x].handler = "MoveSalesCaseUnit"
        BY <2>4, <3>1 DEF Orderly, Settled
      <3>3. Settled(y)
        BY <2>1, <3>1 DEF Orderly, Settled
      <3>4. keysOfCase(caseOf(y)) = << tx[y].row.unit_id, tx[y].row.consumer_id >>
        BY <1>2, <3>3, SettledCase DEF keysOfCase
      <3>5. keys(x) = << req(x).unit, tx[x].row.consumer_id >>
        BY <3>2 DEF keys
      <3>6. tx[y].row.unit_id # req(x).unit /\ tx[x].row.consumer_id # tx[y].row.consumer_id
        BY <1>2, <3>2, <3>3, CheckedUnitIsFree, SettledCasesDiffer
      <3> HIDE DEF keys, keysOfCase, caseOf, req
      <3>7. FALSE
        BY <1>5, <3>4, <3>5, <3>6 DEF clash
      <3> QED BY <3>7
    <2> QED BY <2>3, <2>4
  <1> QED BY <1>1, <1>4, <1>5 DEF inserters, closers

LEMMA WaitsAscend ==
    ASSUME DataInvariant, TxInvariant, NEW x \in Tx, NEW y \in waitsFor(x),
           tx[y].handler \notin DocumentFirst
    PROVE  y \in Tx /\ Higher(y, x)
  <1>1. CASE At(x, "InsertCase")
    BY <1>1, IndexHolder
  <1> SUFFICES ASSUME ~ At(x, "InsertCase") PROVE y \in Tx /\ Higher(y, x)
    BY <1>1
  <1>2. y \in blockers(x)
    BY DEF waitsFor
  <1>3. /\ y \in Tx \ {x}
        /\ \/ target(x) = << "case", caseOf(y) >> /\ CaseLocked(tx[y])
           \/ target(x) = << "psjb", tx[y].document >> /\ (PsjbLocked(tx[y]) \/ PsjbShared(tx[y]))
           \/ target(x) = << "ppjb", tx[y].document >> /\ PpjbLocked(tx[y])
           \/ \E u \in Unit : target(x) = << "unit", u >> /\ UnitLocked(tx[y], u)
    BY <1>2, BlockerHolds
  <1>4. CASE At(x, "LockCase")
    <2>1. target(x) = << "case", caseOf(x) >> /\ standing(x) = 0
      BY <1>4, TargetOf, StandingOf
    <2>2. CaseLocked(tx[y])
      BY <1>3, <2>1
    <2> QED BY <1>3, <2>1, <2>2, CaseHolderStands, StandingOf DEF Higher
  <1>5. CASE \E s \in FirstLocks : At(x, s)
    <2>1. standing(x) = 1
      BY <1>5, StandingOf
    <2>2. target(x)[1] \in {"psjb", "ppjb", "unit"}
      BY <1>5, TargetOf DEF FirstLocks
    <2>3. ASSUME NEW u \in Unit, UnitLocked(tx[y], u) PROVE standing(y) > 1
      <3>1. standing(y) \in {3, 6, 7} \/ At(y, "LockSecondUnit")
        BY <1>3, <2>3, UnitHolderStands DEF BookingHolds, MoveHolds, UpdateHolds
      <3> QED BY <3>1, StandingOf
    <2>4. standing(y) > 1
      BY <1>3, <2>2, <2>3, DocumentHolderStands
    <2> QED BY <1>3, <2>1, <2>4, StandingOf DEF Higher
  <1>6. CASE At(x, "LockSecondUnit")
    BY <1>2, <1>3, <1>6, SecondUnitHolder
  <1>7. CASE At(x, "UpdateUnit")
    <2>1. target(x) = << "unit", tx[x].row.unit_id >> /\ standing(x) = 4
      BY <1>7, TargetOf, StandingOf
    <2>2. UnitLocked(tx[y], tx[x].row.unit_id)
      BY <1>3, <2>1
    <2>3. Settled(x)
      BY <1>7, Stands DEF At, Orderly, Settled
    <2>4. standing(y) \in {5, 6, 7}
      BY <1>3, <2>2, <2>3, HolderOfSettledUnit
    <2> QED BY <1>3, <2>1, <2>4 DEF Higher
  <1>8. CASE standing(x) = 7
    <2>1. target(x) = << None, None >>
      BY <1>8, TargetOf
    <2>2. FALSE
      <3>1. caseOf(y) = None => ~ CaseLocked(tx[y])
        BY <1>3, LockedIdsExist
      <3>2. tx[y].document = None => ~ PsjbLocked(tx[y]) /\ ~ PsjbShared(tx[y]) /\ ~ PpjbLocked(tx[y])
        BY <1>3, LockedIdsExist
      <3>3. None \notin Unit
        BY TablesAssumption
      <3> HIDE DEF caseOf
      <3> QED BY <1>3, <2>1, <3>1, <3>2, <3>3
    <2> QED BY <2>2
  <1>9. standing(x) \in 0..7 /\ standing(x) \notin {3, 6}
    BY StandingOf
  <1> QED BY <1>4, <1>5, <1>6, <1>7, <1>8, <1>9, StandingOf

-----------------------------------------------------------------------------
(* A finite set has a highest element.                                     *)

LEMMA NoEndlessAscent ==
    ASSUME NEW S, IsFiniteSet(S), S # {}, NEW above,
           \A x \in S : << x, x >> \notin above,
           \A x, y, z \in S : << x, y >> \in above /\ << y, z >> \in above => << x, z >> \in above
    PROVE  \E x \in S : \A y \in S : << x, y >> \notin above
  <1> DEFINE up(x) == { y \in S : << x, y >> \in above }
             ups == { up(x) : x \in S }
  <1>1. IsWellFoundedOn(StrictSubsetOrdering(S), FiniteSubsetsOf(S))
    BY FS_StrictSubsetOrderingWellFounded
  <1>2. ups \subseteq FiniteSubsetsOf(S) /\ ups # {}
    <2>1. ASSUME NEW x \in S PROVE up(x) \in SUBSET S /\ IsFiniteSet(up(x))
      <3>1. up(x) \in SUBSET S
        OBVIOUS
      <3> HIDE DEF up
      <3> QED BY <3>1, FS_Subset
    <2>2. \A u \in ups : u \in SUBSET S /\ IsFiniteSet(u)
      <3> HIDE DEF up
      <3> QED BY <2>1
    <2>3. ups # {}
      <3>1. PICK x \in S : TRUE
        OBVIOUS
      <3>2. up(x) \in ups
        <4> HIDE DEF up
        <4> QED OBVIOUS
      <3> QED BY <3>2
    <2> HIDE DEF ups
    <2> QED BY <2>2, <2>3 DEF FiniteSubsetsOf
  <1> HIDE DEF ups
  <1>3. PICK u \in ups : \A v \in ups : << v, u >> \notin StrictSubsetOrdering(S)
    BY <1>1, <1>2, WFMin
  <1>4. PICK x \in S : u = up(x)
    BY DEF ups
  <1>5. ASSUME NEW y \in S, << x, y >> \in above PROVE FALSE
    <2>1. up(y) \subseteq up(x)
      BY <1>5
    <2>2. y \in up(x) /\ y \notin up(y)
      BY <1>5
    <2>3. up(y) \in ups /\ up(y) \in SUBSET S /\ up(x) \in SUBSET S
      BY DEF ups
    <2> HIDE DEF up
    <2>4. up(x) # up(y)
      BY <2>2
    <2>5. << up(y), up(x) >> \in StrictSubsetOrdering(S)
      BY <2>1, <2>3, <2>4 DEF StrictSubsetOrdering
    <2> QED BY <1>3, <1>4, <2>3, <2>5
  <1> QED BY <1>5

LEMMA NoCycleWithoutDocumentFirst ==
    ASSUME DataInvariant, TxInvariant, NEW S \in SUBSET Tx, S # {}, inCycle(S),
           \A t \in S : tx[t].handler \notin DocumentFirst
    PROVE  FALSE
  <1> DEFINE above == { p \in S \X S : Higher(p[2], p[1]) }
  <1>1. IsFiniteSet(S)
    BY TransactionsAssumption, FS_Subset
  <1>2. ASSUME NEW t \in S PROVE standing(t) \in 0..7 /\ firstId(t) \in Nat
    <2>1. CASE At(t, "LockSecondUnit")
      <3>1. tx[t].handler = "MoveSalesCaseUnit" /\ CaseLocked(tx[t])
        BY <2>1, Stands DEF At, Orderly
      <3>2. tx[t].row.unit_id \in Unit /\ req(t).unit \in Unit
        BY <3>1, UnitsDoExist DEF UnitsExist
      <3>3. firstUnit(tx[t]) \in Unit
        BY <3>2 DEF firstUnit, req
      <3> QED BY <2>1, <3>3, StandingOf, TransactionsAssumption DEF firstId
    <2>2. CASE ~ At(t, "LockSecondUnit")
      BY <2>2, StandingOf DEF firstId
    <2> QED BY <2>1, <2>2
  <1>3. \A x, y \in S : << x, y >> \in above <=> Higher(y, x)
    OBVIOUS
  <1> HIDE DEF above
  <1>4. \A x \in S : << x, x >> \notin above
    BY <1>2, <1>3 DEF Higher
  <1>5. \A x, y, z \in S : << x, y >> \in above /\ << y, z >> \in above => << x, z >> \in above
    <2> SUFFICES ASSUME NEW x \in S, NEW y \in S, NEW z \in S, Higher(y, x), Higher(z, y)
                 PROVE  Higher(z, x)
      BY <1>3
    <2> QED BY <1>2 DEF Higher
  <1>6. PICK x \in S : \A y \in S : << x, y >> \notin above
    BY <1>1, <1>4, <1>5, NoEndlessAscent
  <1>7. PICK y \in waitsFor(x) : y \in S
    BY DEF inCycle
  <1>8. Higher(y, x)
    BY <1>7, WaitsAscend
  <1> QED BY <1>3, <1>6, <1>7, <1>8

\* DeadlocksNeedDocumentFirst: every cycle of waiting transactions has one that
\* cancels a PSJB or a PPJB; the other handlers lock in one order.
THEOREM OthersNeverDeadlock == TxSpec => []DeadlocksNeedDocumentFirst
  <1>1. DataInvariant /\ TxInvariant => DeadlocksNeedDocumentFirst
    BY NoCycleWithoutDocumentFirst DEF DeadlocksNeedDocumentFirst
  <1> QED BY <1>1, InvariantsHold, PTL

=============================================================================
