------------------------ MODULE TransactionInvariant ------------------------
(***************************************************************************)
(* What holds between the statements of the handlers: the inductive        *)
(* invariant of HandlerTransactions.  A transaction's progress is read off *)
(* the statements it has left; what it has locked, found or checked stays  *)
(* true until it commits, because of the locks it holds.                   *)
(***************************************************************************)
EXTENDS HandlerTransactions

-----------------------------------------------------------------------------
(* Progress: predicates of the job j = tx[t] of a connection.              *)

Rests(h) == { SubSeq(script(h), i, Len(script(h))) : i \in 1..Len(script(h)) }
Entries(s) == { s[i] : i \in 1..Len(s) }
Done(j, s) == s \notin Entries(j.todo)

OnCase(j) == j.handler \in HandlerNames \ {"CreateSalesCase"}

CaseLocked(j) == OnCase(j) /\ Done(j, "LockCase")
Checked(j) == OnCase(j) /\ Done(j, "Check")
PsjbFound(j) ==
    /\ j.handler \in {"ReissuePsjb", "CreateDocumentSubmission", "CompleteCashPemberkasan"}
    /\ Done(j, "FindPsjb")
PpjbFound(j) ==
    \/ j.handler = "ReissueDeveloperPpjb" /\ Done(j, "FindPpjb")
    \/ j.handler = "CreateAkad" /\ Done(j, "LockPpjb")
PsjbLocked(j) ==
    /\ j.handler \in {"ReissuePsjb", "CreateDocumentSubmission", "CancelPsjb"}
    /\ Done(j, "LockPsjb")
PsjbShared(j) == j.handler = "CompleteCashPemberkasan" /\ Done(j, "SharePsjb")
PpjbLocked(j) ==
    /\ j.handler \in {"ReissueDeveloperPpjb", "CreateAkad", "CancelDeveloperPpjb"}
    /\ Done(j, "LockPpjb")
UnitChecked(j) == j.handler \in {"CreateSalesCase", "MoveSalesCaseUnit"} /\ Done(j, "CheckUnit")
Inserted(j) == j.handler \in {"CreateSalesCase", "MoveSalesCaseUnit"} /\ Done(j, "InsertCase")
Released(j) == j.handler = "CloseSalesCase" /\ Done(j, "CheckRelease")

oldFirst(j) == UnitRank[j.row.unit_id] <= UnitRank[j.request.unit]
firstUnit(j) == IF oldFirst(j) THEN j.row.unit_id ELSE j.request.unit
secondUnit(j) == IF oldFirst(j) THEN j.request.unit ELSE j.row.unit_id

UnitLocked(j, u) ==
    \/ j.handler = "CreateSalesCase" /\ Done(j, "LockUnit") /\ u = j.request.unit
    \/ j.handler = "MoveSalesCaseUnit" /\ Done(j, "LockFirstUnit") /\ u = firstUnit(j)
    \/ j.handler = "MoveSalesCaseUnit" /\ Done(j, "LockSecondUnit") /\ u = secondUnit(j)
    \/ /\ j.handler \in {"CloseSalesCase", "CreateAkad", "CreateBast"}
       /\ Done(j, "UpdateUnit") /\ u = j.row.unit_id

-----------------------------------------------------------------------------
(* Types. *)

Statements == {"LockCase", "Check", "FindPsjb", "LockPsjb", "SharePsjb", "FindPpjb", "LockPpjb",
               "UpdateUnit", "LockUnit", "CheckUnit", "CheckConsumer", "InsertCase",
               "CheckRelease", "LockFirstUnit", "LockSecondUnit", "Commit"}

Data == {<< >>} \cup (Consumer \X FinancingType) \cup ((1..MaxDate) \X BiCheckResult)
        \cup { << s >> : s \in Closings } \cup { << r >> : r \in BankResponseType }
RequestRow ==
    [case : Case \cup {None}, document : Psjb \cup Submission \cup Ppjb \cup {None},
     new : Case \cup Psjb \cup Submission \cup BankProcess \cup Ppjb \cup {None},
     unit : Unit \cup {None}, data : Data]
Job == [handler : HandlerNames \cup {None}, request : RequestRow, todo : Seq(Statements),
        row : CaseRow, document : Psjb \cup Submission \cup Ppjb \cup {None},
        documentStatus : DocumentStatus \cup {Absent}, release : BOOLEAN]

TxTypeOK == tx \in [Tx -> Job]

-----------------------------------------------------------------------------
(* The parts of the invariant, per transaction and per pair. *)

\* The request names rows that exist, and an id that is still free.
Proper(t) ==
    LET h == tx[t].handler
        r == req(t)
    IN  /\ h \in HandlerNames \ {"CreateSalesCase", "CancelPsjb", "CancelDeveloperPpjb"} =>
              r.case \in Case /\ Exists(r.case)
        /\ h = "CancelPsjb" => r.document \in Psjb /\ psjbs[r.document].status # Absent
        /\ h \in {"CancelDeveloperPpjb", "CreateAkad"} =>
              r.document \in Ppjb /\ ppjbs[r.document].status # Absent
        /\ h = "RecordBankResponse" => r.document \in Submission
        /\ h \in {"CreateSalesCase", "MoveSalesCaseUnit"} =>
              r.new \in Case /\ ~ Exists(r.new) /\ r.unit \in Unit
        /\ h \in {"CreatePsjb", "ReissuePsjb"} =>
              r.new \in Psjb /\ psjbs[r.new].status = Absent
        /\ h \in {"CreateDocumentSubmission", "CompleteCashPemberkasan"} =>
              r.new \in Submission /\ submissions[r.new].status = Absent
        /\ h = "RecordBankResponse" =>
              r.new \in BankProcess /\ bank_processes[r.new].response_type = Absent
        /\ h \in {"CreateDeveloperPpjb", "ReissueDeveloperPpjb"} =>
              r.new \in Ppjb /\ ppjbs[r.new].status = Absent
        /\ h = "CreateSalesCase" => r.data[1] \in Consumer /\ r.data[2] \in FinancingType
        /\ h = "CloseSalesCase" => r.data[1] \in Closings
        /\ h = "RecordBiCheck" => r.data[1] \in 1..MaxDate /\ r.data[2] \in BiCheckResult
        /\ h = "RecordBankResponse" => r.data[1] \in BankResponseType
        /\ h \in {"CancelPsjb", "CancelDeveloperPpjb", "CreateAkad"} =>
              tx[t].document = r.document

\* What it has read is still so.
Fresh(t) ==
    LET j == tx[t]
        c == caseOf(t)
    IN  /\ CaseLocked(j) => j.row = sales_cases[c]
        /\ Checked(j) => accepts(t)
        /\ PsjbFound(j) => j.document \in activePsjb(c)
        /\ PpjbFound(j) => j.document \in activePpjb(c)
        /\ j.handler = "CancelPsjb" /\ PsjbLocked(j) =>
              j.documentStatus = psjbs[j.document].status
        /\ j.handler = "CancelDeveloperPpjb" /\ PpjbLocked(j) =>
              j.documentStatus = ppjbs[j.document].status
        /\ UnitChecked(j) =>
              /\ activeSalesCases(j.request.unit) = {}
              /\ j.handler = "MoveSalesCaseUnit" => UnitBranch[j.request.unit] = j.row.branch_id
        /\ Released(j) => j.release
        /\ Inserted(j) =>
              \A k \in Case : status(k) = "ACTIVE" /\ clash(keys(t), keysOfCase(k)) =>
                  j.handler = "MoveSalesCaseUnit" /\ k = c

Lock(t, row, m) == [tx |-> t, row |-> row, mode |-> m]

Holding(t) ==
    LET j == tx[t]
    IN  /\ CaseLocked(j) => Lock(t, << "case", caseOf(t) >>, "UPDATE") \in locks
        /\ PsjbLocked(j) => Lock(t, << "psjb", j.document >>, "UPDATE") \in locks
        /\ PsjbShared(j) => Lock(t, << "psjb", j.document >>, "KEY SHARE") \in locks
        /\ PpjbLocked(j) => Lock(t, << "ppjb", j.document >>, "UPDATE") \in locks
        /\ \A u \in Unit : UnitLocked(j, u) => Lock(t, << "unit", u >>, "UPDATE") \in locks

Own(t) ==
    IF Running(t)
    THEN tx[t].todo \in Rests(tx[t].handler) /\ Proper(t) /\ Fresh(t) /\ Holding(t)
    ELSE tx[t] = Idle

Inserting == {"CreateSalesCase", "MoveSalesCaseUnit", "CreatePsjb", "ReissuePsjb",
              "CreateDocumentSubmission", "CompleteCashPemberkasan", "RecordBankResponse",
              "CreateDeveloperPpjb", "ReissueDeveloperPpjb"}

Apart(t, x) ==
    /\ tx[t].handler \in Inserting /\ tx[x].handler \in Inserting => req(t).new # req(x).new
    /\ Inserted(tx[t]) /\ Inserted(tx[x]) => ~ clash(keys(t), keys(x))

\* A row locked by two transactions is shared by both.
OneHolder ==
    \A l, m \in locks : l.tx # m.tx /\ l.row = m.row => "UPDATE" \notin {l.mode, m.mode}

\* Every lock is one that its transaction has claimed.
Claimed(l) ==
    LET t == l.tx
        j == tx[t]
    IN  /\ t \in Tx
        /\ \/ l.row = << "case", caseOf(t) >> /\ CaseLocked(j)
           \/ l.row = << "psjb", j.document >> /\ (PsjbLocked(j) \/ PsjbShared(j))
           \/ l.row = << "ppjb", j.document >> /\ PpjbLocked(j)
           \/ \E u \in Unit : l.row = << "unit", u >> /\ UnitLocked(j, u)

\* What a running transaction has locked is locked by it alone (or shared), what
\* it has read, found or checked is still true although others commit meanwhile,
\* and no two of them insert the same row or the same entry of a unique index:
\* the ground on which every handler may decide now and write at its commit.
TxInvariant ==
    /\ TxTypeOK
    /\ \A t \in Tx : Own(t)
    /\ \A t, x \in Tx : t # x => Apart(t, x)
    /\ OneHolder
    /\ \A l \in locks : Claimed(l)

=============================================================================
