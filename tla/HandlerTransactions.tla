------------------------- MODULE HandlerTransactions -------------------------
(***************************************************************************)
(* The handlers of SalesOperations statement by statement, as concurrent   *)
(* PostgreSQL transactions at READ COMMITTED.  A transaction locks rows,   *)
(* reads what is committed at each statement, keeps the rows it has        *)
(* locked as they were then, and publishes all its writes when it commits. *)
(* Locks taken by lockForUpdate and by UPDATE are exclusive; the foreign   *)
(* key of an inserted submission shares the lock of its PSJB.  DB::        *)
(* transaction is given no number of attempts, so the transaction that the *)
(* deadlock detector chooses fails for good.                               *)
(***************************************************************************)
EXTENDS SalesOperations, Sequences, FiniteSets

CONSTANTS
    Tx,             \* database connections
    Handlers,       \* the handlers this instance runs
    Financings,     \* the financing types cases are booked with
    UnitRank        \* the order of the units' ids

HandlerNames ==
    { "CreateSalesCase", "CloseSalesCase", "MoveSalesCaseUnit", "RecordBiCheck",
      "CreatePsjb", "ReissuePsjb", "CancelPsjb", "CreateDocumentSubmission",
      "CompleteCashPemberkasan", "RecordBankResponse", "CreateDeveloperPpjb",
      "ReissueDeveloperPpjb", "CancelDeveloperPpjb", "CreateAkad", "CreateBast" }

\* Ids are ordered, connections are limited in number, and the bound on the
\* sequence, which the code does not have, leaves room for every submission.
ASSUME TransactionsAssumption ==
    /\ None \notin HandlerNames
    /\ Handlers \subseteq HandlerNames
    /\ Financings \subseteq FinancingType
    /\ UnitRank \in [Unit -> Nat]
    /\ \A u, v \in Unit : UnitRank[u] = UnitRank[v] => u = v
    /\ IsFiniteSet(Tx)
    /\ IsFiniteSet(Submission) /\ Cardinality(Submission) <= MaxSequence

VARIABLES
    tx,             \* the transaction each connection runs
    locks           \* row locks held

txVars == << tx, locks >>
allVars == << vars, txVars >>

NoRequest == [case |-> None, document |-> None, new |-> None, unit |-> None, data |-> << >>]
Idle == [handler |-> None, request |-> NoRequest, todo |-> << >>,
         row |-> NoCaseRow, document |-> None, documentStatus |-> Absent, release |-> FALSE]

Running(t) == tx[t].handler # None
At(t, statement) == tx[t].todo # << >> /\ Head(tx[t].todo) = statement

-----------------------------------------------------------------------------
(* The statements of each handler, in the order of its code.               *)

\* Mutant: a move does not look at its new unit.
lifecycleScriptWithoutUnitCheck(handler) ==
    CASE handler = "CreateSalesCase"   -> << "LockUnit", "CheckUnit", "CheckConsumer", "InsertCase", "Commit" >>
      [] handler = "CloseSalesCase"    -> << "LockCase", "Check", "CheckRelease", "UpdateUnit", "Commit" >>
      [] handler = "MoveSalesCaseUnit" -> << "LockCase", "Check", "LockFirstUnit", "LockSecondUnit",
                                             "CheckConsumer", "InsertCase", "Commit" >>

lifecycleScript(handler) ==
    CASE handler = "CreateSalesCase"   -> << "LockUnit", "CheckUnit", "CheckConsumer", "InsertCase", "Commit" >>
      [] handler = "CloseSalesCase"    -> << "LockCase", "Check", "CheckRelease", "UpdateUnit", "Commit" >>
      [] handler = "MoveSalesCaseUnit" -> << "LockCase", "Check", "LockFirstUnit", "LockSecondUnit",
                                             "CheckUnit", "CheckConsumer", "InsertCase", "Commit" >>

\* Mutant: the Akad locks the PPJB before the case.
documentScriptPpjbBeforeCase(handler) ==
    CASE handler \in {"ReissuePsjb", "CreateDocumentSubmission"} ->
            << "LockCase", "Check", "FindPsjb", "LockPsjb", "Commit" >>
      [] handler = "CompleteCashPemberkasan" -> << "LockCase", "Check", "FindPsjb", "SharePsjb", "Commit" >>
      [] handler = "CancelPsjb"              -> << "LockPsjb", "LockCase", "Check", "Commit" >>
      [] handler = "ReissueDeveloperPpjb"    -> << "LockCase", "Check", "FindPpjb", "LockPpjb", "Commit" >>
      [] handler = "CancelDeveloperPpjb"     -> << "LockPpjb", "LockCase", "Check", "Commit" >>
      [] handler = "CreateAkad"              -> << "LockPpjb", "LockCase", "Check", "UpdateUnit", "Commit" >>
      [] handler = "CreateBast"              -> << "LockCase", "Check", "UpdateUnit", "Commit" >>
      [] OTHER                               -> << "LockCase", "Check", "Commit" >>

\* Mutant: the CASH Pemberkasan looks for its PSJB before it locks the case.
documentScriptPsjbBeforeCase(handler) ==
    CASE handler \in {"ReissuePsjb", "CreateDocumentSubmission"} ->
            << "LockCase", "Check", "FindPsjb", "LockPsjb", "Commit" >>
      [] handler = "CompleteCashPemberkasan" -> << "FindPsjb", "LockCase", "Check", "SharePsjb", "Commit" >>
      [] handler = "CancelPsjb"              -> << "LockPsjb", "LockCase", "Check", "Commit" >>
      [] handler = "ReissueDeveloperPpjb"    -> << "LockCase", "Check", "FindPpjb", "LockPpjb", "Commit" >>
      [] handler = "CancelDeveloperPpjb"     -> << "LockPpjb", "LockCase", "Check", "Commit" >>
      [] handler = "CreateAkad"              -> << "LockCase", "Check", "LockPpjb", "UpdateUnit", "Commit" >>
      [] handler = "CreateBast"              -> << "LockCase", "Check", "UpdateUnit", "Commit" >>
      [] OTHER                               -> << "LockCase", "Check", "Commit" >>

documentScript(handler) ==
    CASE handler \in {"ReissuePsjb", "CreateDocumentSubmission"} ->
            << "LockCase", "Check", "FindPsjb", "LockPsjb", "Commit" >>
      [] handler = "CompleteCashPemberkasan" -> << "LockCase", "Check", "FindPsjb", "SharePsjb", "Commit" >>
      [] handler = "CancelPsjb"              -> << "LockPsjb", "LockCase", "Check", "Commit" >>
      [] handler = "ReissueDeveloperPpjb"    -> << "LockCase", "Check", "FindPpjb", "LockPpjb", "Commit" >>
      [] handler = "CancelDeveloperPpjb"     -> << "LockPpjb", "LockCase", "Check", "Commit" >>
      [] handler = "CreateAkad"              -> << "LockCase", "Check", "LockPpjb", "UpdateUnit", "Commit" >>
      [] handler = "CreateBast"              -> << "LockCase", "Check", "UpdateUnit", "Commit" >>
      [] OTHER                               -> << "LockCase", "Check", "Commit" >>

LifecycleHandlers == {"CreateSalesCase", "CloseSalesCase", "MoveSalesCaseUnit"}
script(handler) ==
    IF handler \in LifecycleHandlers THEN lifecycleScript(handler) ELSE documentScript(handler)

-----------------------------------------------------------------------------
(* What a transaction works on.                                            *)

req(t) == tx[t].request

\* The case of the request, or that of the document it names.
caseOf(t) ==
    CASE tx[t].handler = "CancelPsjb"          -> psjbs[req(t).document].sales_case_id
      [] tx[t].handler = "CancelDeveloperPpjb" -> ppjbs[req(t).document].sales_case_id
      [] OTHER                                 -> req(t).case

\* Mutant: the units of a move are locked old first, new second.
unitOrderOldFirst(t) == << tx[t].row.unit_id, req(t).unit >>

\* The units of a move are locked in the order of their ids.
unitOrder(t) ==
    LET old == tx[t].row.unit_id
        new == req(t).unit
    IN  IF UnitRank[old] <= UnitRank[new] THEN << old, new >> ELSE << new, old >>

\* The row the next statement must lock.
target(t) ==
    CASE At(t, "LockCase")                       -> << "case", caseOf(t) >>
      [] At(t, "LockPsjb") \/ At(t, "SharePsjb") -> << "psjb", tx[t].document >>
      [] At(t, "LockPpjb")                       -> << "ppjb", tx[t].document >>
      [] At(t, "LockUnit")                       -> << "unit", req(t).unit >>
      [] At(t, "UpdateUnit")                     -> << "unit", tx[t].row.unit_id >>
      [] At(t, "LockFirstUnit")                  -> << "unit", unitOrder(t)[1] >>
      [] At(t, "LockSecondUnit")                 -> << "unit", unitOrder(t)[2] >>
      [] OTHER                                   -> << None, None >>

mode(t) == IF At(t, "SharePsjb") THEN "KEY SHARE" ELSE "UPDATE"

blockers(t) ==
    { l.tx : l \in { m \in locks : /\ m.row = target(t) /\ m.tx # t
                                   /\ "UPDATE" \in {m.mode, mode(t)} } }

\* The unit and consumer a case inserted by t occupies in the unique indexes.
keys(t) == << req(t).unit, IF tx[t].handler = "CreateSalesCase" THEN req(t).data[1]
                           ELSE tx[t].row.consumer_id >>
clash(a, b) == a[1] = b[1] \/ a[2] = b[2]
keysOfCase(c) == << sales_cases[c].unit_id, sales_cases[c].consumer_id >>

\* Index entries not yet committed: of cases inserted, and of cases no longer ACTIVE.
hasInsertedCase(t) == tx[t].handler \in {"CreateSalesCase", "MoveSalesCaseUnit"} /\ At(t, "Commit")
hasClosedCase(t) ==
    \/ tx[t].handler = "CloseSalesCase"
          /\ (At(t, "CheckRelease") \/ At(t, "UpdateUnit") \/ At(t, "Commit"))
    \/ tx[t].handler = "MoveSalesCaseUnit" /\ (At(t, "InsertCase") \/ At(t, "Commit"))

inserters(t) == { x \in Tx \ {t} : hasInsertedCase(x) /\ clash(keys(t), keys(x)) }
closers(t) == { x \in Tx \ {t} : hasClosedCase(x) /\ clash(keys(t), keysOfCase(caseOf(x))) }
\* Mutant: there is no index on the consumer.
violatesIndexOfUnit(t) ==
    \E c \in Case : /\ status(c) = "ACTIVE" /\ sales_cases[c].unit_id = keys(t)[1]
                    /\ \A x \in Tx : hasClosedCase(x) => caseOf(x) # c

violatesIndex(t) ==
    \E c \in Case : /\ status(c) = "ACTIVE" /\ clash(keys(t), keysOfCase(c))
                    /\ \A x \in Tx : hasClosedCase(x) => caseOf(x) # c

\* The transactions t waits for, and the cycles the detector looks for.
waitsFor(t) == IF At(t, "InsertCase") THEN inserters(t) \cup closers(t) ELSE blockers(t)

inCycle(S) == \A x \in S : waitsFor(x) \cap S # {}
Deadlocked(t) ==
    \E S \in SUBSET Tx : /\ t \in S /\ inCycle(S)
                         /\ \A R \in (SUBSET S) \ {S, {}} : ~ inCycle(R)

-----------------------------------------------------------------------------
(* Statements.                                                             *)

\* Mutant: a transaction that is left open keeps the rows it has locked.
EndKeepingLocks(t) ==
    /\ tx' = [tx EXCEPT ![t] = Idle]
    /\ UNCHANGED locks

\* COMMIT and ROLLBACK release every lock.
End(t) ==
    /\ tx' = [tx EXCEPT ![t] = Idle]
    /\ locks' = { l \in locks : l.tx # t }

Rollback(t) ==
    /\ End(t)
    /\ UNCHANGED vars

\* The next statement of t, with what it has read.
Continue(t, next) ==
    /\ tx' = [tx EXCEPT ![t] = [next EXCEPT !.todo = Tail(@)]]
    /\ UNCHANGED vars

Take(t) == locks' = locks \cup {[tx |-> t, row |-> target(t), mode |-> mode(t)]}

\* A SELECT or INSERT that ends in an exception: a validation error or a missing row.
ContinueIf(t, condition, next) ==
    IF condition THEN Continue(t, next) /\ UNCHANGED locks ELSE Rollback(t)

LockCase(t) ==
    /\ At(t, "LockCase") /\ blockers(t) = {}
    /\ IF Found(caseOf(t)) THEN Take(t) /\ Continue(t, [tx[t] EXCEPT !.row = sales_cases[caseOf(t)]])
       ELSE Rollback(t)

\* A row found by a query is locked only if it still is ACTIVE by then.
LockPsjb(t) ==
    /\ At(t, "LockPsjb") /\ blockers(t) = {}
    /\ IF tx[t].handler = "CancelPsjb" \/ psjbs[tx[t].document].status = "ACTIVE"
       THEN Take(t) /\ Continue(t, [tx[t] EXCEPT !.documentStatus = psjbs[tx[t].document].status])
       ELSE Rollback(t)

LockPpjb(t) ==
    /\ At(t, "LockPpjb") /\ blockers(t) = {}
    /\ IF \/ tx[t].handler = "CancelDeveloperPpjb"
          \/ tx[t].document \in activePpjb(caseOf(t))
       THEN Take(t) /\ Continue(t, [tx[t] EXCEPT !.documentStatus = ppjbs[tx[t].document].status])
       ELSE Rollback(t)

LockRow(t) ==
    /\ \E s \in {"SharePsjb", "LockUnit", "LockFirstUnit", "LockSecondUnit"} : At(t, s)
    /\ blockers(t) = {}
    /\ Take(t) /\ Continue(t, tx[t])

UpdateUnit(t) ==
    /\ At(t, "UpdateUnit")
    /\ IF tx[t].handler = "CloseSalesCase" /\ ~ tx[t].release
       THEN Continue(t, tx[t]) /\ UNCHANGED locks
       ELSE blockers(t) = {} /\ Take(t) /\ Continue(t, tx[t])

FindPsjb(t) ==
    /\ At(t, "FindPsjb")
    /\ IF activePsjb(caseOf(t)) = {} THEN Rollback(t)
       ELSE \E p \in activePsjb(caseOf(t)) :
               Continue(t, [tx[t] EXCEPT !.document = p]) /\ UNCHANGED locks

FindPpjb(t) ==
    /\ At(t, "FindPpjb")
    /\ IF activePpjb(caseOf(t)) = {} THEN Rollback(t)
       ELSE \E d \in activePpjb(caseOf(t)) :
               Continue(t, [tx[t] EXCEPT !.document = d]) /\ UNCHANGED locks

\* What each handler requires of the case it has locked.
accepts(t) ==
    LET c == caseOf(t)
        h == tx[t].handler
        row == tx[t].row
    IN  /\ h # "CancelPsjb" => row.case_status = "ACTIVE"
        /\ h \in {"CloseSalesCase", "MoveSalesCaseUnit", "ReissueDeveloperPpjb",
                  "CancelDeveloperPpjb", "CreateAkad"} => ~ hasAkad(c)
        /\ h = "CreateBast" => hasAkad(c) /\ ~ hasBast(c)
        /\ h = "CreatePsjb" =>
              /\ row.financing_type = "KPR_SUBSIDI" => latest_bi[c].result = "CLEAR"
              /\ activePsjb(c) = {}
        /\ h \in {"CancelPsjb", "CancelDeveloperPpjb"} => tx[t].documentStatus = "ACTIVE"
        /\ h = "CancelPsjb" =>
              /\ \A s \in Submission : submissions[s].psjb_id # tx[t].document
              /\ ~ isBeyond(row.current_stage, "PEMBERKASAN")
        /\ h \in {"CreateDocumentSubmission", "RecordBankResponse"} =>
              row.financing_type = "KPR_SUBSIDI"
        /\ h = "CompleteCashPemberkasan" =>
              row.financing_type = "CASH" /\ cashPemberkasan(c) = {}
        /\ h = "RecordBankResponse" =>
              /\ req(t).document \in submissionsOf(c)
              /\ submissions[req(t).document].type = "BANK"
              /\ req(t).data[1] = "APPROVED" => approvalOf(c) = {}
        /\ h = "CreateDeveloperPpjb" =>
              /\ activePpjb(c) = {}
              /\ IF row.financing_type = "KPR_SUBSIDI" THEN approvalOf(c) # {}
                 ELSE /\ activePsjb(c) # {} /\ cashPemberkasan(c) # {}
                      /\ isBeyond(row.current_stage, "PEMBERKASAN")

Check(t) == At(t, "Check") /\ ContinueIf(t, accepts(t), tx[t])

CheckUnit(t) ==
    /\ At(t, "CheckUnit")
    /\ ContinueIf(t, /\ activeSalesCases(req(t).unit) = {}
                     /\ tx[t].handler = "MoveSalesCaseUnit" =>
                           UnitBranch[req(t).unit] = tx[t].row.branch_id, tx[t])

CheckConsumer(t) ==
    /\ At(t, "CheckConsumer")
    /\ ContinueIf(t, activeCasesOfConsumer(keys(t)[2]) \ {caseOf(t)} = {}, tx[t])

CheckRelease(t) ==
    /\ At(t, "CheckRelease")
    /\ Continue(t, [tx[t] EXCEPT !.release =
                       activeSalesCases(tx[t].row.unit_id) \ {caseOf(t)} = {}])
    /\ UNCHANGED locks

InsertCase(t) ==
    /\ At(t, "InsertCase")
    /\ violatesIndex(t) \/ waitsFor(t) = {}
    /\ ContinueIf(t, ~ violatesIndex(t), tx[t])

-----------------------------------------------------------------------------
(* The commit: all writes of the transaction, computed from the rows it    *)
(* has locked.  Eloquent writes a column only if it differs from the row.  *)

stageAfter(t) ==
    LET h == tx[t].handler
        s == tx[t].row.current_stage
    IN  CASE h = "RecordBiCheck" -> stageAfterBiCheck(s, req(t).data[2])
          [] h \in {"CreatePsjb", "ReissuePsjb"} -> advanceStageTo(s, "PEMBERKASAN")
          [] h = "CancelPsjb" -> "PSJB"
          [] h = "CreateDocumentSubmission" -> advanceStageTo(s, "PROSES_BANK")
          [] h = "CompleteCashPemberkasan" -> advanceStageTo(s, "PPJB_DEV")
          [] h = "RecordBankResponse" ->
                advanceStageTo(s, IF req(t).data[1] = "APPROVED" THEN "PPJB_DEV" ELSE "PROSES_BANK")
          [] h \in {"CreateDeveloperPpjb", "ReissueDeveloperPpjb"} -> advanceStageTo(s, "AKAD")
          [] h = "CancelDeveloperPpjb" -> IF isBeyond(s, "AKAD") THEN s ELSE "PPJB_DEV"
          [] h = "CreateAkad" -> advanceStageTo(s, "BAST")
          [] h = "CreateBast" -> "COMPLETED"

statusAfter(t) ==
    CASE tx[t].handler = "CloseSalesCase"    -> req(t).data[1]
      [] tx[t].handler = "MoveSalesCaseUnit" -> "PINDAH_KAVLING"
      [] tx[t].handler = "CreateBast"        -> "COMPLETED"
      [] OTHER                               -> tx[t].row.case_status

write(old, locked, new) == IF new = locked THEN old ELSE new

casesAfter(t) ==
    LET c == caseOf(t)
        row == tx[t].row
        closed == [sales_cases EXCEPT ![c].case_status = write(@, row.case_status, statusAfter(t))]
    IN  CASE tx[t].handler = "CreateSalesCase" ->
                [sales_cases EXCEPT ![req(t).new] =
                    NewCase(req(t).unit, req(t).data[1], req(t).data[2], None)]
          [] tx[t].handler = "CloseSalesCase" -> closed
          [] tx[t].handler = "MoveSalesCaseUnit" ->
                [closed EXCEPT ![req(t).new] =
                    NewCase(req(t).unit, row.consumer_id, row.financing_type, c)]
          [] OTHER -> [closed EXCEPT ![c].current_stage =
                          write(@, row.current_stage, stageAfter(t))]

unitsAfter(t) ==
    LET u == tx[t].row.unit_id
    IN  CASE tx[t].handler = "CreateSalesCase" -> [unit_status EXCEPT ![req(t).unit] = "BOOKING"]
          [] tx[t].handler = "CloseSalesCase" /\ tx[t].release -> [unit_status EXCEPT ![u] = "TERSEDIA"]
          [] tx[t].handler = "MoveSalesCaseUnit" ->
                [unit_status EXCEPT ![u] = "TERSEDIA", ![req(t).unit] = "BOOKING"]
          [] tx[t].handler \in {"CreateAkad", "CreateBast"} -> [unit_status EXCEPT ![u] = "TERJUAL"]
          [] OTHER -> unit_status

psjbsAfter(t) ==
    CASE tx[t].handler = "CreatePsjb" -> [psjbs EXCEPT ![req(t).new] = NewPsjb(caseOf(t))]
      [] tx[t].handler = "ReissuePsjb" ->
            [psjbs EXCEPT ![tx[t].document].status = "SUPERSEDED", ![req(t).new] = NewPsjb(caseOf(t))]
      [] tx[t].handler = "CancelPsjb" -> [psjbs EXCEPT ![tx[t].document].status = "CANCELLED"]
      [] OTHER -> psjbs

submissionsAfter(t) ==
    LET n == CHOOSE n \in 1..MaxSequence : isNextSequence(caseOf(t), n)
    IN  CASE tx[t].handler = "CreateDocumentSubmission" ->
                [submissions EXCEPT ![req(t).new] = NewSubmission(caseOf(t), tx[t].document, "BANK", n)]
          [] tx[t].handler = "CompleteCashPemberkasan" ->
                [submissions EXCEPT ![req(t).new] = NewSubmission(caseOf(t), tx[t].document, "CASH_INTERNAL", n)]
          [] tx[t].handler = "RecordBankResponse" ->
                [submissions EXCEPT ![req(t).document].status =
                    IF req(t).data[1] = "APPROVED" THEN "CLOSED"
                    ELSE IF @ = "SUBMITTED" THEN "PROCESSING" ELSE @]
          [] OTHER -> submissions

processesAfter(t) ==
    IF tx[t].handler = "RecordBankResponse"
    THEN [bank_processes EXCEPT ![req(t).new] =
            [sales_case_id |-> caseOf(t), document_submission_id |-> req(t).document,
             response_type |-> req(t).data[1], is_authoritative |-> req(t).data[1] = "APPROVED"]]
    ELSE bank_processes

ppjbsAfter(t) ==
    LET approval == IF tx[t].row.financing_type = "CASH" THEN None
                    ELSE CHOOSE b \in approvalOf(caseOf(t)) : TRUE
    IN  CASE tx[t].handler = "CreateDeveloperPpjb" ->
                [ppjbs EXCEPT ![req(t).new] = NewPpjb(caseOf(t), approval)]
          [] tx[t].handler = "ReissueDeveloperPpjb" ->
                [ppjbs EXCEPT ![tx[t].document].status = "SUPERSEDED",
                              ![req(t).new] = NewPpjb(caseOf(t), ppjbs[tx[t].document].bank_process_id)]
          [] tx[t].handler = "CancelDeveloperPpjb" ->
                [ppjbs EXCEPT ![tx[t].document].status = "CANCELLED"]
          [] OTHER -> ppjbs

Commit(t) ==
    /\ At(t, "Commit")
    /\ sales_cases' = casesAfter(t)
    /\ unit_status' = unitsAfter(t)
    /\ latest_bi' = IF tx[t].handler = "RecordBiCheck"
                    THEN [latest_bi EXCEPT ![caseOf(t)] =
                             latestForCase(@, req(t).data[1], req(t).data[2])]
                    ELSE latest_bi
    /\ psjbs' = psjbsAfter(t)
    /\ submissions' = submissionsAfter(t)
    /\ bank_processes' = processesAfter(t)
    /\ ppjbs' = ppjbsAfter(t)
    /\ akads' = IF tx[t].handler = "CreateAkad"
                THEN [akads EXCEPT ![caseOf(t)] = tx[t].document] ELSE akads
    /\ basts' = IF tx[t].handler = "CreateBast"
                THEN [basts EXCEPT ![caseOf(t)] = caseOf(t)] ELSE basts
    /\ End(t)

-----------------------------------------------------------------------------
(* Requests: each names an existing case or document, and the id its new   *)
(* row will get.                                                           *)

Request(c, document, new, u, data) ==
    [case |-> c, document |-> document, new |-> new, unit |-> u, data |-> data]

cases == { c \in Case : Exists(c) }
reserved == { req(t).new : t \in Tx }
newCases == { c \in Case : ~ Exists(c) } \ reserved
newPsjbs == { p \in Psjb : psjbs[p].status = Absent } \ reserved
newSubmissions == { s \in Submission : submissions[s].status = Absent } \ reserved
newProcesses == { b \in BankProcess : bank_processes[b].response_type = Absent } \ reserved
newPpjbs == { d \in Ppjb : ppjbs[d].status = Absent } \ reserved

\* Cancel, Mundur and Reject differ in the status they write only.
Closings == {"CANCELLED"}

requests(handler) ==
    CASE handler = "CreateSalesCase" ->
            { Request(None, None, n, u, << k, f >>) :
                n \in newCases, u \in Unit, k \in Consumer, f \in Financings }
      [] handler = "CloseSalesCase" ->
            { Request(c, None, None, None, << s >>) : c \in cases, s \in Closings }
      [] handler = "MoveSalesCaseUnit" ->
            { Request(c, None, n, u, << >>) : c \in cases, n \in newCases, u \in Unit }
      [] handler = "RecordBiCheck" ->
            { Request(c, None, None, None, << date, result >>) :
                c \in cases, date \in 1..MaxDate, result \in BiCheckResult }
      [] handler \in {"CreatePsjb", "ReissuePsjb"} ->
            { Request(c, None, p, None, << >>) : c \in cases, p \in newPsjbs }
      [] handler = "CancelPsjb" ->
            { Request(None, p, None, None, << >>) : p \in { q \in Psjb : psjbs[q].status # Absent } }
      [] handler \in {"CreateDocumentSubmission", "CompleteCashPemberkasan"} ->
            { Request(c, None, s, None, << >>) : c \in cases, s \in newSubmissions }
      [] handler = "RecordBankResponse" ->
            { Request(c, s, b, None, << response >>) :
                c \in cases, s \in Submission, b \in newProcesses, response \in BankResponseType }
      [] handler \in {"CreateDeveloperPpjb", "ReissueDeveloperPpjb"} ->
            { Request(c, None, d, None, << >>) : c \in cases, d \in newPpjbs }
      [] handler = "CancelDeveloperPpjb" ->
            { Request(None, d, None, None, << >>) : d \in { e \in Ppjb : ppjbs[e].status # Absent } }
      [] handler = "CreateAkad" ->
            { Request(c, d, None, None, << >>) :
                c \in cases, d \in { e \in Ppjb : ppjbs[e].status # Absent } }
      [] handler = "CreateBast" ->
            { Request(c, None, None, None, << >>) : c \in cases }

Begin(t) ==
    /\ ~ Running(t)
    /\ \E handler \in Handlers : \E request \in requests(handler) :
          tx' = [tx EXCEPT ![t] = [Idle EXCEPT !.handler = handler, !.request = request,
                                              !.document = request.document,
                                              !.todo = script(handler)]]
    /\ UNCHANGED << vars, locks >>

-----------------------------------------------------------------------------

TxInit ==
    /\ Init
    /\ tx = [t \in Tx |-> Idle]
    /\ locks = {}

Statement(t) ==
    \/ LockCase(t) \/ LockPsjb(t) \/ LockPpjb(t) \/ LockRow(t) \/ UpdateUnit(t)
    \/ FindPsjb(t) \/ FindPpjb(t)
    \/ Check(t) \/ CheckUnit(t) \/ CheckConsumer(t) \/ CheckRelease(t)
    \/ InsertCase(t) \/ Commit(t)

\* deadlock_timeout has passed and the detector has found t on a cycle.
AbortDeadlock(t) == Deadlocked(t) /\ Rollback(t)

\* The connection is lost, or the request dies, before the commit.
Fail(t) == Running(t) /\ Rollback(t)

TxNext == \E t \in Tx : Begin(t) \/ Statement(t) \/ AbortDeadlock(t) \/ Fail(t)

TxSpec == TxInit /\ [][TxNext]_allVars

\* A request that runs goes on with its statements; waiters for a row lock are
\* served in their order, so one that is free again and again is obtained; and
\* the detector breaks every cycle.
FairTxSpec ==
    /\ TxSpec
    /\ \A t \in Tx : SF_allVars(Statement(t)) /\ WF_allVars(AbortDeadlock(t))

-----------------------------------------------------------------------------

\* The handlers are atomic: however their statements interleave, fail or abort
\* each other, what is committed changes as by one handler of SalesOperations
\* at a time.  It rests on every lock, re-read and index above.
HandlersAreAtomic == Spec

\* Only the two handlers that lock a document before its case (CancelPsjb and
\* CancelDeveloperPpjb) can be part of a deadlock: opposing moves, bookings and
\* closings never are, because a move locks its units in the order of their ids.
DocumentFirst == {"CancelPsjb", "CancelDeveloperPpjb"}

DeadlocksNeedDocumentFirst ==
    \A S \in SUBSET Tx :
        S # {} /\ inCycle(S) => \E t \in S : tx[t].handler \in DocumentFirst

\* MoveSalesCaseUnit does not catch a unique violation of its INSERT; none can
\* happen, though neither the consumer nor the index entries are locked.
MoveNeverViolatesIndex ==
    \A t \in Tx : tx[t].handler = "MoveSalesCaseUnit" /\ At(t, "InsertCase") => ~ violatesIndex(t)

\* Every transaction that has begun ends.
TransactionsEnd == \A t \in Tx : Running(t) ~> ~ Running(t)

=============================================================================
