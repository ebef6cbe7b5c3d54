---------------------------- MODULE CaseLifecycle ----------------------------
(***************************************************************************)
(* Opening, closing and moving a sales case: CreateSalesCaseAction,        *)
(* CloseSalesCaseAction (Cancel, Mundur, Reject) and MoveSalesCaseUnit-    *)
(* Action.  Each handler is one transaction over the locked case and unit  *)
(* rows, so each is one action; a refusal (validation error, unique        *)
(* violation) rolls everything back and is no step.                        *)
(***************************************************************************)
EXTENDS SalesTables

\* Mutant: the new case forgets the one it continues.
NewCaseWithoutLink(u, k, f, previous) ==
    [ case_status |-> "ACTIVE", current_stage |-> "DATA_KONSUMEN",
      financing_type |-> f, unit_id |-> u, consumer_id |-> k,
      branch_id |-> UnitBranch[u], previous_case_id |-> None, trashed |-> FALSE ]

NewCase(u, k, f, previous) ==
    [ case_status |-> "ACTIVE", current_stage |-> "DATA_KONSUMEN",
      financing_type |-> f, unit_id |-> u, consumer_id |-> k,
      branch_id |-> UnitBranch[u], previous_case_id |-> previous, trashed |-> FALSE ]

\* Mutant: no unique indexes behind the two queries.
CreateSalesCaseWithoutIndex(c, u, k, f) ==
    /\ ~ Exists(c)
    /\ activeSalesCases(u) = {}
    /\ activeCasesOfConsumer(k) = {}
    /\ sales_cases' = [sales_cases EXCEPT ![c] = NewCase(u, k, f, None)]
    /\ unit_status' = [unit_status EXCEPT ![u] = "BOOKING"]
    /\ UNCHANGED documents

CreateSalesCase(c, u, k, f) ==
    /\ ~ Exists(c)
    /\ activeSalesCases(u) = {}
    /\ activeCasesOfConsumer(k) = {}
    /\ UniqueActiveCase(u, k, Case)
    /\ sales_cases' = [sales_cases EXCEPT ![c] = NewCase(u, k, f, None)]
    /\ unit_status' = [unit_status EXCEPT ![u] = "BOOKING"]
    /\ UNCHANGED documents

\* The unit goes back on sale unless another ACTIVE case holds it.
releaseUnitIfNoActiveCase(c) ==
    LET u == sales_cases[c].unit_id
    IN  unit_status' = IF activeSalesCases(u) \ {c} = {}
                       THEN [unit_status EXCEPT ![u] = "TERSEDIA"]
                       ELSE unit_status

\* Mutant: a case can be closed after its Akad.
CloseSalesCaseAfterAkad(c, closing) ==
    /\ IsActive(c)
    /\ sales_cases' = [sales_cases EXCEPT ![c].case_status = closing]
    /\ releaseUnitIfNoActiveCase(c)
    /\ UNCHANGED documents

CloseSalesCase(c, closing) ==
    /\ IsActive(c)
    /\ ~ hasAkad(c)
    /\ sales_cases' = [sales_cases EXCEPT ![c].case_status = closing]
    /\ releaseUnitIfNoActiveCase(c)
    /\ UNCHANGED documents

CancelSalesCase(c) == CloseSalesCase(c, "CANCELLED")
MarkSalesCaseMundur(c) == CloseSalesCase(c, "MUNDUR")
MarkSalesCaseRejected(c) == CloseSalesCase(c, "REJECT")

\* Mutant: the old unit is not put back on sale.
MoveSalesCaseUnitKeepingOldUnit(c, n, u) ==
    LET old == sales_cases[c] IN
    /\ IsActive(c)
    /\ ~ hasAkad(c)
    /\ ~ Exists(n)
    /\ UnitBranch[u] = old.branch_id
    /\ u # old.unit_id
    /\ activeSalesCases(u) = {}
    /\ activeCasesOfConsumer(old.consumer_id) \ {c} = {}
    /\ UniqueActiveCase(u, old.consumer_id, Case \ {c})
    /\ sales_cases' =
          [sales_cases EXCEPT ![c].case_status = "PINDAH_KAVLING",
                              ![n] = NewCase(u, old.consumer_id, old.financing_type, c)]
    /\ unit_status' = [unit_status EXCEPT ![u] = "BOOKING"]
    /\ UNCHANGED documents

\* Mutant: a sold unit can be exchanged for another one.
MoveSalesCaseUnitAfterAkad(c, n, u) ==
    LET old == sales_cases[c] IN
    /\ IsActive(c)
    /\ ~ Exists(n)
    /\ UnitBranch[u] = old.branch_id
    /\ u # old.unit_id
    /\ activeSalesCases(u) = {}
    /\ activeCasesOfConsumer(old.consumer_id) \ {c} = {}
    /\ UniqueActiveCase(u, old.consumer_id, Case \ {c})
    /\ sales_cases' =
          [sales_cases EXCEPT ![c].case_status = "PINDAH_KAVLING",
                              ![n] = NewCase(u, old.consumer_id, old.financing_type, c)]
    /\ unit_status' = [unit_status EXCEPT ![old.unit_id] = "TERSEDIA", ![u] = "BOOKING"]
    /\ UNCHANGED documents

\* The old case closes as PINDAH_KAVLING, the new one n starts over on unit u.
MoveSalesCaseUnit(c, n, u) ==
    LET old == sales_cases[c] IN
    /\ IsActive(c)
    /\ ~ hasAkad(c)
    /\ ~ Exists(n)
    /\ UnitBranch[u] = old.branch_id
    /\ u # old.unit_id
    /\ activeSalesCases(u) = {}
    /\ activeCasesOfConsumer(old.consumer_id) \ {c} = {}
    /\ UniqueActiveCase(u, old.consumer_id, Case \ {c})
    /\ sales_cases' =
          [sales_cases EXCEPT ![c].case_status = "PINDAH_KAVLING",
                              ![n] = NewCase(u, old.consumer_id, old.financing_type, c)]
    /\ unit_status' = [unit_status EXCEPT ![old.unit_id] = "TERSEDIA", ![u] = "BOOKING"]
    /\ UNCHANGED documents

=============================================================================
