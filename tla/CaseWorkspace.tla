---------------------------- MODULE CaseWorkspace ----------------------------
(***************************************************************************)
(* The page of one sales case: which of its buttons are shown, against the *)
(* handlers behind them.  The page repeats each handler's conditions in    *)
(* its own words (WorkspaceActions: "visibility only mirrors eligibility   *)
(* - the domain actions remain authoritative"), over its own queries, so   *)
(* the two may drift apart.  The page has no state: what it shows is a     *)
(* function of the tables.  The button that updates the Akad readiness,    *)
(* which no handler of a case reads, and the user's permissions are left   *)
(* out.                                                                    *)
(***************************************************************************)
EXTENDS SalesOperations, FiniteSets

CONSTANT ListLimit          \* the most units a form lists: 50 in the code

ASSUME WorkspaceAssumption == ListLimit \in Nat \ {0} /\ IsFiniteSet(Unit)

Button == { "addBiCheck", "createPsjb", "reissuePsjb", "cancelPsjb", "addPemberkasan",
            "recordBankResponse", "completeCashPemberkasan", "createPpjbDeveloper",
            "reissuePpjbDeveloper", "cancelPpjbDeveloper", "createAkad", "createBast",
            "moveCase", "markMundur", "markRejected", "cancelCase" }

-----------------------------------------------------------------------------
(* What the page shows: the condition of each button on an ACTIVE case.    *)

isKpr(c) == sales_cases[c].financing_type = "KPR_SUBSIDI"

mayCreatePsjb(c) ==
    activePsjb(c) = {} /\ ~ hasAkad(c) /\ latest_bi[c].result = "CLEAR"

\* Mutant: a PSJB whose submissions are at the bank can be given up.
mayCancelPsjbWithSubmissions(c) ==
    /\ activePsjb(c) # {}
    /\ ~ isBeyond(stage(c), "PROSES_BANK")
    /\ ~ hasAkad(c)

mayCancelPsjb(c) ==
    /\ activePsjb(c) # {}
    /\ \A s \in Submission : submissions[s].psjb_id \notin activePsjb(c)
    /\ ~ isBeyond(stage(c), "PEMBERKASAN")
    /\ ~ hasAkad(c)

\* Mutant: the stage a CASH case reaches with its Pemberkasan is not far enough.
mayCreatePpjbFromAkad(c) ==
    /\ activePpjb(c) = {}
    /\ ~ hasAkad(c)
    /\ IF isKpr(c) THEN approvalOf(c) # {}
       ELSE cashPemberkasan(c) # {} /\ isBeyond(stage(c), "PPJB_DEV")

mayCreatePpjb(c) ==
    /\ activePpjb(c) = {}
    /\ ~ hasAkad(c)
    /\ IF isKpr(c) THEN approvalOf(c) # {}
       ELSE cashPemberkasan(c) # {} /\ isBeyond(stage(c), "PEMBERKASAN")

condition(c, button) ==
    CASE button = "addBiCheck"              -> TRUE
      [] button = "createPsjb"              -> mayCreatePsjb(c)
      [] button = "reissuePsjb"             -> activePsjb(c) # {} /\ ~ hasAkad(c)
      [] button = "cancelPsjb"              -> mayCancelPsjb(c)
      [] button = "addPemberkasan"          -> isKpr(c) /\ activePsjb(c) # {}
      [] button = "recordBankResponse"      -> isKpr(c) /\ submissionsOf(c) # {}
      [] button = "completeCashPemberkasan" ->
            ~ isKpr(c) /\ stage(c) = "PEMBERKASAN" /\ activePsjb(c) # {}
      [] button = "createPpjbDeveloper"     -> mayCreatePpjb(c)
      [] button \in { "reissuePpjbDeveloper", "cancelPpjbDeveloper", "createAkad" } ->
            activePpjb(c) # {} /\ ~ hasAkad(c)
      [] button = "createBast"              -> hasAkad(c) /\ ~ hasBast(c)
      [] button \in { "moveCase", "markMundur", "markRejected", "cancelCase" } -> ~ hasAkad(c)

visible(c, button) == IsActive(c) /\ condition(c, button)

\* The one button the page puts first, chosen by the stage of an ACTIVE case
\* alone; a COMPLETED stage, which no ACTIVE case has, would have none.
primary(c) ==
    CASE stage(c) \in { "DATA_KONSUMEN", "BI_CHECKING" } -> "addBiCheck"
      [] stage(c) = "PSJB"        -> "createPsjb"
      [] stage(c) = "PEMBERKASAN" ->
            IF isKpr(c) THEN "addPemberkasan" ELSE "completeCashPemberkasan"
      [] stage(c) = "PROSES_BANK" -> "recordBankResponse"
      [] stage(c) = "PPJB_DEV"    -> "createPpjbDeveloper"
      [] stage(c) = "AKAD"        -> "createAkad"
      [] stage(c) = "BAST"        -> "createBast"

\* Mutant: the units of every branch are found.
moveTargetUnitsAnyBranch(c, found) ==
    { u \in found : u # sales_cases[c].unit_id /\ activeSalesCases(u) = {} }

\* The units a move could go to among those whose code contains what the user
\* typed into the search, every unit if nothing.
moveTargetUnits(c, found) ==
    { u \in found : /\ u # sales_cases[c].unit_id
                    /\ activeSalesCases(u) = {}
                    /\ UnitBranch[u] = sales_cases[c].branch_id }

\* The lists the form of moveCase can show for a search: all of these units, or
\* any ListLimit of them, as the query has a limit and no order.
moveTargetUnitOptions(c, found) ==
    { list \in SUBSET moveTargetUnits(c, found) :
        \/ list = moveTargetUnits(c, found) /\ Cardinality(list) <= ListLimit
        \/ Cardinality(list) = ListLimit }

-----------------------------------------------------------------------------
(* The handler behind a button, with the request its form makes: the case, *)
(* the ACTIVE document the page reads for it, and what the user may enter. *)

press(c, button) ==
    \/ /\ button = "addBiCheck"
       /\ \E date \in 1..MaxDate, result \in BiCheckResult : RecordBiCheck(c, date, result)
    \/ button = "createPsjb" /\ \E p \in Psjb : CreatePsjb(c, p)
    \/ button = "reissuePsjb" /\ \E old, p \in Psjb : ReissuePsjb(c, old, p)
    \/ button = "cancelPsjb" /\ \E p \in activePsjb(c) : CancelPsjb(p)
    \/ /\ button = "addPemberkasan"
       /\ \E p \in Psjb, s \in Submission, n \in 1..MaxSequence :
             CreateDocumentSubmission(c, p, s, n)
    \/ /\ button = "recordBankResponse"
       /\ \E s \in submissionsOf(c), b \in BankProcess, r \in BankResponseType :
             RecordBankResponse(c, s, b, r)
    \/ /\ button = "completeCashPemberkasan"
       /\ \E p \in Psjb, s \in Submission, n \in 1..MaxSequence :
             CompleteCashPemberkasan(c, p, s, n)
    \/ /\ button = "createPpjbDeveloper"
       /\ \E d \in Ppjb, b \in BankProcess \cup {None} : CreateDeveloperPpjb(c, d, b)
    \/ button = "reissuePpjbDeveloper" /\ \E old, d \in Ppjb : ReissueDeveloperPpjb(c, old, d)
    \/ button = "cancelPpjbDeveloper" /\ \E d \in activePpjb(c) : CancelDeveloperPpjb(d)
    \/ button = "createAkad" /\ \E d \in activePpjb(c) : CreateAkad(c, d)
    \/ button = "createBast" /\ CreateBast(c, c)
    \/ /\ button = "moveCase"
       /\ \E n \in Case, found \in SUBSET Unit :
             \E list \in moveTargetUnitOptions(c, found) :
                \E u \in list : MoveSalesCaseUnit(c, n, u)
    \/ button = "markMundur" /\ MarkSalesCaseMundur(c)
    \/ button = "markRejected" /\ MarkSalesCaseRejected(c)
    \/ button = "cancelCase" /\ CancelSalesCase(c)

\* The instance still has an id for the row the button inserts, and a unit to
\* choose in the form of a move: what a database never runs out of.
hasRoom(c, button) ==
    CASE button \in { "createPsjb", "reissuePsjb" } ->
            \E p \in Psjb : psjbs[p].status = Absent
      [] button \in { "addPemberkasan", "completeCashPemberkasan" } ->
            /\ \E s \in Submission : submissions[s].status = Absent
            /\ \E n \in 1..MaxSequence : isNextSequence(c, n)
      [] button = "recordBankResponse" ->
            \E b \in BankProcess : bank_processes[b].response_type = Absent
      [] button \in { "createPpjbDeveloper", "reissuePpjbDeveloper" } ->
            \E d \in Ppjb : ppjbs[d].status = Absent
      [] button = "moveCase" ->
            moveTargetUnits(c, Unit) # {} /\ \E n \in Case : ~ Exists(n)
      [] OTHER -> TRUE

-----------------------------------------------------------------------------
(* Properties of the handlers alone (Spec).                                *)

\* No button leads to a refusal: in the state it is shown in, its handler takes
\* some request of its form, whatever documents, corrections and late answers
\* came before.  The page never asks for what a handler asks for, it asks for
\* what implies it: createPpjbDeveloper, say, does not look for the PSJB.
VisibleButtonIsAccepted ==
    \A c \in Case, button \in Button :
        visible(c, button) /\ hasRoom(c, button) => ENABLED press(c, button)

\* And the other way round: what the page hides its handler refuses, but for
\* three cases.  The PSJB of a CASH case, which the handler gives without a BI
\* check and the page only after a CLEAR one; the reissue of a PSJB after the
\* Akad; the cancellation of the PSJB of a closed case.
PageIsStricter(c, button) ==
    \/ button = "createPsjb" /\ IsActive(c) /\ ~ isKpr(c) /\ latest_bi[c].result # "CLEAR"
    \/ button = "reissuePsjb" /\ IsActive(c) /\ hasAkad(c)
    \/ button = "cancelPsjb" /\ ~ IsActive(c)

HiddenButtonIsRefused ==
    \A c \in Case, button \in Button :
        ENABLED press(c, button) => visible(c, button) \/ PageIsStricter(c, button)

\* The button the stage puts first is one the documents allow: stage and
\* documents are written by different handlers, and the page reads the one to
\* choose and the others to show.  The exception is a back-dated CLEAR check,
\* which moves the stage to PSJB while the latest check is another one.
PrimaryButtonIsVisible ==
    \A c \in Case : IsActive(c) =>
        \/ visible(c, primary(c))
        \/ stage(c) = "PSJB" /\ latest_bi[c].result # "CLEAR"

\* The form of a move lists only units the handler accepts, and whatever part of
\* the units a search finds, all those it accepts if they are no more than the
\* form lists: it reads the unit's case and branch, the handler the consumer's
\* cases and two unique indexes as well.  Of more units some are not listed.
OfferedUnitsAreAccepted ==
    \A c, n \in Case : ~ Exists(n) =>
        LET accepted == { u \in Unit : ENABLED MoveSalesCaseUnit(c, n, u) } IN
        /\ accepted # {} => visible(c, "moveCase")
        /\ visible(c, "moveCase") =>
              \A found \in SUBSET Unit : \A list \in moveTargetUnitOptions(c, found) :
                 /\ list \subseteq accepted
                 /\ Cardinality(accepted \cap found) <= ListLimit =>
                       accepted \cap found \subseteq list

=============================================================================
