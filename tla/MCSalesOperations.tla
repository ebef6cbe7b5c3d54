-------------------------- MODULE MCSalesOperations --------------------------
(***************************************************************************)
(* Small instances of SalesOperations, with its pages and reports, for TLC *)
(* to check.  The ids are interchangeable except units, whose branches     *)
(* differ; only sets whose members the specification treats alike are      *)
(* declared symmetric.                                                     *)
(***************************************************************************)
EXTENDS CaseWorkspace, CaseReports, TLC

CONSTANTS u1, u2, u3, u4, main, other

\* Several units of one branch and one of another, so that a move can be refused.
MCUnitBranch == [u \in Unit |-> IF u = u3 THEN other ELSE main]

DocumentSymmetry ==
    Permutations(Psjb) \cup Permutations(Submission)
    \cup Permutations(BankProcess) \cup Permutations(Ppjb)

AllSymmetry == DocumentSymmetry \cup Permutations(Case) \cup Permutations(Consumer)

=============================================================================
