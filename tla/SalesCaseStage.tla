--------------------------- MODULE SalesCaseStage ---------------------------
(***************************************************************************)
(* The operational stages of a sales case (app/SalesCaseStage.php) and the *)
(* forward-only move every handler goes through (SalesCase::advanceStageTo).*)
(* The definitions are free of recursion and of state, so that every other *)
(* module, and every proof, can use them.                                  *)
(***************************************************************************)
EXTENDS Naturals

Stage == { "DATA_KONSUMEN", "BI_CHECKING", "PSJB", "PEMBERKASAN", "PROSES_BANK",
           "PPJB_DEV", "AKAD", "BAST", "COMPLETED" }

\* The position of a stage in the operational flow.
order(s) ==
    CASE s = "DATA_KONSUMEN" -> 1
      [] s = "BI_CHECKING"   -> 2
      [] s = "PSJB"          -> 3
      [] s = "PEMBERKASAN"   -> 4
      [] s = "PROSES_BANK"   -> 5
      [] s = "PPJB_DEV"      -> 6
      [] s = "AKAD"          -> 7
      [] s = "BAST"          -> 8
      [] s = "COMPLETED"     -> 9

\* Strictly later in the flow.
isBeyond(s, t) == order(s) > order(t)

\* The stage of a case at s after advanceStageTo(t): never earlier than s.
advanceStageTo(s, t) == IF isBeyond(t, s) THEN t ELSE s

=============================================================================
