------------------------ MODULE MCHandlerTransactions ------------------------
(***************************************************************************)
(* Small instances of HandlerTransactions for TLC.                         *)
(***************************************************************************)
EXTENDS TransactionInvariant, TLC

CONSTANTS u1, u2, u3, main

MCUnitBranch == [u \in Unit |-> main]
MCUnitRank == [u \in Unit |-> IF u = u1 THEN 1 ELSE IF u = u2 THEN 2 ELSE 3]

Bookings == {"CreateSalesCase", "CloseSalesCase", "MoveSalesCaseUnit"}
Documents == {"CreateSalesCase", "CreatePsjb", "ReissuePsjb", "CancelPsjb",
              "CreateDocumentSubmission", "CompleteCashPemberkasan", "CloseSalesCase",
              "RecordBiCheck", "RecordBankResponse", "CreateDeveloperPpjb",
              "ReissueDeveloperPpjb", "CancelDeveloperPpjb", "CreateAkad", "CreateBast"}

Pemberkasan == {"CreateSalesCase", "CreatePsjb", "ReissuePsjb", "CancelPsjb",
                "CompleteCashPemberkasan", "CloseSalesCase"}

BookingSymmetry == Permutations(Tx) \cup Permutations(Case) \cup Permutations(Consumer)
DocumentSymmetry == Permutations(Tx) \cup Permutations(Psjb) \cup Permutations(Submission)
                    \cup Permutations(Ppjb)

=============================================================================
