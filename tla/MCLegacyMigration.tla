------------------------- MODULE MCLegacyMigration -------------------------
(***************************************************************************)
(* A batch of two candidates that meet in everything they can share, two   *)
(* reviewers and two consoles.  Two plans are enough for a plan that was   *)
(* imported, or whose import died, and one generated after it; two cases   *)
(* for a plan of both, for two imports of the one, or for a booking and an *)
(* import.                                                                 *)
(***************************************************************************)
EXTENDS LegacyMigration, TLC

CONSTANTS k1, k2, missing, u1, n1

\* Two cases of one consumer and unit: one withdrawn, with a bank answer without
\* status, and a later one still going on, in which the audit found nothing wrong.
MCBatch ==
    ( k1 :> [ blocking |-> {missing}, review |-> {}, previous |-> None,
              lifecycle |-> "MUNDUR", unit |-> u1, consumer |-> n1,
              plannable |-> TRUE, deterministic |-> {missing} ] )
    @@
    ( k2 :> [ blocking |-> {}, review |-> {}, previous |-> None,
              lifecycle |-> "ACTIVE", unit |-> u1, consumer |-> n1,
              plannable |-> TRUE, deterministic |-> {} ] )

MCSymmetry == Permutations(User) \cup Permutations(Operator)

=============================================================================
