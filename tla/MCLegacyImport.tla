--------------------------- MODULE MCLegacyImport ---------------------------
(***************************************************************************)
(* Small plans for LegacyImport: one case with every combination of sheets *)
(* that differ in what the handlers look at, and two cases that share the  *)
(* unit and the consumer, the second a continuation of the first.          *)
(***************************************************************************)
EXTENDS LegacyImport, TLC

CONSTANTS c1, c2, u1, k1, p1, p2, s1, b1, d1, main

MCUnitBranch == [u \in Unit |-> main]

History == [ bi |-> << >>, psjbs |-> << >>, submissions |-> << >>, processes |-> << >>,
             ppjbs |-> << >>, akad |-> FALSE, bast |-> FALSE ]

CandidateOf(c, u, k, previous, lifecycle, financing, h) ==
    [ case |-> c, unit |-> u, consumer |-> k, previous |-> previous, lifecycle |-> lifecycle,
      financing |-> financing ] @@ h

Bi == { << >>, << [date |-> 1, result |-> None], [date |-> 1, result |-> Other] >>,
        << [date |-> None, result |-> "REJECTED"], [date |-> 1, result |-> "CLEAR"] >> }

SheetPsjb(p, s) == [id |-> p, status |-> s]
Psjbs == { << >>, << SheetPsjb(p1, Other) >>, << SheetPsjb(p1, "ACTIVE"), SheetPsjb(p2, Other) >>,
           << SheetPsjb(p1, "ACTIVE"), SheetPsjb(p2, "SUPERSEDED") >> }

Answer(b, s, r, sp3k) == [id |-> b, submission |-> s, response |-> r, sp3k |-> sp3k]
\* Submissions with the answers to them, an approval with and without its SP3K.
Files == { << << >>, << >> >>, << << s1 >>, << >> >>,
           << << s1 >>, << Answer(b1, s1, "APPROVED", TRUE) >> >>,
           << << s1 >>, << Answer(b1, s1, "APPROVED", FALSE) >> >>,
           << << s1 >>, << Answer(b1, s1, "REJECTED", FALSE) >> >> }

\* PPJB, Akad and BAST.
Closings == { << << >>, FALSE, FALSE >>, << << d1 >>, FALSE, FALSE >>, << << d1 >>, TRUE, FALSE >>,
              << << d1 >>, TRUE, TRUE >> }

Histories ==
    { [ bi |-> b, psjbs |-> p, submissions |-> f[1], processes |-> f[2],
        ppjbs |-> e[1], akad |-> e[2], bast |-> e[3] ] :
      b \in Bi, p \in Psjbs, f \in Files, e \in Closings }

OneCase ==
    { << CandidateOf(c1, u1, k1, None, "ACTIVE", f, h) >> : f \in FinancingType, h \in Histories }
    \cup { << CandidateOf(c1, u1, k1, None, "COMPLETED", f, [History EXCEPT !.ppjbs = << d1 >>]) >> :
           f \in FinancingType }

WithPsjb == [History EXCEPT !.psjbs = << SheetPsjb(p1, "ACTIVE") >>]
WithFile == [History EXCEPT !.submissions = << s1 >>]

TwoCases ==
    LET onUnit == << CandidateOf(c1, u1, k1, None, "ACTIVE", "CASH", WithPsjb),
                     CandidateOf(c2, u1, k1, c1, "MUNDUR", "CASH", WithFile) >>
    IN  { onUnit, << onUnit[2], onUnit[1] >> }

MCPlans == [c \in Case |-> { plan \in OneCase \cup TwoCases : plan[1].case = c }]

=============================================================================
