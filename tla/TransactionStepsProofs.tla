----------------------- MODULE TransactionStepsProofs ------------------------
(***************************************************************************)
(* Lemmas about the statements of the transactions: what a script says of  *)
(* a transaction's progress, and that every statement but the commit keeps *)
(* the invariant of TransactionInvariant.                                  *)
(***************************************************************************)
EXTENDS TransactionInvariant, SalesHistoryProofs, SequenceTheorems

-----------------------------------------------------------------------------
(* Scripts: short, without repetition, ending in the commit. *)

IsScript(w) == /\ w \in Seq(Statements)
               /\ Len(w) \in 3..8
               /\ w[Len(w)] = "Commit"
               /\ \A i, j \in 1..Len(w) : w[i] = w[j] => i = j

LEMMA ThreeStatements ==
    ASSUME NEW a \in Statements, NEW b \in Statements,
           a # b, "Commit" \notin {a, b}
    PROVE  IsScript(<< a, b, "Commit" >>)
  <1> DEFINE w == << a, b, "Commit" >>
  <1>1. w \in Seq(Statements) /\ Len(w) = 3 /\ w[1] = a /\ w[2] = b /\ w[3] = "Commit"
    BY DEF Statements
  <1> HIDE DEF w
  <1>2. IsScript(w)
    BY <1>1 DEF IsScript
  <1> QED BY <1>2 DEF w

LEMMA FourStatements ==
    ASSUME NEW a \in Statements, NEW b \in Statements, NEW c \in Statements,
           a # b, a # c, b # c, "Commit" \notin {a, b, c}
    PROVE  IsScript(<< a, b, c, "Commit" >>)
  <1> DEFINE w == << a, b, c, "Commit" >>
  <1>1. w \in Seq(Statements) /\ Len(w) = 4 /\ w[1] = a /\ w[2] = b /\ w[3] = c /\ w[4] = "Commit"
    BY DEF Statements
  <1> HIDE DEF w
  <1>2. IsScript(w)
    BY <1>1 DEF IsScript
  <1> QED BY <1>2 DEF w

LEMMA FiveStatements ==
    ASSUME NEW a \in Statements, NEW b \in Statements, NEW c \in Statements, NEW d \in Statements,
           a # b, a # c, a # d, b # c, b # d, c # d, "Commit" \notin {a, b, c, d}
    PROVE  IsScript(<< a, b, c, d, "Commit" >>)
  <1> DEFINE w == << a, b, c, d, "Commit" >>
  <1>1. /\ w \in Seq(Statements) /\ Len(w) = 5
        /\ w[1] = a /\ w[2] = b /\ w[3] = c /\ w[4] = d /\ w[5] = "Commit"
    BY DEF Statements
  <1> HIDE DEF w
  <1>2. IsScript(w)
    BY <1>1 DEF IsScript
  <1> QED BY <1>2 DEF w

LEMMA ScriptIsScript ==
    ASSUME NEW h \in HandlerNames
    PROVE  IsScript(script(h))
  <1>0. \A x : x \in Statements <=>
           x \in {"LockCase", "Check", "FindPsjb", "LockPsjb", "SharePsjb", "FindPpjb", "LockPpjb",
                 "UpdateUnit", "LockUnit", "CheckUnit", "CheckConsumer", "InsertCase",
                 "CheckRelease", "LockFirstUnit", "LockSecondUnit", "Commit"}
    BY DEF Statements
  <1>1. CASE h = "CreateSalesCase"
    <2>1. script(h) = << "LockUnit", "CheckUnit", "CheckConsumer", "InsertCase", "Commit" >>
      BY <1>1 DEF script, lifecycleScript, LifecycleHandlers
    <2> QED BY <1>0, <2>1, FiveStatements, Zenon
  <1>2. CASE h = "CloseSalesCase"
    <2>1. script(h) = << "LockCase", "Check", "CheckRelease", "UpdateUnit", "Commit" >>
      BY <1>2 DEF script, lifecycleScript, LifecycleHandlers
    <2> QED BY <1>0, <2>1, FiveStatements, Zenon
  <1>3. CASE h = "MoveSalesCaseUnit"
    <2> DEFINE w == << "LockCase", "Check", "LockFirstUnit", "LockSecondUnit",
                       "CheckUnit", "CheckConsumer", "InsertCase", "Commit" >>
    <2>1. script(h) = w
      BY <1>3 DEF script, lifecycleScript, LifecycleHandlers
    <2>2. /\ w \in Seq(Statements) /\ Len(w) = 8 /\ w[1] = "LockCase" /\ w[2] = "Check"
          /\ w[3] = "LockFirstUnit" /\ w[4] = "LockSecondUnit" /\ w[5] = "CheckUnit"
          /\ w[6] = "CheckConsumer" /\ w[7] = "InsertCase" /\ w[8] = "Commit"
      BY DEF Statements
    <2> HIDE DEF w
    <2>3. IsScript(w)
      BY <2>2 DEF IsScript
    <2> QED BY <2>1, <2>3
  <1>4. CASE h \in {"ReissuePsjb", "CreateDocumentSubmission"}
    <2>1. script(h) = << "LockCase", "Check", "FindPsjb", "LockPsjb", "Commit" >>
      BY <1>4 DEF script, documentScript, LifecycleHandlers
    <2> QED BY <1>0, <2>1, FiveStatements, Zenon
  <1>5. CASE h = "CompleteCashPemberkasan"
    <2>1. script(h) = << "LockCase", "Check", "FindPsjb", "SharePsjb", "Commit" >>
      BY <1>5 DEF script, documentScript, LifecycleHandlers
    <2> QED BY <1>0, <2>1, FiveStatements, Zenon
  <1>6. CASE h = "ReissueDeveloperPpjb"
    <2>1. script(h) = << "LockCase", "Check", "FindPpjb", "LockPpjb", "Commit" >>
      BY <1>6 DEF script, documentScript, LifecycleHandlers
    <2> QED BY <1>0, <2>1, FiveStatements, Zenon
  <1>7. CASE h = "CreateAkad"
    <2>1. script(h) = << "LockCase", "Check", "LockPpjb", "UpdateUnit", "Commit" >>
      BY <1>7 DEF script, documentScript, LifecycleHandlers
    <2> QED BY <1>0, <2>1, FiveStatements, Zenon
  <1>8. CASE h \in {"CancelPsjb", "CancelDeveloperPpjb", "CreateBast"}
    <2>1. script(h) \in { << "LockPsjb", "LockCase", "Check", "Commit" >>,
                          << "LockPpjb", "LockCase", "Check", "Commit" >>,
                          << "LockCase", "Check", "UpdateUnit", "Commit" >> }
      BY <1>8 DEF script, documentScript, LifecycleHandlers
    <2> QED BY <1>0, <2>1, FourStatements, Zenon
  <1>9. CASE h \in {"RecordBiCheck", "CreatePsjb", "RecordBankResponse", "CreateDeveloperPpjb"}
    <2>1. script(h) = << "LockCase", "Check", "Commit" >>
      BY <1>9 DEF script, documentScript, LifecycleHandlers
    <2> QED BY <1>0, <2>1, ThreeStatements, Zenon
  <1> QED BY <1>1, <1>2, <1>3, <1>4, <1>5, <1>6, <1>7, <1>8, <1>9 DEF HandlerNames

LEMMA RestStep ==
    ASSUME NEW h \in HandlerNames, NEW s \in Rests(h)
    PROVE  /\ s # << >>
           /\ \E i \in 1..Len(script(h)) :
                 /\ Head(s) = script(h)[i]
                 /\ \A x : x \in Entries(s) <=> \E k \in i..Len(script(h)) : x = script(h)[k]
           /\ Head(s) \in Entries(s)
           /\ Head(s) = "Commit" => Tail(s) = << >> /\ Entries(s) = {"Commit"}
           /\ Head(s) # "Commit" => Tail(s) \in Rests(h) /\ Entries(Tail(s)) = Entries(s) \ {Head(s)}
  <1> DEFINE w == script(h)
             n == Len(w)
  <1>1. w \in Seq(Statements) /\ n \in 3..8 /\ w[n] = "Commit"
        /\ \A i, j \in 1..n : w[i] = w[j] => i = j
    BY ScriptIsScript DEF IsScript
  <1>2. PICK i \in 1..n : s = SubSeq(w, i, n)
    BY DEF Rests
  <1> HIDE DEF w
  <1>3. s \in Seq(Statements) /\ Len(s) = n + 1 - i /\ \A j \in 1..Len(s) : s[j] = w[i + j - 1]
    BY <1>1, <1>2
  <1>4. Head(s) = w[i] /\ s # << >> /\ Head(s) \in Entries(s)
    BY <1>1, <1>3 DEF Entries
  <1>5. \A x : x \in Entries(s) <=> \E k \in i..n : x = w[k]
    <2>1. \A j \in 1..Len(s) : s[j] = w[i + j - 1] /\ i + j - 1 \in i..n
      BY <1>1, <1>3
    <2>2. \A k \in i..n : k - i + 1 \in 1..Len(s) /\ s[k - i + 1] = w[k]
      BY <1>1, <1>3
    <2>3. ASSUME NEW x, x \in Entries(s) PROVE \E k \in i..n : x = w[k]
      <3>1. PICK j \in 1..Len(s) : x = s[j]
        BY <2>3 DEF Entries
      <3> QED BY <2>1, <3>1
    <2>4. ASSUME NEW k \in i..n PROVE w[k] \in Entries(s)
      BY <2>2 DEF Entries
    <2> QED BY <2>3, <2>4
  <1>6. ASSUME i = n
        PROVE  Head(s) = "Commit" /\ Tail(s) = << >> /\ Entries(s) = {"Commit"}
    <2>1. Len(s) = 1 /\ Head(s) = "Commit"
      BY <1>1, <1>3, <1>4, <1>6
    <2>0. Tail(s) = << >>
      <3>1. Tail(s) \in Seq(Statements) /\ Len(Tail(s)) = 0
        BY <1>3, <1>4, <2>1
      <3> QED BY <3>1, EmptySeq
    <2>2. Entries(s) = {"Commit"}
      <3>1. \A k \in i..n : k = n
        BY <1>1, <1>6
      <3>2. n \in i..n
        BY <1>1
      <3>3. \A x : x \in Entries(s) <=> x \in {"Commit"}
        BY <1>1, <1>5, <3>1, <3>2
      <3> QED BY <3>3, Zenon
    <2> QED BY <1>4, <2>0, <2>1, <2>2
  <1>7. ASSUME i # n
        PROVE  /\ Head(s) # "Commit" /\ Tail(s) \in Rests(h)
               /\ Entries(Tail(s)) = Entries(s) \ {Head(s)}
    <2>1. i + 1 \in 1..n /\ Head(s) # "Commit"
      BY <1>1, <1>4, <1>7
    <2>2. Tail(s) = SubSeq(w, i + 1, n)
      <3> DEFINE r == SubSeq(w, i + 1, n)
      <3>1. r \in Seq(Statements) /\ Len(r) = n - i /\ \A j \in 1..Len(r) : r[j] = w[i + j]
        BY <1>1, <2>1
      <3>2. Tail(s) \in Seq(Statements) /\ Len(Tail(s)) = n - i
            /\ \A j \in 1..Len(Tail(s)) : Tail(s)[j] = w[i + j]
        BY <1>1, <1>3, <1>4, <2>1
      <3> HIDE DEF r
      <3>3. Tail(s) = r
        BY <3>1, <3>2, SeqEqual
      <3> QED BY <3>3 DEF r
    <2>3. Tail(s) \in Rests(h)
      BY <1>1, <2>1, <2>2 DEF Rests, w
    <2>4. \A x : x \in Entries(Tail(s)) <=> \E k \in (i + 1)..n : x = w[k]
      <3>1. Len(Tail(s)) = n - i /\ \A j \in 1..Len(Tail(s)) : Tail(s)[j] = w[i + j]
        BY <1>1, <1>3, <1>4, <2>1
      <3>2. ASSUME NEW k \in (i + 1)..n
            PROVE  k - i \in 1..Len(Tail(s)) /\ Tail(s)[k - i] = w[k]
        <4>1. k - i \in 1..Len(Tail(s)) /\ i + (k - i) = k
          BY <1>1, <3>1
        <4> QED BY <3>1, <4>1
      <3>3. ASSUME NEW x, x \in Entries(Tail(s)) PROVE \E k \in (i + 1)..n : x = w[k]
        <4>1. PICK j \in 1..Len(Tail(s)) : x = Tail(s)[j]
          BY <3>3 DEF Entries
        <4>2. i + j \in (i + 1)..n
          BY <1>1, <3>1
        <4> QED BY <3>1, <4>1, <4>2
      <3>4. ASSUME NEW k \in (i + 1)..n PROVE w[k] \in Entries(Tail(s))
        BY <3>2 DEF Entries
      <3> QED BY <3>3, <3>4
    <2>5. Entries(Tail(s)) = Entries(s) \ {Head(s)}
      <3>1. \A k \in i..n : k = i \/ k \in (i + 1)..n
        BY <1>1
      <3>2. \A k \in (i + 1)..n : k \in i..n /\ w[k] # w[i]
        BY <1>1, <2>1
      <3>3. \A x : x \in Entries(Tail(s)) <=> x \in Entries(s) /\ x # w[i]
        BY <1>5, <2>4, <3>1, <3>2
      <3>4. \A x : x \in Entries(Tail(s)) <=> x \in Entries(s) \ {Head(s)}
        BY <1>4, <3>3
      <3> QED BY <3>4, Zenon
    <2> QED BY <1>4, <2>1, <2>3, <2>5
  <1>8. \E l \in 1..n : /\ Head(s) = w[l]
                       /\ \A x : x \in Entries(s) <=> \E k \in l..n : x = w[k]
    BY <1>4, <1>5
  <1>9. /\ Head(s) = "Commit" => Tail(s) = << >> /\ Entries(s) = {"Commit"}
        /\ Head(s) # "Commit" => Tail(s) \in Rests(h) /\ Entries(Tail(s)) = Entries(s) \ {Head(s)}
    BY <1>6, <1>7
  <1> QED BY <1>4, <1>8, <1>9 DEF w

\* What is left of a script of three to eight statements.
LEMMA LeftOfThree ==
    ASSUME NEW h \in HandlerNames, NEW s \in Rests(h), NEW p, NEW q,
           script(h) = << p, q, "Commit" >>
    PROVE  \/ Head(s) = p /\ Entries(s) = {p, q, "Commit"}
           \/ Head(s) = q /\ Entries(s) = {q, "Commit"}
           \/ Head(s) = "Commit" /\ Entries(s) = {"Commit"}
  <1> DEFINE w == << p, q, "Commit" >>
  <1>1. Len(w) = 3 /\ w[1] = p /\ w[2] = q /\ w[3] = "Commit"
    OBVIOUS
  <1>0. script(h) = w
    OBVIOUS
  <1> HIDE DEF w
  <1>a. \E i \in 1..Len(w) : /\ Head(s) = w[i]
                           /\ \A x : x \in Entries(s) <=> \E k \in i..Len(w) : x = w[k]
    BY RestStep, <1>0
  <1>2. PICK i \in 1..3 : /\ Head(s) = w[i]
                          /\ \A x : x \in Entries(s) <=> \E k \in i..3 : x = w[k]
    BY <1>a, <1>1
  <1>3. CASE i = 1
    <2>1. \A x : x \in Entries(s) <=> x \in {p, q, "Commit"}
      BY <1>1, <1>2, <1>3
    <2> QED BY <1>1, <1>2, <1>3, <2>1
  <1>4. CASE i = 2
    <2>1. \A x : x \in Entries(s) <=> x \in {q, "Commit"}
      BY <1>1, <1>2, <1>4
    <2> QED BY <1>1, <1>2, <1>4, <2>1
  <1>5. CASE i = 3
    <2>1. \A x : x \in Entries(s) <=> x \in {"Commit"}
      BY <1>1, <1>2, <1>5
    <2> QED BY <1>1, <1>2, <1>5, <2>1
  <1> QED BY <1>3, <1>4, <1>5

LEMMA LeftOfFour ==
    ASSUME NEW h \in HandlerNames, NEW s \in Rests(h), NEW p, NEW q, NEW r,
           script(h) = << p, q, r, "Commit" >>
    PROVE  \/ Head(s) = p /\ Entries(s) = {p, q, r, "Commit"}
           \/ Head(s) = q /\ Entries(s) = {q, r, "Commit"}
           \/ Head(s) = r /\ Entries(s) = {r, "Commit"}
           \/ Head(s) = "Commit" /\ Entries(s) = {"Commit"}
  <1> DEFINE w == << p, q, r, "Commit" >>
  <1>1. Len(w) = 4 /\ w[1] = p /\ w[2] = q /\ w[3] = r /\ w[4] = "Commit"
    OBVIOUS
  <1>0. script(h) = w
    OBVIOUS
  <1> HIDE DEF w
  <1>a. \E i \in 1..Len(w) : /\ Head(s) = w[i]
                           /\ \A x : x \in Entries(s) <=> \E k \in i..Len(w) : x = w[k]
    BY RestStep, <1>0
  <1>2. PICK i \in 1..4 : /\ Head(s) = w[i]
                          /\ \A x : x \in Entries(s) <=> \E k \in i..4 : x = w[k]
    BY <1>a, <1>1
  <1>3. CASE i = 1
    <2>1. \A x : x \in Entries(s) <=> x \in {p, q, r, "Commit"}
      BY <1>1, <1>2, <1>3
    <2> QED BY <1>1, <1>2, <1>3, <2>1
  <1>4. CASE i = 2
    <2>1. \A x : x \in Entries(s) <=> x \in {q, r, "Commit"}
      BY <1>1, <1>2, <1>4
    <2> QED BY <1>1, <1>2, <1>4, <2>1
  <1>5. CASE i = 3
    <2>1. \A x : x \in Entries(s) <=> x \in {r, "Commit"}
      BY <1>1, <1>2, <1>5
    <2> QED BY <1>1, <1>2, <1>5, <2>1
  <1>6. CASE i = 4
    <2>1. \A x : x \in Entries(s) <=> x \in {"Commit"}
      BY <1>1, <1>2, <1>6
    <2> QED BY <1>1, <1>2, <1>6, <2>1
  <1> QED BY <1>3, <1>4, <1>5, <1>6

LEMMA LeftOfFive ==
    ASSUME NEW h \in HandlerNames, NEW s \in Rests(h), NEW p, NEW q, NEW r, NEW z,
           script(h) = << p, q, r, z, "Commit" >>
    PROVE  \/ Head(s) = p /\ Entries(s) = {p, q, r, z, "Commit"}
           \/ Head(s) = q /\ Entries(s) = {q, r, z, "Commit"}
           \/ Head(s) = r /\ Entries(s) = {r, z, "Commit"}
           \/ Head(s) = z /\ Entries(s) = {z, "Commit"}
           \/ Head(s) = "Commit" /\ Entries(s) = {"Commit"}
  <1> DEFINE w == << p, q, r, z, "Commit" >>
  <1>1. Len(w) = 5 /\ w[1] = p /\ w[2] = q /\ w[3] = r /\ w[4] = z /\ w[5] = "Commit"
    OBVIOUS
  <1>0. script(h) = w
    OBVIOUS
  <1> HIDE DEF w
  <1>a. \E i \in 1..Len(w) : /\ Head(s) = w[i]
                           /\ \A x : x \in Entries(s) <=> \E k \in i..Len(w) : x = w[k]
    BY RestStep, <1>0
  <1>2. PICK i \in 1..5 : /\ Head(s) = w[i]
                          /\ \A x : x \in Entries(s) <=> \E k \in i..5 : x = w[k]
    BY <1>a, <1>1
  <1>3. CASE i = 1
    <2>1. \A x : x \in Entries(s) <=> x \in {p, q, r, z, "Commit"}
      BY <1>1, <1>2, <1>3
    <2> QED BY <1>1, <1>2, <1>3, <2>1
  <1>4. CASE i = 2
    <2>1. \A x : x \in Entries(s) <=> x \in {q, r, z, "Commit"}
      BY <1>1, <1>2, <1>4
    <2> QED BY <1>1, <1>2, <1>4, <2>1
  <1>5. CASE i = 3
    <2>1. \A x : x \in Entries(s) <=> x \in {r, z, "Commit"}
      BY <1>1, <1>2, <1>5
    <2> QED BY <1>1, <1>2, <1>5, <2>1
  <1>6. CASE i = 4
    <2>1. \A x : x \in Entries(s) <=> x \in {z, "Commit"}
      BY <1>1, <1>2, <1>6
    <2> QED BY <1>1, <1>2, <1>6, <2>1
  <1>7. CASE i = 5
    <2>1. \A x : x \in Entries(s) <=> x \in {"Commit"}
      BY <1>1, <1>2, <1>7
    <2> QED BY <1>1, <1>2, <1>7, <2>1
  <1> QED BY <1>3, <1>4, <1>5, <1>6, <1>7

-----------------------------------------------------------------------------
(* Order: what a transaction has done when it comes to a statement. *)

Progressing(j) == j.handler \in HandlerNames /\ j.todo \in Rests(j.handler)

NothingDone(j) ==
    /\ ~ CaseLocked(j) /\ ~ Checked(j) /\ ~ PsjbFound(j) /\ ~ PpjbFound(j) /\ ~ PsjbShared(j)
    /\ ~ UnitChecked(j) /\ ~ Inserted(j) /\ ~ Released(j)
    /\ \A u : ~ UnitLocked(j, u)

BeforeCase(j) ==
    /\ OnCase(j) /\ NothingDone(j)
    /\ j.handler # "CancelPsjb" => ~ PsjbLocked(j)
    /\ j.handler # "CancelDeveloperPpjb" => ~ PpjbLocked(j)

Orderly(j, a) ==
    /\ a = "LockCase" => BeforeCase(j)
    /\ a = "Check" => OnCase(j) /\ CaseLocked(j) /\ ~ Checked(j)
    /\ a = "LockPsjb" =>
          /\ j.handler \in {"ReissuePsjb", "CreateDocumentSubmission", "CancelPsjb"}
          /\ ~ PsjbLocked(j)
          /\ j.handler = "CancelPsjb" => NothingDone(j)
          /\ j.handler # "CancelPsjb" => CaseLocked(j) /\ Checked(j) /\ PsjbFound(j)
    /\ a = "SharePsjb" =>
          /\ j.handler = "CompleteCashPemberkasan"
          /\ ~ PsjbShared(j) /\ CaseLocked(j) /\ Checked(j) /\ PsjbFound(j)
    /\ a = "LockPpjb" =>
          /\ j.handler \in {"ReissueDeveloperPpjb", "CreateAkad", "CancelDeveloperPpjb"}
          /\ ~ PpjbLocked(j) /\ \A u : ~ UnitLocked(j, u)
          /\ j.handler = "CancelDeveloperPpjb" => NothingDone(j)
          /\ j.handler # "CancelDeveloperPpjb" => CaseLocked(j) /\ Checked(j)
          /\ j.handler = "ReissueDeveloperPpjb" => PpjbFound(j)
    /\ a = "FindPsjb" =>
          /\ j.handler \in {"ReissuePsjb", "CreateDocumentSubmission", "CompleteCashPemberkasan"}
          /\ CaseLocked(j) /\ Checked(j) /\ ~ PsjbFound(j) /\ ~ PsjbLocked(j) /\ ~ PsjbShared(j)
    /\ a = "FindPpjb" =>
          /\ j.handler = "ReissueDeveloperPpjb"
          /\ CaseLocked(j) /\ Checked(j) /\ ~ PpjbFound(j) /\ ~ PpjbLocked(j)
    /\ a = "LockUnit" => j.handler = "CreateSalesCase" /\ NothingDone(j)
    /\ a = "LockFirstUnit" =>
          /\ j.handler = "MoveSalesCaseUnit"
          /\ CaseLocked(j) /\ Checked(j) /\ \A u : ~ UnitLocked(j, u)
    /\ a = "LockSecondUnit" =>
          /\ j.handler = "MoveSalesCaseUnit" /\ CaseLocked(j) /\ Checked(j)
          /\ Done(j, "LockFirstUnit") /\ ~ Done(j, "LockSecondUnit")
    /\ a = "UpdateUnit" =>
          /\ j.handler \in {"CloseSalesCase", "CreateAkad", "CreateBast"}
          /\ CaseLocked(j) /\ Checked(j) /\ \A u : ~ UnitLocked(j, u)
          /\ j.handler = "CloseSalesCase" => Released(j)
    /\ a = "CheckUnit" =>
          /\ j.handler \in {"CreateSalesCase", "MoveSalesCaseUnit"}
          /\ ~ UnitChecked(j)
          /\ j.handler = "CreateSalesCase" => Done(j, "LockUnit")
          /\ j.handler = "MoveSalesCaseUnit" =>
                /\ CaseLocked(j) /\ Checked(j)
                /\ Done(j, "LockFirstUnit") /\ Done(j, "LockSecondUnit")
    /\ a = "CheckRelease" =>
          j.handler = "CloseSalesCase" /\ CaseLocked(j) /\ Checked(j) /\ ~ Released(j)
    /\ a = "InsertCase" =>
          /\ j.handler \in {"CreateSalesCase", "MoveSalesCaseUnit"}
          /\ UnitChecked(j) /\ ~ Inserted(j)
          /\ j.handler = "MoveSalesCaseUnit" => CaseLocked(j) /\ Checked(j)
    /\ a = "Commit" => \A s : s # "Commit" => Done(j, s)
    /\ a \in {"CheckRelease", "UpdateUnit", "Commit"} /\ j.handler = "CloseSalesCase" =>
          CaseLocked(j) /\ Checked(j)
    /\ a \in {"InsertCase", "Commit"} /\ j.handler = "MoveSalesCaseUnit" =>
          CaseLocked(j) /\ Checked(j)
    /\ Inserted(j) => a = "Commit" /\ UnitChecked(j)
    /\ a \in Statements
    /\ Checked(j) \/ PsjbFound(j) \/ PpjbFound(j) \/ Released(j) => CaseLocked(j) /\ Checked(j)
    /\ UnitChecked(j) /\ j.handler = "MoveSalesCaseUnit" =>
          Checked(j) /\ Done(j, "LockFirstUnit") /\ Done(j, "LockSecondUnit")
    /\ UnitChecked(j) /\ j.handler = "CreateSalesCase" => Done(j, "LockUnit")
    /\ \A u : UnitLocked(j, u) /\ j.handler # "CreateSalesCase" => Checked(j)
    /\ CaseLocked(j) /\ j.handler = "CancelPsjb" => PsjbLocked(j)
    /\ CaseLocked(j) /\ j.handler = "CancelDeveloperPpjb" => PpjbLocked(j)
    /\ PsjbLocked(j) /\ j.handler # "CancelPsjb" => PsjbFound(j)
    /\ PsjbShared(j) => PsjbFound(j)
    /\ PpjbLocked(j) /\ j.handler # "CancelDeveloperPpjb" => PpjbFound(j)

LEMMA Order ==
    ASSUME NEW j, Progressing(j)
    PROVE  Orderly(j, Head(j.todo))
  <1> DEFINE h == j.handler
             s == j.todo
  <1>0. h \in HandlerNames /\ s \in Rests(h)
    BY DEF Progressing
  <1>r. \E i \in 1..Len(script(h)) :
           /\ Head(s) = script(h)[i]
           /\ \A x : x \in Entries(s) <=> \E k \in i..Len(script(h)) : x = script(h)[k]
    BY <1>0, RestStep
  <1> USE DEF Orderly, BeforeCase, NothingDone, Done, OnCase, CaseLocked, Checked, PsjbFound,
              PpjbFound, PsjbLocked, PsjbShared, PpjbLocked, UnitChecked, Inserted, Released,
              UnitLocked, HandlerNames, Statements
  <1>1. CASE h = "CreateSalesCase"
    <2>1. script(h) = << "LockUnit", "CheckUnit", "CheckConsumer", "InsertCase", "Commit" >>
      BY <1>1 DEF script, lifecycleScript, LifecycleHandlers
    <2>2. \/ Head(s) = "LockUnit"
             /\ Entries(s) = {"LockUnit", "CheckUnit", "CheckConsumer", "InsertCase", "Commit"}
          \/ Head(s) = "CheckUnit"
             /\ Entries(s) = {"CheckUnit", "CheckConsumer", "InsertCase", "Commit"}
          \/ Head(s) = "CheckConsumer" /\ Entries(s) = {"CheckConsumer", "InsertCase", "Commit"}
          \/ Head(s) = "InsertCase" /\ Entries(s) = {"InsertCase", "Commit"}
          \/ Head(s) = "Commit" /\ Entries(s) = {"Commit"}
      BY <1>0, <2>1, LeftOfFive
    <2> QED BY <1>1, <2>2
  <1>2. CASE h = "CloseSalesCase"
    <2>1. script(h) = << "LockCase", "Check", "CheckRelease", "UpdateUnit", "Commit" >>
      BY <1>2 DEF script, lifecycleScript, LifecycleHandlers
    <2>2. \/ Head(s) = "LockCase"
             /\ Entries(s) = {"LockCase", "Check", "CheckRelease", "UpdateUnit", "Commit"}
          \/ Head(s) = "Check" /\ Entries(s) = {"Check", "CheckRelease", "UpdateUnit", "Commit"}
          \/ Head(s) = "CheckRelease" /\ Entries(s) = {"CheckRelease", "UpdateUnit", "Commit"}
          \/ Head(s) = "UpdateUnit" /\ Entries(s) = {"UpdateUnit", "Commit"}
          \/ Head(s) = "Commit" /\ Entries(s) = {"Commit"}
      BY <1>0, <2>1, LeftOfFive
    <2> QED BY <1>2, <2>2
  <1>3. CASE h = "MoveSalesCaseUnit"
    <2> DEFINE w == << "LockCase", "Check", "LockFirstUnit", "LockSecondUnit",
                       "CheckUnit", "CheckConsumer", "InsertCase", "Commit" >>
    <2>1. script(h) = w
      BY <1>3 DEF script, lifecycleScript, LifecycleHandlers
    <2>2. /\ Len(w) = 8 /\ w[1] = "LockCase" /\ w[2] = "Check"
          /\ w[3] = "LockFirstUnit" /\ w[4] = "LockSecondUnit" /\ w[5] = "CheckUnit"
          /\ w[6] = "CheckConsumer" /\ w[7] = "InsertCase" /\ w[8] = "Commit"
      OBVIOUS
    <2> HIDE DEF w
    <2>3. \E i \in 1..Len(w) : /\ Head(s) = w[i]
                              /\ \A x : x \in Entries(s) <=> \E k \in i..Len(w) : x = w[k]
      BY <1>r, <2>1
    <2>4. PICK i \in 1..8 : /\ Head(s) = w[i]
                            /\ \A x : x \in Entries(s) <=> \E k \in i..8 : x = w[k]
      BY <2>2, <2>3
    <2>a. \A k, m \in 1..8 : w[k] = w[m] => k = m
      <3>1. IsScript(w)
        BY <1>0, <2>1, ScriptIsScript
      <3> QED BY <2>2, <3>1 DEF IsScript
    <2>5. ASSUME NEW k \in 1..8
          PROVE  Done(j, w[k]) <=> k < i
      <3>1. w[k] \in Entries(s) <=> \E m \in i..8 : w[k] = w[m]
        BY <2>4
      <3>2. (\E m \in i..8 : w[k] = w[m]) <=> k >= i
        BY <2>a, <2>4
      <3> QED BY <2>4, <3>1, <3>2
    <2> QED BY <1>3, <2>2, <2>4, <2>5
  <1>4. CASE h \in {"ReissuePsjb", "CreateDocumentSubmission"}
    <2>1. script(h) = << "LockCase", "Check", "FindPsjb", "LockPsjb", "Commit" >>
      BY <1>4 DEF script, documentScript, LifecycleHandlers
    <2>2. \/ Head(s) = "LockCase" /\ Entries(s) = {"LockCase", "Check", "FindPsjb", "LockPsjb", "Commit"}
          \/ Head(s) = "Check" /\ Entries(s) = {"Check", "FindPsjb", "LockPsjb", "Commit"}
          \/ Head(s) = "FindPsjb" /\ Entries(s) = {"FindPsjb", "LockPsjb", "Commit"}
          \/ Head(s) = "LockPsjb" /\ Entries(s) = {"LockPsjb", "Commit"}
          \/ Head(s) = "Commit" /\ Entries(s) = {"Commit"}
      BY <1>0, <2>1, LeftOfFive
    <2> QED BY <1>4, <2>2
  <1>5. CASE h = "CompleteCashPemberkasan"
    <2>1. script(h) = << "LockCase", "Check", "FindPsjb", "SharePsjb", "Commit" >>
      BY <1>5 DEF script, documentScript, LifecycleHandlers
    <2>2. \/ Head(s) = "LockCase" /\ Entries(s) = {"LockCase", "Check", "FindPsjb", "SharePsjb", "Commit"}
          \/ Head(s) = "Check" /\ Entries(s) = {"Check", "FindPsjb", "SharePsjb", "Commit"}
          \/ Head(s) = "FindPsjb" /\ Entries(s) = {"FindPsjb", "SharePsjb", "Commit"}
          \/ Head(s) = "SharePsjb" /\ Entries(s) = {"SharePsjb", "Commit"}
          \/ Head(s) = "Commit" /\ Entries(s) = {"Commit"}
      BY <1>0, <2>1, LeftOfFive
    <2> QED BY <1>5, <2>2
  <1>6. CASE h = "ReissueDeveloperPpjb"
    <2>1. script(h) = << "LockCase", "Check", "FindPpjb", "LockPpjb", "Commit" >>
      BY <1>6 DEF script, documentScript, LifecycleHandlers
    <2>2. \/ Head(s) = "LockCase" /\ Entries(s) = {"LockCase", "Check", "FindPpjb", "LockPpjb", "Commit"}
          \/ Head(s) = "Check" /\ Entries(s) = {"Check", "FindPpjb", "LockPpjb", "Commit"}
          \/ Head(s) = "FindPpjb" /\ Entries(s) = {"FindPpjb", "LockPpjb", "Commit"}
          \/ Head(s) = "LockPpjb" /\ Entries(s) = {"LockPpjb", "Commit"}
          \/ Head(s) = "Commit" /\ Entries(s) = {"Commit"}
      BY <1>0, <2>1, LeftOfFive
    <2> QED BY <1>6, <2>2
  <1>7. CASE h = "CreateAkad"
    <2>1. script(h) = << "LockCase", "Check", "LockPpjb", "UpdateUnit", "Commit" >>
      BY <1>7 DEF script, documentScript, LifecycleHandlers
    <2>2. \/ Head(s) = "LockCase" /\ Entries(s) = {"LockCase", "Check", "LockPpjb", "UpdateUnit", "Commit"}
          \/ Head(s) = "Check" /\ Entries(s) = {"Check", "LockPpjb", "UpdateUnit", "Commit"}
          \/ Head(s) = "LockPpjb" /\ Entries(s) = {"LockPpjb", "UpdateUnit", "Commit"}
          \/ Head(s) = "UpdateUnit" /\ Entries(s) = {"UpdateUnit", "Commit"}
          \/ Head(s) = "Commit" /\ Entries(s) = {"Commit"}
      BY <1>0, <2>1, LeftOfFive
    <2> QED BY <1>7, <2>2
  <1>8. CASE h = "CancelPsjb"
    <2>1. script(h) = << "LockPsjb", "LockCase", "Check", "Commit" >>
      BY <1>8 DEF script, documentScript, LifecycleHandlers
    <2>2. \/ Head(s) = "LockPsjb" /\ Entries(s) = {"LockPsjb", "LockCase", "Check", "Commit"}
          \/ Head(s) = "LockCase" /\ Entries(s) = {"LockCase", "Check", "Commit"}
          \/ Head(s) = "Check" /\ Entries(s) = {"Check", "Commit"}
          \/ Head(s) = "Commit" /\ Entries(s) = {"Commit"}
      BY <1>0, <2>1, LeftOfFour
    <2> QED BY <1>8, <2>2
  <1>9. CASE h = "CancelDeveloperPpjb"
    <2>1. script(h) = << "LockPpjb", "LockCase", "Check", "Commit" >>
      BY <1>9 DEF script, documentScript, LifecycleHandlers
    <2>2. \/ Head(s) = "LockPpjb" /\ Entries(s) = {"LockPpjb", "LockCase", "Check", "Commit"}
          \/ Head(s) = "LockCase" /\ Entries(s) = {"LockCase", "Check", "Commit"}
          \/ Head(s) = "Check" /\ Entries(s) = {"Check", "Commit"}
          \/ Head(s) = "Commit" /\ Entries(s) = {"Commit"}
      BY <1>0, <2>1, LeftOfFour
    <2> QED BY <1>9, <2>2
  <1>10. CASE h = "CreateBast"
    <2>1. script(h) = << "LockCase", "Check", "UpdateUnit", "Commit" >>
      BY <1>10 DEF script, documentScript, LifecycleHandlers
    <2>2. \/ Head(s) = "LockCase" /\ Entries(s) = {"LockCase", "Check", "UpdateUnit", "Commit"}
          \/ Head(s) = "Check" /\ Entries(s) = {"Check", "UpdateUnit", "Commit"}
          \/ Head(s) = "UpdateUnit" /\ Entries(s) = {"UpdateUnit", "Commit"}
          \/ Head(s) = "Commit" /\ Entries(s) = {"Commit"}
      BY <1>0, <2>1, LeftOfFour
    <2> QED BY <1>10, <2>2
  <1>11. CASE h \in {"RecordBiCheck", "CreatePsjb", "RecordBankResponse", "CreateDeveloperPpjb"}
    <2>1. script(h) = << "LockCase", "Check", "Commit" >>
      BY <1>11 DEF script, documentScript, LifecycleHandlers
    <2>2. \/ Head(s) = "LockCase" /\ Entries(s) = {"LockCase", "Check", "Commit"}
          \/ Head(s) = "Check" /\ Entries(s) = {"Check", "Commit"}
          \/ Head(s) = "Commit" /\ Entries(s) = {"Commit"}
      BY <1>0, <2>1, LeftOfThree
    <2> QED BY <1>11, <2>2
  <1> QED BY <1>0, <1>1, <1>2, <1>3, <1>4, <1>5, <1>6, <1>7, <1>8, <1>9, <1>10, <1>11

-----------------------------------------------------------------------------
(* A statement moves its transaction one entry on. *)

LEMMA Advance ==
    ASSUME NEW j, NEW k, Progressing(j), Head(j.todo) # "Commit",
           k.handler = j.handler, k.todo = Tail(j.todo)
    PROVE  /\ Progressing(k)
           /\ \A s : Done(k, s) <=> Done(j, s) \/ s = Head(j.todo)
  <1>1. j.todo \in Rests(j.handler) /\ j.handler \in HandlerNames
    BY DEF Progressing
  <1>2. /\ Head(j.todo) \in Entries(j.todo)
        /\ Tail(j.todo) \in Rests(j.handler)
        /\ Entries(Tail(j.todo)) = Entries(j.todo) \ {Head(j.todo)}
    BY <1>1, RestStep
  <1> QED BY <1>1, <1>2 DEF Progressing, Done

LEMMA Begins ==
    ASSUME NEW j, j.handler \in HandlerNames, j.todo = script(j.handler)
    PROVE  /\ Progressing(j) /\ NothingDone(j)
           /\ ~ PsjbLocked(j) /\ ~ PpjbLocked(j)
  <1>1. IsScript(script(j.handler))
    BY ScriptIsScript
  <1>2. j.todo = SubSeq(j.todo, 1, Len(j.todo)) /\ 1 \in 1..Len(j.todo)
    <2> DEFINE s == j.todo
               r == SubSeq(s, 1, Len(s))
    <2>1. s \in Seq(Statements) /\ Len(s) \in 3..8
      BY <1>1 DEF IsScript
    <2> HIDE DEF s
    <2>2. r \in Seq(Statements) /\ Len(r) = Len(s) /\ \A i \in 1..Len(r) : r[i] = s[i]
      BY <2>1
    <2> HIDE DEF r
    <2>3. r = s
      BY <2>1, <2>2, SeqEqual
    <2>4. s = SubSeq(s, 1, Len(s)) /\ 1 \in 1..Len(s)
      BY <2>1, <2>3 DEF r
    <2> QED BY <2>4 DEF s
  <1>3. Progressing(j)
    BY <1>2 DEF Progressing, Rests
  <1>4. Orderly(j, Head(j.todo))
    BY <1>3, Order
  <1>5. Head(j.todo) \in {"LockCase", "LockPsjb", "LockPpjb", "LockUnit"}
    BY DEF script, lifecycleScript, documentScript, LifecycleHandlers, HandlerNames
  <1>6. /\ Head(j.todo) = "LockPsjb" => j.handler = "CancelPsjb"
        /\ Head(j.todo) = "LockPpjb" => j.handler = "CancelDeveloperPpjb"
        /\ Head(j.todo) = "LockUnit" => j.handler = "CreateSalesCase"
        /\ j.handler \in {"CancelPsjb", "CancelDeveloperPpjb"} => Head(j.todo) # "LockCase"
    BY DEF script, lifecycleScript, documentScript, LifecycleHandlers, HandlerNames
  <1> QED BY <1>3, <1>4, <1>5, <1>6 DEF Orderly, BeforeCase, NothingDone, PsjbLocked, PpjbLocked

\* A running transaction has a place in its script.
LEMMA RunningProgresses ==
    ASSUME TxTypeOK, NEW t \in Tx, Running(t), Own(t)
    PROVE  /\ tx[t] \in Job /\ tx[t].handler \in HandlerNames
           /\ Progressing(tx[t]) /\ Orderly(tx[t], Head(tx[t].todo))
           /\ tx[t].todo # << >>
           /\ Proper(t) /\ Fresh(t) /\ Holding(t)
  <1>1. tx[t] \in Job
    BY DEF TxTypeOK
  <1>2. tx[t].handler \in HandlerNames
    BY <1>1 DEF Job, Running
  <1>3. Progressing(tx[t])
    BY <1>2 DEF Progressing, Own
  <1>4. tx[t].todo # << >>
    <2>1. tx[t].todo \in Rests(tx[t].handler)
      BY <1>3 DEF Progressing
    <2> QED BY <1>2, <2>1, RestStep
  <1> QED BY <1>1, <1>2, <1>3, <1>4, Order DEF Own

-----------------------------------------------------------------------------
(* What a transaction has read stays so while the rows it looks at do. *)

SameCaseView(c) ==
    /\ sales_cases'[c] = sales_cases[c] /\ latest_bi'[c] = latest_bi[c]
    /\ akads'[c] = akads[c] /\ basts'[c] = basts[c]
    /\ activePsjb(c)' = activePsjb(c) /\ activePpjb(c)' = activePpjb(c)
    /\ cashPemberkasan(c)' = cashPemberkasan(c) /\ approvalOf(c)' = approvalOf(c)
    /\ \A s \in submissionsOf(c) : s \in submissionsOf(c)' /\ submissions'[s].type = submissions[s].type

Unnamed(p) == \A s \in Submission : submissions[s].psjb_id # p

LEMMA AcceptsStays ==
    ASSUME NEW t, NEW c, caseOf(t) = c, caseOf(t)' = c,
           tx'[t].handler = tx[t].handler, tx'[t].request = tx[t].request,
           tx'[t].row = tx[t].row, SameCaseView(c),
           tx[t].handler \in {"CancelPsjb", "CancelDeveloperPpjb"} =>
               tx'[t].documentStatus = tx[t].documentStatus /\ tx'[t].document = tx[t].document,
           tx[t].handler = "CancelPsjb" /\ Unnamed(tx[t].document) => Unnamed(tx[t].document)',
           accepts(t)
    PROVE  accepts(t)'
  <1> DEFINE h == tx[t].handler
             row == tx[t].row
             r == tx[t].request
  <1>1. /\ hasAkad(c)' <=> hasAkad(c)
        /\ hasBast(c)' <=> hasBast(c)
        /\ latest_bi'[c] = latest_bi[c]
        /\ activePsjb(c)' = activePsjb(c) /\ activePpjb(c)' = activePpjb(c)
        /\ cashPemberkasan(c)' = cashPemberkasan(c) /\ approvalOf(c)' = approvalOf(c)
    BY DEF SameCaseView, hasAkad, hasBast
  <1>2. r.document \in submissionsOf(c) /\ submissions[r.document].type = "BANK" =>
           r.document \in submissionsOf(c)' /\ submissions'[r.document].type = "BANK"
    BY DEF SameCaseView
  <1>3. /\ h # "CancelPsjb" => row.case_status = "ACTIVE"
        /\ h \in {"CloseSalesCase", "MoveSalesCaseUnit", "ReissueDeveloperPpjb",
                  "CancelDeveloperPpjb", "CreateAkad"} => ~ hasAkad(c)
        /\ h = "CreateBast" => hasAkad(c) /\ ~ hasBast(c)
        /\ h = "CreatePsjb" =>
              /\ row.financing_type = "KPR_SUBSIDI" => latest_bi[c].result = "CLEAR"
              /\ activePsjb(c) = {}
        /\ h \in {"CancelPsjb", "CancelDeveloperPpjb"} => tx[t].documentStatus = "ACTIVE"
        /\ h = "CancelPsjb" =>
              /\ Unnamed(tx[t].document)
              /\ ~ isBeyond(row.current_stage, "PEMBERKASAN")
        /\ h \in {"CreateDocumentSubmission", "RecordBankResponse"} =>
              row.financing_type = "KPR_SUBSIDI"
        /\ h = "CompleteCashPemberkasan" =>
              row.financing_type = "CASH" /\ cashPemberkasan(c) = {}
        /\ h = "RecordBankResponse" =>
              /\ r.document \in submissionsOf(c)
              /\ submissions[r.document].type = "BANK"
              /\ r.data[1] = "APPROVED" => approvalOf(c) = {}
        /\ h = "CreateDeveloperPpjb" =>
              /\ activePpjb(c) = {}
              /\ IF row.financing_type = "KPR_SUBSIDI" THEN approvalOf(c) # {}
                 ELSE /\ activePsjb(c) # {} /\ cashPemberkasan(c) # {}
                      /\ isBeyond(row.current_stage, "PEMBERKASAN")
    BY DEF accepts, req, Unnamed
  <1>4. /\ tx'[t].handler = h /\ tx'[t].row = row /\ tx'[t].request = r
        /\ h \in {"CancelPsjb", "CancelDeveloperPpjb"} =>
              tx'[t].documentStatus = tx[t].documentStatus /\ tx'[t].document = tx[t].document
        /\ h = "CancelPsjb" => Unnamed(tx[t].document)'
    BY <1>3
  <1>5. Unnamed(tx[t].document)' <=> \A s \in Submission : submissions'[s].psjb_id # tx'[t].document
    BY DEF Unnamed
  <1> HIDE DEF h, row, r
  <1> QED BY <1>1, <1>2, <1>3, <1>4, <1>5 DEF accepts, req

\* What another transaction's step leaves of all that x relies on.
NewRowStays(x) ==
    LET r == req(x) IN
    /\ r.new \in Case /\ ~ Exists(r.new) => ~ Exists(r.new)'
    /\ r.new \in Psjb /\ psjbs[r.new].status = Absent => psjbs'[r.new].status = Absent
    /\ r.new \in Submission /\ submissions[r.new].status = Absent =>
          submissions'[r.new].status = Absent
    /\ r.new \in BankProcess /\ bank_processes[r.new].response_type = Absent =>
          bank_processes'[r.new].response_type = Absent
    /\ r.new \in Ppjb /\ ppjbs[r.new].status = Absent => ppjbs'[r.new].status = Absent

RowsStay ==
    /\ \A k \in Case : Exists(k) => Exists(k)'
    /\ \A p \in Psjb : psjbs[p].status # Absent => psjbs'[p].status # Absent
    /\ \A d \in Ppjb : ppjbs[d].status # Absent => ppjbs'[d].status # Absent

NoNewClash(x) ==
    \A k \in Case : status(k)' = "ACTIVE" /\ clash(keys(x), keysOfCase(k)') =>
                    status(k) = "ACTIVE" /\ clash(keys(x), keysOfCase(k))

Undisturbed(x) ==
    LET j == tx[x] IN
    /\ RowsStay
    /\ tx'[x] = j
    /\ caseOf(x)' = caseOf(x)
    /\ j.handler \in Inserting => NewRowStays(x)
    /\ CaseLocked(j) => SameCaseView(caseOf(x))
    /\ PsjbLocked(j) => /\ psjbs'[j.document].status = psjbs[j.document].status
                        /\ Unnamed(j.document) => Unnamed(j.document)'
    /\ PpjbLocked(j) => ppjbs'[j.document].status = ppjbs[j.document].status
    /\ UnitChecked(j) /\ activeSalesCases(req(x).unit) = {} =>
          activeSalesCases(req(x).unit)' = {}
    /\ Inserted(j) => NoNewClash(x)

LEMMA ProperStays ==
    ASSUME NEW x, tx'[x].handler = tx[x].handler, tx'[x].request = tx[x].request,
           tx[x].handler \in {"CancelPsjb", "CancelDeveloperPpjb", "CreateAkad"} =>
              tx'[x].document = tx[x].document,
           RowsStay, tx[x].handler \in Inserting => NewRowStays(x), Proper(x)
    PROVE  Proper(x)'
  <1>1. req(x)' = req(x)
    BY DEF req
  <1> HIDE DEF req
  <1> QED BY <1>1 DEF Proper, RowsStay, NewRowStays, Inserting

LEMMA OwnStays ==
    ASSUME TxTypeOK, NEW x \in Tx, Own(x), Undisturbed(x),
           \A l \in locks : l.tx = x => l \in locks'
    PROVE  Own(x)'
  <1>1. CASE ~ Running(x)
    BY <1>1 DEF Own, Running, Undisturbed
  <1>2. CASE Running(x)
    <2> DEFINE j == tx[x]
               c == caseOf(x)
    <2>1. /\ j.handler \in HandlerNames /\ Orderly(j, Head(j.todo))
          /\ Proper(x) /\ Fresh(x) /\ Holding(x) /\ j.todo \in Rests(j.handler)
      BY <1>2, RunningProgresses DEF Progressing
    <2>2. tx'[x] = j /\ caseOf(x)' = c /\ req(x)' = req(x)
      BY DEF Undisturbed, req
    <2>3. Proper(x)'
      BY <2>1, <2>2, ProperStays DEF Undisturbed
    <2>4. Holding(x)'
      BY <2>1, <2>2 DEF Holding, Lock
    <2>5. CaseLocked(j) => SameCaseView(c)
      BY DEF Undisturbed
    <2>6. /\ Checked(j) \/ PsjbFound(j) \/ PpjbFound(j) => CaseLocked(j)
          /\ CaseLocked(j) /\ j.handler = "CancelPsjb" => PsjbLocked(j)
      BY <2>1 DEF Orderly
    <2>7. /\ (CaseLocked(j) => j.row = sales_cases[c])'
          /\ (PsjbFound(j) => j.document \in activePsjb(c))'
          /\ (PpjbFound(j) => j.document \in activePpjb(c))'
      BY <2>1, <2>2, <2>5, <2>6 DEF Fresh, SameCaseView
    <2>8. (Checked(j) => accepts(x))'
      <3> SUFFICES ASSUME Checked(j) PROVE accepts(x)'
        BY <2>2
      <3>1. accepts(x) /\ SameCaseView(c)
        BY <2>1, <2>5, <2>6 DEF Fresh
      <3>2. tx[x].handler = "CancelPsjb" /\ Unnamed(tx[x].document) => Unnamed(tx[x].document)'
        BY <2>6 DEF Undisturbed
      <3> QED BY <2>2, <3>1, <3>2, AcceptsStays
    <2>9. /\ (j.handler = "CancelPsjb" /\ PsjbLocked(j) => j.documentStatus = psjbs[j.document].status)'
          /\ (j.handler = "CancelDeveloperPpjb" /\ PpjbLocked(j) =>
                 j.documentStatus = ppjbs[j.document].status)'
      BY <2>1, <2>2 DEF Fresh, Undisturbed
    <2>10. (UnitChecked(j) => /\ activeSalesCases(req(x).unit) = {}
                              /\ j.handler = "MoveSalesCaseUnit" => UnitBranch[req(x).unit] = j.row.branch_id)'
      <3>1. UnitChecked(j) => /\ activeSalesCases(req(x).unit) = {}
                              /\ j.handler = "MoveSalesCaseUnit" => UnitBranch[req(x).unit] = j.row.branch_id
        BY <2>1 DEF Fresh, req
      <3>2. UnitChecked(j) => activeSalesCases(req(x).unit)' = {}
        BY <3>1 DEF Undisturbed
      <3> QED BY <2>2, <3>1, <3>2
    <2>11. (Released(j) => j.release)'
      BY <2>1, <2>2 DEF Fresh
    <2>12. (Inserted(j) => \A k \in Case : status(k) = "ACTIVE" /\ clash(keys(x), keysOfCase(k)) =>
                              j.handler = "MoveSalesCaseUnit" /\ k = c)'
      <3> SUFFICES ASSUME Inserted(j), NEW k \in Case, status(k)' = "ACTIVE",
                          clash(keys(x), keysOfCase(k))'
                   PROVE  j.handler = "MoveSalesCaseUnit" /\ k = c
        BY <2>2
      <3>1. keys(x)' = keys(x)
        BY <2>2 DEF keys
      <3>2. status(k) = "ACTIVE" /\ clash(keys(x), keysOfCase(k))
        BY <3>1 DEF Undisturbed, NoNewClash, clash
      <3> QED BY <2>1, <3>2 DEF Fresh
    <2>13. Fresh(x)'
      BY <2>7, <2>8, <2>9, <2>10, <2>11, <2>12 DEF Fresh, req
    <2>14. Running(x)'
      BY <1>2, <2>2 DEF Running
    <2> QED BY <2>1, <2>2, <2>3, <2>4, <2>13, <2>14 DEF Own
  <1> QED BY <1>1, <1>2

\* A step that writes no row disturbs nobody else.
LEMMA SameTables ==
    ASSUME UNCHANGED vars
    PROVE  /\ sales_cases' = sales_cases /\ unit_status' = unit_status /\ latest_bi' = latest_bi
           /\ psjbs' = psjbs /\ submissions' = submissions /\ bank_processes' = bank_processes
           /\ ppjbs' = ppjbs /\ akads' = akads /\ basts' = basts
           /\ RowsStay
           /\ \A c : SameCaseView(c)
           /\ \A u : activeSalesCases(u)' = activeSalesCases(u)
  <1>1. /\ sales_cases' = sales_cases /\ unit_status' = unit_status /\ latest_bi' = latest_bi
        /\ psjbs' = psjbs /\ submissions' = submissions /\ bank_processes' = bank_processes
        /\ ppjbs' = ppjbs /\ akads' = akads /\ basts' = basts
    BY DEF vars, documents
  <1>2. RowsStay
    BY <1>1 DEF RowsStay, Exists, status
  <1>3. ASSUME NEW c PROVE SameCaseView(c)
    <2>1. activePsjb(c)' = activePsjb(c)
      BY <1>1 DEF activePsjb
    <2>2. activePpjb(c)' = activePpjb(c)
      BY <1>1 DEF activePpjb
    <2>3. submissionsOf(c)' = submissionsOf(c)
      BY <1>1 DEF submissionsOf
    <2>4. cashPemberkasan(c)' = cashPemberkasan(c)
      BY <1>1, <2>3 DEF cashPemberkasan
    <2>5. approvalOf(c)' = approvalOf(c)
      BY <1>1 DEF approvalOf
    <2> QED BY <1>1, <2>1, <2>2, <2>3, <2>4, <2>5 DEF SameCaseView
  <1>4. ASSUME NEW u PROVE activeSalesCases(u)' = activeSalesCases(u)
    BY <1>1 DEF activeSalesCases, IsActive, Found, Exists, status
  <1> QED BY <1>1, <1>2, <1>3, <1>4

LEMMA ReadersDisturbNobody ==
    ASSUME UNCHANGED vars, NEW x, tx'[x] = tx[x]
    PROVE  Undisturbed(x)
  <1>1. caseOf(x)' = caseOf(x)
    BY SameTables DEF caseOf, req
  <1>2. NewRowStays(x)
    BY SameTables DEF NewRowStays, Exists, status, req
  <1>8. NoNewClash(x)
    BY SameTables DEF NoNewClash, status, keysOfCase, clash
  <1>3. \A p : Unnamed(p) => Unnamed(p)'
    BY SameTables DEF Unnamed
  <1>4. req(x)' = req(x)
    BY DEF req
  <1>5. activeSalesCases(req(x).unit)' = activeSalesCases(req(x).unit)
    BY <1>4, SameTables DEF activeSalesCases, IsActive, Found, Exists, status
  <1>6. Unnamed(tx[x].document) => Unnamed(tx[x].document)'
    BY SameTables DEF Unnamed
  <1>7. RowsStay /\ SameCaseView(caseOf(x)) /\ psjbs' = psjbs /\ ppjbs' = ppjbs
    BY SameTables
  <1> QED BY <1>1, <1>2, <1>5, <1>6, <1>7, <1>8 DEF Undisturbed

-----------------------------------------------------------------------------
(* The statements but the commit: what each changes of its own transaction. *)

Locking == {"LockCase", "LockPsjb", "LockPpjb", "SharePsjb", "LockUnit", "LockFirstUnit",
            "LockSecondUnit", "UpdateUnit"}

NoClash(t) ==
    /\ \A k \in Case : status(k) = "ACTIVE" /\ clash(keys(t), keysOfCase(k)) =>
           tx[t].handler = "MoveSalesCaseUnit" /\ k = caseOf(t)
    /\ \A x \in Tx \ {t} : Inserted(tx[x]) => ~ clash(keys(t), keys(x))

Performs(t, a, k) ==
    LET j == tx[t]
        c == caseOf(t)
    IN  /\ a = Head(j.todo) /\ a # "Commit"
        /\ tx' = [tx EXCEPT ![t] = k]
        /\ k.handler = j.handler /\ k.request = j.request /\ k.todo = Tail(j.todo)
        /\ k.row = IF a = "LockCase" THEN sales_cases[c] ELSE j.row
        /\ a \notin {"FindPsjb", "FindPpjb"} => k.document = j.document
        /\ a = "FindPsjb" => k.document \in activePsjb(c)
        /\ a = "FindPpjb" => k.document \in activePpjb(c)
        /\ k.documentStatus = IF a = "LockPsjb" THEN psjbs[j.document].status
                              ELSE IF a = "LockPpjb" THEN ppjbs[j.document].status
                              ELSE j.documentStatus
        /\ k.release = IF a = "CheckRelease" THEN TRUE ELSE j.release
        /\ a = "Check" => accepts(t)
        /\ a = "LockPpjb" /\ j.handler # "CancelDeveloperPpjb" => j.document \in activePpjb(c)
        /\ a = "CheckUnit" => /\ activeSalesCases(req(t).unit) = {}
                              /\ j.handler = "MoveSalesCaseUnit" =>
                                    UnitBranch[req(t).unit] = j.row.branch_id
        /\ a = "InsertCase" => NoClash(t)
        /\ a \in Locking => blockers(t) = {}
        /\ locks' = IF a \in Locking THEN locks \cup {Lock(t, target(t), mode(t))} ELSE locks
        /\ UNCHANGED vars

\* What the statement adds to the claims of t.
LEMMA Gains ==
    ASSUME TxTypeOK, NEW t \in Tx, Running(t), Own(t), NEW a, NEW k \in Job, Performs(t, a, k)
    PROVE  /\ k.handler \in HandlerNames /\ Progressing(k) /\ tx'[t] = k
           /\ \A s : Done(k, s) <=> Done(tx[t], s) \/ s = a
           /\ \A x \in Tx \ {t} : tx'[x] = tx[x]
           /\ caseOf(t)' = caseOf(t) /\ req(t)' = req(t)
  <1>1. tx'[t] = k /\ \A x \in Tx \ {t} : tx'[x] = tx[x]
    BY DEF Performs, TxTypeOK
  <1>2. Progressing(tx[t])
    BY RunningProgresses
  <1>3. /\ k.handler = tx[t].handler /\ k.todo = Tail(tx[t].todo)
        /\ a = Head(tx[t].todo) /\ a # "Commit" /\ k.request = tx[t].request
    BY DEF Performs
  <1>4. Progressing(k) /\ \A s : Done(k, s) <=> Done(tx[t], s) \/ s = a
    BY <1>2, <1>3, Advance
  <1>5. caseOf(t)' = caseOf(t) /\ req(t)' = req(t)
    <2>1. psjbs' = psjbs /\ ppjbs' = ppjbs
      BY SameTables DEF Performs
    <2> QED BY <1>1, <1>3, <2>1 DEF caseOf, req
  <1> QED BY <1>1, <1>4, <1>5 DEF Progressing

LEMMA OwnFreshness ==
    ASSUME TxTypeOK, NEW t \in Tx, Running(t), Own(t), NEW a, NEW k \in Job, Performs(t, a, k)
    PROVE  Fresh(t)'
  <1> DEFINE j == tx[t]
             c == caseOf(t)
  <1>1. /\ j.handler \in HandlerNames /\ Orderly(j, a) /\ Fresh(t)
    BY RunningProgresses DEF Performs
  <1>2. /\ tx'[t] = k /\ caseOf(t)' = c /\ req(t)' = req(t)
        /\ \A s : Done(k, s) <=> Done(j, s) \/ s = a
    BY Gains
  <1>3. /\ sales_cases' = sales_cases /\ psjbs' = psjbs /\ ppjbs' = ppjbs
        /\ SameCaseView(c)
        /\ submissions' = submissions
        /\ \A u : activeSalesCases(u)' = activeSalesCases(u)
    BY SameTables DEF Performs
  <1>4. /\ activePsjb(c)' = activePsjb(c) /\ activePpjb(c)' = activePpjb(c)
    BY <1>3 DEF SameCaseView
  <1>5. (CaseLocked(j) => j.row = sales_cases[c])'
    BY <1>1, <1>2, <1>3 DEF Fresh, Performs, CaseLocked, OnCase
  <1>6. (PsjbFound(j) => j.document \in activePsjb(c))'
    <2>1. k.handler = j.handler /\ (a \notin {"FindPsjb", "FindPpjb"} => k.document = j.document)
          /\ (a = "FindPsjb" => k.document \in activePsjb(c))
      BY DEF Performs
    <2>2. PsjbFound(j) => j.document \in activePsjb(c)
      BY <1>1 DEF Fresh
    <2>3. PsjbFound(k) => PsjbFound(j) \/ a = "FindPsjb"
      BY <1>2, <2>1 DEF PsjbFound
    <2>4. a = "FindPpjb" => ~ PsjbFound(j)
      BY <1>1 DEF Orderly, PsjbFound
    <2> QED BY <1>2, <1>4, <2>1, <2>2, <2>3, <2>4
  <1>7. (PpjbFound(j) => j.document \in activePpjb(c))'
    <2>1. k.handler = j.handler /\ (a \notin {"FindPsjb", "FindPpjb"} => k.document = j.document)
          /\ (a = "FindPpjb" => k.document \in activePpjb(c))
          /\ (a = "LockPpjb" /\ j.handler # "CancelDeveloperPpjb" => j.document \in activePpjb(c))
      BY DEF Performs
    <2>2. PpjbFound(j) => j.document \in activePpjb(c)
      BY <1>1 DEF Fresh
    <2>3. PpjbFound(k) => PpjbFound(j) \/ a = "FindPpjb" \/ (a = "LockPpjb" /\ j.handler = "CreateAkad")
      BY <1>2, <2>1 DEF PpjbFound
    <2>4. a = "FindPsjb" => ~ PpjbFound(j)
      BY <1>1 DEF Orderly, PpjbFound
    <2> QED BY <1>2, <1>4, <2>1, <2>2, <2>3, <2>4
  <1>8. (Checked(j) => accepts(t))'
    <2> SUFFICES ASSUME Checked(k) PROVE accepts(t)'
      BY <1>2
    <2>1. k.handler = j.handler /\ k.request = j.request /\ OnCase(j)
      BY DEF Performs, Checked, OnCase
    <2>2. Checked(j) \/ a = "Check"
      BY <1>2, <2>1 DEF Checked, OnCase
    <2>3. accepts(t)
      BY <1>1, <2>2 DEF Fresh, Performs
    <2>4. a # "LockCase"
      BY <1>1, <2>2 DEF Orderly, BeforeCase, NothingDone
    <2>5. j.handler \in {"CancelPsjb", "CancelDeveloperPpjb"} =>
             a \notin {"LockPsjb", "LockPpjb", "FindPsjb", "FindPpjb"}
      BY <1>1, <2>2 DEF Orderly, NothingDone
    <2>6. k.row = j.row
          /\ (j.handler \in {"CancelPsjb", "CancelDeveloperPpjb"} =>
                 k.documentStatus = j.documentStatus /\ k.document = j.document)
      BY <2>4, <2>5 DEF Performs
    <2>7. j.handler = "CancelPsjb" /\ Unnamed(j.document) => Unnamed(j.document)'
      BY <1>2, <1>3, <2>6 DEF Unnamed
    <2> QED BY <1>2, <1>3, <2>1, <2>3, <2>6, <2>7, AcceptsStays
  <1>9. /\ (j.handler = "CancelPsjb" /\ PsjbLocked(j) => j.documentStatus = psjbs[j.document].status)'
        /\ (j.handler = "CancelDeveloperPpjb" /\ PpjbLocked(j) =>
               j.documentStatus = ppjbs[j.document].status)'
    BY <1>1, <1>2, <1>3 DEF Fresh, Performs, PsjbLocked, PpjbLocked, Orderly
  <1>10. (UnitChecked(j) => /\ activeSalesCases(j.request.unit) = {}
                            /\ j.handler = "MoveSalesCaseUnit" => UnitBranch[j.request.unit] = j.row.branch_id)'
    <2>1. k.handler = j.handler /\ k.request = j.request
      BY DEF Performs
    <2>2. UnitChecked(k) => UnitChecked(j) \/ a = "CheckUnit"
      BY <1>2, <2>1 DEF UnitChecked
    <2>3. UnitChecked(k) => /\ activeSalesCases(j.request.unit) = {}
                            /\ j.handler = "MoveSalesCaseUnit" => UnitBranch[j.request.unit] = j.row.branch_id
      BY <1>1, <2>2 DEF Performs, Fresh, req
    <2>4. UnitChecked(k) /\ j.handler = "MoveSalesCaseUnit" => k.row = j.row
      BY <1>1, <2>2 DEF Performs, Orderly, BeforeCase, NothingDone
    <2>5. activeSalesCases(j.request.unit)' = activeSalesCases(k.request.unit)
      BY <1>2, <1>3, <2>1
    <2> QED BY <1>2, <2>1, <2>3, <2>4, <2>5
  <1>11. (Released(j) => j.release)'
    BY <1>1, <1>2 DEF Fresh, Performs, Released
  <1>12. (Inserted(j) => \A m \in Case : status(m) = "ACTIVE" /\ clash(keys(t), keysOfCase(m)) =>
                            j.handler = "MoveSalesCaseUnit" /\ m = c)'
    <2> SUFFICES ASSUME Inserted(k), NEW m \in Case, status(m)' = "ACTIVE",
                        clash(keys(t), keysOfCase(m))'
                 PROVE  k.handler = "MoveSalesCaseUnit" /\ m = c
      BY <1>2
    <2>1. k.handler = j.handler /\ k.request = j.request
      BY DEF Performs
    <2>2. Inserted(j) \/ a = "InsertCase"
      BY <1>2, <2>1 DEF Inserted
    <2>3. \/ Inserted(j) /\ a = "Commit"
          \/ a = "InsertCase"
      BY <1>1, <2>2 DEF Orderly
    <2>4. a = "InsertCase"
      BY <2>3 DEF Performs
    <2>5. NoClash(t) /\ k.row = j.row
      BY <2>4 DEF Performs
    <2>6. status(m) = "ACTIVE" /\ clash(keys(t), keysOfCase(m))
      BY <1>2, <1>3, <2>1, <2>5 DEF status, clash, keys, keysOfCase, req
    <2> QED BY <2>1, <2>5, <2>6 DEF NoClash
  <1> QED BY <1>2, <1>5, <1>6, <1>7, <1>8, <1>9, <1>10, <1>11, <1>12 DEF Fresh

LEMMA Targets ==
    ASSUME NEW t, tx[t].todo # << >>, NEW a, a = Head(tx[t].todo)
    PROVE  /\ a = "LockCase" => target(t) = << "case", caseOf(t) >>
           /\ a \in {"LockPsjb", "SharePsjb"} => target(t) = << "psjb", tx[t].document >>
           /\ a = "LockPpjb" => target(t) = << "ppjb", tx[t].document >>
           /\ a = "LockUnit" => target(t) = << "unit", tx[t].request.unit >>
           /\ a = "UpdateUnit" => target(t) = << "unit", tx[t].row.unit_id >>
           /\ a = "LockFirstUnit" => target(t) = << "unit", firstUnit(tx[t]) >>
           /\ a = "LockSecondUnit" => target(t) = << "unit", secondUnit(tx[t]) >>
           /\ mode(t) = IF a = "SharePsjb" THEN "KEY SHARE" ELSE "UPDATE"
  <1>1. \A s : At(t, s) <=> s = a
    BY DEF At
  <1>2. /\ unitOrder(t)[1] = firstUnit(tx[t])
        /\ unitOrder(t)[2] = secondUnit(tx[t])
    BY DEF unitOrder, firstUnit, secondUnit, oldFirst, req
  <1> QED BY <1>1, <1>2 DEF target, mode, req

\* The claims of t after a statement.
LEMMA ClaimsAfter ==
    ASSUME TxTypeOK, NEW t \in Tx, Running(t), Own(t), NEW a, NEW k \in Job, Performs(t, a, k)
    PROVE  LET j == tx[t] IN
           /\ CaseLocked(k) <=> CaseLocked(j) \/ a = "LockCase"
           /\ PsjbLocked(k) <=> PsjbLocked(j) \/ a = "LockPsjb"
           /\ PsjbShared(k) <=> PsjbShared(j) \/ a = "SharePsjb"
           /\ PpjbLocked(k) <=> PpjbLocked(j) \/ a = "LockPpjb"
           /\ Inserted(k) <=> Inserted(j) \/ a = "InsertCase"
           /\ \A u : UnitLocked(k, u) <=>
                 \/ UnitLocked(j, u)
                 \/ a = "LockUnit" /\ u = j.request.unit
                 \/ a = "LockFirstUnit" /\ u = firstUnit(j)
                 \/ a = "LockSecondUnit" /\ u = secondUnit(j)
                 \/ a = "UpdateUnit" /\ u = j.row.unit_id
           /\ PsjbLocked(j) \/ PsjbShared(j) \/ PpjbLocked(j) => k.document = j.document
           /\ a \in Locking => k.document = j.document
           /\ Inserted(k) => k.row = j.row
  <1> DEFINE j == tx[t]
  <1>1. /\ j.handler \in HandlerNames /\ Orderly(j, a)
    BY RunningProgresses DEF Performs
  <1>2. \A s : Done(k, s) <=> Done(j, s) \/ s = a
    BY Gains
  <1>3. k.handler = j.handler /\ k.request = j.request
        /\ (a \notin {"FindPsjb", "FindPpjb"} => k.document = j.document)
        /\ (a # "LockCase" => k.row = j.row)
    BY DEF Performs
  <1>4. /\ CaseLocked(k) <=> CaseLocked(j) \/ a = "LockCase"
        /\ PsjbLocked(k) <=> PsjbLocked(j) \/ a = "LockPsjb"
        /\ PsjbShared(k) <=> PsjbShared(j) \/ a = "SharePsjb"
        /\ PpjbLocked(k) <=> PpjbLocked(j) \/ a = "LockPpjb"
        /\ Inserted(k) <=> Inserted(j) \/ a = "InsertCase"
    BY <1>1, <1>2, <1>3
       DEF CaseLocked, OnCase, PsjbLocked, PsjbShared, PpjbLocked, Inserted, Orderly, BeforeCase
  <1>5. /\ PsjbLocked(j) \/ PsjbShared(j) \/ PpjbLocked(j) => k.document = j.document
        /\ a \in Locking => k.document = j.document
    BY <1>1, <1>3 DEF Orderly, PsjbLocked, PsjbShared, PpjbLocked, Locking
  <1>6. Inserted(k) => k.row = j.row
    BY <1>1, <1>3, <1>4 DEF Orderly, BeforeCase, NothingDone
  <1>7. ASSUME NEW u
        PROVE  UnitLocked(k, u) <=>
                   \/ UnitLocked(j, u)
                   \/ a = "LockUnit" /\ u = j.request.unit
                   \/ a = "LockFirstUnit" /\ u = firstUnit(j)
                   \/ a = "LockSecondUnit" /\ u = secondUnit(j)
                   \/ a = "UpdateUnit" /\ u = j.row.unit_id
    <2>1. CASE a = "LockCase"
      <3>1. \A v : ~ UnitLocked(j, v)
        BY <1>1, <2>1 DEF Orderly, BeforeCase, NothingDone
      <3>2. \/ j.handler = "CreateSalesCase" /\ ~ Done(j, "LockUnit")
            \/ j.handler = "MoveSalesCaseUnit" /\ ~ Done(j, "LockFirstUnit") /\ ~ Done(j, "LockSecondUnit")
            \/ j.handler \in {"CloseSalesCase", "CreateAkad", "CreateBast"} /\ ~ Done(j, "UpdateUnit")
            \/ j.handler \notin {"CreateSalesCase", "MoveSalesCaseUnit", "CloseSalesCase", "CreateAkad", "CreateBast"}
        BY <3>1 DEF UnitLocked
      <3>3. ~ UnitLocked(k, u)
        BY <1>2, <1>3, <2>1, <3>2 DEF UnitLocked
      <3> QED BY <2>1, <3>1, <3>3
    <2>2. CASE a # "LockCase"
      <3>1. firstUnit(k) = firstUnit(j) /\ secondUnit(k) = secondUnit(j) /\ k.row.unit_id = j.row.unit_id
        BY <1>3, <2>2 DEF firstUnit, secondUnit, oldFirst
      <3>2. /\ a = "LockUnit" => j.handler = "CreateSalesCase"
            /\ a \in {"LockFirstUnit", "LockSecondUnit"} => j.handler = "MoveSalesCaseUnit"
            /\ a = "UpdateUnit" => j.handler \in {"CloseSalesCase", "CreateAkad", "CreateBast"}
        BY <1>1 DEF Orderly
      <3> QED BY <1>2, <1>3, <3>1, <3>2 DEF UnitLocked
    <2> QED BY <2>1, <2>2
  <1> QED BY <1>4, <1>5, <1>6, <1>7

LEMMA OwnLocks ==
    ASSUME TxTypeOK, NEW t \in Tx, Running(t), Own(t), NEW a, NEW k \in Job, Performs(t, a, k)
    PROVE  Holding(t)'
  <1> DEFINE j == tx[t]
             c == caseOf(t)
  <1>1. /\ tx'[t] = k /\ caseOf(t)' = c
    BY Gains
  <1>2. /\ Holding(t) /\ j.todo # << >>
    BY RunningProgresses
  <1>3. a = Head(j.todo) /\ locks' = IF a \in Locking THEN locks \cup {Lock(t, target(t), mode(t))} ELSE locks
    BY DEF Performs
  <1>4. \A l \in locks : l \in locks'
    BY <1>3
  <1>5. a \in Locking => Lock(t, target(t), mode(t)) \in locks'
    BY <1>3
  <1>6. /\ CaseLocked(k) <=> CaseLocked(j) \/ a = "LockCase"
        /\ PsjbLocked(k) <=> PsjbLocked(j) \/ a = "LockPsjb"
        /\ PsjbShared(k) <=> PsjbShared(j) \/ a = "SharePsjb"
        /\ PpjbLocked(k) <=> PpjbLocked(j) \/ a = "LockPpjb"
        /\ PsjbLocked(j) \/ PsjbShared(j) \/ PpjbLocked(j) => k.document = j.document
        /\ a \in Locking => k.document = j.document
    BY ClaimsAfter
  <1>7. \A u : UnitLocked(k, u) <=>
                   \/ UnitLocked(j, u)
                   \/ a = "LockUnit" /\ u = j.request.unit
                   \/ a = "LockFirstUnit" /\ u = firstUnit(j)
                   \/ a = "LockSecondUnit" /\ u = secondUnit(j)
                   \/ a = "UpdateUnit" /\ u = j.row.unit_id
    BY ClaimsAfter
  <1>8. /\ a = "LockCase" => target(t) = << "case", c >> /\ mode(t) = "UPDATE"
        /\ a = "LockPsjb" => target(t) = << "psjb", j.document >> /\ mode(t) = "UPDATE"
        /\ a = "SharePsjb" => target(t) = << "psjb", j.document >> /\ mode(t) = "KEY SHARE"
        /\ a = "LockPpjb" => target(t) = << "ppjb", j.document >> /\ mode(t) = "UPDATE"
        /\ a = "LockUnit" => target(t) = << "unit", j.request.unit >> /\ mode(t) = "UPDATE"
        /\ a = "UpdateUnit" => target(t) = << "unit", j.row.unit_id >> /\ mode(t) = "UPDATE"
        /\ a = "LockFirstUnit" => target(t) = << "unit", firstUnit(j) >> /\ mode(t) = "UPDATE"
        /\ a = "LockSecondUnit" => target(t) = << "unit", secondUnit(j) >> /\ mode(t) = "UPDATE"
    BY <1>2, <1>3, Targets
  <1>9. CaseLocked(k) => Lock(t, << "case", c >>, "UPDATE") \in locks'
    BY <1>2, <1>4, <1>5, <1>6, <1>8 DEF Holding, Locking
  <1>10. PsjbLocked(k) => Lock(t, << "psjb", k.document >>, "UPDATE") \in locks'
    BY <1>2, <1>4, <1>5, <1>6, <1>8 DEF Holding, Locking
  <1>11. PsjbShared(k) => Lock(t, << "psjb", k.document >>, "KEY SHARE") \in locks'
    BY <1>2, <1>4, <1>5, <1>6, <1>8 DEF Holding, Locking
  <1>12. PpjbLocked(k) => Lock(t, << "ppjb", k.document >>, "UPDATE") \in locks'
    BY <1>2, <1>4, <1>5, <1>6, <1>8 DEF Holding, Locking
  <1>13. ASSUME NEW u \in Unit, UnitLocked(k, u)
         PROVE  Lock(t, << "unit", u >>, "UPDATE") \in locks'
    BY <1>2, <1>4, <1>5, <1>7, <1>8, <1>13 DEF Holding, Locking
  <1>14. Lock(t, << "case", c >>, "UPDATE")' = Lock(t, << "case", c >>, "UPDATE")
    BY <1>1 DEF Lock
  <1> QED BY <1>1, <1>9, <1>10, <1>11, <1>12, <1>13 DEF Holding, Lock

\* A lock stays claimed while its transaction goes on.
LEMMA ClaimsStay ==
    ASSUME TxTypeOK, NEW t \in Tx, Running(t), Own(t), NEW a, NEW k \in Job, Performs(t, a, k),
           NEW l, l.tx = t, Claimed(l) \/ (a \in Locking /\ l = Lock(t, target(t), mode(t))),
           \A u \in {tx[t].request.unit, firstUnit(tx[t]), secondUnit(tx[t]), tx[t].row.unit_id} :
               l.row = << "unit", u >> => u \in Unit
    PROVE  Claimed(l)'
  <1> DEFINE j == tx[t]
             c == caseOf(t)
  <1>1. /\ tx'[t] = k /\ caseOf(t)' = c
    BY Gains
  <1>2. /\ CaseLocked(k) <=> CaseLocked(j) \/ a = "LockCase"
        /\ PsjbLocked(k) <=> PsjbLocked(j) \/ a = "LockPsjb"
        /\ PsjbShared(k) <=> PsjbShared(j) \/ a = "SharePsjb"
        /\ PpjbLocked(k) <=> PpjbLocked(j) \/ a = "LockPpjb"
        /\ PsjbLocked(j) \/ PsjbShared(j) \/ PpjbLocked(j) => k.document = j.document
        /\ a \in Locking => k.document = j.document
    BY ClaimsAfter
  <1>3. \A u : UnitLocked(k, u) <=>
                   \/ UnitLocked(j, u)
                   \/ a = "LockUnit" /\ u = j.request.unit
                   \/ a = "LockFirstUnit" /\ u = firstUnit(j)
                   \/ a = "LockSecondUnit" /\ u = secondUnit(j)
                   \/ a = "UpdateUnit" /\ u = j.row.unit_id
    BY ClaimsAfter
  <1>4. \/ l.row = << "case", c >> /\ CaseLocked(k)
        \/ l.row = << "psjb", k.document >> /\ (PsjbLocked(k) \/ PsjbShared(k))
        \/ l.row = << "ppjb", k.document >> /\ PpjbLocked(k)
        \/ \E u \in Unit : l.row = << "unit", u >> /\ UnitLocked(k, u)
    <2>1. CASE Claimed(l)
      BY <1>2, <1>3, <2>1 DEF Claimed
    <2>2. CASE a \in Locking /\ l = Lock(t, target(t), mode(t))
      <3>1. j.todo # << >> /\ a = Head(j.todo)
        BY RunningProgresses DEF Performs
      <3>2. l.row = target(t) /\ a \in Locking
        BY <2>2 DEF Lock
      <3>3. /\ a = "LockCase" => l.row = << "case", c >>
            /\ a \in {"LockPsjb", "SharePsjb"} => l.row = << "psjb", j.document >>
            /\ a = "LockPpjb" => l.row = << "ppjb", j.document >>
            /\ a = "LockUnit" => l.row = << "unit", j.request.unit >>
            /\ a = "UpdateUnit" => l.row = << "unit", j.row.unit_id >>
            /\ a = "LockFirstUnit" => l.row = << "unit", firstUnit(j) >>
            /\ a = "LockSecondUnit" => l.row = << "unit", secondUnit(j) >>
        BY <3>1, <3>2, Targets
      <3>4. CASE a \in {"LockCase", "LockPsjb", "SharePsjb", "LockPpjb"}
        BY <1>2, <3>2, <3>3, <3>4
      <3>5. CASE a = "LockUnit"
        BY <1>3, <3>3, <3>5
      <3>6. CASE a = "UpdateUnit"
        BY <1>3, <3>3, <3>6
      <3>7. CASE a = "LockFirstUnit"
        BY <1>3, <3>3, <3>7
      <3>8. CASE a = "LockSecondUnit"
        BY <1>3, <3>3, <3>8
      <3> QED BY <3>2, <3>4, <3>5, <3>6, <3>7, <3>8 DEF Locking
    <2> QED BY <2>1, <2>2
  <1> QED BY <1>1, <1>4 DEF Claimed

LEMMA ClaimsOfOthers ==
    ASSUME NEW l, Claimed(l), tx'[l.tx] = tx[l.tx], caseOf(l.tx)' = caseOf(l.tx)
    PROVE  Claimed(l)'
BY DEF Claimed

LEMMA LocksExclude ==
    ASSUME OneHolder, \A l \in locks : l.tx \in Tx, NEW t \in Tx, NEW a, NEW k, Performs(t, a, k)
    PROVE  OneHolder'
  <1>1. CASE a \notin Locking
    BY <1>1 DEF Performs, OneHolder
  <1>2. CASE a \in Locking
    <2> DEFINE n == Lock(t, target(t), mode(t))
    <2>1. locks' = locks \cup {n} /\ blockers(t) = {}
      BY <1>2 DEF Performs
    <2>2. n.tx = t /\ n.row = target(t) /\ n.mode = mode(t)
      BY DEF Lock
    <2>3. \A m \in locks : m.row = target(t) /\ m.tx # t => "UPDATE" \notin {m.mode, mode(t)}
      <3> SUFFICES ASSUME NEW m \in locks, m.row = target(t), m.tx # t, "UPDATE" \in {m.mode, mode(t)}
                   PROVE  FALSE
        OBVIOUS
      <3>1. m.tx \in blockers(t)
        BY DEF blockers
      <3> QED BY <2>1, <3>1
    <2> HIDE DEF n
    <2> QED BY <2>1, <2>2, <2>3 DEF OneHolder
  <1> QED BY <1>1, <1>2

\* Transactions stay apart when one of them goes on.
LEMMA ApartAfter ==
    ASSUME TxTypeOK, NEW t \in Tx, Running(t), Own(t), NEW a, NEW k \in Job, Performs(t, a, k),
           NEW x \in Tx, x # t, Apart(t, x), Apart(x, t)
    PROVE  Apart(t, x)' /\ Apart(x, t)'
  <1> DEFINE j == tx[t]
  <1>1. /\ tx'[t] = k /\ tx'[x] = tx[x]
    BY Gains
  <1>2. k.handler = j.handler /\ k.request = j.request
    BY DEF Performs
  <1>3. (Inserted(k) <=> Inserted(j) \/ a = "InsertCase") /\ (Inserted(k) => k.row = j.row)
    BY ClaimsAfter
  <1>4. req(t)' = req(t) /\ req(x)' = req(x) /\ keys(x)' = keys(x)
    BY <1>1, <1>2 DEF req, keys
  <1>5. Inserted(k) => keys(t)' = keys(t)
    BY <1>1, <1>2, <1>3 DEF keys, req
  <1>6. Inserted(k) /\ Inserted(tx[x]) => ~ clash(keys(t), keys(x)) /\ ~ clash(keys(x), keys(t))
    <2>1. CASE Inserted(j)
      BY <2>1 DEF Apart
    <2>2. CASE a = "InsertCase"
      <3>1. Inserted(tx[x]) => ~ clash(keys(t), keys(x))
        BY <2>2 DEF Performs, NoClash
      <3> QED BY <3>1 DEF clash
    <2> QED BY <1>3, <2>1, <2>2
  <1>7. Inserted(k) /\ Inserted(tx[x]) =>
           ~ clash(keys(t)', keys(x)') /\ ~ clash(keys(x)', keys(t)')
    BY <1>4, <1>5, <1>6
  <1>8. j.handler \in Inserting /\ tx[x].handler \in Inserting => req(t).new # req(x).new
    BY DEF Apart
  <1> QED BY <1>1, <1>2, <1>4, <1>7, <1>8 DEF Apart

\* A transaction works on units that exist.
UnitsExist ==
    \A t \in Tx : /\ tx[t].handler \in {"CreateSalesCase", "MoveSalesCaseUnit"} => req(t).unit \in Unit
                  /\ CaseLocked(tx[t]) => tx[t].row.unit_id \in Unit

LEMMA PerformsKeepsInvariant ==
    ASSUME TxInvariant, UnitsExist, NEW t \in Tx, Running(t), NEW a, NEW k \in Job,
           Performs(t, a, k)
    PROVE  TxInvariant'
  <1>1. TxTypeOK /\ Own(t) /\ OneHolder
    BY DEF TxInvariant
  <1>2. /\ k.handler \in HandlerNames /\ Progressing(k) /\ tx'[t] = k
        /\ \A x \in Tx \ {t} : tx'[x] = tx[x]
        /\ caseOf(t)' = caseOf(t) /\ req(t)' = req(t)
    BY <1>1, Gains
  <1>3. /\ UNCHANGED vars /\ k.handler = tx[t].handler /\ k.request = tx[t].request
        /\ tx' = [tx EXCEPT ![t] = k]
        /\ locks' = IF a \in Locking THEN locks \cup {Lock(t, target(t), mode(t))} ELSE locks
    BY DEF Performs
  <1>4. /\ tx[t].handler \in HandlerNames /\ Orderly(tx[t], a) /\ Proper(t)
    BY <1>1, RunningProgresses DEF Performs
  <1>5. TxTypeOK'
    BY <1>1, <1>3 DEF TxTypeOK
  <1>6. Proper(t)'
    <2>1. RowsStay /\ NewRowStays(t)
      BY <1>2, <1>3, SameTables DEF NewRowStays, Exists, status
    <2>2. tx[t].handler \in {"CancelPsjb", "CancelDeveloperPpjb", "CreateAkad"} =>
                k.document = tx[t].document
      BY <1>4 DEF Orderly, Performs
    <2> QED BY <1>2, <1>3, <1>4, <2>1, <2>2, ProperStays
  <1>7. Own(t)'
    <2>1. Fresh(t)' /\ Holding(t)'
      BY <1>1, OwnFreshness, OwnLocks
    <2> QED BY <1>2, <1>6, <2>1, TransactionsAssumption DEF Own, Running, Progressing
  <1>8. ASSUME NEW x \in Tx, x # t PROVE Own(x)'
    <2>1. Undisturbed(x)
      BY <1>2, <1>3, <1>8, ReadersDisturbNobody
    <2> QED BY <1>1, <1>3, <2>1, OwnStays DEF TxInvariant
  <1>9. ASSUME NEW x \in Tx, NEW y \in Tx, x # y PROVE Apart(x, y)'
    <2>1. CASE x = t \/ y = t
      BY <1>1, <1>9, <2>1, ApartAfter DEF TxInvariant
    <2>2. CASE x # t /\ y # t
      BY <1>2, <1>9, <2>2 DEF TxInvariant, Apart, req, keys
    <2> QED BY <2>1, <2>2
  <1>10. OneHolder'
    <2>1. \A l \in locks : l.tx \in Tx
      BY DEF TxInvariant, Claimed
    <2> QED BY <1>1, <2>1, LocksExclude
  <1>11. ASSUME NEW l \in locks' PROVE Claimed(l)'
    <2>0. l \in locks \/ (a \in Locking /\ l = Lock(t, target(t), mode(t)))
      BY <1>3, <1>11
    <2>1. CASE l.tx # t
      <3>1. l \in locks /\ Claimed(l) /\ l.tx \in Tx
        BY <2>0, <2>1 DEF Lock, TxInvariant, Claimed
      <3>2. tx'[l.tx] = tx[l.tx]
        BY <1>2, <2>1, <3>1
      <3>3. caseOf(l.tx)' = caseOf(l.tx)
        BY <1>3, <3>2, SameTables DEF caseOf, req
      <3> QED BY <3>1, <3>2, <3>3, ClaimsOfOthers
    <2>2. CASE l.tx = t
      <3>1. Claimed(l) \/ (a \in Locking /\ l = Lock(t, target(t), mode(t)))
        BY <2>0 DEF TxInvariant
      <3>2. \A u \in {tx[t].request.unit, firstUnit(tx[t]), secondUnit(tx[t]), tx[t].row.unit_id} :
                 l.row = << "unit", u >> => u \in Unit
        <4>1. CASE Claimed(l)
          BY <2>2, <4>1 DEF Claimed
        <4>2. CASE a \in Locking /\ l = Lock(t, target(t), mode(t))
          <5>1. l.row = target(t) /\ a = Head(tx[t].todo) /\ tx[t].todo # << >>
            BY <1>1, <4>2, RunningProgresses DEF Lock, Performs
          <5>2. /\ a = "LockUnit" => l.row = << "unit", tx[t].request.unit >>
                /\ a = "UpdateUnit" => l.row = << "unit", tx[t].row.unit_id >>
                /\ a = "LockFirstUnit" => l.row = << "unit", firstUnit(tx[t]) >>
                /\ a = "LockSecondUnit" => l.row = << "unit", secondUnit(tx[t]) >>
                /\ a = "LockCase" => l.row = << "case", caseOf(t) >>
                /\ a \in {"LockPsjb", "SharePsjb"} => l.row = << "psjb", tx[t].document >>
                /\ a = "LockPpjb" => l.row = << "ppjb", tx[t].document >>
            BY <5>1, Targets
          <5>3. /\ a = "LockUnit" => tx[t].request.unit \in Unit
                /\ a = "UpdateUnit" => tx[t].row.unit_id \in Unit
                /\ a \in {"LockFirstUnit", "LockSecondUnit"} =>
                      tx[t].request.unit \in Unit /\ tx[t].row.unit_id \in Unit
            BY <1>4 DEF UnitsExist, Orderly, req
          <5>4. /\ a = "LockFirstUnit" => firstUnit(tx[t]) \in Unit
                /\ a = "LockSecondUnit" => secondUnit(tx[t]) \in Unit
            BY <5>3 DEF firstUnit, secondUnit
          <5>5. \E v : /\ l.row = << "unit", v >> => v \in Unit
                       /\ \/ l.row = << "unit", v >>
                          \/ l.row = << "case", v >>
                          \/ l.row = << "psjb", v >>
                          \/ l.row = << "ppjb", v >>
            BY <4>2, <5>2, <5>3, <5>4 DEF Locking
          <5> QED BY <5>5
        <4> QED BY <3>1, <4>1, <4>2
      <3> QED BY <1>1, <2>2, <3>1, <3>2, ClaimsStay
    <2> QED BY <2>1, <2>2
  <1> QED BY <1>5, <1>7, <1>8, <1>9, <1>10, <1>11 DEF TxInvariant

-----------------------------------------------------------------------------
(* Every statement but the commit performs or rolls back. *)

DataInvariant ==
    FinancingInvariant /\ UnitInvariant /\ SequenceInvariant /\ OneActiveCase /\ Untrashed

LEMMA CaseOfExists ==
    ASSUME DataInvariant, NEW t, tx[t].handler \in HandlerNames, Proper(t), OnCase(tx[t])
    PROVE  caseOf(t) \in Case /\ Exists(caseOf(t))
  <1> DEFINE h == tx[t].handler
             r == req(t)
  <1>1. PsjbLinks /\ PpjbLinks /\ PpjbsOfCases
    BY DEF DataInvariant, FinancingInvariant, SalesInvariant, ReferencesStayInCase
  <1>2. CASE h = "CancelPsjb"
    <2>1. r.document \in Psjb /\ psjbs[r.document].status # Absent
          /\ caseOf(t) = psjbs[r.document].sales_case_id
      BY <1>2 DEF Proper, caseOf, req
    <2> QED BY <1>1, <2>1 DEF PsjbLinks
  <1>3. CASE h = "CancelDeveloperPpjb"
    <2>1. r.document \in Ppjb /\ ppjbs[r.document].status # Absent
          /\ caseOf(t) = ppjbs[r.document].sales_case_id
      BY <1>3 DEF Proper, caseOf, req
    <2> QED BY <1>1, <2>1 DEF PpjbLinks, PpjbsOfCases
  <1>4. CASE h \notin {"CancelPsjb", "CancelDeveloperPpjb"}
    <2>1. caseOf(t) = r.case
      BY <1>4 DEF caseOf, req
    <2> QED BY <1>4, <2>1 DEF Proper, OnCase
  <1> QED BY <1>2, <1>3, <1>4

LEMMA UnitsDoExist ==
    ASSUME DataInvariant, TxInvariant
    PROVE  UnitsExist
  <1> SUFFICES ASSUME NEW t \in Tx
               PROVE  /\ tx[t].handler \in {"CreateSalesCase", "MoveSalesCaseUnit"} => req(t).unit \in Unit
                      /\ CaseLocked(tx[t]) => tx[t].row.unit_id \in Unit
    BY DEF UnitsExist
  <1>1. TxTypeOK /\ Own(t)
    BY DEF TxInvariant
  <1>2. CASE ~ Running(t)
    <2>1. tx[t].handler \notin HandlerNames
      BY <1>2, TransactionsAssumption DEF Running
    <2> QED BY <2>1 DEF CaseLocked, OnCase, HandlerNames
  <1>3. CASE Running(t)
    <2>1. tx[t].handler \in HandlerNames /\ Proper(t) /\ Fresh(t)
      BY <1>1, <1>3, RunningProgresses
    <2>2. tx[t].handler \in {"CreateSalesCase", "MoveSalesCaseUnit"} => req(t).unit \in Unit
      BY <2>1 DEF Proper
    <2>3. ASSUME CaseLocked(tx[t]) PROVE tx[t].row.unit_id \in Unit
      <3>1. caseOf(t) \in Case /\ Exists(caseOf(t))
        BY <2>1, <2>3, CaseOfExists DEF CaseLocked
      <3>2. tx[t].row = sales_cases[caseOf(t)]
        BY <2>1, <2>3 DEF Fresh
      <3> QED BY <3>1, <3>2 DEF DataInvariant, UnitInvariant, UnitsOfCases
    <2> QED BY <2>2, <2>3
  <1> QED BY <1>2, <1>3

LEMMA NextJob ==
    ASSUME NEW n \in Job, n.todo # << >>, NEW k, k = [n EXCEPT !.todo = Tail(@)]
    PROVE  /\ k \in Job
           /\ k.handler = n.handler /\ k.request = n.request /\ k.todo = Tail(n.todo)
           /\ k.row = n.row /\ k.document = n.document
           /\ k.documentStatus = n.documentStatus /\ k.release = n.release
  <1>1. Tail(n.todo) \in Seq(Statements)
    BY DEF Job
  <1> QED BY <1>1 DEF Job

\* The document a transaction is about to lock.
LEMMA DocumentExists ==
    ASSUME TypeOK, NEW t, Proper(t), Fresh(t), Orderly(tx[t], Head(tx[t].todo))
    PROVE  /\ Head(tx[t].todo) = "LockPsjb" => tx[t].document \in Psjb
           /\ Head(tx[t].todo) = "LockPpjb" => tx[t].document \in Ppjb
  <1>1. ASSUME Head(tx[t].todo) = "LockPsjb" PROVE tx[t].document \in Psjb
    <2>1. CASE tx[t].handler = "CancelPsjb"
      BY <2>1 DEF Proper
    <2>2. CASE tx[t].handler # "CancelPsjb"
      <3>1. PsjbFound(tx[t])
        BY <1>1, <2>2 DEF Orderly
      <3> QED BY <3>1 DEF Fresh, activePsjb
    <2> QED BY <2>1, <2>2
  <1>2. ASSUME Head(tx[t].todo) = "LockPpjb" PROVE tx[t].document \in Ppjb
    <2>1. CASE tx[t].handler \in {"CancelDeveloperPpjb", "CreateAkad"}
      BY <2>1 DEF Proper
    <2>2. CASE tx[t].handler = "ReissueDeveloperPpjb"
      <3>1. PpjbFound(tx[t])
        BY <1>2, <2>2 DEF Orderly
      <3> QED BY <3>1 DEF Fresh, activePpjb
    <2> QED BY <1>2, <2>1, <2>2 DEF Orderly
  <1> QED BY <1>1, <1>2

LEMMA LockCasePerforms ==
    ASSUME TypeOK, NEW t \in Tx, tx[t] \in Job, caseOf(t) \in Case, LockCase(t)
    PROVE  Rollback(t) \/ \E k \in Job : Performs(t, "LockCase", k)
  <1> SUFFICES ASSUME ~ Rollback(t) PROVE \E k \in Job : Performs(t, "LockCase", k)
    OBVIOUS
  <1> DEFINE n == [tx[t] EXCEPT !.row = sales_cases[caseOf(t)]]
             k == [n EXCEPT !.todo = Tail(@)]
  <1>1. /\ tx[t].todo # << >> /\ Head(tx[t].todo) = "LockCase" /\ blockers(t) = {}
        /\ locks' = locks \cup {Lock(t, target(t), mode(t))}
        /\ tx' = [tx EXCEPT ![t] = k] /\ UNCHANGED vars
    BY DEF LockCase, At, Take, Continue, Lock
  <1>2. /\ n \in Job /\ n.handler = tx[t].handler /\ n.request = tx[t].request
        /\ n.todo = tx[t].todo /\ n.row = sales_cases[caseOf(t)]
        /\ n.document = tx[t].document
        /\ n.documentStatus = tx[t].documentStatus /\ n.release = tx[t].release
    BY DEF TypeOK, Job
  <1> HIDE DEF n
  <1>3. /\ k \in Job
        /\ k.handler = n.handler /\ k.request = n.request /\ k.todo = Tail(n.todo)
        /\ k.row = n.row /\ k.document = n.document
        /\ k.documentStatus = n.documentStatus /\ k.release = n.release
    BY <1>1, <1>2, NextJob
  <1> HIDE DEF k
  <1>4. Performs(t, "LockCase", k)
    BY <1>1, <1>2, <1>3 DEF Performs, Locking
  <1> QED BY <1>3, <1>4

LEMMA LockPsjbPerforms ==
    ASSUME TypeOK, NEW t \in Tx, tx[t] \in Job, LockPsjb(t),
           Proper(t), Fresh(t), Orderly(tx[t], Head(tx[t].todo))
    PROVE  Rollback(t) \/ \E k \in Job : Performs(t, "LockPsjb", k)
  <1> SUFFICES ASSUME ~ Rollback(t) PROVE \E k \in Job : Performs(t, "LockPsjb", k)
    OBVIOUS
  <1> DEFINE n == [tx[t] EXCEPT !.documentStatus = psjbs[tx[t].document].status]
             k == [n EXCEPT !.todo = Tail(@)]
  <1>1. /\ tx[t].todo # << >> /\ Head(tx[t].todo) = "LockPsjb" /\ blockers(t) = {}
        /\ locks' = locks \cup {Lock(t, target(t), mode(t))}
        /\ tx' = [tx EXCEPT ![t] = k] /\ UNCHANGED vars
    BY DEF LockPsjb, At, Take, Continue, Lock
  <1>2. /\ n \in Job /\ n.handler = tx[t].handler /\ n.request = tx[t].request
        /\ n.todo = tx[t].todo /\ n.row = tx[t].row
        /\ n.document = tx[t].document
        /\ n.documentStatus = psjbs[tx[t].document].status /\ n.release = tx[t].release
    <2>1. tx[t].document \in Psjb
      BY <1>1, DocumentExists
    <2>2. psjbs[tx[t].document].status \in DocumentStatus \cup {Absent}
      BY <2>1 DEF TypeOK, PsjbRow
    <2> QED BY <2>2 DEF Job
  <1> HIDE DEF n
  <1>3. /\ k \in Job
        /\ k.handler = n.handler /\ k.request = n.request /\ k.todo = Tail(n.todo)
        /\ k.row = n.row /\ k.document = n.document
        /\ k.documentStatus = n.documentStatus /\ k.release = n.release
    BY <1>1, <1>2, NextJob
  <1> HIDE DEF k
  <1>4. Performs(t, "LockPsjb", k)
    BY <1>1, <1>2, <1>3 DEF Performs, Locking
  <1> QED BY <1>3, <1>4

LEMMA LockPpjbPerforms ==
    ASSUME TypeOK, NEW t \in Tx, tx[t] \in Job, LockPpjb(t),
           Proper(t), Fresh(t), Orderly(tx[t], Head(tx[t].todo))
    PROVE  Rollback(t) \/ \E k \in Job : Performs(t, "LockPpjb", k)
  <1> SUFFICES ASSUME ~ Rollback(t) PROVE \E k \in Job : Performs(t, "LockPpjb", k)
    OBVIOUS
  <1> DEFINE n == [tx[t] EXCEPT !.documentStatus = ppjbs[tx[t].document].status]
             k == [n EXCEPT !.todo = Tail(@)]
  <1>1. /\ tx[t].todo # << >> /\ Head(tx[t].todo) = "LockPpjb" /\ blockers(t) = {}
        /\ locks' = locks \cup {Lock(t, target(t), mode(t))}
        /\ tx' = [tx EXCEPT ![t] = k] /\ UNCHANGED vars
        /\ tx[t].handler # "CancelDeveloperPpjb" => tx[t].document \in activePpjb(caseOf(t))
    BY DEF LockPpjb, At, Take, Continue, Lock
  <1>2. /\ n \in Job /\ n.handler = tx[t].handler /\ n.request = tx[t].request
        /\ n.todo = tx[t].todo /\ n.row = tx[t].row
        /\ n.document = tx[t].document
        /\ n.documentStatus = ppjbs[tx[t].document].status /\ n.release = tx[t].release
    <2>1. tx[t].document \in Ppjb
      BY <1>1, DocumentExists
    <2>2. ppjbs[tx[t].document].status \in DocumentStatus \cup {Absent}
      BY <2>1 DEF TypeOK, PpjbRow
    <2> QED BY <2>2 DEF Job
  <1> HIDE DEF n
  <1>3. /\ k \in Job
        /\ k.handler = n.handler /\ k.request = n.request /\ k.todo = Tail(n.todo)
        /\ k.row = n.row /\ k.document = n.document
        /\ k.documentStatus = n.documentStatus /\ k.release = n.release
    BY <1>1, <1>2, NextJob
  <1> HIDE DEF k
  <1>4. Performs(t, "LockPpjb", k)
    BY <1>1, <1>2, <1>3 DEF Performs, Locking
  <1> QED BY <1>3, <1>4

\* Statements that read into no variable.
LEMMA PlainPerforms ==
    ASSUME NEW t \in Tx, tx[t] \in Job, NEW a, At(t, a), Continue(t, tx[t]),
           a \notin {"LockCase", "LockPsjb", "LockPpjb", "FindPsjb", "FindPpjb", "CheckRelease",
                     "Commit"},
           IF a \in Locking THEN blockers(t) = {} /\ Take(t) ELSE UNCHANGED locks,
           a = "Check" => accepts(t),
           a = "CheckUnit" => /\ activeSalesCases(req(t).unit) = {}
                              /\ tx[t].handler = "MoveSalesCaseUnit" =>
                                    UnitBranch[req(t).unit] = tx[t].row.branch_id,
           a = "InsertCase" => NoClash(t)
    PROVE  \E k \in Job : Performs(t, a, k)
  <1> DEFINE n == tx[t]
             k == [n EXCEPT !.todo = Tail(@)]
  <1>1. /\ n.todo # << >> /\ Head(n.todo) = a
        /\ a \in Locking => blockers(t) = {}
        /\ locks' = IF a \in Locking THEN locks \cup {Lock(t, target(t), mode(t))} ELSE locks
        /\ tx' = [tx EXCEPT ![t] = k] /\ UNCHANGED vars
    BY DEF At, Take, Continue, Lock
  <1>2. /\ k \in Job
        /\ k.handler = n.handler /\ k.request = n.request /\ k.todo = Tail(n.todo)
        /\ k.row = n.row /\ k.document = n.document
        /\ k.documentStatus = n.documentStatus /\ k.release = n.release
    BY <1>1, NextJob
  <1> HIDE DEF k
  <1>3. Performs(t, a, k)
    BY <1>1, <1>2 DEF Performs
  <1> QED BY <1>2, <1>3

LEMMA LockRowPerforms ==
    ASSUME NEW t \in Tx, tx[t] \in Job, LockRow(t)
    PROVE  \E a : \E k \in Job : Performs(t, a, k)
  <1>1. PICK s \in {"SharePsjb", "LockUnit", "LockFirstUnit", "LockSecondUnit"} : At(t, s)
    BY DEF LockRow
  <1>2. s \in Locking /\ blockers(t) = {} /\ Take(t) /\ Continue(t, tx[t])
    BY DEF LockRow, Locking
  <1>3. \E k \in Job : Performs(t, s, k)
    BY <1>1, <1>2, PlainPerforms
  <1> QED BY <1>3

LEMMA UpdateUnitPerforms ==
    ASSUME NEW t \in Tx, tx[t] \in Job, UpdateUnit(t),
           Fresh(t), Orderly(tx[t], Head(tx[t].todo))
    PROVE  \E k \in Job : Performs(t, "UpdateUnit", k)
  <1>1. tx[t].handler = "CloseSalesCase" => tx[t].release
    BY DEF UpdateUnit, At, Fresh, Orderly
  <1>2. At(t, "UpdateUnit") /\ blockers(t) = {} /\ Take(t) /\ Continue(t, tx[t])
    BY <1>1 DEF UpdateUnit
  <1> QED BY <1>2, PlainPerforms DEF Locking

LEMMA FindPsjbPerforms ==
    ASSUME NEW t \in Tx, tx[t] \in Job, FindPsjb(t)
    PROVE  Rollback(t) \/ \E k \in Job : Performs(t, "FindPsjb", k)
  <1> SUFFICES ASSUME ~ Rollback(t) PROVE \E k \in Job : Performs(t, "FindPsjb", k)
    OBVIOUS
  <1>0. PICK p \in activePsjb(caseOf(t)) :
           Continue(t, [tx[t] EXCEPT !.document = p]) /\ UNCHANGED locks
    BY DEF FindPsjb
  <1> DEFINE n == [tx[t] EXCEPT !.document = p]
             k == [n EXCEPT !.todo = Tail(@)]
  <1>1. /\ tx[t].todo # << >> /\ Head(tx[t].todo) = "FindPsjb" /\ locks' = locks
        /\ tx' = [tx EXCEPT ![t] = k] /\ UNCHANGED vars
    BY <1>0 DEF FindPsjb, At, Continue
  <1>2. /\ n \in Job /\ n.handler = tx[t].handler /\ n.request = tx[t].request
        /\ n.todo = tx[t].todo /\ n.row = tx[t].row /\ n.document = p
        /\ n.documentStatus = tx[t].documentStatus /\ n.release = tx[t].release
    <2>1. p \in Psjb
      BY DEF activePsjb
    <2> QED BY <2>1 DEF Job
  <1> HIDE DEF n
  <1>3. /\ k \in Job
        /\ k.handler = n.handler /\ k.request = n.request /\ k.todo = Tail(n.todo)
        /\ k.row = n.row /\ k.document = n.document
        /\ k.documentStatus = n.documentStatus /\ k.release = n.release
    BY <1>1, <1>2, NextJob
  <1> HIDE DEF k
  <1>4. Performs(t, "FindPsjb", k)
    BY <1>1, <1>2, <1>3 DEF Performs, Locking
  <1> QED BY <1>3, <1>4

LEMMA FindPpjbPerforms ==
    ASSUME NEW t \in Tx, tx[t] \in Job, FindPpjb(t)
    PROVE  Rollback(t) \/ \E k \in Job : Performs(t, "FindPpjb", k)
  <1> SUFFICES ASSUME ~ Rollback(t) PROVE \E k \in Job : Performs(t, "FindPpjb", k)
    OBVIOUS
  <1>0. PICK d \in activePpjb(caseOf(t)) :
           Continue(t, [tx[t] EXCEPT !.document = d]) /\ UNCHANGED locks
    BY DEF FindPpjb
  <1> DEFINE n == [tx[t] EXCEPT !.document = d]
             k == [n EXCEPT !.todo = Tail(@)]
  <1>1. /\ tx[t].todo # << >> /\ Head(tx[t].todo) = "FindPpjb" /\ locks' = locks
        /\ tx' = [tx EXCEPT ![t] = k] /\ UNCHANGED vars
    BY <1>0 DEF FindPpjb, At, Continue
  <1>2. /\ n \in Job /\ n.handler = tx[t].handler /\ n.request = tx[t].request
        /\ n.todo = tx[t].todo /\ n.row = tx[t].row /\ n.document = d
        /\ n.documentStatus = tx[t].documentStatus /\ n.release = tx[t].release
    <2>1. d \in Ppjb
      BY DEF activePpjb
    <2> QED BY <2>1 DEF Job
  <1> HIDE DEF n
  <1>3. /\ k \in Job
        /\ k.handler = n.handler /\ k.request = n.request /\ k.todo = Tail(n.todo)
        /\ k.row = n.row /\ k.document = n.document
        /\ k.documentStatus = n.documentStatus /\ k.release = n.release
    BY <1>1, <1>2, NextJob
  <1> HIDE DEF k
  <1>4. Performs(t, "FindPpjb", k)
    BY <1>1, <1>2, <1>3 DEF Performs, Locking
  <1> QED BY <1>3, <1>4

LEMMA ChecksPerform ==
    ASSUME NEW t \in Tx, tx[t] \in Job, Check(t) \/ CheckUnit(t) \/ CheckConsumer(t)
    PROVE  Rollback(t) \/ \E a : \E k \in Job : Performs(t, a, k)
  <1> SUFFICES ASSUME ~ Rollback(t) PROVE \E a : \E k \in Job : Performs(t, a, k)
    OBVIOUS
  <1>1. ASSUME Check(t) PROVE \E k \in Job : Performs(t, "Check", k)
    <2>1. At(t, "Check") /\ accepts(t) /\ Continue(t, tx[t]) /\ UNCHANGED locks
      BY <1>1 DEF Check, ContinueIf
    <2> QED BY <2>1, PlainPerforms DEF Locking
  <1>2. ASSUME CheckUnit(t) PROVE \E k \in Job : Performs(t, "CheckUnit", k)
    <2>1. /\ At(t, "CheckUnit") /\ Continue(t, tx[t]) /\ UNCHANGED locks
          /\ activeSalesCases(req(t).unit) = {}
          /\ tx[t].handler = "MoveSalesCaseUnit" => UnitBranch[req(t).unit] = tx[t].row.branch_id
      BY <1>2 DEF CheckUnit, ContinueIf
    <2> QED BY <2>1, PlainPerforms DEF Locking
  <1>3. ASSUME CheckConsumer(t) PROVE \E k \in Job : Performs(t, "CheckConsumer", k)
    <2>1. At(t, "CheckConsumer") /\ Continue(t, tx[t]) /\ UNCHANGED locks
      BY <1>3 DEF CheckConsumer, ContinueIf
    <2> QED BY <2>1, PlainPerforms DEF Locking
  <1> QED BY <1>1, <1>2, <1>3

\* The case that is being closed is the only ACTIVE one of its unit.
LEMMA CheckReleasePerforms ==
    ASSUME OneActiveCase, NEW t \in Tx, tx[t] \in Job, CheckRelease(t), caseOf(t) \in Case,
           Fresh(t), Orderly(tx[t], Head(tx[t].todo))
    PROVE  \E k \in Job : Performs(t, "CheckRelease", k)
  <1> DEFINE free == activeSalesCases(tx[t].row.unit_id) \ {caseOf(t)} = {}
             n == [tx[t] EXCEPT !.release = free]
             k == [n EXCEPT !.todo = Tail(@)]
  <1>1. /\ tx[t].todo # << >> /\ Head(tx[t].todo) = "CheckRelease" /\ locks' = locks
        /\ tx' = [tx EXCEPT ![t] = k] /\ UNCHANGED vars
    BY DEF CheckRelease, At, Continue
  <1>2. free
    <2>1. tx[t].handler = "CloseSalesCase" /\ CaseLocked(tx[t]) /\ Checked(tx[t])
      BY <1>1 DEF Orderly
    <2>2. tx[t].row = sales_cases[caseOf(t)] /\ status(caseOf(t)) = "ACTIVE"
      BY <2>1 DEF Fresh, accepts, status
    <2>3. \A c \in activeSalesCases(tx[t].row.unit_id) : c = caseOf(t)
      BY <2>2 DEF activeSalesCases, IsActive, OneActiveCase
    <2> QED BY <2>3
  <1> HIDE DEF free
  <1>3. /\ n \in Job /\ n.handler = tx[t].handler /\ n.request = tx[t].request
        /\ n.todo = tx[t].todo /\ n.row = tx[t].row /\ n.document = tx[t].document
        /\ n.documentStatus = tx[t].documentStatus /\ n.release = TRUE
    <2>1. n = [tx[t] EXCEPT !.release = TRUE]
      BY <1>2
    <2> HIDE DEF n
    <2> QED BY <2>1 DEF Job
  <1> HIDE DEF n
  <1>4. /\ k \in Job
        /\ k.handler = n.handler /\ k.request = n.request /\ k.todo = Tail(n.todo)
        /\ k.row = n.row /\ k.document = n.document
        /\ k.documentStatus = n.documentStatus /\ k.release = n.release
    BY <1>1, <1>3, NextJob
  <1> HIDE DEF k
  <1>5. Performs(t, "CheckRelease", k)
    BY <1>1, <1>3, <1>4 DEF Performs, Locking
  <1> QED BY <1>4, <1>5

\* A case is inserted only if no ACTIVE case, and no case about to be
\* committed, has its unit or its consumer.
LEMMA InsertCasePerforms ==
    ASSUME NEW t \in Tx, tx[t] \in Job, InsertCase(t),
           \A x \in Tx : Running(x) => Orderly(tx[x], Head(tx[x].todo)) /\ tx[x].todo # << >>
    PROVE  Rollback(t) \/ \E k \in Job : Performs(t, "InsertCase", k)
  <1> SUFFICES ASSUME ~ Rollback(t) PROVE \E k \in Job : Performs(t, "InsertCase", k)
    OBVIOUS
  <1>1. /\ At(t, "InsertCase") /\ ~ violatesIndex(t) /\ waitsFor(t) = {}
        /\ Continue(t, tx[t]) /\ UNCHANGED locks
    BY DEF InsertCase, ContinueIf
  <1>2. inserters(t) = {} /\ closers(t) = {}
    BY <1>1 DEF waitsFor
  <1>3. ASSUME NEW m \in Case, status(m) = "ACTIVE", clash(keys(t), keysOfCase(m))
        PROVE  tx[t].handler = "MoveSalesCaseUnit" /\ m = caseOf(t)
    <2>1. PICK x \in Tx : hasClosedCase(x) /\ caseOf(x) = m
      BY <1>1, <1>3 DEF violatesIndex
    <2>2. x = t
      BY <1>2, <1>3, <2>1 DEF closers
    <2>3. tx[t].handler = "MoveSalesCaseUnit"
      BY <1>1, <2>1, <2>2 DEF hasClosedCase, At
    <2> QED BY <2>1, <2>2, <2>3
  <1>4. ASSUME NEW x \in Tx \ {t}, Inserted(tx[x]) PROVE ~ clash(keys(t), keys(x))
    <2>1. Running(x)
      BY <1>4, TransactionsAssumption DEF Inserted, Running, HandlerNames
    <2>2. At(x, "Commit")
      BY <1>4, <2>1 DEF Orderly, At
    <2>3. hasInsertedCase(x)
      BY <1>4, <2>2 DEF hasInsertedCase, Inserted
    <2> QED BY <1>2, <2>3 DEF inserters
  <1>5. NoClash(t)
    BY <1>3, <1>4 DEF NoClash
  <1> QED BY <1>1, <1>5, PlainPerforms DEF Locking

LEMMA StatementPerforms ==
    ASSUME DataInvariant, TxInvariant, NEW t \in Tx, Statement(t)
    PROVE  Running(t) /\ (Commit(t) \/ Rollback(t) \/ \E a : \E k \in Job : Performs(t, a, k))
  <1>1. TypeOK /\ OneActiveCase
    BY DEF DataInvariant, UnitInvariant, SalesInvariant
  <1>2. \E a : At(t, a)
    BY DEF Statement, LockCase, LockPsjb, LockPpjb, LockRow, UpdateUnit, FindPsjb, FindPpjb,
       Check, CheckUnit, CheckConsumer, CheckRelease, InsertCase, Commit
  <1>3. Running(t)
    BY <1>2 DEF At, TxInvariant, Own, Idle
  <1>4. \A x \in Tx : Running(x) =>
           /\ tx[x] \in Job /\ tx[x].handler \in HandlerNames /\ Orderly(tx[x], Head(tx[x].todo))
           /\ tx[x].todo # << >> /\ Proper(x) /\ Fresh(x)
    BY RunningProgresses DEF TxInvariant
  <1>5. OnCase(tx[t]) => caseOf(t) \in Case
    BY <1>3, <1>4, CaseOfExists
  <1>6. CASE LockCase(t)
    <2>1. caseOf(t) \in Case
      BY <1>3, <1>4, <1>5, <1>6 DEF LockCase, At, Orderly, BeforeCase
    <2> QED BY <1>1, <1>3, <1>4, <1>6, <2>1, LockCasePerforms
  <1>7. CASE LockPsjb(t)
    BY <1>1, <1>3, <1>4, <1>7, LockPsjbPerforms
  <1>8. CASE LockPpjb(t)
    BY <1>1, <1>3, <1>4, <1>8, LockPpjbPerforms
  <1>9. CASE LockRow(t)
    BY <1>3, <1>4, <1>9, LockRowPerforms
  <1>10. CASE UpdateUnit(t)
    BY <1>3, <1>4, <1>10, UpdateUnitPerforms
  <1>11. CASE FindPsjb(t)
    BY <1>3, <1>4, <1>11, FindPsjbPerforms
  <1>12. CASE FindPpjb(t)
    BY <1>3, <1>4, <1>12, FindPpjbPerforms
  <1>13. CASE Check(t) \/ CheckUnit(t) \/ CheckConsumer(t)
    BY <1>3, <1>4, <1>13, ChecksPerform
  <1>14. CASE CheckRelease(t)
    <2>1. caseOf(t) \in Case
      BY <1>3, <1>4, <1>5, <1>14 DEF CheckRelease, At, Orderly, CaseLocked
    <2> QED BY <1>1, <1>3, <1>4, <1>14, <2>1, CheckReleasePerforms
  <1>15. CASE InsertCase(t)
    <2>1. Rollback(t) \/ \E k \in Job : Performs(t, "InsertCase", k)
      BY <1>3, <1>4, <1>15, InsertCasePerforms
    <2> QED BY <1>3, <2>1
  <1>16. CASE Commit(t)
    BY <1>3, <1>16
  <1> QED BY <1>6, <1>7, <1>8, <1>9, <1>10, <1>11, <1>12, <1>13, <1>14, <1>15, <1>16 DEF Statement

-----------------------------------------------------------------------------
(* The end and the beginning of a transaction. *)

LEMMA IdleIsJob == Idle \in Job
  <1>1. NoRequest \in RequestRow
    BY DEF NoRequest, RequestRow, Data
  <1>2. NoCaseRow \in CaseRow
    BY DEF NoCaseRow, CaseRow, Stage, FinancingType
  <1>3. << >> \in Seq(Statements)
    OBVIOUS
  <1> QED BY <1>1, <1>2, <1>3 DEF Idle, Job

LEMMA IdleClaimsNothing ==
    ASSUME NEW j, j.handler = None
    PROVE  /\ ~ CaseLocked(j) /\ ~ Checked(j) /\ ~ PsjbFound(j) /\ ~ PpjbFound(j)
           /\ ~ PsjbLocked(j) /\ ~ PsjbShared(j) /\ ~ PpjbLocked(j) /\ ~ UnitChecked(j)
           /\ ~ Inserted(j) /\ ~ Released(j) /\ \A u : ~ UnitLocked(j, u)
           /\ j.handler \notin Inserting
  <1>1. j.handler \notin HandlerNames
    BY TransactionsAssumption
  <1> QED BY <1>1 DEF CaseLocked, Checked, OnCase, PsjbFound, PpjbFound, PsjbLocked, PsjbShared,
        PpjbLocked, UnitChecked, Inserted, Released, UnitLocked, Inserting, HandlerNames

LEMMA EndKeepsInvariant ==
    ASSUME TxInvariant, NEW t \in Tx, End(t), \A x \in Tx \ {t} : Undisturbed(x)
    PROVE  TxInvariant'
  <1>1. /\ tx' = [tx EXCEPT ![t] = Idle] /\ tx \in [Tx -> Job]
        /\ locks' = { l \in locks : l.tx # t }
    BY DEF End, TxInvariant, TxTypeOK
  <1>2. tx'[t] = Idle /\ \A x \in Tx \ {t} : tx'[x] = tx[x] /\ caseOf(x)' = caseOf(x)
    BY <1>1 DEF Undisturbed
  <1>3. TxTypeOK'
    BY <1>1, IdleIsJob DEF TxTypeOK
  <1>4. Own(t)'
    BY <1>2 DEF Own, Running, Idle
  <1>5. ASSUME NEW x \in Tx \ {t} PROVE Own(x)'
    BY <1>1, OwnStays DEF TxInvariant
  <1>6. ASSUME NEW x \in Tx, NEW y \in Tx, x # y PROVE Apart(x, y)'
    <2>1. Idle.handler = None
      BY DEF Idle
    <2>2. ~ Inserted(Idle) /\ Idle.handler \notin Inserting
      BY <2>1, IdleClaimsNothing
    <2>3. CASE x = t \/ y = t
      BY <1>2, <2>2, <2>3 DEF Apart
    <2>4. CASE x # t /\ y # t
      BY <1>2, <1>6, <2>4 DEF TxInvariant, Apart, req, keys
    <2> QED BY <2>3, <2>4
  <1>7. OneHolder'
    BY <1>1 DEF TxInvariant, OneHolder
  <1>8. ASSUME NEW l \in locks' PROVE Claimed(l)'
    <2>1. l \in locks /\ l.tx # t /\ Claimed(l)
      BY <1>1 DEF TxInvariant
    <2>2. l.tx \in Tx \ {t}
      BY <2>1 DEF Claimed
    <2> QED BY <1>2, <2>1, <2>2, ClaimsOfOthers
  <1> QED BY <1>3, <1>4, <1>5, <1>6, <1>7, <1>8 DEF TxInvariant

LEMMA RollbackKeepsInvariant ==
    ASSUME TxInvariant, NEW t \in Tx, Rollback(t)
    PROVE  TxInvariant'
  <1>1. End(t) /\ UNCHANGED vars /\ tx \in [Tx -> Job] /\ tx' = [tx EXCEPT ![t] = Idle]
    BY DEF Rollback, End, TxInvariant, TxTypeOK
  <1>2. ASSUME NEW x \in Tx \ {t} PROVE Undisturbed(x)
    BY <1>1, ReadersDisturbNobody
  <1> QED BY <1>1, <1>2, EndKeepsInvariant

\* What a request may name.
LEMMA RequestsAreProper ==
    ASSUME NEW h \in HandlerNames, NEW r \in requests(h)
    PROVE  /\ r \in RequestRow
           /\ r.document \in Psjb \cup Submission \cup Ppjb \cup {None}
           /\ h \in HandlerNames \ {"CreateSalesCase", "CancelPsjb", "CancelDeveloperPpjb"} =>
                 r.case \in Case /\ Exists(r.case)
           /\ h = "CancelPsjb" => r.document \in Psjb /\ psjbs[r.document].status # Absent
           /\ h \in {"CancelDeveloperPpjb", "CreateAkad"} =>
                 r.document \in Ppjb /\ ppjbs[r.document].status # Absent
           /\ h = "RecordBankResponse" => r.document \in Submission
           /\ h \in {"CreateSalesCase", "MoveSalesCaseUnit"} =>
                 r.new \in Case /\ ~ Exists(r.new) /\ r.unit \in Unit
           /\ h \in {"CreatePsjb", "ReissuePsjb"} =>
                 r.new \in Psjb /\ psjbs[r.new].status = Absent
           /\ h \in {"CreateDocumentSubmission", "CompleteCashPemberkasan"} =>
                 r.new \in Submission /\ submissions[r.new].status = Absent
           /\ h = "RecordBankResponse" =>
                 r.new \in BankProcess /\ bank_processes[r.new].response_type = Absent
           /\ h \in {"CreateDeveloperPpjb", "ReissueDeveloperPpjb"} =>
                 r.new \in Ppjb /\ ppjbs[r.new].status = Absent
           /\ h = "CreateSalesCase" => r.data[1] \in Consumer /\ r.data[2] \in FinancingType
           /\ h = "CloseSalesCase" => r.data[1] \in Closings
           /\ h = "RecordBiCheck" => r.data[1] \in 1..MaxDate /\ r.data[2] \in BiCheckResult
           /\ h = "RecordBankResponse" => r.data[1] \in BankResponseType
           /\ h \in Inserting => r.new \notin reserved
  <1> USE DEF requests, Request, cases
  <1>1. CASE h = "CreateSalesCase"
    <2>1. PICK n \in newCases, u \in Unit, k \in Consumer, f \in Financings :
             r = Request(None, None, n, u, << k, f >>)
      BY <1>1
    <2>2. n \in Case /\ ~ Exists(n) /\ n \notin reserved
      BY DEF newCases
    <2>3. f \in FinancingType
      BY TransactionsAssumption
    <2>4. << k, f >> \in Data
      BY <2>3 DEF Data
    <2> QED BY <1>1, <2>1, <2>2, <2>3, <2>4 DEF RequestRow, HandlerNames
  <1>2. CASE h = "CloseSalesCase"
    <2>1. PICK c \in cases, s \in Closings : r = Request(c, None, None, None, << s >>)
      BY <1>2
    <2>2. << s >> \in Data
      BY DEF Data
    <2> QED BY <1>2, <2>1, <2>2 DEF RequestRow, HandlerNames, Inserting
  <1>3. CASE h = "MoveSalesCaseUnit"
    <2>1. PICK c \in cases, n \in newCases, u \in Unit : r = Request(c, None, n, u, << >>)
      BY <1>3
    <2>2. n \in Case /\ ~ Exists(n) /\ n \notin reserved /\ << >> \in Data
      BY DEF newCases, Data
    <2> QED BY <1>3, <2>1, <2>2 DEF RequestRow, HandlerNames
  <1>4. CASE h = "RecordBiCheck"
    <2>1. PICK c \in cases, date \in 1..MaxDate, result \in BiCheckResult :
             r = Request(c, None, None, None, << date, result >>)
      BY <1>4
    <2>2. << date, result >> \in Data
      BY DEF Data
    <2> QED BY <1>4, <2>1, <2>2 DEF RequestRow, HandlerNames, Inserting
  <1>5. CASE h \in {"CreatePsjb", "ReissuePsjb"}
    <2>1. PICK c \in cases, p \in newPsjbs : r = Request(c, None, p, None, << >>)
      BY <1>5
    <2>2. p \in Psjb /\ psjbs[p].status = Absent /\ p \notin reserved /\ << >> \in Data
      BY DEF newPsjbs, Data
    <2> QED BY <1>5, <2>1, <2>2 DEF RequestRow, HandlerNames
  <1>6. CASE h = "CancelPsjb"
    <2>1. PICK p \in { q \in Psjb : psjbs[q].status # Absent } :
             r = Request(None, p, None, None, << >>)
      BY <1>6
    <2>2. << >> \in Data
      BY DEF Data
    <2> QED BY <1>6, <2>1, <2>2 DEF RequestRow, HandlerNames, Inserting
  <1>7. CASE h \in {"CreateDocumentSubmission", "CompleteCashPemberkasan"}
    <2>1. PICK c \in cases, s \in newSubmissions : r = Request(c, None, s, None, << >>)
      BY <1>7
    <2>2. s \in Submission /\ submissions[s].status = Absent /\ s \notin reserved /\ << >> \in Data
      BY DEF newSubmissions, Data
    <2> QED BY <1>7, <2>1, <2>2 DEF RequestRow, HandlerNames
  <1>8. CASE h = "RecordBankResponse"
    <2>1. PICK c \in cases, s \in Submission, b \in newProcesses, response \in BankResponseType :
             r = Request(c, s, b, None, << response >>)
      BY <1>8
    <2>2. /\ b \in BankProcess /\ bank_processes[b].response_type = Absent /\ b \notin reserved
          /\ << response >> \in Data
      BY DEF newProcesses, Data
    <2> QED BY <1>8, <2>1, <2>2 DEF RequestRow, HandlerNames
  <1>9. CASE h \in {"CreateDeveloperPpjb", "ReissueDeveloperPpjb"}
    <2>1. PICK c \in cases, d \in newPpjbs : r = Request(c, None, d, None, << >>)
      BY <1>9
    <2>2. d \in Ppjb /\ ppjbs[d].status = Absent /\ d \notin reserved /\ << >> \in Data
      BY DEF newPpjbs, Data
    <2> QED BY <1>9, <2>1, <2>2 DEF RequestRow, HandlerNames
  <1>10. CASE h = "CancelDeveloperPpjb"
    <2>1. PICK d \in { e \in Ppjb : ppjbs[e].status # Absent } :
             r = Request(None, d, None, None, << >>)
      BY <1>10
    <2>2. << >> \in Data
      BY DEF Data
    <2> QED BY <1>10, <2>1, <2>2 DEF RequestRow, HandlerNames, Inserting
  <1>11. CASE h = "CreateAkad"
    <2>1. PICK c \in cases, d \in { e \in Ppjb : ppjbs[e].status # Absent } :
             r = Request(c, d, None, None, << >>)
      BY <1>11
    <2>2. << >> \in Data
      BY DEF Data
    <2> QED BY <1>11, <2>1, <2>2 DEF RequestRow, HandlerNames, Inserting
  <1>12. CASE h = "CreateBast"
    <2>1. PICK c \in cases : r = Request(c, None, None, None, << >>)
      BY <1>12
    <2>2. << >> \in Data
      BY DEF Data
    <2> QED BY <1>12, <2>1, <2>2 DEF RequestRow, HandlerNames, Inserting
  <1> QED BY <1>1, <1>2, <1>3, <1>4, <1>5, <1>6, <1>7, <1>8, <1>9, <1>10, <1>11, <1>12
           DEF HandlerNames

LEMMA BeginKeepsInvariant ==
    ASSUME TxInvariant, NEW t \in Tx, Begin(t)
    PROVE  TxInvariant'
  <1>0. PICK h \in Handlers : \E r \in requests(h) :
           tx' = [tx EXCEPT ![t] = [Idle EXCEPT !.handler = h, !.request = r,
                                               !.document = r.document, !.todo = script(h)]]
    BY DEF Begin
  <1>1. PICK r \in requests(h) :
           tx' = [tx EXCEPT ![t] = [Idle EXCEPT !.handler = h, !.request = r,
                                               !.document = r.document, !.todo = script(h)]]
    BY <1>0
  <1> DEFINE k == [Idle EXCEPT !.handler = h, !.request = r,
                               !.document = r.document, !.todo = script(h)]
  <1>2. UNCHANGED << vars, locks >> /\ ~ Running(t) /\ tx \in [Tx -> Job]
    BY DEF Begin, TxInvariant, TxTypeOK
  <1>3. h \in HandlerNames
    BY TransactionsAssumption
  <1>4. /\ k.handler = h /\ k.request = r /\ k.todo = script(h) /\ k.document = r.document
    BY DEF Idle
  <1>5. k \in Job
    <2>1. script(h) \in Seq(Statements)
      BY <1>3, ScriptIsScript DEF IsScript
    <2>2. r \in RequestRow /\ r.document \in Psjb \cup Submission \cup Ppjb \cup {None}
      BY <1>3, RequestsAreProper
    <2> QED BY <1>3, <2>1, <2>2, IdleIsJob DEF Job, Idle
  <1>6. tx'[t] = k /\ \A x \in Tx \ {t} : tx'[x] = tx[x]
    BY <1>1, <1>2
  <1> HIDE DEF k
  <1>7. Progressing(k) /\ NothingDone(k) /\ ~ PsjbLocked(k) /\ ~ PpjbLocked(k)
    BY <1>3, <1>4, Begins
  <1>8. TxTypeOK'
    BY <1>1, <1>2, <1>5 DEF TxTypeOK, k
  <1>9. ASSUME NEW x \in Tx \ {t} PROVE Undisturbed(x)
    BY <1>2, <1>6, ReadersDisturbNobody
  <1>10. ASSUME NEW x \in Tx \ {t} PROVE Own(x)'
    BY <1>2, <1>9, OwnStays DEF TxInvariant
  <1>11. Proper(t)'
    <2>1. /\ sales_cases' = sales_cases /\ psjbs' = psjbs /\ ppjbs' = ppjbs
          /\ submissions' = submissions /\ bank_processes' = bank_processes
      BY <1>2, SameTables
    <2>2. \A c : Exists(c)' <=> sales_cases[c].case_status # Absent
      BY <2>1 DEF Exists, status
    <2>3. req(t)' = r /\ tx'[t].handler = h /\ tx'[t].document = r.document
      BY <1>4, <1>6 DEF req
    <2>4. /\ h \in HandlerNames \ {"CreateSalesCase", "CancelPsjb", "CancelDeveloperPpjb"} =>
                   r.case \in Case /\ Exists(r.case)
          /\ h = "CancelPsjb" => r.document \in Psjb /\ psjbs[r.document].status # Absent
          /\ h \in {"CancelDeveloperPpjb", "CreateAkad"} =>
                r.document \in Ppjb /\ ppjbs[r.document].status # Absent
          /\ h = "RecordBankResponse" => r.document \in Submission
          /\ h \in {"CreateSalesCase", "MoveSalesCaseUnit"} =>
                r.new \in Case /\ ~ Exists(r.new) /\ r.unit \in Unit
          /\ h \in {"CreatePsjb", "ReissuePsjb"} =>
                r.new \in Psjb /\ psjbs[r.new].status = Absent
          /\ h \in {"CreateDocumentSubmission", "CompleteCashPemberkasan"} =>
                r.new \in Submission /\ submissions[r.new].status = Absent
          /\ h = "RecordBankResponse" =>
                r.new \in BankProcess /\ bank_processes[r.new].response_type = Absent
          /\ h \in {"CreateDeveloperPpjb", "ReissueDeveloperPpjb"} =>
                r.new \in Ppjb /\ ppjbs[r.new].status = Absent
          /\ h = "CreateSalesCase" => r.data[1] \in Consumer /\ r.data[2] \in FinancingType
          /\ h = "CloseSalesCase" => r.data[1] \in Closings
          /\ h = "RecordBiCheck" => r.data[1] \in 1..MaxDate /\ r.data[2] \in BiCheckResult
          /\ h = "RecordBankResponse" => r.data[1] \in BankResponseType
      BY <1>3, RequestsAreProper
    <2> QED BY <2>1, <2>2, <2>3, <2>4 DEF Proper, Exists, status
  <1>12. Own(t)'
    <2>1. Fresh(t)'
      BY <1>6, <1>7 DEF Fresh, NothingDone
    <2>2. Holding(t)'
      BY <1>6, <1>7 DEF Holding, NothingDone
    <2> QED BY <1>6, <1>7, <1>11, <2>1, <2>2, <1>3, TransactionsAssumption
           DEF Own, Running, Progressing
  <1>13. ASSUME NEW x \in Tx, NEW y \in Tx, x # y PROVE Apart(x, y)'
    <2>1. h \in Inserting => \A z \in Tx : req(z).new # r.new
      <3>1. h \in Inserting => r.new \notin reserved
        BY <1>3, RequestsAreProper
      <3> QED BY <3>1 DEF reserved
    <2>2. ~ Inserted(k)
      BY <1>7 DEF NothingDone
    <2>3. \A z \in Tx \ {t} : req(z)' = req(z) /\ keys(z)' = keys(z)
      BY <1>6 DEF req, keys
    <2>4. req(t)' = r /\ tx'[t].handler = h
      BY <1>4, <1>6 DEF req
    <2>5. CASE x = t
      BY <1>6, <1>13, <2>1, <2>2, <2>3, <2>4, <2>5 DEF Apart
    <2>6. CASE y = t
      BY <1>6, <1>13, <2>1, <2>2, <2>3, <2>4, <2>6 DEF Apart
    <2>7. CASE x # t /\ y # t
      BY <1>6, <1>13, <2>3, <2>7 DEF TxInvariant, Apart
    <2> QED BY <2>5, <2>6, <2>7
  <1>14. OneHolder'
    BY <1>2 DEF TxInvariant, OneHolder
  <1>15. ASSUME NEW l \in locks' PROVE Claimed(l)'
    <2>1. l \in locks /\ Claimed(l)
      BY <1>2 DEF TxInvariant
    <2>2. l.tx # t
      <3>1. ASSUME l.tx = t PROVE FALSE
        <4>1. tx[t].handler = None
          BY <1>2 DEF Running
        <4>2. /\ ~ CaseLocked(tx[t]) /\ ~ PsjbLocked(tx[t]) /\ ~ PsjbShared(tx[t])
              /\ ~ PpjbLocked(tx[t]) /\ \A u : ~ UnitLocked(tx[t], u)
          BY <4>1, IdleClaimsNothing
        <4> QED BY <2>1, <3>1, <4>2 DEF Claimed
      <3> QED BY <3>1
    <2>3. l.tx \in Tx \ {t}
      BY <2>1, <2>2 DEF Claimed
    <2>4. caseOf(l.tx)' = caseOf(l.tx)
      BY <1>9, <2>3 DEF Undisturbed
    <2> QED BY <1>6, <2>1, <2>3, <2>4, ClaimsOfOthers
  <1> QED BY <1>8, <1>10, <1>12, <1>13, <1>14, <1>15 DEF TxInvariant

=============================================================================
