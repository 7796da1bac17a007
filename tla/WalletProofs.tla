---------------------------- MODULE WalletProofs ----------------------------
(* Theorems about Wallet, for any amounts, opening balances, teams, requests *)
(* in flight and bound.                                                      *)
EXTENDS Wallet, TLAPS

(* What a request carries.                                                   *)
LEMMA Carried ==
  ASSUME TypeOK, NEW r \in Requests, req[r] # None
  PROVE  /\ At(r, "open") => req[r].opening \in Nat
         /\ At(r, "openTeam") => req[r].opening \in Nat /\ req[r].team \in Teams
         /\ At(r, "deposit") \/ At(r, "withdraw") =>
              req[r].amount \in Nat /\ req[r].new \in Nat
         /\ At(r, "fund") \/ At(r, "refund") =>
              req[r].amount \in Nat /\ req[r].team \in Teams
BY AmountsAssumption DEF TypeOK, Request, At

(* A step that touches no table keeps everything but what requests carry.    *)
LEMMA TablesUnchanged ==
  ASSUME Inductive, UNCHANGED tables,
         req' \in [Requests -> Request \cup {None}], overlapped' \in BOOLEAN, NewWithinBooks'
  PROVE  Inductive'
BY DEF Inductive, TypeOK, NeverOverdrawn, WithinBooks, tables

(* A request that carries no balance begins.                                 *)
LEMMA PlainBegin ==
  ASSUME Inductive, UNCHANGED tables, NEW r \in Requests, NEW q \in Request,
         Begin(r, q), q.at \notin {"deposit", "withdraw"}
  PROVE  Inductive'
<1>1. req' \in [Requests -> Request \cup {None}] /\ overlapped' \in BOOLEAN
  BY DEF Inductive, TypeOK, Begin
<1>2. NewWithinBooks'
  BY DEF Inductive, TypeOK, Begin, NewWithinBooks, At, tables
<1> QED
  BY <1>1, <1>2, TablesUnchanged

(* A request ends and touches no table.                                      *)
LEMMA PlainEnd ==
  ASSUME Inductive, UNCHANGED tables, NEW r \in Requests, End(r)
  PROVE  Inductive'
<1>1. req' \in [Requests -> Request \cup {None}] /\ overlapped' \in BOOLEAN
  BY DEF Inductive, TypeOK, End
<1>2. NewWithinBooks'
  BY DEF Inductive, TypeOK, End, NewWithinBooks, At, tables
<1> QED
  BY <1>1, <1>2, TablesUnchanged

(* A request begins that carries a balance within the books.                 *)
LEMMA CarryingBegin ==
  ASSUME Inductive, UNCHANGED tables, NEW r \in Requests, NEW q \in Request,
         Begin(r, q), balance # None,
         q.at = "deposit" => /\ q.new <= opening + credited + q.amount
                             /\ q.new >= opening - debited,
         q.at = "withdraw" => /\ q.new <= opening + credited
                              /\ q.new >= opening - debited - q.amount
  PROVE  Inductive'
<1>1. req' = [req EXCEPT ![r] = q] /\ req \in [Requests -> Request \cup {None}]
  BY DEF Begin, Inductive, TypeOK
<1>2. req' \in [Requests -> Request \cup {None}] /\ overlapped' \in BOOLEAN
  BY <1>1 DEF Begin, Inductive, TypeOK
<1>3. NewWithinBooks'
  BY <1>1 DEF NewWithinBooks, At, Inductive, tables
<1> QED
  BY <1>2, <1>3, TablesUnchanged

LEMMA InductiveStep ==
  ASSUME Inductive, [Next]_vars
  PROVE  Inductive'
<1> USE AmountsAssumption, NoneAssumption
<1>1. ASSUME NEW r \in Requests, NEW b \in Openings, CreateWallet(r, b)
      PROVE  Inductive'
  BY <1>1, PlainBegin DEF CreateWallet, Request
<1>2. ASSUME NEW r \in Requests, NEW t \in Teams, NEW b \in Openings,
             CreateTeamWallet(r, t, b)
      PROVE  Inductive'
  BY <1>2, PlainBegin DEF CreateTeamWallet, Request
<1>3. ASSUME NEW r \in Requests, NEW x \in Amounts, CreditWallet(r, x)
      PROVE  Inductive'
  <2> DEFINE q == [at |-> "deposit", amount |-> x, new |-> balance + x]
  <2>1. Begin(r, q) /\ UNCHANGED tables /\ balance # None
    BY <1>3 DEF CreditWallet, Deposited
  <2>2. balance \in Nat /\ x \in Nat
    BY <2>1 DEF Inductive, TypeOK, NeverOverdrawn
  <2>3. q \in Request
    BY <2>2 DEF Request
  <2>4. balance <= opening + credited /\ balance >= opening - debited
    BY <2>1 DEF Inductive, WithinBooks
  <2>5. opening \in Nat /\ credited \in Nat /\ debited \in Nat
    BY DEF Inductive, TypeOK
  <2> QED
    BY <2>1, <2>2, <2>3, <2>4, <2>5, CarryingBegin
<1>4. ASSUME NEW r \in Requests, NEW x \in Amounts, DebitWallet(r, x)
      PROVE  Inductive'
  <2> DEFINE q == [at |-> "withdraw", amount |-> x, new |-> balance - x]
  <2>1. Begin(r, q) /\ UNCHANGED tables /\ balance # None
    BY <1>4 DEF DebitWallet, Withdrawn
  <2>2. balance \in Nat /\ x \in Nat /\ balance - x \in Nat
    BY <1>4, <2>1 DEF DebitWallet, Sufficient, Withdrawn, Inductive, TypeOK, NeverOverdrawn
  <2>3. q \in Request
    BY <2>2 DEF Request
  <2>4. balance <= opening + credited /\ balance >= opening - debited
    BY <2>1 DEF Inductive, WithinBooks
  <2>5. opening \in Nat /\ credited \in Nat /\ debited \in Nat
    BY DEF Inductive, TypeOK
  <2> QED
    BY <2>1, <2>2, <2>3, <2>4, <2>5, CarryingBegin
<1>5. ASSUME NEW r \in Requests, NEW t \in Teams, NEW x \in Amounts,
             CreditTeamWallet(r, t, x)
      PROVE  Inductive'
  BY <1>5, PlainBegin DEF CreditTeamWallet, Request
<1>6. ASSUME NEW r \in Requests, NEW t \in Teams, NEW x \in Amounts,
             DebitTeamWallet(r, t, x)
      PROVE  Inductive'
  BY <1>6, PlainBegin DEF DebitTeamWallet, Request
<1>7. ASSUME NEW r \in Requests, CreateWalletCommit(r)
      PROVE  Inductive'
  <2>1. /\ balance = None
        /\ balance' = req[r].opening /\ opening' = req[r].opening
        /\ req[r].opening \in Nat
        /\ UNCHANGED <<credited, debited, team>>
        /\ req' = [req EXCEPT ![r] = None] /\ overlapped' = overlapped
    BY <1>7, Carried DEF CreateWalletCommit, UniqueIndexAllows, At, End, Inductive
  <2>2. TypeOK'
    BY <2>1 DEF Inductive, TypeOK
  <2>3. NeverOverdrawn'
    BY <2>1 DEF Inductive, NeverOverdrawn
  <2>4. WithinBooks'
    BY <2>1 DEF Inductive, WithinBooks, TypeOK
  <2>5. NewWithinBooks'
    BY <2>1 DEF Inductive, NewWithinBooks, TypeOK, At
  <2> QED
    BY <2>2, <2>3, <2>4, <2>5 DEF Inductive
<1>8. ASSUME NEW r \in Requests, CreateTeamWalletCommit(r)
      PROVE  Inductive'
  <2>1. /\ req[r].opening \in Nat /\ req[r].team \in Teams
        /\ team' = [team EXCEPT ![req[r].team] = req[r].opening]
        /\ UNCHANGED <<balance, opening, credited, debited>>
        /\ req' = [req EXCEPT ![r] = None] /\ overlapped' = overlapped
    BY <1>8, Carried DEF CreateTeamWalletCommit, At, End, Inductive
  <2>2. TypeOK'
    BY <2>1 DEF Inductive, TypeOK
  <2>3. NeverOverdrawn'
    BY <2>1 DEF Inductive, NeverOverdrawn, TypeOK
  <2>4. WithinBooks'
    BY <2>1 DEF Inductive, WithinBooks
  <2>5. NewWithinBooks'
    BY <2>1 DEF Inductive, NewWithinBooks, TypeOK, At
  <2> QED
    BY <2>2, <2>3, <2>4, <2>5 DEF Inductive
<1>9. ASSUME NEW r \in Requests, CreditWalletCommit(r)
      PROVE  Inductive'
  <2> DEFINE x == req[r].amount
             n == req[r].new
  <2>1. /\ balance # None /\ x \in Nat /\ n \in Nat
        /\ n <= opening + credited + x /\ n >= opening - debited
        /\ balance' = n /\ credited' = credited + x
        /\ UNCHANGED <<opening, debited, team>>
        /\ req' = [req EXCEPT ![r] = None] /\ overlapped' = overlapped
    BY <1>9, Carried DEF CreditWalletCommit, At, End, Inductive, NewWithinBooks
  <2>2. opening \in Nat /\ credited \in Nat /\ debited \in Nat
    BY DEF Inductive, TypeOK
  <2> HIDE DEF x, n
  <2>3. TypeOK'
    BY <2>1, <2>2 DEF Inductive, TypeOK
  <2>4. NeverOverdrawn'
    BY <2>1 DEF Inductive, NeverOverdrawn
  <2>5. WithinBooks'
    BY <2>1, <2>2 DEF WithinBooks
  <2>6. NewWithinBooks'
    <3> SUFFICES ASSUME NEW s \in Requests, s # r, req[s] # None,
                        At(s, "deposit") \/ At(s, "withdraw")
                 PROVE  /\ At(s, "deposit") =>
                             /\ req[s].new <= opening + credited + x + req[s].amount
                             /\ req[s].new >= opening - debited
                        /\ At(s, "withdraw") =>
                             /\ req[s].new <= opening + credited + x
                             /\ req[s].new >= opening - debited - req[s].amount
      BY <2>1 DEF NewWithinBooks, At, Inductive, TypeOK
    <3>1. req[s].new \in Nat /\ req[s].amount \in Nat
      BY Carried DEF Inductive
    <3> QED
      BY <3>1, <2>1, <2>2 DEF Inductive, NewWithinBooks
  <2> QED
    BY <2>3, <2>4, <2>5, <2>6 DEF Inductive
<1>10. ASSUME NEW r \in Requests, DebitWalletCommit(r)
       PROVE  Inductive'
  <2> DEFINE x == req[r].amount
             n == req[r].new
  <2>1. /\ balance # None /\ x \in Nat /\ n \in Nat
        /\ n <= opening + credited /\ n >= opening - debited - x
        /\ balance' = n /\ debited' = debited + x
        /\ UNCHANGED <<opening, credited, team>>
        /\ req' = [req EXCEPT ![r] = None] /\ overlapped' = overlapped
    BY <1>10, Carried DEF DebitWalletCommit, At, End, Inductive, NewWithinBooks
  <2>2. opening \in Nat /\ credited \in Nat /\ debited \in Nat
    BY DEF Inductive, TypeOK
  <2> HIDE DEF x, n
  <2>3. TypeOK'
    BY <2>1, <2>2 DEF Inductive, TypeOK
  <2>4. NeverOverdrawn'
    BY <2>1 DEF Inductive, NeverOverdrawn
  <2>5. WithinBooks'
    BY <2>1, <2>2 DEF WithinBooks
  <2>6. NewWithinBooks'
    <3> SUFFICES ASSUME NEW s \in Requests, s # r, req[s] # None,
                        At(s, "deposit") \/ At(s, "withdraw")
                 PROVE  /\ At(s, "deposit") =>
                             /\ req[s].new <= opening + credited + req[s].amount
                             /\ req[s].new >= opening - (debited + x)
                        /\ At(s, "withdraw") =>
                             /\ req[s].new <= opening + credited
                             /\ req[s].new >= opening - (debited + x) - req[s].amount
      BY <2>1 DEF NewWithinBooks, At, Inductive, TypeOK
    <3>1. req[s].new \in Nat /\ req[s].amount \in Nat
      BY Carried DEF Inductive
    <3> QED
      BY <3>1, <2>1, <2>2 DEF Inductive, NewWithinBooks
  <2> QED
    BY <2>3, <2>4, <2>5, <2>6 DEF Inductive
<1>11. ASSUME NEW r \in Requests, CreditTeamWalletCommit(r)
       PROVE  Inductive'
  BY <1>11, PlainEnd DEF CreditTeamWalletCommit, TransactionByIsAdmin
<1>12. ASSUME NEW r \in Requests, DebitTeamWalletCommit(r)
       PROVE  Inductive'
  BY <1>12, PlainEnd DEF DebitTeamWalletCommit, TransactionByIsAdmin
<1>13. ASSUME NEW r \in Requests, Fail(r)
       PROVE  Inductive'
  BY <1>13, PlainEnd DEF Fail
<1>14. CASE UNCHANGED vars
  BY <1>14, TablesUnchanged
  DEF vars, tables, Inductive, TypeOK, NewWithinBooks, At
<1> QED
  BY <1>1, <1>2, <1>3, <1>4, <1>5, <1>6, <1>7, <1>8, <1>9, <1>10, <1>11, <1>12, <1>13, <1>14
  DEF Next, Arrive, Advance

(* Types, balances and what requests are about to write stay within bounds.  *)
THEOREM WalletConsistent == Spec => []Inductive
<1>1. Init => Inductive
  <2> SUFFICES ASSUME Init PROVE Inductive
    OBVIOUS
  <2>1. \A r \in Requests : req[r] = None
    BY DEF Init
  <2>2. overlapped \in BOOLEAN
    BY Zenon DEF Init
  <2>3. TypeOK
    BY <2>2 DEF Init, TypeOK
  <2> QED
    BY <2>1, <2>3 DEF Init, Inductive, NeverOverdrawn, WithinBooks, NewWithinBooks, At
<1>2. Inductive /\ [Next]_vars => Inductive'
  BY InductiveStep
<1> QED
  BY <1>1, <1>2, PTL DEF Spec

(* No interleaving of credits, debits and transfers overdraws a wallet.      *)
THEOREM WalletNeverOverdrawn == Spec => []NeverOverdrawn
<1>1. Inductive => NeverOverdrawn
  BY DEF Inductive
<1> QED
  BY <1>1, WalletConsistent, PTL

(* The balance stays between the two sums of the books.                      *)
THEOREM WalletWithinBooks == Spec => []WithinBooks
<1>1. Inductive => WithinBooks
  BY DEF Inductive
<1> QED
  BY <1>1, WalletConsistent, PTL

(* A wallet once created is not created again.                               *)
THEOREM WalletCreatedOnce == Spec => CreatedOnce
<1>1. [Next]_vars => [balance # None => opening' = opening]_vars
  BY DEF Next, Arrive, Advance, vars, tables, CreateWallet, CreateTeamWallet, CreditWallet,
         DebitWallet, CreditTeamWallet, DebitTeamWallet, CreateWalletCommit,
         UniqueIndexAllows, CreateTeamWalletCommit, CreditWalletCommit, DebitWalletCommit,
         CreditTeamWalletCommit, DebitTeamWalletCommit, TransactionByIsAdmin, Fail
<1> QED
  BY <1>1, PTL DEF Spec, CreatedOnce

-----------------------------------------------------------------------------
(* As long as no two requests overlap, at most one is in flight, and what it *)
(* has read is still so when it writes; a wallet that does not exist has no  *)
(* rows.                                                                     *)
Alone == \A q, r \in Requests : req[q] # None /\ req[r] # None => q = r

NothingChangedMeanwhile ==
  \A r \in Requests :
    /\ At(r, "deposit") => req[r].new = balance + req[r].amount
    /\ At(r, "withdraw") => req[r].new = balance - req[r].amount

SerialInductive ==
  /\ Inductive
  /\ BooksBalance
  /\ balance = None => credited = 0 /\ debited = 0
  /\ ~overlapped => Alone /\ NothingChangedMeanwhile

LEMMA SerialStep ==
  ASSUME SerialInductive, [Next]_vars
  PROVE  SerialInductive'
<1> USE AmountsAssumption, NoneAssumption
<1>1. Inductive'
  BY InductiveStep DEF SerialInductive
<1>2. opening \in Nat /\ credited \in Nat /\ debited \in Nat /\ balance \in Int \cup {None}
  BY DEF SerialInductive, Inductive, TypeOK
<1>3. ASSUME UNCHANGED tables, overlapped => overlapped',
             ~overlapped' => Alone' /\ NothingChangedMeanwhile'
      PROVE  SerialInductive'
  BY <1>1, <1>3 DEF SerialInductive, BooksBalance, tables
<1>4. ASSUME NEW r \in Requests, req[r] # None, End(r),
             BooksBalance', balance' = None => credited' = 0 /\ debited' = 0
      PROVE  SerialInductive'
  <2>1. overlapped' = overlapped /\ \A x \in Requests : req'[x] \in {None, req[x]}
    BY <1>4 DEF End, SerialInductive, Inductive, TypeOK
  <2>2. ~overlapped => \A x \in Requests : req'[x] = None
    BY <1>4 DEF End, SerialInductive, Inductive, TypeOK, Alone
  <2> QED
    BY <1>1, <1>4, <2>1, <2>2 DEF SerialInductive, Alone, NothingChangedMeanwhile, At
<1>5. ASSUME NEW r \in Requests, NEW q, Begin(r, q), UNCHANGED tables,
             q.at = "deposit" => q.new = balance + q.amount,
             q.at = "withdraw" => q.new = balance - q.amount
      PROVE  SerialInductive'
  <2>1. req'[r] = q /\ balance' = balance
    BY <1>5 DEF Begin, SerialInductive, Inductive, TypeOK, tables
  <2>2. overlapped => overlapped'
    BY <1>5 DEF Begin
  <2>3. ASSUME ~overlapped'
        PROVE  Alone' /\ NothingChangedMeanwhile'
    <3>1. \A x \in Requests : x # r => req'[x] = None
      BY <1>5, <2>3 DEF Begin, SerialInductive, Inductive, TypeOK
    <3> QED
      BY <1>5, <2>1, <3>1 DEF Alone, NothingChangedMeanwhile, At
  <2> QED
    BY <1>3, <1>5, <2>2, <2>3
<1>6. ASSUME NEW r \in Requests, req[r] # None, End(r), UNCHANGED tables
      PROVE  SerialInductive'
  BY <1>4, <1>6 DEF End, SerialInductive, BooksBalance, tables
<1>7. ASSUME NEW r \in Requests, NEW b \in Openings, CreateWallet(r, b)
      PROVE  SerialInductive'
  BY <1>7, <1>5 DEF CreateWallet
<1>8. ASSUME NEW r \in Requests, NEW t \in Teams, NEW b \in Openings,
             CreateTeamWallet(r, t, b)
      PROVE  SerialInductive'
  BY <1>8, <1>5 DEF CreateTeamWallet
<1>9. ASSUME NEW r \in Requests, NEW x \in Amounts, CreditWallet(r, x)
      PROVE  SerialInductive'
  BY <1>9, <1>5 DEF CreditWallet, Deposited
<1>10. ASSUME NEW r \in Requests, NEW x \in Amounts, DebitWallet(r, x)
       PROVE  SerialInductive'
  BY <1>10, <1>5 DEF DebitWallet, Withdrawn
<1>11. ASSUME NEW r \in Requests, NEW t \in Teams, NEW x \in Amounts,
              CreditTeamWallet(r, t, x) \/ DebitTeamWallet(r, t, x)
       PROVE  SerialInductive'
  BY <1>11, <1>5 DEF CreditTeamWallet, DebitTeamWallet
<1>12. ASSUME NEW r \in Requests, CreateWalletCommit(r)
       PROVE  SerialInductive'
  <2>1. /\ balance = None /\ req[r] # None /\ End(r)
        /\ balance' = req[r].opening /\ opening' = req[r].opening
        /\ req[r].opening \in Nat /\ UNCHANGED <<credited, debited>>
    BY <1>12, Carried
    DEF CreateWalletCommit, UniqueIndexAllows, At, SerialInductive, Inductive, TypeOK
  <2> QED
    BY <1>4, <2>1 DEF SerialInductive, BooksBalance
<1>13. ASSUME NEW r \in Requests, CreateTeamWalletCommit(r)
       PROVE  SerialInductive'
  <2>1. req[r] # None /\ End(r) /\ UNCHANGED <<balance, opening, credited, debited>>
    BY <1>13 DEF CreateTeamWalletCommit, At
  <2> QED
    BY <1>4, <2>1 DEF End, SerialInductive, BooksBalance
<1>14. ASSUME NEW r \in Requests, CreditWalletCommit(r) \/ DebitWalletCommit(r)
       PROVE  SerialInductive'
  <2>1. /\ balance # None /\ req[r] # None /\ End(r) /\ overlapped' = overlapped
        /\ req[r].amount \in Nat /\ balance' \in Int
    BY <1>14, Carried
    DEF CreditWalletCommit, DebitWalletCommit, At, End, SerialInductive, Inductive, TypeOK,
        NewWithinBooks
  <2>2. ASSUME ~overlapped
        PROVE  \/ /\ balance' = balance + req[r].amount
                  /\ credited' = credited + req[r].amount
                  /\ UNCHANGED <<opening, debited>>
               \/ /\ balance' = balance - req[r].amount
                  /\ debited' = debited + req[r].amount
                  /\ UNCHANGED <<opening, credited>>
    BY <1>14, <2>2
    DEF CreditWalletCommit, DebitWalletCommit, SerialInductive, NothingChangedMeanwhile
  <2>3. ASSUME ~overlapped
        PROVE  balance' = opening' + credited' - debited'
    <3>1. balance = opening + credited - debited
      BY <2>1, <2>3 DEF SerialInductive, BooksBalance
    <3> QED
      BY <1>2, <2>1, <2>2, <2>3, <3>1
  <2>4. balance' # None
    BY <2>1
  <2> QED
    BY <1>4, <2>1, <2>3, <2>4 DEF BooksBalance
<1>15. ASSUME NEW r \in Requests,
              CreditTeamWalletCommit(r) \/ DebitTeamWalletCommit(r) \/ Fail(r)
       PROVE  SerialInductive'
  BY <1>15, <1>6
  DEF CreditTeamWalletCommit, DebitTeamWalletCommit, TransactionByIsAdmin, Fail, At
<1>16. CASE UNCHANGED vars
  BY <1>16, <1>3 DEF vars, tables, SerialInductive, Alone, NothingChangedMeanwhile, At
<1> QED
  BY <1>7, <1>8, <1>9, <1>10, <1>11, <1>12, <1>13, <1>14, <1>15, <1>16
  DEF Next, Arrive, Advance

(* As long as no two requests overlap, the balance is what the rows add up   *)
(* to.                                                                       *)
THEOREM SerialBooksBalance == Spec => []BooksBalance
<1>1. Init /\ Inductive => SerialInductive
  BY DEF Init, SerialInductive, BooksBalance, Alone, NothingChangedMeanwhile, At
<1>2. SerialInductive /\ [Next]_vars => SerialInductive'
  BY SerialStep
<1>3. SerialInductive => BooksBalance
  BY DEF SerialInductive
<1> QED
  BY <1>1, <1>2, <1>3, WalletConsistent, PTL DEF Spec
=============================================================================
