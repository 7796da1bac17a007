------------------------------- MODULE Wallet -------------------------------
(***************************************************************************)
(* The money of one project: its wallet and the wallets of its teams.      *)
(*   ProjectWalletService.createWallet,                                    *)
(*   ProjectWalletTransactionService.creditWallet / debitWallet,           *)
(*   TeamWalletService.createTeamWallet,                                   *)
(*   TeamWalletTransactionService.creditTeamWallet / debitTeamWallet.      *)
(*                                                                         *)
(* A request reads the wallet first and writes later, in a transaction     *)
(* that is one step; between the two it holds no lock.  Deposits and       *)
(* withdrawals write the absolute balance computed from what was read,     *)
(* transfers write increments.                                             *)
(*                                                                         *)
(* The transaction rows are kept as their totals: credited and debited.    *)
(* Amounts are whole units of the smallest denomination: the rounding of   *)
(* the Float columns is left out.  The status of a wallet (ACTIVE,         *)
(* SUSPENDED, CLOSED), its currency and its estimated budget are left out: *)
(* no operation reads them.                                                *)
(*                                                                         *)
(* "slip: P" marks a plausible mistake in the operator defined after it:   *)
(* nothing uses it, and with it in that operator's place P fails.          *)
(***************************************************************************)
EXTENDS Integers

CONSTANTS
  Amounts,   \* what is deposited, withdrawn or transferred
  Openings,  \* opening balances
  Teams,
  Requests,  \* how many requests may be in flight at once: a bound
  MaxTotal,  \* no more than this is ever deposited or withdrawn: a bound
  None

ASSUME AmountsAssumption == Amounts \subseteq Nat /\ Openings \subseteq Nat
ASSUME NoneAssumption == None \notin Int

VARIABLES
  balance,   \* wallets.balance, None while the project has no wallet
  opening,   \* the balance the wallet was created with, 0 before
  credited,  \* total of the wallet's CREDIT rows
  debited,   \* total of the wallet's DEBIT rows
  team,      \* team[t]: team_wallets.balance, None while t has no wallet
  req,       \* req[r]: the request in flight, None when there is none
  overlapped \* whether two requests were ever in flight at once (history)

tables == <<balance, opening, credited, debited, team>>
vars == <<balance, opening, credited, debited, team, req, overlapped>>

Request ==
  [at : {"open"}, opening : Openings]
    \cup [at : {"openTeam"}, team : Teams, opening : Openings]
    \cup [at : {"deposit", "withdraw"}, amount : Amounts, new : Nat]
    \cup [at : {"fund", "refund"}, team : Teams, amount : Amounts]

TypeOK ==
  /\ balance \in Int \cup {None}
  /\ opening \in Nat
  /\ credited \in Nat
  /\ debited \in Nat
  /\ team \in [Teams -> Int \cup {None}]
  /\ req \in [Requests -> Request \cup {None}]
  /\ overlapped \in BOOLEAN

Init ==
  /\ balance = None
  /\ opening = 0
  /\ credited = 0
  /\ debited = 0
  /\ team = [t \in Teams |-> None]
  /\ req = [r \in Requests |-> None]
  /\ overlapped = FALSE

-----------------------------------------------------------------------------
(* The life of a request, as in Membership. *)

Begin(r, q) ==
  /\ req[r] = None
  /\ req' = [req EXCEPT ![r] = q]
  /\ overlapped' = (overlapped \/ \E x \in Requests : req[x] # None)
At(r, stage) == req[r] # None /\ req[r].at = stage
End(r) == req' = [req EXCEPT ![r] = None] /\ UNCHANGED overlapped

(* A refusal, a rollback, or a crash before the commit. *)
Fail(r) ==
  /\ req[r] # None
  /\ End(r)
  /\ UNCHANGED tables

-----------------------------------------------------------------------------
(* createWallet and createTeamWallet *)

CreateWallet(r, b) ==
  /\ balance = None
  /\ Begin(r, [at |-> "open", opening |-> b])
  /\ UNCHANGED tables

(* wallets.projectId and team_wallets.teamId are @unique. *)
NoUniqueIndex(row) == TRUE  \* slip: CreatedOnce
UniqueIndexAllows(row) == row = None

CreateWalletCommit(r) ==
  /\ At(r, "open")
  /\ UniqueIndexAllows(balance)
  /\ balance' = req[r].opening
  /\ opening' = req[r].opening
  /\ End(r)
  /\ UNCHANGED <<credited, debited, team>>

CreateTeamWallet(r, t, b) ==
  /\ team[t] = None
  /\ Begin(r, [at |-> "openTeam", team |-> t, opening |-> b])
  /\ UNCHANGED tables

CreateTeamWalletCommit(r) ==
  /\ At(r, "openTeam")
  /\ UniqueIndexAllows(team[req[r].team])
  /\ team' = [team EXCEPT ![req[r].team] = req[r].opening]
  /\ End(r)
  /\ UNCHANGED <<balance, opening, credited, debited>>

-----------------------------------------------------------------------------
(* creditWallet and debitWallet *)

(* The balance a deposit or a withdrawal writes, from the one it has read. *)
DepositedTwice(read, x) == read + x + x  \* slip: WithinBooks
Deposited(read, x) == read + x
WithdrawnFromOpening(read, x) == opening - x  \* slip: BooksBalance
Withdrawn(read, x) == read - x

CreditWallet(r, x) ==
  /\ balance # None
  /\ Begin(r, [at |-> "deposit", amount |-> x, new |-> Deposited(balance, x)])
  /\ UNCHANGED tables

CreditWalletCommit(r) ==
  /\ At(r, "deposit")
  /\ credited + req[r].amount <= MaxTotal
  /\ balance' = req[r].new
  /\ credited' = credited + req[r].amount
  /\ End(r)
  /\ UNCHANGED <<opening, debited, team>>

(* "Insufficient balance for debit transaction" *)
AnyBalance(new) == TRUE  \* slip: NeverOverdrawn
Sufficient(new) == new >= 0

DebitWallet(r, x) ==
  /\ balance # None
  /\ Sufficient(Withdrawn(balance, x))
  /\ Begin(r, [at |-> "withdraw", amount |-> x, new |-> Withdrawn(balance, x)])
  /\ UNCHANGED tables

DebitWalletCommit(r) ==
  /\ At(r, "withdraw")
  /\ debited + req[r].amount <= MaxTotal
  /\ balance' = req[r].new
  /\ debited' = debited + req[r].amount
  /\ End(r)
  /\ UNCHANGED <<opening, credited, team>>

-----------------------------------------------------------------------------
(* creditTeamWallet and debitTeamWallet *)

CreditTeamWallet(r, t, x) ==
  /\ team[t] # None
  /\ balance # None
  /\ balance >= x
  /\ Begin(r, [at |-> "fund", team |-> t, amount |-> x])
  /\ UNCHANGED tables

DebitTeamWallet(r, t, x) ==
  /\ team[t] # None
  /\ balance # None
  /\ team[t] >= x
  /\ Begin(r, [at |-> "refund", team |-> t, amount |-> x])
  /\ UNCHANGED tables

(* The transfers write the caller's user id into                           *)
(* walletTransactions.transactionById, whose foreign key is to             *)
(* project_admins: ids of users are not ids of admin roles.                *)
IdOfAdminRole == TRUE  \* the id the key asks for
TransactionByIsAdmin == FALSE

(* Both balances move, with a row on each side; or, when the key refuses   *)
(* the row, nothing does.                                                  *)
CreditTeamWalletCommit(r) ==
  /\ At(r, "fund")
  /\ LET t == req[r].team  x == req[r].amount IN
       IF TransactionByIsAdmin /\ debited + x <= MaxTotal
         THEN /\ balance' = balance - x
              /\ debited' = debited + x
              /\ team' = [team EXCEPT ![t] = @ + x]
              /\ UNCHANGED <<opening, credited>>
         ELSE UNCHANGED tables
  /\ End(r)

DebitTeamWalletCommit(r) ==
  /\ At(r, "refund")
  /\ LET t == req[r].team  x == req[r].amount IN
       IF TransactionByIsAdmin /\ credited + x <= MaxTotal
         THEN /\ balance' = balance + x
              /\ credited' = credited + x
              /\ team' = [team EXCEPT ![t] = @ - x]
              /\ UNCHANGED <<opening, debited>>
         ELSE UNCHANGED tables
  /\ End(r)

-----------------------------------------------------------------------------
Arrive(r) ==
  \/ \E b \in Openings : CreateWallet(r, b)
  \/ \E t \in Teams, b \in Openings : CreateTeamWallet(r, t, b)
  \/ \E x \in Amounts : CreditWallet(r, x)
  \/ \E x \in Amounts : DebitWallet(r, x)
  \/ \E t \in Teams, x \in Amounts : CreditTeamWallet(r, t, x)
  \/ \E t \in Teams, x \in Amounts : DebitTeamWallet(r, t, x)

Advance(r) ==
  \/ CreateWalletCommit(r)
  \/ CreateTeamWalletCommit(r)
  \/ CreditWalletCommit(r)
  \/ DebitWalletCommit(r)
  \/ CreditTeamWalletCommit(r)
  \/ DebitTeamWalletCommit(r)
  \/ Fail(r)

Next == \E r \in Requests : Arrive(r) \/ Advance(r)

Spec == Init /\ [][Next]_vars

-----------------------------------------------------------------------------
(* What holds however requests interleave. *)

(* No wallet is ever overdrawn, although a debit checks a balance that     *)
(* other requests may have replaced by the time it writes.                 *)
NeverOverdrawn ==
  /\ balance # None => balance >= 0
  /\ \A t \in Teams : team[t] # None => team[t] >= 0

(* Requests that overlap may overwrite each other's balance, so the stored *)
(* balance need not be what the rows add up to; but no order of them makes *)
(* it exceed what ever came in, or undercut what is left if every debit    *)
(* counts and no credit does.                                              *)
WithinBooks ==
  balance # None =>
    /\ balance <= opening + credited
    /\ balance >= opening - debited

(* The inductive strengthening: what a request is about to write lies      *)
(* within the books too, and is not negative (its type says so); a wallet  *)
(* has no rows before it exists; a request in flight has found its wallet. *)
NewWithinBooks ==
  \A r \in Requests :
    /\ At(r, "deposit") =>
         /\ req[r].new <= opening + credited + req[r].amount
         /\ req[r].new >= opening - debited
    /\ At(r, "withdraw") =>
         /\ req[r].new <= opening + credited
         /\ req[r].new >= opening - debited - req[r].amount
    /\ At(r, "deposit") \/ At(r, "withdraw") => balance # None

Inductive ==
  /\ TypeOK
  /\ NeverOverdrawn
  /\ WithinBooks
  /\ NewWithinBooks

(* A second createWallet that found no wallet does not reset the balance   *)
(* and the opening of the one another request has created meanwhile.       *)
CreatedOnce == [][balance # None => opening' = opening]_vars

-----------------------------------------------------------------------------
(* What holds while requests do not overlap. *)

(* As long as requests come one after the other, the balance is what the   *)
(* rows add up to, so that no debit exceeds what is there: "Insufficient   *)
(* balance for debit transaction".  Two that overlap may lose an update.   *)
BooksBalance ==
  ~overlapped /\ balance # None => balance = opening + credited - debited

-----------------------------------------------------------------------------
(* What the comment says and the code does not do. *)

(* "Credit operation: Deduct from project wallet and add to team wallet":  *)
(* the transaction of a transfer that passed its checks moves the amount.  *)
TransferMovesFunds ==
  [][\A r \in Requests :
       CreditTeamWalletCommit(r) =>
         \/ team'[req[r].team] = team[req[r].team] + req[r].amount
         \/ debited + req[r].amount > MaxTotal]_vars
=============================================================================
