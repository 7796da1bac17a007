------------------------------ MODULE Accounts ------------------------------
(***************************************************************************)
(* The account behind one e-mail address: its password, its one-time codes *)
(* and the tokens it is given.                                             *)
(*   LocalAuthService.signUp / login / verifyUser / refreshToken / sendOtp *)
(*   / verifyOtp / resetPass, OtpService.createOtp / verifyOtp,            *)
(*   GoogleAuthService.getUserWithGoogle, TokenValidationGuard.            *)
(*                                                                         *)
(* A request is a process; hashing, mailing and every database call are    *)
(* awaits.  A transaction that has written a row holds it until it commits *)
(* or rolls back, and other writers of the row wait.                       *)
(*                                                                         *)
(* Time advances in ticks.  The database keeps ticks, a token keeps the    *)
(* whole second it was signed in (iat).  Two codes are never equal.  The   *)
(* name and picture of the account are left out, and so is the expiry of   *)
(* access and refresh tokens: a client may hold one for ever.              *)
(*                                                                         *)
(* "slip: P" marks a plausible mistake in the operator defined after it:   *)
(* nothing uses it, and with it in that operator's place P fails.          *)
(***************************************************************************)
EXTENDS Integers

CONSTANTS
  Passwords,
  Codes,      \* the one-time codes that may be generated: a bound
  Requests,   \* how many requests may be in flight at once: a bound
  Second,     \* ticks per second
  CodeLife,   \* ticks for which a code is accepted: "5 minutes from now"
  GrantLife,  \* ticks for which an OTP token is accepted: 3m
  MaxClock,   \* the clock stops here: a bound
  None

ASSUME NoneAssumption == None \notin Passwords \cup Codes
ASSUME TimeAssumption ==
  Second \in Nat \ {0} /\ CodeLife \in Nat /\ GrantLife \in Nat /\ MaxClock \in Nat

VARIABLES
  clock,
  account,    \* the users row, None before
  otp,        \* the otps row, None before
  mailed,     \* the codes that have been mailed
  tokens,     \* when the access and refresh tokens of the account were signed
  grants,     \* when its OTP tokens were signed
  accepted,   \* the codes that have been accepted (history)
  overlapped, \* whether two requests were ever in flight at once (history)
  resetsOverlapped, \* whether two resets were (history)
  req         \* req[r]: the request in flight, None when there is none

overlaps == <<overlapped, resetsOverlapped>>
vars == <<clock, account, otp, mailed, tokens, grants, accepted, overlaps, req>>

Time == 0 .. MaxClock

Account ==
  [password : Passwords \cup {None}, hasPassword : BOOLEAN, verified : BOOLEAN,
   passwordChangedAt : Time]

Otp == [code : Codes, createdAt : Time, used : BOOLEAN]

ASSUME RowAssumption == None \notin Account \cup Otp

Request ==
  [at : {"signUp", "reset"}, password : Passwords]
    \cup [at : {"signUpMail", "resetWrite"}, password : Passwords, changedAt : Time]
    \cup [at : {"signUpCommit"}, password : Passwords, changedAt : Time,
          code : Codes, createdAt : Time]
    \cup [at : {"sendOtpCommit"}, code : Codes, createdAt : Time]
    \cup [at : {"verifyUserMark", "verifyOtpMark"}, code : Codes]
    \cup [at : {"sendOtp", "verify", "google", "sign", "grant"}]

TypeOK ==
  /\ clock \in Time
  /\ account \in Account \cup {None}
  /\ otp \in Otp \cup {None}
  /\ mailed \subseteq Codes
  /\ tokens \subseteq Time
  /\ grants \subseteq Time
  /\ accepted \subseteq Codes
  /\ overlapped \in BOOLEAN
  /\ resetsOverlapped \in BOOLEAN
  /\ req \in [Requests -> Request \cup {None}]

Init ==
  /\ clock = 0
  /\ account = None
  /\ otp = None
  /\ mailed = {}
  /\ tokens = {}
  /\ grants = {}
  /\ accepted = {}
  /\ overlapped = FALSE
  /\ resetsOverlapped = FALSE
  /\ req = [r \in Requests |-> None]

-----------------------------------------------------------------------------
stored == <<account, otp, mailed, tokens, grants, accepted>>

At(r, stage) == req[r] # None /\ req[r].at = stage
Resetting(r) == At(r, "reset") \/ At(r, "resetWrite")

Begin(r, q) ==
  /\ req[r] = None
  /\ req' = [req EXCEPT ![r] = q]
  /\ overlapped' = (overlapped \/ \E x \in Requests : req[x] # None)
  /\ resetsOverlapped' =
       (resetsOverlapped \/ (q.at = "reset" /\ \E x \in Requests : Resetting(x)))
  /\ UNCHANGED <<clock, stored>>

Continue(r, q) == req' = [req EXCEPT ![r] = q]
End(r) == req' = [req EXCEPT ![r] = None]

(* A refusal, a mail that cannot be sent, a rollback, or a crash. *)
Fail(r) ==
  /\ req[r] # None
  /\ End(r)
  /\ UNCHANGED <<clock, stored, overlaps>>

Tick ==
  /\ clock < MaxClock
  /\ clock' = clock + 1
  /\ UNCHANGED <<stored, overlaps, req>>

(* An uncommitted row of users, or of otps, makes other writers wait. *)
HoldsUser(r) == At(r, "signUpMail") \/ At(r, "signUpCommit")
UserHeld == \E q \in Requests : HoldsUser(q)
OtpHeld == \E q \in Requests : At(q, "signUpCommit") \/ At(q, "sendOtpCommit")

-----------------------------------------------------------------------------
(* createOtp: the row it upserts.  The code goes out by mail before the    *)
(* transaction commits.                                                    *)
CarriesUsed(c, t) ==  \* slip: UsedWasAccepted
  [code |-> c, createdAt |-> t, used |-> otp # None /\ otp.used]
NewOtp(c, t) == [code |-> c, createdAt |-> t, used |-> FALSE]

MailLater(c) == UNCHANGED mailed  \* slip: StoredCodeWasMailed
MailCode(c) == mailed' = mailed \cup {c}

-----------------------------------------------------------------------------
(* signUp: one transaction, read, hash, create, sign, upsert, mail, commit *)

SignUp(r, w) ==
  /\ account = None
  /\ Begin(r, [at |-> "signUp", password |-> w])

SignUpCreate(r) ==
  /\ At(r, "signUp")
  /\ account = None
  /\ ~UserHeld
  /\ Continue(r, [at |-> "signUpMail", password |-> req[r].password, changedAt |-> clock])
  /\ UNCHANGED <<clock, stored, overlaps>>

(* The tokens are signed here; they are sent only after the commit. *)
SignUpMail(r) ==
  /\ At(r, "signUpMail")
  /\ ~OtpHeld
  /\ \E c \in Codes \ mailed :
       /\ MailCode(c)
       /\ Continue(r, [at |-> "signUpCommit", password |-> req[r].password,
                       changedAt |-> req[r].changedAt, code |-> c, createdAt |-> clock])
  /\ UNCHANGED <<clock, account, otp, tokens, grants, accepted, overlaps>>

SignUpCommit(r) ==
  /\ At(r, "signUpCommit")
  /\ account' = [password |-> req[r].password, hasPassword |-> TRUE,
                 verified |-> FALSE, passwordChangedAt |-> req[r].changedAt]
  /\ otp' = NewOtp(req[r].code, req[r].createdAt)
  /\ tokens' = tokens \cup {req[r].createdAt}
  /\ End(r)
  /\ UNCHANGED <<clock, mailed, grants, accepted, overlaps>>

-----------------------------------------------------------------------------
(* login, refreshToken and the Google callback *)

(* The account lets w in: "Invalid password", "Invalid credential." *)
LetsIn(a, w) == a.hasPassword /\ a.password = w

Login(r, w) ==
  /\ account # None
  /\ LetsIn(account, w)
  /\ Begin(r, [at |-> "sign"])

RefreshToken(r) ==
  /\ tokens # {}
  /\ Begin(r, [at |-> "sign"])

(* getUserWithGoogle: an account of that address, whoever made it, or none. *)
GoogleLogin(r) ==
  Begin(r, [at |-> IF account = None THEN "google" ELSE "sign"])

CreateWithGoogle(r) ==
  /\ At(r, "google")
  /\ account = None
  /\ ~UserHeld
  /\ account' = [password |-> None, hasPassword |-> FALSE,
                 verified |-> TRUE, passwordChangedAt |-> clock]
  /\ Continue(r, [at |-> "sign"])
  /\ UNCHANGED <<clock, otp, mailed, tokens, grants, accepted, overlaps>>

(* generateToken and generateRefreshToken: iat is the time of signing. *)
SignToken(r) ==
  /\ At(r, "sign")
  /\ tokens' = tokens \cup {clock}
  /\ End(r)
  /\ UNCHANGED <<clock, account, otp, mailed, grants, accepted, overlaps>>

-----------------------------------------------------------------------------
(* sendOtp *)

SendOtp(r) ==
  /\ account # None
  /\ Begin(r, [at |-> "sendOtp"])

SendOtpMail(r) ==
  /\ At(r, "sendOtp")
  /\ ~OtpHeld
  /\ \E c \in Codes \ mailed :
       /\ MailCode(c)
       /\ Continue(r, [at |-> "sendOtpCommit", code |-> c, createdAt |-> clock])
  /\ UNCHANGED <<clock, account, otp, tokens, grants, accepted, overlaps>>

SendOtpCommit(r) ==
  /\ At(r, "sendOtpCommit")
  /\ otp' = NewOtp(req[r].code, req[r].createdAt)
  /\ End(r)
  /\ UNCHANGED <<clock, account, mailed, tokens, grants, accepted, overlaps>>

-----------------------------------------------------------------------------
(* verifyUser and verifyOtp *)

(* verifyOtp of OtpService, up to the match: c opens the row as it is read. *)
AnyCode(c) ==  \* slip: VerifiedByMail
  /\ otp # None
  /\ ~otp.used
  /\ clock <= otp.createdAt + CodeLife
Opens(c) ==
  /\ otp # None
  /\ ~otp.used
  /\ clock <= otp.createdAt + CodeLife
  /\ otp.code = c

VerifyUser(r, c) ==
  /\ tokens # {}
  /\ ~account.verified
  /\ Opens(c)
  /\ Begin(r, [at |-> "verifyUserMark", code |-> c])

VerifyOtp(r, c) ==
  /\ account # None
  /\ Opens(c)
  /\ Begin(r, [at |-> "verifyOtpMark", code |-> c])

(* The row of the address is marked, whatever code it holds by now. *)
LeaveUnused(row) == row  \* slip: CodeAcceptedOnce
MarkUsed(row) == [row EXCEPT !.used = TRUE]

VerifyMark(r) ==
  /\ At(r, "verifyUserMark") \/ At(r, "verifyOtpMark")
  /\ ~OtpHeld
  /\ otp' = MarkUsed(otp)
  /\ accepted' = accepted \cup {req[r].code}
  /\ Continue(r, [at |-> IF At(r, "verifyUserMark") THEN "verify" ELSE "grant"])
  /\ UNCHANGED <<clock, account, mailed, tokens, grants, overlaps>>

VerifyUserUpdate(r) ==
  /\ At(r, "verify")
  /\ account' = [account EXCEPT !.verified = TRUE]
  /\ Continue(r, [at |-> "sign"])
  /\ UNCHANGED <<clock, otp, mailed, tokens, grants, accepted, overlaps>>

SignGrant(r) ==
  /\ At(r, "grant")
  /\ grants' = grants \cup {clock}
  /\ End(r)
  /\ UNCHANGED <<clock, account, otp, mailed, tokens, accepted, overlaps>>

-----------------------------------------------------------------------------
(* resetPass *)

ResetPass(r, w) ==
  /\ \E t \in grants : clock <= t + GrantLife
  /\ Begin(r, [at |-> "reset", password |-> w])

(* After the hash: new Date(), and the update on its way. *)
ResetStampOfToken(r) ==  \* slip: StaleStayRefused
  /\ At(r, "reset")
  /\ \E t \in grants :
       Continue(r, [at |-> "resetWrite", password |-> req[r].password, changedAt |-> t])
  /\ UNCHANGED <<clock, stored, overlaps>>
ResetStamp(r) ==
  /\ At(r, "reset")
  /\ Continue(r, [at |-> "resetWrite", password |-> req[r].password, changedAt |-> clock])
  /\ UNCHANGED <<clock, stored, overlaps>>

ResetWrite(r) ==
  /\ At(r, "resetWrite")
  /\ account' = [account EXCEPT !.password = req[r].password,
                                !.passwordChangedAt = req[r].changedAt]
  /\ End(r)
  /\ UNCHANGED <<clock, otp, mailed, tokens, grants, accepted, overlaps>>

-----------------------------------------------------------------------------
(* TokenValidationGuard: iat, in whole seconds, against the tick at which  *)
(* the password was changed.                                               *)
Iat(t) == t - (t % Second)

BeforeInSeconds(t) ==  \* slip: StaleStayRefused
  Iat(t) < Iat(account.passwordChangedAt)
IsBefore(t) == Iat(t) < account.passwordChangedAt

TokenIsValid(t) == account.hasPassword => ~IsBefore(t)

-----------------------------------------------------------------------------
Arrive(r) ==
  \/ \E w \in Passwords : SignUp(r, w) \/ Login(r, w) \/ ResetPass(r, w)
  \/ RefreshToken(r)
  \/ GoogleLogin(r)
  \/ SendOtp(r)
  \/ \E c \in Codes : VerifyUser(r, c) \/ VerifyOtp(r, c)

Advance(r) ==
  \/ SignUpCreate(r)
  \/ SignUpMail(r)
  \/ SignUpCommit(r)
  \/ CreateWithGoogle(r)
  \/ SignToken(r)
  \/ SendOtpMail(r)
  \/ SendOtpCommit(r)
  \/ VerifyMark(r)
  \/ VerifyUserUpdate(r)
  \/ SignGrant(r)
  \/ ResetStamp(r)
  \/ ResetWrite(r)
  \/ Fail(r)

Next == Tick \/ \E r \in Requests : Arrive(r) \/ Advance(r)

Spec == Init /\ [][Next]_vars

-----------------------------------------------------------------------------
(* What holds however requests interleave. *)

(* A code in the database has been mailed: the transaction that stores it  *)
(* mails it before it commits, so no crash leaves an account, or a pending *)
(* reset, with a code that nobody was sent.                                *)
StoredCodeWasMailed == otp # None => otp.code \in mailed

(* An account with a password is verified only by a code that was mailed   *)
(* to its address, and so are OTP tokens given.                            *)
VerifiedByMail ==
  (account # None /\ account.hasPassword /\ account.verified) \/ grants # {} =>
    accepted \cap mailed # {}

(* The inductive strengthening: the account a request has found is still   *)
(* there when it writes, and what its verification rests on was mailed.    *)
InFlightHolds ==
  \A r \in Requests :
    /\ At(r, "signUpCommit") \/ At(r, "sendOtpCommit") => req[r].code \in mailed
    /\ At(r, "verifyUserMark") \/ At(r, "verifyOtpMark") =>
         account # None /\ otp # None /\ req[r].code \in mailed
    /\ At(r, "verify") \/ At(r, "grant") => account # None /\ accepted # {}
    /\ At(r, "sign") \/ At(r, "sendOtp") \/ At(r, "reset") \/ At(r, "resetWrite") =>
         account # None

Inductive ==
  /\ TypeOK
  /\ StoredCodeWasMailed
  /\ VerifiedByMail
  /\ accepted \subseteq mailed
  /\ tokens # {} \/ grants # {} => account # None
  /\ InFlightHolds

-----------------------------------------------------------------------------
(* What holds while resets do not overlap, whatever else does. *)

(* A token that is older than the password is refused from then on,        *)
(* although it carries whole seconds only: no later reset, and no write of *)
(* the row by a request that had read it before, moves passwordChangedAt   *)
(* back.  (Two resets may: each draws its stamp before its update, so the  *)
(* one that writes last may carry the earlier stamp.)                      *)
StaleStayRefused ==
  [][~resetsOverlapped' =>
       \A t \in tokens :
         account.hasPassword /\ t < account.passwordChangedAt => ~TokenIsValid(t)']_vars

(* Its inductive strengthening: a row in the making means that there is no *)
(* account yet, stamps are not in the future, and what a reset is about to *)
(* write is not earlier than what is there.                                *)
StampsHold ==
  /\ \A r \in Requests : HoldsUser(r) => account = None /\ req[r].changedAt <= clock
  /\ \A r, q \in Requests : HoldsUser(r) /\ HoldsUser(q) => r = q
  /\ account # None => account.passwordChangedAt <= clock
  /\ \A r \in Requests : At(r, "resetWrite") => req[r].changedAt <= clock

SerialStamps ==
  ~resetsOverlapped =>
    /\ \A r, q \in Requests : Resetting(r) /\ Resetting(q) => r = q
    /\ \A r \in Requests :
         At(r, "resetWrite") => account.passwordChangedAt <= req[r].changedAt

-----------------------------------------------------------------------------
(* What holds while requests do not overlap. *)

(* A code is accepted at most once. *)
CodeAcceptedOnce ==
  [][~overlapped' =>
       \A r \in Requests : VerifyMark(r) => req[r].code \notin accepted]_vars

(* A code that was not accepted is not marked used: a code just mailed can *)
(* be entered.                                                             *)
UsedWasAccepted ==
  ~overlapped /\ otp # None /\ otp.used => otp.code \in accepted

(* Their inductive strengthening: there is one request at a time, what it is *)
(* about to store is a new code, what it is about to mark is what it read.   *)
SerialCodes ==
  ~overlapped =>
    /\ \A r, q \in Requests : req[r] # None /\ req[q] # None => r = q
    /\ otp # None /\ otp.used => otp.code \in accepted
    /\ otp # None /\ otp.code \in accepted => otp.used
    /\ \A r \in Requests :
         /\ At(r, "signUpCommit") \/ At(r, "sendOtpCommit") => req[r].code \notin accepted
         /\ At(r, "verifyUserMark") \/ At(r, "verifyOtpMark") =>
              otp # None /\ otp.code = req[r].code /\ ~otp.used

=============================================================================
