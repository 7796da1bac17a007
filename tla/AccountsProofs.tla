--------------------------- MODULE AccountsProofs ---------------------------
(* Theorems about Accounts, for any sets of passwords, codes and requests in *)
(* flight, any clock and any lifetimes.                                      *)
EXTENDS Accounts, TLAPS

LEMMA InductiveStep ==
  ASSUME Inductive, [Next]_vars
  PROVE  Inductive'
<1> USE NoneAssumption, RowAssumption, TimeAssumption
    DEF Begin, At, Continue, End, stored, overlaps
<1>1. CASE Tick
  BY <1>1 DEF Tick, Inductive, TypeOK, Time, StoredCodeWasMailed, VerifiedByMail, InFlightHolds
<1>2. ASSUME NEW r \in Requests, NEW w \in Passwords,
             SignUp(r, w) \/ Login(r, w) \/ ResetPass(r, w)
      PROVE  Inductive'
  <2>1. UNCHANGED <<clock, stored>> /\ overlaps' \in BOOLEAN \X BOOLEAN
    BY <1>2 DEF SignUp, Login, ResetPass, Inductive, TypeOK
  <2>2. req' \in [Requests -> Request \cup {None}]
    BY <1>2 DEF SignUp, Login, ResetPass, Inductive, TypeOK, Request
  <2>3. InFlightHolds'
    BY <1>2 DEF SignUp, Login, ResetPass, Inductive, TypeOK, InFlightHolds
  <2> QED
    BY <2>1, <2>2, <2>3 DEF Inductive, TypeOK, StoredCodeWasMailed, VerifiedByMail
<1>3. ASSUME NEW r \in Requests, RefreshToken(r) \/ GoogleLogin(r) \/ SendOtp(r)
      PROVE  Inductive'
  <2>1. UNCHANGED <<clock, stored>> /\ overlaps' \in BOOLEAN \X BOOLEAN
    BY <1>3 DEF RefreshToken, GoogleLogin, SendOtp, Inductive, TypeOK
  <2>2. req' \in [Requests -> Request \cup {None}]
    BY <1>3 DEF RefreshToken, GoogleLogin, SendOtp, Inductive, TypeOK, Request
  <2>3. InFlightHolds'
    BY <1>3 DEF RefreshToken, GoogleLogin, SendOtp, Inductive, TypeOK, InFlightHolds
  <2> QED
    BY <2>1, <2>2, <2>3 DEF Inductive, TypeOK, StoredCodeWasMailed, VerifiedByMail
<1>4. ASSUME NEW r \in Requests, NEW c \in Codes, VerifyUser(r, c) \/ VerifyOtp(r, c)
      PROVE  Inductive'
  <2>1. UNCHANGED <<clock, stored>> /\ overlaps' \in BOOLEAN \X BOOLEAN
    BY <1>4 DEF VerifyUser, VerifyOtp, Inductive, TypeOK
  <2>2. req' \in [Requests -> Request \cup {None}]
    BY <1>4 DEF VerifyUser, VerifyOtp, Inductive, TypeOK, Request
  <2>3. account # None /\ otp # None /\ c \in mailed
    BY <1>4 DEF VerifyUser, VerifyOtp, Opens, Inductive, StoredCodeWasMailed
  <2>4. InFlightHolds'
    BY <1>4, <2>3 DEF VerifyUser, VerifyOtp, Inductive, TypeOK, InFlightHolds
  <2> QED
    BY <2>1, <2>2, <2>4 DEF Inductive, TypeOK, StoredCodeWasMailed, VerifiedByMail
<1>5. ASSUME NEW r \in Requests, SignUpCreate(r) \/ ResetStamp(r)
      PROVE  Inductive'
  <2>1. UNCHANGED <<clock, stored, overlaps>>
    BY <1>5 DEF SignUpCreate, ResetStamp
  <2>2. req' \in [Requests -> Request \cup {None}]
    BY <1>5 DEF SignUpCreate, ResetStamp, Inductive, TypeOK, Request
  <2>3. InFlightHolds'
    BY <1>5 DEF SignUpCreate, ResetStamp, Inductive, TypeOK, InFlightHolds
  <2> QED
    BY <2>1, <2>2, <2>3 DEF Inductive, TypeOK, StoredCodeWasMailed, VerifiedByMail
<1>6. ASSUME NEW r \in Requests, SignUpMail(r) \/ SendOtpMail(r)
      PROVE  Inductive'
  <2>1. /\ UNCHANGED <<clock, account, otp, tokens, grants, accepted, overlaps>>
        /\ mailed \subseteq mailed' /\ mailed' \subseteq Codes
    BY <1>6 DEF SignUpMail, SendOtpMail, MailCode, Inductive, TypeOK
  <2>2. req' \in [Requests -> Request \cup {None}]
    BY <1>6 DEF SignUpMail, SendOtpMail, Inductive, TypeOK, Request
  <2>3. InFlightHolds'
    BY <1>6 DEF SignUpMail, SendOtpMail, MailCode, Inductive, TypeOK, InFlightHolds
  <2> QED
    BY <2>1, <2>2, <2>3 DEF Inductive, TypeOK, StoredCodeWasMailed, VerifiedByMail
<1>7. ASSUME NEW r \in Requests, SignUpCommit(r) \/ SendOtpCommit(r)
      PROVE  Inductive'
  <2>1. /\ req[r].code \in Codes /\ req[r].code \in mailed /\ req[r].createdAt \in Time
    BY <1>7 DEF SignUpCommit, SendOtpCommit, Inductive, TypeOK, InFlightHolds, Request
  <2>2. /\ UNCHANGED <<clock, mailed, grants, accepted, overlaps>>
        /\ otp' = NewOtp(req[r].code, req[r].createdAt)
        /\ req' = [req EXCEPT ![r] = None]
    BY <1>7 DEF SignUpCommit, SendOtpCommit
  <2>3. /\ account' \in Account \cup {None} /\ (account # None => account' # None)
        /\ account' = account \/ ~account'.verified
        /\ tokens' \subseteq Time /\ (tokens' # {} => account' # None)
    <3>1. CASE SignUpCommit(r)
      <4>1. req[r].password \in Passwords /\ req[r].changedAt \in Time
        BY <3>1 DEF SignUpCommit, Inductive, TypeOK, Request
      <4>2. account' \in Account /\ ~account'.verified
        BY <3>1, <4>1 DEF SignUpCommit, Account
      <4>3. tokens' \subseteq Time
        BY <2>1, <3>1 DEF SignUpCommit, Inductive, TypeOK
      <4> QED
        BY <4>2, <4>3
    <3>2. CASE SendOtpCommit(r)
      BY <3>2 DEF SendOtpCommit, Inductive, TypeOK
    <3> QED
      BY <1>7, <3>1, <3>2
  <2>4. otp' \in Otp /\ otp'.code = req[r].code
    BY <2>1, <2>2 DEF NewOtp, Otp
  <2>5. InFlightHolds'
    BY <2>2, <2>3, <2>4 DEF Inductive, TypeOK, InFlightHolds, Otp
  <2>6. TypeOK' /\ StoredCodeWasMailed' /\ VerifiedByMail'
    BY <2>1, <2>2, <2>3, <2>4 DEF Inductive, TypeOK, StoredCodeWasMailed, VerifiedByMail
  <2> QED
    BY <2>2, <2>3, <2>5, <2>6 DEF Inductive
<1>8. ASSUME NEW r \in Requests, CreateWithGoogle(r)
      PROVE  Inductive'
  <2>1. account' \in Account /\ ~account'.hasPassword /\ account = None
    BY <1>8 DEF CreateWithGoogle, Inductive, TypeOK, Account
  <2>2. account' # None
    BY <2>1
  <2>3. TypeOK'
    BY <1>8, <2>1 DEF CreateWithGoogle, Inductive, TypeOK, Request
  <2>4. InFlightHolds'
    BY <1>8, <2>2 DEF CreateWithGoogle, Inductive, TypeOK, InFlightHolds
  <2> QED
    BY <1>8, <2>1, <2>2, <2>3, <2>4
    DEF CreateWithGoogle, Inductive, StoredCodeWasMailed, VerifiedByMail
<1>9. ASSUME NEW r \in Requests, SignToken(r) \/ SignGrant(r)
      PROVE  Inductive'
  <2>1. account # None /\ (SignGrant(r) => accepted # {})
    BY <1>9 DEF SignToken, SignGrant, Inductive, InFlightHolds
  <2>2. TypeOK' /\ InFlightHolds'
    BY <1>9 DEF SignToken, SignGrant, Inductive, TypeOK, InFlightHolds
  <2> QED
    BY <1>9, <2>1, <2>2 DEF SignToken, SignGrant, Inductive, StoredCodeWasMailed, VerifiedByMail
<1>10. ASSUME NEW r \in Requests, VerifyMark(r)
       PROVE  Inductive'
  <2>1. account # None /\ otp # None /\ req[r].code \in mailed
    BY <1>10 DEF VerifyMark, Inductive, InFlightHolds
  <2>2. otp' \in Otp /\ otp'.code = otp.code /\ otp' # None
    BY <1>10, <2>1 DEF VerifyMark, MarkUsed, Inductive, TypeOK, Otp
  <2>3. TypeOK'
    BY <1>10, <2>1, <2>2 DEF VerifyMark, Inductive, TypeOK, Request
  <2>4. InFlightHolds'
    BY <1>10, <2>1, <2>2 DEF VerifyMark, Inductive, TypeOK, InFlightHolds
  <2> QED
    BY <1>10, <2>1, <2>2, <2>3, <2>4
    DEF VerifyMark, Inductive, StoredCodeWasMailed, VerifiedByMail
<1>11. ASSUME NEW r \in Requests, VerifyUserUpdate(r)
       PROVE  Inductive'
  <2>1. account # None /\ accepted # {}
    BY <1>11 DEF VerifyUserUpdate, Inductive, InFlightHolds
  <2>2. account' \in Account /\ account' # None
    BY <1>11, <2>1 DEF VerifyUserUpdate, Inductive, TypeOK, Account
  <2>3. TypeOK'
    BY <1>11, <2>2 DEF VerifyUserUpdate, Inductive, TypeOK, Request
  <2>4. InFlightHolds'
    BY <1>11, <2>2 DEF VerifyUserUpdate, Inductive, TypeOK, InFlightHolds
  <2> QED
    BY <1>11, <2>1, <2>2, <2>3, <2>4
    DEF VerifyUserUpdate, Inductive, StoredCodeWasMailed, VerifiedByMail
<1>12. ASSUME NEW r \in Requests, ResetWrite(r)
       PROVE  Inductive'
  <2>1. account # None /\ req[r].password \in Passwords /\ req[r].changedAt \in Time
    BY <1>12 DEF ResetWrite, Inductive, InFlightHolds, TypeOK, Request
  <2>2. /\ account' \in Account /\ account' # None
        /\ account'.hasPassword = account.hasPassword /\ account'.verified = account.verified
    BY <1>12, <2>1 DEF ResetWrite, Inductive, TypeOK, Account
  <2>3. TypeOK'
    BY <1>12, <2>2 DEF ResetWrite, Inductive, TypeOK
  <2>4. InFlightHolds'
    BY <1>12, <2>2 DEF ResetWrite, Inductive, TypeOK, InFlightHolds
  <2> QED
    BY <1>12, <2>1, <2>2, <2>3, <2>4
    DEF ResetWrite, Inductive, StoredCodeWasMailed, VerifiedByMail
<1>13. ASSUME NEW r \in Requests, Fail(r)
       PROVE  Inductive'
  BY <1>13
  DEF Fail, Inductive, TypeOK, StoredCodeWasMailed, VerifiedByMail, InFlightHolds
<1>14. CASE UNCHANGED vars
  BY <1>14 DEF vars, Inductive, TypeOK, StoredCodeWasMailed, VerifiedByMail, InFlightHolds
<1> QED
  BY <1>1, <1>2, <1>3, <1>4, <1>5, <1>6, <1>7, <1>8, <1>9, <1>10, <1>11, <1>12, <1>13, <1>14
  DEF Next, Arrive, Advance

(* The account, its code, its tokens and the requests in flight agree.       *)
THEOREM AccountConsistent == Spec => []Inductive
<1>1. Init => Inductive
  <2>1. Init => TypeOK
    <3>1. 0 \in Time
      BY TimeAssumption DEF Time
    <3> QED
      BY <3>1 DEF Init, TypeOK
  <2>2. Init => StoredCodeWasMailed /\ VerifiedByMail /\ InFlightHolds
    BY DEF Init, StoredCodeWasMailed, VerifiedByMail, InFlightHolds, At
  <2> QED
    BY <2>1, <2>2 DEF Init, Inductive
<1>2. Inductive /\ [Next]_vars => Inductive'
  BY InductiveStep
<1> QED
  BY <1>1, <1>2, PTL DEF Spec

(* Nobody waits for a code that the database has and no mail carries.        *)
THEOREM StoredCodeIsAlwaysMailed == Spec => []StoredCodeWasMailed
<1>1. Inductive => StoredCodeWasMailed
  BY DEF Inductive
<1> QED
  BY <1>1, AccountConsistent, PTL

(* No account with a password is verified without a mailed code.             *)
THEOREM AlwaysVerifiedByMail == Spec => []VerifiedByMail
<1>1. Inductive => VerifiedByMail
  BY DEF Inductive
<1> QED
  BY <1>1, AccountConsistent, PTL

(* Rounding down to the second never makes a token younger than it is.       *)
LEMMA IatIsNotLater ==
  ASSUME NEW t \in Nat
  PROVE  Iat(t) \in Int /\ Iat(t) <= t
<1>1. t % Second \in 0 .. Second - 1
  BY TimeAssumption
<1> QED
  BY <1>1, TimeAssumption DEF Iat

(* A reset that begins is the only one, unless resets overlap, and no request *)
(* begins with a stamp.                                                      *)
LEMMA Arrival ==
  ASSUME TypeOK, NEW r \in Requests, Arrive(r)
  PROVE  /\ UNCHANGED <<clock, stored>>
         /\ \A x \in Requests \ {r} : req'[x] = req[x]
         /\ req[r] = None
         /\ ~HoldsUser(r)' /\ ~At(r, "resetWrite")'
         /\ resetsOverlapped => resetsOverlapped'
         /\ Resetting(r)' => resetsOverlapped' \/ \A x \in Requests : ~Resetting(x)
<1> USE DEF Begin, At, HoldsUser, Resetting, TypeOK
<1>1. ASSUME NEW w \in Passwords, SignUp(r, w) \/ Login(r, w) \/ ResetPass(r, w)
      PROVE  \E q : Begin(r, q) /\ q.at \in {"signUp", "sign", "reset"}
  BY <1>1 DEF SignUp, Login, ResetPass
<1>2. ASSUME RefreshToken(r) \/ GoogleLogin(r) \/ SendOtp(r)
      PROVE  \E q : Begin(r, q) /\ q.at \in {"sign", "google", "sendOtp"}
  BY <1>2 DEF RefreshToken, GoogleLogin, SendOtp
<1>3. ASSUME NEW c \in Codes, VerifyUser(r, c) \/ VerifyOtp(r, c)
      PROVE  \E q : Begin(r, q) /\ q.at \in {"verifyUserMark", "verifyOtpMark"}
  BY <1>3 DEF VerifyUser, VerifyOtp
<1>4. PICK q : Begin(r, q) /\ q.at \notin {"signUpMail", "signUpCommit", "resetWrite"}
  BY <1>1, <1>2, <1>3 DEF Arrive
<1>5. req'[r] = q /\ UNCHANGED <<clock, stored>> /\ req[r] = None
  BY <1>4
<1> QED
  BY <1>4, <1>5

(* A step of request r is no step of another.                                *)
LEMMA OthersWait ==
  ASSUME TypeOK, NEW r \in Requests, Advance(r)
  PROVE  /\ clock' = clock /\ resetsOverlapped' = resetsOverlapped
         /\ req[r] # None /\ \A x \in Requests \ {r} : req'[x] = req[x]
BY DEF TypeOK, Advance, At, Continue, End, stored, overlaps, SignUpCreate, SignUpMail,
       SignUpCommit, CreateWithGoogle, SignToken, SendOtpMail, SendOtpCommit, VerifyMark,
       VerifyUserUpdate, SignGrant, ResetStamp, ResetWrite, Fail

(* What a step of a request does to the account.                             *)
LEMMA AccountStep ==
  ASSUME Inductive, StampsHold, NEW r \in Requests, Advance(r)
  PROVE  \/ account' = account
         \/ account = None /\ ~UserHeld /\ account'.passwordChangedAt = clock
         \/ account = None /\ At(r, "signUpCommit")
              /\ account'.passwordChangedAt = req[r].changedAt
         \/ account # None /\ account' # None
              /\ account'.passwordChangedAt = account.passwordChangedAt
              /\ account'.hasPassword = account.hasPassword
         \/ At(r, "resetWrite") /\ account # None /\ account' # None
              /\ account'.passwordChangedAt = req[r].changedAt
              /\ account'.hasPassword = account.hasPassword
<1> USE DEF At, stored
<1>1. CASE CreateWithGoogle(r)
  BY <1>1 DEF CreateWithGoogle
<1>2. CASE SignUpCommit(r)
  BY <1>2 DEF SignUpCommit, StampsHold, HoldsUser
<1>3. CASE VerifyUserUpdate(r)
  <2>1. account # None /\ account \in Account
    BY <1>3 DEF VerifyUserUpdate, Inductive, InFlightHolds, TypeOK
  <2>2. account' \in Account
    BY <1>3, <2>1 DEF VerifyUserUpdate, Account
  <2> QED
    BY <1>3, <2>1, <2>2, RowAssumption DEF VerifyUserUpdate, Account
<1>4. CASE ResetWrite(r)
  <2>1. account # None /\ account \in Account
    BY <1>4 DEF ResetWrite, Inductive, InFlightHolds, TypeOK
  <2>2. req[r].password \in Passwords /\ req[r].changedAt \in Time
    BY <1>4 DEF ResetWrite, Inductive, TypeOK, Request
  <2>3. account' \in Account
    BY <1>4, <2>1, <2>2 DEF ResetWrite, Account
  <2> QED
    BY <1>4, <2>1, <2>3, RowAssumption DEF ResetWrite, Account
<1>5. CASE ~(CreateWithGoogle(r) \/ SignUpCommit(r) \/ VerifyUserUpdate(r) \/ ResetWrite(r))
  BY <1>5 DEF Advance, SignUpCreate, SignUpMail, SignToken, SendOtpMail, SendOtpCommit,
              VerifyMark, SignGrant, ResetStamp, Fail
<1> QED
  BY <1>1, <1>2, <1>3, <1>4, <1>5

(* What a request that has advanced is about to write.                       *)
LEMMA StampStep ==
  ASSUME Inductive, NEW r \in Requests, Advance(r)
  PROVE  /\ HoldsUser(r)' =>
              /\ account' = account
              /\ \/ account = None /\ ~UserHeld /\ req'[r].changedAt = clock
                 \/ HoldsUser(r) /\ req'[r].changedAt = req[r].changedAt
         /\ Resetting(r)' => Resetting(r)
         /\ At(r, "resetWrite")' => At(r, "reset") /\ req'[r].changedAt = clock
<1> USE DEF Inductive, TypeOK, At, Continue, End, stored, HoldsUser, Resetting
<1>1. CASE SignUpCreate(r)
  BY <1>1 DEF SignUpCreate
<1>2. CASE SignUpMail(r)
  <2>1. PICK c : req' = [req EXCEPT ![r] =
          [at |-> "signUpCommit", password |-> req[r].password,
           changedAt |-> req[r].changedAt, code |-> c, createdAt |-> clock]]
    BY <1>2 DEF SignUpMail
  <2> QED
    BY <1>2, <2>1 DEF SignUpMail
<1>3. CASE ResetStamp(r)
  BY <1>3 DEF ResetStamp
<1>4. CASE ~(SignUpCreate(r) \/ SignUpMail(r) \/ ResetStamp(r))
  <2>1. req'[r] # None =>
          req'[r].at \in {"sign", "sendOtpCommit", "verify", "grant"}
    BY <1>4 DEF Advance, SignUpCommit, CreateWithGoogle, SignToken, SendOtpMail, SendOtpCommit,
                VerifyMark, VerifyUserUpdate, SignGrant, ResetWrite, Fail
  <2> QED
    BY <2>1
<1> QED
  BY <1>1, <1>2, <1>3, <1>4

(* No stamp lies in the future, and only one transaction makes an account.   *)
LEMMA StampsAlwaysHold == Spec => []StampsHold
<1>1. Init => StampsHold
  BY DEF Init, StampsHold, HoldsUser, At
<1>2. Inductive /\ StampsHold /\ [Next]_vars => StampsHold'
  <2> SUFFICES ASSUME Inductive, StampsHold, [Next]_vars
               PROVE  StampsHold'
    OBVIOUS
  <2> USE DEF At, HoldsUser
  <2>1. CASE Tick
    <3>1. clock \in Nat /\ clock' = clock + 1 /\ UNCHANGED <<account, req>>
      BY <2>1, TimeAssumption DEF Tick, Inductive, TypeOK, Time, stored
    <3>2. \A r \in Requests : HoldsUser(r) \/ At(r, "resetWrite") => req[r].changedAt \in Nat
      BY TimeAssumption DEF Inductive, TypeOK, Request, Time
    <3>3. account # None => account.passwordChangedAt \in Nat
      BY TimeAssumption DEF Inductive, TypeOK, Account, Time
    <3> QED
      BY <3>1, <3>2, <3>3 DEF StampsHold
  <2>2. ASSUME NEW r \in Requests, Arrive(r)
        PROVE  StampsHold'
    BY <2>2, Arrival DEF Inductive, StampsHold, stored
  <2>3. ASSUME NEW r \in Requests, Advance(r)
        PROVE  StampsHold'
    <3>1. clock \in Int /\ clock' = clock /\ \A x \in Requests \ {r} : req'[x] = req[x]
      BY <2>3, OthersWait, TimeAssumption DEF Inductive, TypeOK, Time
    <3>2. account' # None => account'.passwordChangedAt <= clock
      BY <2>3, <3>1, AccountStep DEF StampsHold
    <3>3. \A x \in Requests \ {r} : HoldsUser(x)' => account' = None /\ ~HoldsUser(r)'
      BY <2>3, <3>1, AccountStep, StampStep DEF StampsHold, UserHeld
    <3>4. HoldsUser(r)' => account' = None /\ req'[r].changedAt <= clock
      BY <2>3, <3>1, StampStep DEF StampsHold
    <3>5. At(r, "resetWrite")' => req'[r].changedAt <= clock
      BY <2>3, <3>1, StampStep
    <3> QED
      BY <3>1, <3>2, <3>3, <3>4, <3>5 DEF StampsHold
  <2>4. CASE UNCHANGED vars
    BY <2>4 DEF vars, StampsHold
  <2> QED
    BY <2>1, <2>2, <2>3, <2>4 DEF Next
<1> QED
  BY <1>1, <1>2, AccountConsistent, PTL DEF Spec

(* As long as no two resets have overlapped, a reset writes a stamp that is  *)
(* not earlier than the one it replaces.                                     *)
LEMMA SerialStampsHold == Spec => []SerialStamps
<1>1. Init => SerialStamps
  BY DEF Init, SerialStamps, Resetting, At
<1>2. Inductive /\ StampsHold /\ SerialStamps /\ [Next]_vars => SerialStamps'
  <2> SUFFICES ASSUME Inductive, StampsHold, SerialStamps, [Next]_vars, ~resetsOverlapped'
               PROVE  SerialStamps'
    BY DEF SerialStamps
  <2> USE DEF At, Resetting
  <2>1. CASE Tick
    BY <2>1 DEF Tick, SerialStamps, stored, overlaps
  <2>2. ASSUME NEW r \in Requests, Arrive(r)
        PROVE  SerialStamps'
    BY <2>2, Arrival DEF Inductive, SerialStamps, stored
  <2>3. ASSUME NEW r \in Requests, Advance(r)
        PROVE  SerialStamps'
    <3>1. /\ ~resetsOverlapped /\ \A x \in Requests \ {r} : req'[x] = req[x]
          /\ clock' = clock
      BY <2>3, OthersWait DEF Inductive
    <3>2. \A x, y \in Requests : Resetting(x)' /\ Resetting(y)' => x = y
      BY <2>3, <3>1, StampStep DEF SerialStamps
    <3>3. \A x \in Requests : Resetting(x) => account # None
      BY DEF Inductive, InFlightHolds
    <3>4. At(r, "resetWrite")' => account'.passwordChangedAt <= req'[r].changedAt
      <4>1. CASE At(r, "resetWrite")'
        <5>1. At(r, "reset") /\ req'[r].changedAt = clock
          BY <2>3, <4>1, StampStep
        <5>2. account # None /\ account.passwordChangedAt <= clock
          BY <3>3, <5>1 DEF StampsHold
        <5> QED
          BY <2>3, <5>1, <5>2, AccountStep
      <4> QED
        BY <4>1
    <3>5. \A x \in Requests \ {r} :
            At(x, "resetWrite") => account'.passwordChangedAt <= req[x].changedAt
      BY <2>3, <3>1, <3>3, AccountStep DEF SerialStamps
    <3> QED
      BY <3>1, <3>2, <3>4, <3>5 DEF SerialStamps
  <2>4. CASE UNCHANGED vars
    BY <2>4 DEF vars, overlaps, SerialStamps
  <2> QED
    BY <2>1, <2>2, <2>3, <2>4 DEF Next
<1> QED
  BY <1>1, <1>2, AccountConsistent, StampsAlwaysHold, PTL DEF Spec

(* A token older than the password is refused from then on, as long as no    *)
(* two resets overlap, for any length of the second.                         *)
THEOREM StaleTokensStayRefused == Spec => StaleStayRefused
<1>1. Inductive /\ StampsHold /\ SerialStamps /\ [Next]_vars =>
        [~resetsOverlapped' =>
           \A t \in tokens :
             account.hasPassword /\ t < account.passwordChangedAt => ~TokenIsValid(t)']_vars
  <2> SUFFICES ASSUME Inductive, StampsHold, SerialStamps, [Next]_vars, ~resetsOverlapped',
                      NEW t \in tokens, account.hasPassword, t < account.passwordChangedAt
               PROVE  ~TokenIsValid(t)'
    OBVIOUS
  <2>1. account # None /\ t \in Nat /\ account.passwordChangedAt \in Nat
    <3>1. tokens \subseteq Nat
      BY TimeAssumption DEF Inductive, TypeOK, Time
    <3>2. account # None /\ account \in Account
      BY DEF Inductive, TypeOK
    <3> QED
      BY <3>1, <3>2, TimeAssumption DEF Account, Time
  <2>2. account' # None /\ account'.hasPassword = account.hasPassword
        /\ account.passwordChangedAt <= account'.passwordChangedAt
    <3>1. CASE account' = account
      <4>1. account'.hasPassword = account.hasPassword
        BY <3>1
      <4>2. account' # None /\ account.passwordChangedAt <= account'.passwordChangedAt
        BY <2>1, <3>1
      <4> QED
        BY <4>1, <4>2
    <3>2. ASSUME NEW r \in Requests, Advance(r)
          PROVE  account' # None /\ account'.hasPassword = account.hasPassword
                 /\ account.passwordChangedAt <= account'.passwordChangedAt
      <4>1. ~resetsOverlapped
        BY <3>2, OthersWait DEF Inductive
      <4>2. At(r, "resetWrite") => account.passwordChangedAt <= req[r].changedAt
        BY <4>1 DEF SerialStamps
      <4>3. account' # account =>
              /\ account' # None /\ account'.hasPassword = account.hasPassword
              /\ \/ account'.passwordChangedAt = account.passwordChangedAt
                 \/ At(r, "resetWrite") /\ account'.passwordChangedAt = req[r].changedAt
        BY <2>1, <3>2, AccountStep, Zenon
      <4>4. account' # account => account.passwordChangedAt <= account'.passwordChangedAt
        BY <2>1, <4>2, <4>3, SMT
      <4> QED
        BY <3>1, <4>3, <4>4, Zenon
    <3>3. ASSUME NEW r \in Requests, Arrive(r)
          PROVE  account' = account
      BY <3>3, Arrival DEF Inductive, stored
    <3> QED
      BY <3>1, <3>2, <3>3 DEF Next, Tick, vars, stored
  <2>3. Iat(t) \in Int /\ Iat(t) <= t
    BY <2>1, IatIsNotLater
  <2>4. account'.passwordChangedAt \in Nat
    <3>1. account' \in Account
      BY <2>2, InductiveStep DEF Inductive, TypeOK
    <3> QED
      BY <3>1, TimeAssumption DEF Account, Time
  <2> QED
    BY <2>1, <2>2, <2>3, <2>4 DEF TokenIsValid, IsBefore
<1> QED
  BY <1>1, AccountConsistent, StampsAlwaysHold, SerialStampsHold, PTL DEF Spec, StaleStayRefused

-----------------------------------------------------------------------------
(* A request that begins while none is in flight leaves what is said of codes *)
(* true, if it has just read the row when it is about to mark it.            *)
LEMMA BeginSerial ==
  ASSUME SerialCodes, NEW r \in Requests, NEW q, Begin(r, q),
         req \in [Requests -> Request \cup {None}],
         q.at \notin {"signUpCommit", "sendOtpCommit"},
         q.at \in {"verifyUserMark", "verifyOtpMark"} =>
           otp # None /\ otp.code = q.code /\ ~otp.used
  PROVE  SerialCodes'
<1> SUFFICES ASSUME ~overlapped'
             PROVE  SerialCodes'
  BY DEF SerialCodes
<1>1. ~overlapped /\ \A x \in Requests : req[x] = None
  BY DEF Begin
<1>2. UNCHANGED <<otp, accepted>> /\ req' = [req EXCEPT ![r] = q]
  BY DEF Begin, stored
<1>3. \A x \in Requests : x # r => req'[x] = None
  BY <1>1, <1>2
<1>4. req'[r] = q
  BY <1>2
<1> QED
  BY <1>1, <1>2, <1>3, <1>4 DEF SerialCodes, At

(* A step of the only request in flight changes no other.                    *)
LEMMA AdvanceSerial ==
  ASSUME Inductive, SerialCodes, NEW r \in Requests, Advance(r)
  PROVE  SerialCodes'
<1> SUFFICES ASSUME ~overlapped'
             PROVE  SerialCodes'
  BY DEF SerialCodes
<1> USE DEF At, Continue, End, stored, overlaps
<1>1. ~overlapped /\ req[r] # None /\ \A x \in Requests : x # r => req'[x] = req[x]
  BY DEF Advance, SignUpCreate, SignUpMail, SignUpCommit, CreateWithGoogle, SignToken,
         SendOtpMail, SendOtpCommit, VerifyMark, VerifyUserUpdate, SignGrant, ResetStamp,
         ResetWrite, Fail, Inductive, TypeOK
<1>2. \A x \in Requests : x # r => req[x] = None /\ req'[x] = None
  BY <1>1 DEF SerialCodes
<1>3. \A x, y \in Requests : req'[x] # None /\ req'[y] # None => x = y
  BY <1>2
<1>4. CASE SignUpCreate(r) \/ CreateWithGoogle(r) \/ SignToken(r) \/ VerifyUserUpdate(r)
             \/ SignGrant(r) \/ ResetStamp(r) \/ ResetWrite(r) \/ Fail(r)
  <2>1. UNCHANGED <<otp, accepted>>
    BY <1>4 DEF SignUpCreate, CreateWithGoogle, SignToken, VerifyUserUpdate, SignGrant,
                ResetStamp, ResetWrite, Fail
  <2>2. req'[r] = None \/ req'[r].at \in {"signUpMail", "sign", "resetWrite"}
    BY <1>4 DEF SignUpCreate, CreateWithGoogle, SignToken, VerifyUserUpdate, SignGrant,
                ResetStamp, ResetWrite, Fail, Inductive, TypeOK
  <2> QED
    BY <1>1, <1>2, <1>3, <2>1, <2>2 DEF SerialCodes
<1>5. CASE SignUpMail(r) \/ SendOtpMail(r)
  <2>1. /\ UNCHANGED <<otp, accepted>> /\ req'[r].at \in {"signUpCommit", "sendOtpCommit"}
        /\ req'[r].code \notin mailed
    BY <1>5 DEF SignUpMail, SendOtpMail, Inductive, TypeOK
  <2>2. req'[r].code \notin accepted'
    BY <2>1 DEF Inductive
  <2> QED
    BY <1>1, <1>2, <1>3, <2>1, <2>2 DEF SerialCodes
<1>6. CASE SignUpCommit(r) \/ SendOtpCommit(r)
  <2>1. /\ req[r].code \notin accepted /\ accepted' = accepted
        /\ otp' = NewOtp(req[r].code, req[r].createdAt)
        /\ req'[r] = None
    BY <1>1, <1>6 DEF SignUpCommit, SendOtpCommit, SerialCodes, Inductive, TypeOK
  <2>2. otp'.code \notin accepted' /\ ~otp'.used
    BY <2>1 DEF NewOtp
  <2> QED
    BY <1>1, <1>2, <1>3, <2>1, <2>2 DEF SerialCodes
<1>7. CASE VerifyMark(r)
  <2>1. /\ otp # None /\ otp.code = req[r].code
        /\ accepted' = accepted \cup {req[r].code}
        /\ req'[r] # None => req'[r].at \in {"verify", "grant"}
    BY <1>1, <1>7 DEF VerifyMark, SerialCodes, Inductive, TypeOK
  <2>2. otp' = [otp EXCEPT !.used = TRUE] /\ otp \in Otp
    BY <1>7, <2>1 DEF VerifyMark, MarkUsed, Inductive, TypeOK
  <2>3. otp'.code = otp.code /\ otp'.used
    BY <2>2 DEF Otp
  <2> QED
    BY <1>1, <1>2, <1>3, <2>1, <2>3 DEF SerialCodes
<1> QED
  BY <1>4, <1>5, <1>6, <1>7 DEF Advance

LEMMA SerialStep ==
  ASSUME Inductive, SerialCodes, [Next]_vars
  PROVE  SerialCodes'
<1>1. CASE Tick
  BY <1>1 DEF Tick, stored, overlaps, SerialCodes, At
<1>2. ASSUME NEW r \in Requests, Arrive(r)
      PROVE  SerialCodes'
  <2> USE DEF Inductive, TypeOK
  <2>1. ASSUME NEW w \in Passwords, SignUp(r, w) \/ Login(r, w) \/ ResetPass(r, w)
        PROVE  SerialCodes'
    <3>1. PICK q : Begin(r, q) /\ q.at \in {"signUp", "sign", "reset"}
      BY <2>1 DEF SignUp, Login, ResetPass
    <3> QED
      BY <3>1, BeginSerial
  <2>2. ASSUME RefreshToken(r) \/ GoogleLogin(r) \/ SendOtp(r)
        PROVE  SerialCodes'
    <3>1. PICK q : Begin(r, q) /\ q.at \in {"sign", "google", "sendOtp"}
      BY <2>2 DEF RefreshToken, GoogleLogin, SendOtp
    <3> QED
      BY <3>1, BeginSerial
  <2>3. ASSUME NEW c \in Codes, VerifyUser(r, c) \/ VerifyOtp(r, c)
        PROVE  SerialCodes'
    <3>1. PICK q : /\ Begin(r, q) /\ q.code = c
                   /\ q.at \in {"verifyUserMark", "verifyOtpMark"}
      BY <2>3 DEF VerifyUser, VerifyOtp
    <3>2. otp # None /\ otp.code = c /\ ~otp.used
      BY <2>3 DEF VerifyUser, VerifyOtp, Opens
    <3> QED
      BY <3>1, <3>2, BeginSerial
  <2> QED
    BY <1>2, <2>1, <2>2, <2>3 DEF Arrive
<1>3. ASSUME NEW r \in Requests, Advance(r)
      PROVE  SerialCodes'
  BY <1>3, AdvanceSerial
<1>4. CASE UNCHANGED vars
  BY <1>4 DEF vars, overlaps, SerialCodes, At
<1> QED
  BY <1>1, <1>2, <1>3, <1>4 DEF Next

(* As long as no two requests have overlapped, a code in the database is used *)
(* if and only if it has been accepted.                                      *)
THEOREM SerialCodesHold == Spec => []SerialCodes
<1>1. Init => SerialCodes
  BY DEF Init, SerialCodes, At
<1>2. Inductive /\ SerialCodes /\ [Next]_vars => SerialCodes'
  BY SerialStep
<1> QED
  BY <1>1, <1>2, AccountConsistent, PTL DEF Spec

(* As long as no two requests have overlapped, a code that is used has been  *)
(* accepted.                                                                 *)
THEOREM SerialUsedWasAccepted == Spec => []UsedWasAccepted
<1>1. SerialCodes => UsedWasAccepted
  BY DEF SerialCodes, UsedWasAccepted
<1> QED
  BY <1>1, SerialCodesHold, PTL

(* And no code is accepted twice.                                            *)
THEOREM SerialCodesAreAcceptedOnce == Spec => CodeAcceptedOnce
<1>1. SerialCodes /\ [Next]_vars =>
        [~overlapped' =>
           \A r \in Requests : VerifyMark(r) => req[r].code \notin accepted]_vars
  BY DEF SerialCodes, VerifyMark, At, overlaps
<1> QED
  BY <1>1, SerialCodesHold, PTL DEF Spec, CodeAcceptedOnce
=============================================================================
