---------------------------- MODULE Registration ----------------------------
(***************************************************************************)
(* RequestRegisterOTP, VerifyRegisterOTP, CompleteRegister and LinkEmail   *)
(* of usecase/auth_usecase.go over the tables auth_otps and users, and the *)
(* JWTs of token/service.go that lead from one to the next.                *)
(*                                                                         *)
(* Each call of a repository is one step and autocommits, except the       *)
(* transaction of CompleteRegister: its INSERT locks the phone number in   *)
(* the unique index until the COMMIT or the rollback.  A clock is read in  *)
(* the step of the call before it.  Whether the six digits entered are the *)
(* ones of the OTP is left open.                                           *)
(*                                                                         *)
(* Rows of auth_otps are in the order of created_at.  One that becomes     *)
(* visible after a row created later is never the latest and never read,   *)
(* so it is as good as not there.  A request that is cancelled, fails or   *)
(* dies takes Abort.  Refusals that change nothing and answer at once are  *)
(* guards.  JWTs are not stored anywhere: what there is of them is what    *)
(* clients hold.                                                           *)
(***************************************************************************)
EXTENDS Naturals, Sequences, FiniteSets

CONSTANTS
  Phone,        \* normalized phone numbers
  User,
  Email,        \* normalized emails
  Request,      \* slots for concurrent requests
  NULL,         \* an SQL NULL or an unset variable
  MaxAttempts,  \* registerOTPMaxAttempts
  OtpTTL,       \* registerOTPTTL
  TokenTTL,     \* accessTTL of the token service
  MaxTime,      \* the clock stops here, a bound of the model only
  MaxOtps       \* rows of auth_otps, a bound of the model only

ASSUME RegistrationAssumption ==
  /\ NULL \notin Phone \cup User \cup Email
  /\ Phone \cap User = {}
  /\ IsFiniteSet(Request)
  /\ MaxAttempts \in Nat \ {0}
  /\ OtpTTL \in Nat
  /\ TokenTTL \in Nat
  /\ MaxTime \in Nat
  /\ MaxOtps \in Nat

VARIABLES
  now,       \* the clock of the server
  otps,      \* table auth_otps, oldest first
  users,     \* table users; no row while phone is NULL
  tokens,    \* the JWTs clients hold
  request    \* the requests under way

vars == <<now, otps, users, tokens, request>>

\* session: there is a row of refresh_tokens for the user
NoUser    == [phone |-> NULL, email |-> NULL, session |-> FALSE]
NoRequest == [pc |-> "idle", phone |-> NULL, otp |-> 0, user |-> NULL, email |-> NULL,
              expires |-> 0]

Init ==
  /\ now = 0
  /\ otps = <<>>
  /\ users = [u \in User |-> NoUser]
  /\ tokens = {}
  /\ request = [r \in Request |-> NoRequest]

Tick ==
  /\ now < MaxTime
  /\ now' = now + 1
  /\ UNCHANGED <<otps, users, tokens, request>>

-----------------------------------------------------------------------------
(* Queries and guards.  A name with an underscore is the same definition   *)
(* with a mistake in it, which the runs are shown to notice.               *)

UserRow(u) == users[u].phone # NULL

\* FindByPhoneNumber found a user
PhoneTaken(p) == \E u \in User : users[u].phone = p

\* another open CompleteRegister has inserted the phone number
PhoneLocked_NoIndex(p) == FALSE
PhoneLocked(p) == \E q \in Request : request[q].pc = "commit" /\ request[q].phone = p

\* the unique index on email
EmailOfOther(u, e) == \E v \in User \ {u} : users[v].email = e

\* FindLatest: ORDER BY created_at DESC LIMIT 1
OtpsOf(p) == {i \in DOMAIN otps : otps[i].phone = p}
Latest(i) == \A j \in OtpsOf(otps[i].phone) : j <= i

\* otp.IsUsed
Used_NotAsked(i) == FALSE
Used(i) == otps[i].used

\* time.Now().UTC().After(otp.ExpiresAt)
Expired(i) == now > otps[i].expires

AttemptsLeft_OneMore(i) == otps[i].attempts <= MaxAttempts
AttemptsLeft(i) == otps[i].attempts < MaxAttempts

\* issueToken
Issued(type, subject) == [typ |-> type, subject |-> subject, expires |-> now + TokenTTL]

\* verifyToken: the type asked for, and the clock before the expiry
Accepted_Expired(tk, type) == tk.typ = type
Accepted(tk, type) == tk.typ = type /\ now < tk.expires

At(r, pc) == request[r].pc = pc
Proceed(r, pc) == request' = [request EXCEPT ![r] = [@ EXCEPT !.pc = pc]]
Finish(r) == request' = [request EXCEPT ![r] = NoRequest]

-----------------------------------------------------------------------------
(* RequestRegisterOTP.                                                     *)

RequestRegisterOTP(r, p) ==
  /\ At(r, "idle")
  /\ ~PhoneTaken(p)
  /\ request' = [request EXCEPT ![r] =
       [NoRequest EXCEPT !.pc = "create", !.phone = p, !.expires = now + OtpTTL]]
  /\ UNCHANGED <<now, otps, users, tokens>>

CreateOtp(r) ==
  /\ At(r, "create")
  /\ Len(otps) < MaxOtps
  /\ otps' = Append(otps, [phone |-> request[r].phone, expires |-> request[r].expires,
                           attempts |-> 0, used |-> FALSE])
  /\ Finish(r)
  /\ UNCHANGED <<now, users, tokens>>

-----------------------------------------------------------------------------
(* VerifyRegisterOTP: is there a user, which OTP is the latest, is it open *)
(* and does the code match; then the JWT is signed and the OTP marked, or  *)
(* the attempt counted.                                                    *)

VerifyRegisterOTP(r, p) ==
  /\ At(r, "idle")
  /\ ~PhoneTaken(p)
  /\ request' = [request EXCEPT ![r] = [NoRequest EXCEPT !.pc = "latest", !.phone = p]]
  /\ UNCHANGED <<now, otps, users, tokens>>

Open(i) == Latest(i) /\ ~Used(i) /\ ~Expired(i) /\ AttemptsLeft(i)

VerifyCompare(r) ==
  /\ At(r, "latest")
  /\ \E i \in OtpsOf(request[r].phone), pc \in {"issue", "increment"} :
       /\ Open(i)
       /\ request' = [request EXCEPT ![r] = [@ EXCEPT !.pc = pc, !.otp = i]]
  /\ UNCHANGED <<now, otps, users, tokens>>

VerifyRefuse(r) ==
  /\ At(r, "latest")
  /\ ~ \E i \in OtpsOf(request[r].phone) : Open(i)
  /\ Finish(r)
  /\ UNCHANGED <<now, otps, users, tokens>>

\* IncrementAttempt: WHERE id = $1
VerifyIncrement(r) ==
  /\ At(r, "increment")
  /\ otps' = [otps EXCEPT ![request[r].otp].attempts = @ + 1]
  /\ Finish(r)
  /\ UNCHANGED <<now, users, tokens>>

VerifyIssue(r) ==
  /\ At(r, "issue")
  /\ request' = [request EXCEPT ![r] = [@ EXCEPT !.pc = "mark", !.expires = now + TokenTTL]]
  /\ UNCHANGED <<now, otps, users, tokens>>

\* MarkUsed: WHERE id = $1
VerifyMark(r) ==
  /\ At(r, "mark")
  /\ otps' = [otps EXCEPT ![request[r].otp] = [@ EXCEPT !.used = TRUE]]
  /\ Proceed(r, "verified")
  /\ UNCHANGED <<now, users, tokens>>

VerifyRespond(r) ==
  /\ At(r, "verified")
  /\ tokens' = tokens \cup
       {[typ |-> "register", subject |-> request[r].phone, expires |-> request[r].expires]}
  /\ Finish(r)
  /\ UNCHANGED <<now, otps, users>>

-----------------------------------------------------------------------------
(* CompleteRegister, behind RequireRegisterAuth.                           *)

CompleteRegister(r, tk) ==
  /\ At(r, "idle")
  /\ Accepted(tk, "register")
  /\ ~PhoneTaken(tk.subject)
  /\ request' = [request EXCEPT ![r] =
       [NoRequest EXCEPT !.pc = "insert", !.phone = tk.subject]]
  /\ UNCHANGED <<now, otps, users, tokens>>

\* the id is a random UUID
InsertUser_NoTransaction(r, u) ==
  /\ At(r, "insert")
  /\ ~PhoneLocked(request[r].phone)
  /\ ~PhoneTaken(request[r].phone)
  /\ ~UserRow(u)
  /\ users' = [users EXCEPT ![u] = [NoUser EXCEPT !.phone = request[r].phone]]
  /\ request' = [request EXCEPT ![r] = [@ EXCEPT !.pc = "commit", !.user = u]]
  /\ UNCHANGED <<now, otps, tokens>>
InsertUser(r, u) ==
  /\ At(r, "insert")
  /\ ~PhoneLocked(request[r].phone)
  /\ ~PhoneTaken(request[r].phone)
  /\ ~UserRow(u) /\ \A q \in Request : request[q].user # u
  /\ request' = [request EXCEPT ![r] = [@ EXCEPT !.pc = "commit", !.user = u]]
  /\ UNCHANGED <<now, otps, users, tokens>>

\* unique violation: ErrUserAlreadyExists
InsertTaken(r) ==
  /\ At(r, "insert")
  /\ ~PhoneLocked(request[r].phone)
  /\ PhoneTaken(request[r].phone)
  /\ Finish(r)
  /\ UNCHANGED <<now, otps, users, tokens>>

\* INSERT INTO refresh_tokens and COMMIT
CommitUser(r) ==
  /\ At(r, "commit")
  /\ users' = [users EXCEPT ![request[r].user] =
       [NoUser EXCEPT !.phone = request[r].phone, !.session = TRUE]]
  /\ Proceed(r, "registered")
  /\ UNCHANGED <<now, otps, tokens>>

RegisterRespond(r) ==
  /\ At(r, "registered")
  /\ tokens' = tokens \cup {Issued("access", request[r].user)}
  /\ Finish(r)
  /\ UNCHANGED <<now, otps, users>>

-----------------------------------------------------------------------------
(* LinkEmail, behind RequireUserAuth.                                      *)

LinkEmail(r, tk, e) ==
  /\ At(r, "idle")
  /\ Accepted(tk, "access")
  /\ ~EmailOfOther(tk.subject, e)
  /\ request' = [request EXCEPT ![r] =
       [NoRequest EXCEPT !.pc = "update", !.user = tk.subject, !.email = e]]
  /\ UNCHANGED <<now, otps, users, tokens>>

\* UpdateEmail
LinkUpdate(r) ==
  /\ At(r, "update")
  /\ ~EmailOfOther(request[r].user, request[r].email)
  /\ users' = [users EXCEPT ![request[r].user] = [@ EXCEPT !.email = request[r].email]]
  /\ Finish(r)
  /\ UNCHANGED <<now, otps, tokens>>

\* unique violation, answered as an internal error
LinkTaken(r) ==
  /\ At(r, "update")
  /\ EmailOfOther(request[r].user, request[r].email)
  /\ Finish(r)
  /\ UNCHANGED <<now, otps, users, tokens>>

-----------------------------------------------------------------------------
Abort(r) ==
  /\ ~At(r, "idle")
  /\ Finish(r)
  /\ UNCHANGED <<now, otps, users, tokens>>

Next ==
  \/ Tick
  \/ \E r \in Request :
       \/ \E p \in Phone : RequestRegisterOTP(r, p) \/ VerifyRegisterOTP(r, p)
       \/ CreateOtp(r)
       \/ VerifyCompare(r) \/ VerifyRefuse(r) \/ VerifyIncrement(r)
       \/ VerifyIssue(r) \/ VerifyMark(r) \/ VerifyRespond(r)
       \/ \E tk \in tokens : CompleteRegister(r, tk)
       \/ \E u \in User : InsertUser(r, u)
       \/ InsertTaken(r) \/ CommitUser(r) \/ RegisterRespond(r)
       \/ \E tk \in tokens, e \in Email : LinkEmail(r, tk, e)
       \/ LinkUpdate(r) \/ LinkTaken(r)
       \/ Abort(r)

Spec == Init /\ [][Next]_vars

-----------------------------------------------------------------------------
Stamp == 0 .. (MaxTime + OtpTTL + TokenTTL)
OtpCols  == [phone : Phone, expires : Stamp, attempts : Nat, used : BOOLEAN]
UserCols == [phone : Phone \cup {NULL}, email : Email \cup {NULL}, session : BOOLEAN]
TokenCols == [typ : {"register"}, subject : Phone, expires : Stamp]
               \cup [typ : {"access"}, subject : User, expires : Stamp]

\* Rows, JWTs and requests keep to their columns, and CompleteRegister never
\* leaves a user without the refresh token that was to come with it, nor a
\* column written of a user who is not there.
TypeOK ==
  /\ now \in 0 .. MaxTime
  /\ otps \in Seq(OtpCols)
  /\ users \in [User -> UserCols]
  /\ tokens \subseteq TokenCols
  /\ request \in [Request ->
       [pc : {"idle", "create", "latest", "increment", "issue", "mark", "verified", "insert",
              "commit", "registered", "update"},
        phone : Phone \cup {NULL}, otp : 0 .. MaxOtps, user : User \cup {NULL},
        email : Email \cup {NULL}, expires : Stamp]]
  /\ \A u \in User : UserRow(u) = users[u].session /\ (~UserRow(u) => users[u] = NoUser)

\* The limit of attempts is read before the code is compared and raised in a
\* call after that, so it can be overrun, but by no more than the other
\* requests there are at a time: guessing does not go on.
GuessesBounded ==
  \A i \in DOMAIN otps : otps[i].attempts <= MaxAttempts + Cardinality(Request) - 1

\* An OTP that is used, superseded, expired or out of attempts, and that no
\* request has compared before, is over: nothing opens it or counts on it again.
Closed(i) ==
  /\ ~ (Latest(i) /\ ~otps[i].used /\ ~Expired(i) /\ AttemptsLeft(i))
  /\ \A r \in Request : request[r].otp = i => At(r, "verified")
ClosedOtpStaysClosed ==
  [][\A i \in DOMAIN otps : Closed(i) => otps'[i] = otps[i] /\ Closed(i)']_vars

\* A verification lapses: once its JWTs have expired and no request that was
\* accepted with one is left, an unregistered phone number gets no further
\* than an OTP that is open now takes it.
Unproved(p) ==
  /\ ~PhoneTaken(p)
  /\ \A r \in Request : request[r].phone = p => request[r].pc \in {"create", "latest", "increment"}
  /\ \A tk \in tokens : tk.subject = p => now >= tk.expires
LapsedVerificationNeedsOtp ==
  [][\A p \in Phone : Unproved(p) /\ ~Unproved(p)' => \E i \in OtpsOf(p) : Open(i)]_vars

\* Registration implements Accounts: whichever requests race, nobody registers
\* a phone number for which no OTP was used, and no phone number or email is
\* given to two users or taken away from one.
A == INSTANCE Accounts WITH
       proved <- {p \in Phone : \E i \in OtpsOf(p) : otps[i].used},
       account <- [u \in User |-> [phone |-> users[u].phone, email |-> users[u].email]]
ImplementsAccounts == A!Spec

=============================================================================
