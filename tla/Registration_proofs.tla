------------------------- MODULE Registration_proofs -------------------------
(***************************************************************************)
(* Registration for any number of phone numbers, users, emails, requests   *)
(* and OTPs, and that it implements Accounts.                              *)
(***************************************************************************)
EXTENDS Registration, FiniteSetTheorems, SequenceTheorems, TLAPS

Proved(p) == \E i \in OtpsOf(p) : otps[i].used

\* What a request holds at each point.  From the comparison on it has an OTP of
\* its phone number; JWTs and inserts are for numbers an OTP was used of; an
\* insert that is not committed is of a new user and a free number; and an email
\* is linked to a user who is there.
SlotOK(q) ==
  /\ q.pc \notin {"idle", "update"} => q.phone \in Phone
  /\ q.pc \in {"increment", "issue", "mark", "verified"} =>
       q.otp \in OtpsOf(q.phone)
  /\ q.pc = "verified" => otps[q.otp].used
  /\ q.pc \in {"insert", "commit"} => Proved(q.phone)
  /\ q.pc = "commit" => q.user \in User /\ ~UserRow(q.user) /\ ~PhoneTaken(q.phone)
  /\ q.pc \in {"registered", "update"} => q.user \in User /\ UserRow(q.user)
  /\ q.pc = "update" => q.email \in Email

SlotsOK == \A r \in Request : SlotOK(request[r])

\* The unique indexes hold one open insert for a user and for a phone number.
SlotsApart ==
  \A r, q \in Request : r # q /\ At(r, "commit") /\ At(q, "commit") =>
    request[r].user # request[q].user /\ request[r].phone # request[q].phone

\* JWTs are for phone numbers an OTP was used of and for users who are there.
TokenOK(tk) ==
  IF tk.typ = "register" THEN Proved(tk.subject) ELSE UserRow(tk.subject)

TokensOK == \A tk \in tokens : TokenOK(tk)

\* An attempt counts from the comparison on.
Guessing(i) == {r \in Request : At(r, "increment") /\ request[r].otp = i}

GuessesCounted ==
  \A i \in DOMAIN otps :
    otps[i].attempts + Cardinality(Guessing(i)) <= MaxAttempts + Cardinality(Request) - 1

IInv ==
  TypeOK /\ Len(otps) <= MaxOtps /\ SlotsOK /\ SlotsApart /\ TokensOK /\ GuessesCounted

-----------------------------------------------------------------------------
RequestCols ==
  [pc : {"idle", "create", "latest", "increment", "issue", "mark", "verified", "insert",
         "commit", "registered", "update"},
   phone : Phone \cup {NULL}, otp : 0 .. MaxOtps, user : User \cup {NULL},
   email : Email \cup {NULL}, expires : Stamp]

LEMMA SubsetOfRequest ==
  ASSUME NEW S \in SUBSET Request
  PROVE  /\ IsFiniteSet(S)
         /\ Cardinality(S) \in Nat /\ Cardinality(Request) \in Nat
         /\ Cardinality(S) <= Cardinality(Request)
<1>1. IsFiniteSet(Request)
  BY RegistrationAssumption
<1>2. IsFiniteSet(S) /\ Cardinality(S) <= Cardinality(Request)
  BY <1>1, FS_Subset
<1> QED BY <1>1, <1>2, FS_CardinalityType

LEMMA InitIInv == Init => IInv
<1> SUFFICES ASSUME Init PROVE IInv
  OBVIOUS
<1> USE RegistrationAssumption
<1>1. otps = <<>> /\ otps \in Seq(OtpCols) /\ DOMAIN otps = {} /\ Len(otps) = 0
  BY DEF Init
<1>2. TypeOK
  <2>1. NoUser \in UserCols /\ \A u \in User : users[u] = NoUser
    BY DEF Init, NoUser, UserCols
  <2>2. \A u \in User : UserRow(u) = users[u].session /\ (~UserRow(u) => users[u] = NoUser)
    <3>1. NoUser.phone = NULL /\ NoUser.session = FALSE
      BY DEF NoUser
    <3> QED BY <2>1, <3>1 DEF UserRow
  <2>3. NoRequest \in RequestCols
    BY DEF NoRequest, RequestCols, Stamp
  <2> QED BY <1>1, <2>1, <2>2, <2>3 DEF Init, TypeOK, RequestCols
<1>3. SlotsOK /\ SlotsApart /\ TokensOK
  BY DEF Init, SlotsOK, SlotOK, SlotsApart, TokensOK, At, NoRequest
<1>4. GuessesCounted
  BY <1>1 DEF GuessesCounted
<1> QED BY <1>1, <1>2, <1>3, <1>4 DEF IInv

LEMMA OtpRow ==
  ASSUME IInv, NEW i \in DOMAIN otps
  PROVE  i \in 1 .. Len(otps) /\ i \in 0 .. MaxOtps /\ i # 0 /\ otps[i] \in OtpCols
<1>1. otps \in Seq(OtpCols) /\ Len(otps) <= MaxOtps
  BY DEF IInv, TypeOK
<1>2. i \in 1 .. Len(otps) /\ Len(otps) \in Nat
  BY <1>1
<1> QED BY <1>1, <1>2, RegistrationAssumption

\* No user and no OTP goes, and what the other requests have in hand stays free:
\* then it remains to look at the request that moves and the JWTs it hands out.
LEMMA StepIInv ==
  ASSUME IInv, NEW r \in Request, NEW q \in RequestCols,
         request' = [request EXCEPT ![r] = q], TypeOK', Len(otps') <= MaxOtps,
         \A i \in DOMAIN otps :
           /\ i \in DOMAIN otps' /\ otps'[i].phone = otps[i].phone
           /\ otps[i].used => otps'[i].used,
         \A u \in User : users[u].phone # NULL => users'[u].phone # NULL,
         \A p \in Request \ {r} : At(p, "commit") =>
           /\ users'[request[p].user].phone = NULL
           /\ \A u \in User : users'[u].phone # request[p].phone,
         SlotOK(q)',
         q.pc = "commit" => \A p \in Request \ {r} : At(p, "commit") =>
           request[p].user # q.user /\ request[p].phone # q.phone,
         \A tk \in tokens' \ tokens : TokenOK(tk)',
         GuessesCounted'
  PROVE  IInv'
<1>1. request'[r] = q /\ \A p \in Request \ {r} : request'[p] = request[p]
  BY DEF IInv, TypeOK
<1>2. \A p : Proved(p) => Proved(p)'
  BY DEF Proved, OtpsOf
<1>3. SlotsOK'
  <2> SUFFICES ASSUME NEW p \in Request PROVE SlotOK(request[p])'
    BY DEF SlotsOK
  <2>1. CASE p = r
    BY <1>1, <2>1 DEF SlotOK
  <2>2. CASE p # r
    <3>1. request'[p] = request[p] /\ SlotOK(request[p])
      BY <1>1, <2>2 DEF IInv, SlotsOK
    <3> QED BY <3>1, <2>2, <1>2 DEF SlotOK, OtpsOf, UserRow, PhoneTaken, At
  <2> QED BY <2>1, <2>2
<1>4. SlotsApart'
  BY <1>1 DEF IInv, SlotsApart, At
<1>5. TokensOK'
  <2> SUFFICES ASSUME NEW tk \in tokens' PROVE TokenOK(tk)'
    BY DEF TokensOK
  <2>1. CASE tk \in tokens
    <3>1. TokenOK(tk) /\ tk \in TokenCols
      BY <2>1 DEF IInv, TokensOK, TypeOK
    <3>2. CASE tk.typ = "register"
      BY <3>1, <3>2, <1>2 DEF TokenOK
    <3>3. CASE tk.typ # "register"
      BY <3>1, <3>3 DEF TokenOK, TokenCols, UserRow
    <3> QED BY <3>2, <3>3
  <2> QED BY <2>1
<1> QED BY <1>3, <1>4, <1>5 DEF IInv

\* A request moves on and the rows stay.
LEMMA RequestIInv ==
  ASSUME IInv, NEW r \in Request, NEW q \in RequestCols,
         request' = [request EXCEPT ![r] = q], UNCHANGED <<now, otps, users>>,
         tokens' \subseteq TokenCols, SlotOK(q),
         q.pc = "increment" => otps[q.otp].attempts < MaxAttempts,
         q.pc = "commit" => \A p \in Request \ {r} : At(p, "commit") =>
           request[p].user # q.user /\ request[p].phone # q.phone,
         \A tk \in tokens' \ tokens : TokenOK(tk)
  PROVE  IInv'
<1>1. /\ request'[r] = q
      /\ \A p \in Request \ {r} : request'[p] = request[p]
      /\ request' \in [Request -> RequestCols]
  BY DEF IInv, TypeOK, RequestCols
<1>2. TypeOK'
  BY <1>1 DEF IInv, TypeOK, RequestCols, UserRow
<1>3. SlotOK(q)' /\ \A tk \in tokens' \ tokens : TokenOK(tk)'
  BY DEF SlotOK, TokenOK, OtpsOf, Proved, UserRow, PhoneTaken
<1>4. GuessesCounted'
  <2> SUFFICES ASSUME NEW i \in DOMAIN otps
               PROVE  otps[i].attempts + Cardinality(Guessing(i)') <=
                        MaxAttempts + Cardinality(Request) - 1
    BY DEF GuessesCounted
  <2>0. otps[i].attempts \in Nat
    BY OtpRow DEF OtpCols
  <2>1. Guessing(i)' \in SUBSET Request /\ Guessing(i) \in SUBSET Request
    BY DEF Guessing
  <2>2. CASE q.pc = "increment" /\ q.otp = i
    BY <2>0, <2>1, <2>2, SubsetOfRequest, RegistrationAssumption
  <2>3. CASE ~(q.pc = "increment" /\ q.otp = i)
    <3>1. Guessing(i)' \subseteq Guessing(i)
      BY <1>1, <2>3 DEF Guessing, At
    <3>2. Cardinality(Guessing(i)') <= Cardinality(Guessing(i))
      BY <2>1, <3>1, SubsetOfRequest, FS_Subset
    <3> QED BY <2>0, <2>1, <3>2, SubsetOfRequest, RegistrationAssumption
            DEF IInv, GuessesCounted
  <2> QED BY <2>2, <2>3
<1>5. \A p \in Request \ {r} : At(p, "commit") =>
        users[request[p].user].phone = NULL /\ \A u \in User : users[u].phone # request[p].phone
  BY DEF IInv, SlotsOK, SlotOK, UserRow, PhoneTaken, At
<1> QED BY <1>1, <1>2, <1>3, <1>4, <1>5, StepIInv DEF IInv

-----------------------------------------------------------------------------
LEMMA IdleSlot == NoRequest \in RequestCols /\ NoRequest.pc = "idle" /\ NoRequest.otp = 0
BY RegistrationAssumption DEF NoRequest, RequestCols, Stamp

\* A request that is over.
LEMMA DoneIInv ==
  ASSUME IInv, NEW r \in Request, Finish(r), UNCHANGED <<now, otps, users>>,
         tokens' \subseteq TokenCols, \A tk \in tokens' \ tokens : TokenOK(tk)
  PROVE  IInv'
<1>1. SlotOK(NoRequest)
  BY IdleSlot DEF SlotOK
<1> QED BY <1>1, IdleSlot, RequestIInv DEF Finish

LEMMA TickIInv == IInv /\ Tick => IInv'
<1> SUFFICES ASSUME IInv, Tick PROVE IInv'
  OBVIOUS
<1>1. now' \in 0 .. MaxTime
  BY RegistrationAssumption DEF IInv, TypeOK, Tick
<1>2. TypeOK'
  BY <1>1 DEF IInv, TypeOK, Tick, UserRow
<1>3. SlotsOK' /\ SlotsApart'
  BY DEF IInv, Tick, SlotsOK, SlotOK, SlotsApart, OtpsOf, Proved, UserRow, PhoneTaken, At
<1>4. TokensOK' /\ GuessesCounted'
  BY DEF IInv, Tick, TokensOK, TokenOK, OtpsOf, Proved, UserRow, GuessesCounted, Guessing, At
<1> QED BY <1>2, <1>3, <1>4 DEF IInv, Tick

LEMMA RequestRegisterOTPIInv ==
  ASSUME IInv, NEW r \in Request, NEW p \in Phone, RequestRegisterOTP(r, p)
  PROVE  IInv'
<1> DEFINE q == [NoRequest EXCEPT !.pc = "create", !.phone = p, !.expires = now + OtpTTL]
<1>1. now + OtpTTL \in Stamp
  BY RegistrationAssumption DEF IInv, TypeOK, Stamp
<1>2. q \in RequestCols
  BY <1>1, IdleSlot DEF RequestCols
<1>3. q.pc = "create" /\ q.phone = p
  BY DEF NoRequest
<1>4. request' = [request EXCEPT ![r] = q] /\ UNCHANGED <<now, otps, users, tokens>>
  BY DEF RequestRegisterOTP
<1> HIDE DEF q
<1>5. SlotOK(q)
  BY <1>3 DEF SlotOK
<1>6. tokens' \subseteq TokenCols
  BY <1>4 DEF IInv, TypeOK
<1> QED BY <1>2, <1>3, <1>4, <1>5, <1>6, RequestIInv

LEMMA VerifyRegisterOTPIInv ==
  ASSUME IInv, NEW r \in Request, NEW p \in Phone, VerifyRegisterOTP(r, p)
  PROVE  IInv'
<1> DEFINE q == [NoRequest EXCEPT !.pc = "latest", !.phone = p]
<1>1. q \in RequestCols
  BY IdleSlot DEF RequestCols
<1>2. q.pc = "latest" /\ q.phone = p
  BY DEF NoRequest
<1>3. request' = [request EXCEPT ![r] = q] /\ UNCHANGED <<now, otps, users, tokens>>
  BY DEF VerifyRegisterOTP
<1> HIDE DEF q
<1>4. SlotOK(q)
  BY <1>2 DEF SlotOK
<1>5. tokens' \subseteq TokenCols
  BY <1>3 DEF IInv, TypeOK
<1> QED BY <1>1, <1>2, <1>3, <1>4, <1>5, RequestIInv

\* The limit is checked with the request not counted yet.
LEMMA VerifyCompareIInv ==
  ASSUME IInv, NEW r \in Request, VerifyCompare(r)
  PROVE  IInv'
<1> PICK i \in OtpsOf(request[r].phone), pc \in {"issue", "increment"} :
      /\ Open(i)
      /\ request' = [request EXCEPT ![r] = [@ EXCEPT !.pc = pc, !.otp = i]]
  BY DEF VerifyCompare
<1> DEFINE q == [request[r] EXCEPT !.pc = pc, !.otp = i]
<1>1. request[r] \in RequestCols
  BY DEF IInv, TypeOK, RequestCols
<1>2. i \in 0 .. MaxOtps
  BY OtpRow DEF OtpsOf
<1>3. q \in RequestCols
  BY <1>1, <1>2 DEF RequestCols
<1>4. q.pc = pc /\ q.otp = i /\ q.phone = request[r].phone
  BY <1>1 DEF RequestCols
<1>5. request' = [request EXCEPT ![r] = q] /\ UNCHANGED <<now, otps, users, tokens>>
  BY DEF VerifyCompare
<1>6. q.phone \in Phone
  BY <1>4 DEF VerifyCompare, IInv, SlotsOK, SlotOK, At
<1> HIDE DEF q
<1>7. SlotOK(q)
  BY <1>4, <1>6 DEF SlotOK
<1>8. otps[q.otp].attempts < MaxAttempts
  BY <1>4 DEF Open, AttemptsLeft
<1>9. tokens' \subseteq TokenCols
  BY <1>5 DEF IInv, TypeOK
<1> QED BY <1>3, <1>4, <1>5, <1>7, <1>8, <1>9, RequestIInv

LEMMA VerifyIssueIInv ==
  ASSUME IInv, NEW r \in Request, VerifyIssue(r)
  PROVE  IInv'
<1> DEFINE q == [request[r] EXCEPT !.pc = "mark", !.expires = now + TokenTTL]
<1>1. request[r] \in RequestCols
  BY DEF IInv, TypeOK, RequestCols
<1>2. now + TokenTTL \in Stamp
  BY RegistrationAssumption DEF IInv, TypeOK, Stamp
<1>3. q \in RequestCols
  BY <1>1, <1>2 DEF RequestCols
<1>4. q.pc = "mark" /\ q.otp = request[r].otp /\ q.phone = request[r].phone
  BY <1>1 DEF RequestCols
<1>5. request' = [request EXCEPT ![r] = q] /\ UNCHANGED <<now, otps, users, tokens>>
  BY DEF VerifyIssue
<1>6. q.phone \in Phone /\ q.otp \in OtpsOf(q.phone)
  BY <1>4 DEF VerifyIssue, IInv, SlotsOK, SlotOK, At
<1> HIDE DEF q
<1>7. SlotOK(q)
  BY <1>4, <1>6 DEF SlotOK
<1>8. tokens' \subseteq TokenCols
  BY <1>5 DEF IInv, TypeOK
<1> QED BY <1>3, <1>4, <1>5, <1>7, <1>8, RequestIInv

\* The JWT is for a phone number whose OTP was marked.
LEMMA VerifyRespondIInv ==
  ASSUME IInv, NEW r \in Request, VerifyRespond(r)
  PROVE  IInv'
<1> DEFINE tk == [typ |-> "register", subject |-> request[r].phone, expires |-> request[r].expires]
<1>1. request[r].phone \in Phone /\ Proved(request[r].phone) /\ request[r].expires \in Stamp
  BY DEF VerifyRespond, IInv, SlotsOK, SlotOK, At, Proved, TypeOK
<1>2. tk \in TokenCols /\ TokenOK(tk)
  BY <1>1 DEF TokenCols, TokenOK
<1>3. Finish(r) /\ UNCHANGED <<now, otps, users>> /\ tokens' = tokens \cup {tk}
  BY DEF VerifyRespond
<1> HIDE DEF tk
<1>4. tokens' \subseteq TokenCols
  BY <1>2, <1>3 DEF IInv, TypeOK
<1> QED BY <1>2, <1>3, <1>4, DoneIInv

LEMMA CompleteRegisterIInv ==
  ASSUME IInv, NEW r \in Request, NEW tk \in tokens, CompleteRegister(r, tk)
  PROVE  IInv'
<1> DEFINE q == [NoRequest EXCEPT !.pc = "insert", !.phone = tk.subject]
<1>0. tk \in TokenCols /\ tk.typ = "register" /\ TokenOK(tk)
  BY DEF IInv, TypeOK, TokensOK, CompleteRegister, Accepted
<1>1. tk.subject \in Phone /\ Proved(tk.subject)
  BY <1>0 DEF TokenCols, TokenOK
<1>2. q \in RequestCols
  BY <1>1, IdleSlot DEF RequestCols
<1>3. q.pc = "insert" /\ q.phone = tk.subject
  BY DEF NoRequest
<1>4. request' = [request EXCEPT ![r] = q] /\ UNCHANGED <<now, otps, users, tokens>>
  BY DEF CompleteRegister
<1> HIDE DEF q
<1>5. SlotOK(q)
  BY <1>1, <1>3 DEF SlotOK
<1>6. tokens' \subseteq TokenCols
  BY <1>4 DEF IInv, TypeOK
<1> QED BY <1>2, <1>3, <1>4, <1>5, <1>6, RequestIInv

\* The unique indexes let one insert of a phone number be open.
LEMMA InsertUserIInv ==
  ASSUME IInv, NEW r \in Request, NEW u \in User, InsertUser(r, u)
  PROVE  IInv'
<1> DEFINE q == [request[r] EXCEPT !.pc = "commit", !.user = u]
<1>1. request[r] \in RequestCols
  BY DEF IInv, TypeOK, RequestCols
<1>2. q \in RequestCols
  BY <1>1 DEF RequestCols
<1>3. q.pc = "commit" /\ q.user = u /\ q.phone = request[r].phone
  BY <1>1 DEF RequestCols
<1>4. /\ request' = [request EXCEPT ![r] = q] /\ UNCHANGED <<now, otps, users, tokens>>
      /\ ~PhoneTaken(q.phone) /\ ~PhoneLocked(q.phone)
      /\ ~UserRow(u) /\ \A p \in Request : request[p].user # u
  BY <1>3 DEF InsertUser
<1>5. q.phone \in Phone /\ Proved(q.phone)
  BY <1>3 DEF InsertUser, IInv, SlotsOK, SlotOK, At
<1> HIDE DEF q
<1>6. SlotOK(q)
  BY <1>3, <1>4, <1>5 DEF SlotOK
<1>7. \A p \in Request \ {r} : At(p, "commit") =>
        request[p].user # q.user /\ request[p].phone # q.phone
  BY <1>3, <1>4 DEF PhoneLocked, At
<1>8. tokens' \subseteq TokenCols
  BY <1>4 DEF IInv, TypeOK
<1> QED BY <1>2, <1>3, <1>4, <1>6, <1>7, <1>8, RequestIInv

LEMMA RegisterRespondIInv ==
  ASSUME IInv, NEW r \in Request, RegisterRespond(r)
  PROVE  IInv'
<1> DEFINE tk == Issued("access", request[r].user)
<1>1. request[r].user \in User /\ UserRow(request[r].user)
  BY DEF RegisterRespond, IInv, SlotsOK, SlotOK, At
<1>2. now + TokenTTL \in Stamp
  BY RegistrationAssumption DEF IInv, TypeOK, Stamp
<1>3. tk \in TokenCols /\ TokenOK(tk)
  BY <1>1, <1>2 DEF TokenCols, TokenOK, Issued
<1>4. Finish(r) /\ UNCHANGED <<now, otps, users>> /\ tokens' = tokens \cup {tk}
  BY DEF RegisterRespond
<1> HIDE DEF tk
<1>5. tokens' \subseteq TokenCols
  BY <1>3, <1>4 DEF IInv, TypeOK
<1> QED BY <1>3, <1>4, <1>5, DoneIInv

LEMMA LinkEmailIInv ==
  ASSUME IInv, NEW r \in Request, NEW tk \in tokens, NEW e \in Email, LinkEmail(r, tk, e)
  PROVE  IInv'
<1> DEFINE q == [NoRequest EXCEPT !.pc = "update", !.user = tk.subject, !.email = e]
<1>0. tk \in TokenCols /\ tk.typ = "access" /\ TokenOK(tk)
  BY DEF IInv, TypeOK, TokensOK, LinkEmail, Accepted
<1>1. tk.subject \in User /\ UserRow(tk.subject)
  BY <1>0 DEF TokenCols, TokenOK
<1>2. q \in RequestCols
  BY <1>1, IdleSlot DEF RequestCols
<1>3. q.pc = "update" /\ q.user = tk.subject /\ q.email = e
  BY DEF NoRequest
<1>4. request' = [request EXCEPT ![r] = q] /\ UNCHANGED <<now, otps, users, tokens>>
  BY DEF LinkEmail
<1> HIDE DEF q
<1>5. SlotOK(q)
  BY <1>1, <1>3 DEF SlotOK
<1>6. tokens' \subseteq TokenCols
  BY <1>4 DEF IInv, TypeOK
<1> QED BY <1>2, <1>3, <1>4, <1>5, <1>6, RequestIInv

-----------------------------------------------------------------------------
\* OTPs come and are counted on and marked, the users stay.
LEMMA OtpsIInv ==
  ASSUME IInv, NEW r \in Request, NEW q \in RequestCols,
         request' = [request EXCEPT ![r] = q], UNCHANGED <<now, users, tokens>>,
         otps' \in Seq(OtpCols), Len(otps') <= MaxOtps,
         \A i \in DOMAIN otps :
           /\ i \in DOMAIN otps' /\ otps'[i].phone = otps[i].phone
           /\ otps[i].used => otps'[i].used,
         SlotOK(q)', q.pc # "commit", GuessesCounted'
  PROVE  IInv'
<1>1. request' \in [Request -> RequestCols]
  BY DEF IInv, TypeOK, RequestCols
<1>2. TypeOK'
  BY <1>1 DEF IInv, TypeOK, RequestCols, UserRow
<1>3. \A p \in Request \ {r} : At(p, "commit") =>
        /\ users'[request[p].user].phone = NULL
        /\ \A u \in User : users'[u].phone # request[p].phone
  BY DEF IInv, SlotsOK, SlotOK, UserRow, PhoneTaken, At
<1> QED BY <1>2, <1>3, StepIInv

LEMMA CreateOtpIInv ==
  ASSUME IInv, NEW r \in Request, CreateOtp(r)
  PROVE  IInv'
<1> DEFINE o == [phone |-> request[r].phone, expires |-> request[r].expires,
                 attempts |-> 0, used |-> FALSE]
<1>1. o \in OtpCols
  BY DEF CreateOtp, IInv, TypeOK, SlotsOK, SlotOK, At, OtpCols
<1>2. /\ otps' = Append(otps, o) /\ Len(otps) < MaxOtps
      /\ request' = [request EXCEPT ![r] = NoRequest] /\ UNCHANGED <<now, users, tokens>>
  BY DEF CreateOtp, Finish
<1>3. otps \in Seq(OtpCols)
  BY DEF IInv, TypeOK
<1>4. o.attempts = 0
  OBVIOUS
<1> HIDE DEF o
<1>5. /\ otps' \in Seq(OtpCols) /\ Len(otps') = Len(otps) + 1
      /\ \A i \in 1 .. Len(otps) : otps'[i] = otps[i]
      /\ otps'[Len(otps) + 1] = o
      /\ DOMAIN otps = 1 .. Len(otps) /\ DOMAIN otps' = 1 .. Len(otps') /\ Len(otps) \in Nat
  BY <1>1, <1>2, <1>3, AppendProperties
<1>6. Len(otps') <= MaxOtps
  BY <1>2, <1>5, RegistrationAssumption
<1>7. GuessesCounted'
  <2> SUFFICES ASSUME NEW i \in DOMAIN otps'
               PROVE  otps'[i].attempts + Cardinality(Guessing(i)') <=
                        MaxAttempts + Cardinality(Request) - 1
    BY DEF GuessesCounted
  <2>1. Guessing(i)' \in SUBSET Request /\ Guessing(i) \in SUBSET Request
    BY DEF Guessing
  <2>2. CASE i \in DOMAIN otps
    <3>1. otps'[i] = otps[i] /\ otps[i].attempts \in Nat
      BY <1>5, <2>2, OtpRow DEF OtpCols
    <3>2. Guessing(i)' \subseteq Guessing(i)
      BY <1>2, IdleSlot DEF Guessing, At, IInv, TypeOK
    <3>3. Cardinality(Guessing(i)') <= Cardinality(Guessing(i))
      BY <2>1, <3>2, SubsetOfRequest, FS_Subset
    <3> QED BY <2>1, <2>2, <3>1, <3>3, SubsetOfRequest, RegistrationAssumption
            DEF IInv, GuessesCounted
  <2>3. CASE i \notin DOMAIN otps
    <3>1. otps'[i].attempts = 0
      BY <1>4, <1>5, <2>3
    <3> QED BY <2>1, <3>1, SubsetOfRequest, RegistrationAssumption
  <2> QED BY <2>2, <2>3
<1>8. SlotOK(NoRequest)'
  BY IdleSlot DEF SlotOK
<1>9. \A i \in DOMAIN otps :
        /\ i \in DOMAIN otps' /\ otps'[i].phone = otps[i].phone
        /\ otps[i].used => otps'[i].used
  BY <1>5
<1> QED BY <1>2, <1>5, <1>6, <1>7, <1>8, <1>9, IdleSlot, OtpsIInv

\* The request stops guessing in the step its guess is counted.
LEMMA VerifyIncrementIInv ==
  ASSUME IInv, NEW r \in Request, VerifyIncrement(r)
  PROVE  IInv'
<1> DEFINE k == request[r].otp
           o == [otps[k] EXCEPT !.attempts = otps[k].attempts + 1]
<1>1. k \in DOMAIN otps /\ r \in Guessing(k)
  BY DEF VerifyIncrement, IInv, SlotsOK, SlotOK, OtpsOf, At, Guessing
<1>2. k \in 1 .. Len(otps) /\ otps[k] \in OtpCols
  BY <1>1, OtpRow
<1>3. /\ o \in OtpCols /\ o.phone = otps[k].phone /\ o.used = otps[k].used
      /\ o.attempts = otps[k].attempts + 1 /\ otps[k].attempts \in Nat
  BY <1>2 DEF OtpCols
<1>4. /\ otps' = [otps EXCEPT ![k] = o]
      /\ request' = [request EXCEPT ![r] = NoRequest] /\ UNCHANGED <<now, users, tokens>>
  BY DEF VerifyIncrement, Finish
<1>5. otps \in Seq(OtpCols)
  BY DEF IInv, TypeOK
<1> HIDE DEF o, k
<1>6. /\ otps' \in Seq(OtpCols) /\ Len(otps') = Len(otps)
      /\ \A i \in 1 .. Len(otps) : otps'[i] = IF i = k THEN o ELSE otps[i]
      /\ DOMAIN otps = 1 .. Len(otps) /\ DOMAIN otps' = 1 .. Len(otps)
  BY <1>2, <1>3, <1>4, <1>5, ExceptSeq
<1>7. GuessesCounted'
  <2> SUFFICES ASSUME NEW i \in DOMAIN otps
               PROVE  otps'[i].attempts + Cardinality(Guessing(i)') <=
                        MaxAttempts + Cardinality(Request) - 1
    BY <1>6 DEF GuessesCounted
  <2>1. Guessing(i) \in SUBSET Request /\ Guessing(i)' = Guessing(i) \ {r}
    BY <1>4, IdleSlot DEF Guessing, At, IInv, TypeOK
  <2>2. /\ IsFiniteSet(Guessing(i)) /\ Cardinality(Guessing(i)) \in Nat
        /\ Cardinality(Request) \in Nat /\ otps[i].attempts \in Nat
        /\ otps[i].attempts + Cardinality(Guessing(i)) <= MaxAttempts + Cardinality(Request) - 1
    BY <2>1, SubsetOfRequest, OtpRow DEF IInv, GuessesCounted, OtpCols
  <2>3. Cardinality(Guessing(i) \ {r}) =
          IF r \in Guessing(i) THEN Cardinality(Guessing(i)) - 1 ELSE Cardinality(Guessing(i))
    BY <2>2, FS_RemoveElement
  <2>4. CASE i = k
    BY <1>1, <1>3, <1>6, <2>1, <2>2, <2>3, <2>4, RegistrationAssumption
  <2>5. CASE i # k
    BY <1>6, <2>1, <2>2, <2>3, <2>5, RegistrationAssumption
  <2> QED BY <2>4, <2>5
<1>8. SlotOK(NoRequest)'
  BY IdleSlot DEF SlotOK
<1>9. Len(otps') <= MaxOtps
  BY <1>6 DEF IInv
<1>10. \A i \in DOMAIN otps :
         /\ i \in DOMAIN otps' /\ otps'[i].phone = otps[i].phone
         /\ otps[i].used => otps'[i].used
  BY <1>3, <1>6
<1> QED BY <1>4, <1>6, <1>7, <1>8, <1>9, <1>10, IdleSlot, OtpsIInv

LEMMA VerifyMarkIInv ==
  ASSUME IInv, NEW r \in Request, VerifyMark(r)
  PROVE  IInv'
<1> PICK k : k = request[r].otp
  OBVIOUS
<1> DEFINE o == [otps[k] EXCEPT !.used = TRUE]
<1>1. k \in OtpsOf(request[r].phone) /\ k \in DOMAIN otps /\ request[r].phone \in Phone
  BY DEF VerifyMark, IInv, SlotsOK, SlotOK, OtpsOf, At
<1>2. k \in 1 .. Len(otps) /\ otps[k] \in OtpCols
  BY <1>1, OtpRow
<1>3. /\ o \in OtpCols /\ o.phone = otps[k].phone /\ o.used
      /\ o.attempts = otps[k].attempts
  BY <1>2 DEF OtpCols
<1>4. request[r] \in RequestCols
  BY DEF IInv, TypeOK, RequestCols
<1>5. PICK q \in RequestCols : q = [request[r] EXCEPT !.pc = "verified"]
  BY <1>4 DEF RequestCols
<1>6. q.pc = "verified" /\ q.otp = k /\ q.phone = request[r].phone
  BY <1>4, <1>5 DEF RequestCols
<1>7. /\ otps' = [otps EXCEPT ![k] = o]
      /\ request' = [request EXCEPT ![r] = q] /\ UNCHANGED <<now, users, tokens>>
  BY <1>5 DEF VerifyMark, Proceed
<1>8. otps \in Seq(OtpCols)
  BY DEF IInv, TypeOK
<1> HIDE DEF o
<1>9. /\ otps' \in Seq(OtpCols) /\ Len(otps') = Len(otps)
      /\ \A i \in 1 .. Len(otps) : otps'[i] = IF i = k THEN o ELSE otps[i]
      /\ DOMAIN otps = 1 .. Len(otps) /\ DOMAIN otps' = 1 .. Len(otps)
  BY <1>2, <1>3, <1>7, <1>8, ExceptSeq
<1>10. \A i \in DOMAIN otps :
         /\ i \in DOMAIN otps' /\ otps'[i].phone = otps[i].phone
         /\ otps[i].used => otps'[i].used
  BY <1>3, <1>9
<1>11. GuessesCounted'
  <2> SUFFICES ASSUME NEW i \in DOMAIN otps
               PROVE  otps'[i].attempts + Cardinality(Guessing(i)') <=
                        MaxAttempts + Cardinality(Request) - 1
    BY <1>9 DEF GuessesCounted
  <2>1. Guessing(i)' = Guessing(i)
    BY <1>6, <1>7 DEF Guessing, At, IInv, TypeOK, VerifyMark
  <2>2. otps'[i].attempts = otps[i].attempts
    BY <1>3, <1>9
  <2> QED BY <2>1, <2>2 DEF IInv, GuessesCounted
<1>12. SlotOK(q)'
  <2>1. k \in DOMAIN otps' /\ otps'[k].used /\ otps'[k].phone = otps[k].phone
    BY <1>2, <1>3, <1>9
  <2>2. q.otp \in OtpsOf(q.phone)' /\ otps'[q.otp].used /\ q.phone \in Phone
    BY <1>1, <1>6, <2>1 DEF OtpsOf
  <2> QED BY <1>6, <2>2 DEF SlotOK
<1>13. Len(otps') <= MaxOtps
  BY <1>9 DEF IInv
<1> QED BY <1>6, <1>7, <1>9, <1>10, <1>11, <1>12, <1>13, OtpsIInv

-----------------------------------------------------------------------------
\* A user comes or changes, the OTPs and the JWTs stay.
LEMMA UsersIInv ==
  ASSUME IInv, NEW r \in Request, NEW q \in RequestCols, NEW u \in User, NEW c \in UserCols,
         request' = [request EXCEPT ![r] = q], UNCHANGED <<now, otps, tokens>>,
         users' = [users EXCEPT ![u] = c], c.phone # NULL, c.session,
         UserRow(u) => c.phone = users[u].phone,
         \A p \in Request \ {r} : At(p, "commit") =>
           request[p].user # u /\ request[p].phone # c.phone,
         SlotOK(q)', q.pc # "commit", q.pc # "increment"
  PROVE  IInv'
<1>1. /\ request'[r] = q
      /\ \A p \in Request \ {r} : request'[p] = request[p]
      /\ request' \in [Request -> RequestCols]
  BY DEF IInv, TypeOK, RequestCols
<1>2. /\ users' \in [User -> UserCols] /\ users'[u] = c
      /\ \A v \in User \ {u} : users'[v] = users[v]
  BY DEF IInv, TypeOK
<1>3. TypeOK'
  <2>1. \A v \in User : users'[v].session \in BOOLEAN
    BY <1>2 DEF UserCols
  <2>2. \A v \in User : /\ (users'[v].phone # NULL) = users'[v].session
                        /\ users'[v].phone = NULL => users'[v] = NoUser
    <3> SUFFICES ASSUME NEW v \in User
                 PROVE  /\ (users'[v].phone # NULL) = users'[v].session
                        /\ users'[v].phone = NULL => users'[v] = NoUser
      OBVIOUS
    <3>1. CASE v = u
      <4>1. c.session = TRUE /\ (c.phone # NULL) = TRUE
        BY DEF UserCols
      <4> QED BY <1>2, <3>1, <4>1
    <3>2. CASE v # u
      BY <1>2, <3>2 DEF IInv, TypeOK, UserRow
    <3> QED BY <3>1, <3>2
  <2> QED BY <1>1, <1>2, <2>2 DEF IInv, TypeOK, RequestCols, UserRow
<1>4. \A v \in User : users[v].phone # NULL => users'[v].phone # NULL
  BY <1>2
<1>5. \A p \in Request \ {r} : At(p, "commit") =>
        /\ users'[request[p].user].phone = NULL
        /\ \A v \in User : users'[v].phone # request[p].phone
  BY <1>2 DEF IInv, SlotsOK, SlotOK, UserRow, PhoneTaken, At
<1>6. GuessesCounted'
  <2> SUFFICES ASSUME NEW i \in DOMAIN otps
               PROVE  otps[i].attempts + Cardinality(Guessing(i)') <=
                        MaxAttempts + Cardinality(Request) - 1
    BY DEF GuessesCounted
  <2>1. /\ Guessing(i)' \in SUBSET Request /\ Guessing(i) \in SUBSET Request
        /\ Guessing(i)' \subseteq Guessing(i)
    BY <1>1 DEF Guessing, At
  <2>2. Cardinality(Guessing(i)') <= Cardinality(Guessing(i))
    BY <2>1, SubsetOfRequest, FS_Subset
  <2>3. otps[i].attempts \in Nat
    BY OtpRow DEF OtpCols
  <2> QED BY <2>1, <2>2, <2>3, SubsetOfRequest, RegistrationAssumption DEF IInv, GuessesCounted
<1>7. \A tk \in tokens' \ tokens : TokenOK(tk)'
  OBVIOUS
<1>8. \A i \in DOMAIN otps :
        /\ i \in DOMAIN otps' /\ otps'[i].phone = otps[i].phone
        /\ otps[i].used => otps'[i].used
  OBVIOUS
<1>9. Len(otps') <= MaxOtps
  BY DEF IInv
<1> QED BY <1>3, <1>4, <1>5, <1>6, <1>7, <1>8, <1>9, StepIInv

LEMMA CommitUserIInv ==
  ASSUME IInv, NEW r \in Request, CommitUser(r)
  PROVE  IInv'
<1>1. request[r] \in RequestCols
  BY DEF IInv, TypeOK, RequestCols
<1>2. PICK q \in RequestCols : q = [request[r] EXCEPT !.pc = "registered"]
  BY <1>1 DEF RequestCols
<1>3. q.pc = "registered" /\ q.user = request[r].user /\ q.phone = request[r].phone
  BY <1>1, <1>2 DEF RequestCols
<1>4. /\ request[r].phone \in Phone /\ request[r].user \in User
      /\ ~UserRow(request[r].user) /\ At(r, "commit")
  BY DEF CommitUser, IInv, SlotsOK, SlotOK, At
<1>5. PICK u \in User : u = request[r].user
  BY <1>4
<1>6. PICK c \in UserCols : c = [NoUser EXCEPT !.phone = request[r].phone, !.session = TRUE]
  BY <1>4 DEF NoUser, UserCols
<1>7. c.phone = request[r].phone /\ c.session /\ c.phone # NULL
  BY <1>4, <1>6, RegistrationAssumption DEF NoUser
<1>8. /\ users' = [users EXCEPT ![u] = c] /\ request' = [request EXCEPT ![r] = q]
      /\ UNCHANGED <<now, otps, tokens>>
  BY <1>2, <1>5, <1>6 DEF CommitUser, Proceed
<1>9. \A p \in Request \ {r} : At(p, "commit") =>
        request[p].user # u /\ request[p].phone # c.phone
  BY <1>4, <1>5, <1>7 DEF IInv, SlotsApart
<1>10. users'[u].phone # NULL
  BY <1>7, <1>8 DEF IInv, TypeOK
<1>11. SlotOK(q)'
  BY <1>3, <1>4, <1>5, <1>10 DEF SlotOK, UserRow
<1> QED BY <1>3, <1>4, <1>5, <1>7, <1>8, <1>9, <1>11, UsersIInv

LEMMA LinkUpdateIInv ==
  ASSUME IInv, NEW r \in Request, LinkUpdate(r)
  PROVE  IInv'
<1>1. /\ request[r].user \in User /\ UserRow(request[r].user) /\ request[r].email \in Email
  BY DEF LinkUpdate, IInv, SlotsOK, SlotOK, At
<1>2. PICK u \in User : u = request[r].user
  BY <1>1
<1>3. users[u] \in UserCols /\ UserRow(u) = users[u].session
  BY DEF IInv, TypeOK
<1>4. PICK c \in UserCols : c = [users[u] EXCEPT !.email = request[r].email]
  BY <1>1, <1>3 DEF UserCols
<1>5. c.phone = users[u].phone /\ c.session = users[u].session
  BY <1>3, <1>4 DEF UserCols
<1>6. c.phone # NULL /\ c.session
  BY <1>1, <1>2, <1>3, <1>5 DEF UserRow
<1>7. /\ users' = [users EXCEPT ![u] = c] /\ request' = [request EXCEPT ![r] = NoRequest]
      /\ UNCHANGED <<now, otps, tokens>>
  BY <1>2, <1>4 DEF LinkUpdate, Finish
<1>8. \A p \in Request \ {r} : At(p, "commit") =>
        request[p].user # u /\ request[p].phone # c.phone
  BY <1>1, <1>2, <1>5 DEF IInv, SlotsOK, SlotOK, UserRow, PhoneTaken, At
<1>9. SlotOK(NoRequest)' /\ NoRequest.pc # "commit" /\ NoRequest.pc # "increment"
  BY IdleSlot DEF SlotOK
<1> QED BY <1>5, <1>6, <1>7, <1>8, <1>9, IdleSlot, UsersIInv

-----------------------------------------------------------------------------
LEMMA NextIInv == IInv /\ [Next]_vars => IInv'
<1> SUFFICES ASSUME IInv, [Next]_vars PROVE IInv'
  OBVIOUS
<1>0. tokens \subseteq TokenCols
  BY DEF IInv, TypeOK
<1>1. CASE Tick
  BY <1>1, TickIInv
<1>2. ASSUME NEW r \in Request, NEW p \in Phone,
             RequestRegisterOTP(r, p) \/ VerifyRegisterOTP(r, p)
      PROVE  IInv'
  BY <1>2, RequestRegisterOTPIInv, VerifyRegisterOTPIInv
<1>3. ASSUME NEW r \in Request, CreateOtp(r) PROVE IInv'
  BY <1>3, CreateOtpIInv
<1>4. ASSUME NEW r \in Request, VerifyCompare(r) PROVE IInv'
  BY <1>4, VerifyCompareIInv
<1>5. ASSUME NEW r \in Request, VerifyIncrement(r) PROVE IInv'
  BY <1>5, VerifyIncrementIInv
<1>6. ASSUME NEW r \in Request, VerifyIssue(r) PROVE IInv'
  BY <1>6, VerifyIssueIInv
<1>7. ASSUME NEW r \in Request, VerifyMark(r) PROVE IInv'
  BY <1>7, VerifyMarkIInv
<1>8. ASSUME NEW r \in Request, VerifyRespond(r) PROVE IInv'
  BY <1>8, VerifyRespondIInv
<1>9. ASSUME NEW r \in Request, NEW tk \in tokens, CompleteRegister(r, tk) PROVE IInv'
  BY <1>9, CompleteRegisterIInv
<1>10. ASSUME NEW r \in Request, NEW u \in User, InsertUser(r, u) PROVE IInv'
  BY <1>10, InsertUserIInv
<1>11. ASSUME NEW r \in Request, CommitUser(r) PROVE IInv'
  BY <1>11, CommitUserIInv
<1>12. ASSUME NEW r \in Request, RegisterRespond(r) PROVE IInv'
  BY <1>12, RegisterRespondIInv
<1>13. ASSUME NEW r \in Request, NEW tk \in tokens, NEW e \in Email, LinkEmail(r, tk, e)
       PROVE  IInv'
  BY <1>13, LinkEmailIInv
<1>14. ASSUME NEW r \in Request, LinkUpdate(r) PROVE IInv'
  BY <1>14, LinkUpdateIInv
<1>15. ASSUME NEW r \in Request, VerifyRefuse(r) \/ InsertTaken(r) \/ LinkTaken(r) \/ Abort(r)
       PROVE  IInv'
  <2>1. Finish(r) /\ UNCHANGED <<now, otps, users, tokens>>
    BY <1>15 DEF VerifyRefuse, InsertTaken, LinkTaken, Abort
  <2> QED BY <1>0, <2>1, DoneIInv
<1>16. CASE UNCHANGED vars
  <2>1. TypeOK' /\ SlotsOK' /\ SlotsApart'
    BY <1>16 DEF vars, IInv, TypeOK, SlotsOK, SlotOK, SlotsApart, OtpsOf, Proved, UserRow,
                 PhoneTaken, At
  <2>2. TokensOK' /\ GuessesCounted'
    BY <1>16 DEF vars, IInv, TokensOK, TokenOK, OtpsOf, Proved, UserRow, GuessesCounted,
                 Guessing, At
  <2> QED BY <1>16, <2>1, <2>2 DEF IInv, vars
<1> QED BY <1>1, <1>2, <1>3, <1>4, <1>5, <1>6, <1>7, <1>8, <1>9, <1>10, <1>11, <1>12, <1>13,
           <1>14, <1>15, <1>16 DEF Next

\* What a request holds, what the unique indexes keep apart, what JWTs stand
\* for and how guesses are counted keep one another in every step.
THEOREM Inductive == Spec => []IInv
<1> QED BY InitIInv, NextIInv, PTL DEF Spec

\* Rows, JWTs and requests keep to their columns, and a user row is there with
\* its refresh token or not at all.
THEOREM TypeCorrect == Spec => []TypeOK
<1>1. IInv => TypeOK
  BY DEF IInv
<1> QED BY <1>1, Inductive, PTL

\* However many requests compare at once before one of them counts its attempt,
\* an OTP's attempts overrun the limit by fewer than there are requests.
THEOREM GuessesStayBounded == Spec => []GuessesBounded
<1>1. ASSUME IInv PROVE GuessesBounded
  <2> SUFFICES ASSUME NEW i \in DOMAIN otps
               PROVE  otps[i].attempts <= MaxAttempts + Cardinality(Request) - 1
    BY DEF GuessesBounded
  <2>1. otps[i].attempts \in Nat /\ Guessing(i) \in SUBSET Request
    BY <1>1, OtpRow DEF OtpCols, Guessing
  <2>2. otps[i].attempts + Cardinality(Guessing(i)) <= MaxAttempts + Cardinality(Request) - 1
    BY <1>1 DEF IInv, GuessesCounted
  <2> QED BY <2>1, <2>2, SubsetOfRequest, RegistrationAssumption
<1> QED BY <1>1, Inductive, PTL

-----------------------------------------------------------------------------
(* An OTP that is over: only a comparison gives a request an OTP, and it   *)
(* takes none that is over.                                                *)

LEMMA ClosedFrame ==
  ASSUME IInv, NEW i \in DOMAIN otps, Closed(i),
         NEW r \in Request, NEW q \in RequestCols, request' = [request EXCEPT ![r] = q],
         q.otp = i => q.pc = "verified",
         \A j \in DOMAIN otps : j \in DOMAIN otps' /\ otps'[j].phone = otps[j].phone,
         otps'[i] = otps[i], now' = now
  PROVE  otps'[i] = otps[i] /\ Closed(i)'
<1>1. request'[r] = q /\ \A p \in Request \ {r} : request'[p] = request[p]
  BY DEF IInv, TypeOK
<1>2. Latest(i)' => Latest(i)
  BY DEF Latest, OtpsOf
<1>3. ~ (Latest(i) /\ ~otps[i].used /\ ~Expired(i) /\ AttemptsLeft(i))'
  BY <1>2 DEF Closed, Expired, AttemptsLeft
<1>4. \A p \in Request : request'[p].otp = i => request'[p].pc = "verified"
  BY <1>1 DEF Closed, At
<1> QED BY <1>3, <1>4 DEF Closed, At

LEMMA ClosedStep ==
  ASSUME IInv, [Next]_vars, NEW i \in DOMAIN otps, Closed(i)
  PROVE  otps'[i] = otps[i] /\ Closed(i)'
<1>0. i # 0 /\ i \in 1 .. Len(otps) /\ otps \in Seq(OtpCols)
  BY OtpRow DEF IInv, TypeOK
<1>1. CASE Tick \/ UNCHANGED vars
  <2>1. UNCHANGED <<otps, request>> /\ now' \in Nat /\ now \in Nat /\ now' >= now
    BY <1>1, RegistrationAssumption DEF Tick, vars, IInv, TypeOK
  <2>2. otps[i].expires \in Nat
    BY OtpRow, RegistrationAssumption DEF OtpCols, Stamp
  <2> QED BY <2>1, <2>2 DEF Closed, Latest, OtpsOf, Expired, AttemptsLeft, At
<1>2. ASSUME NEW r \in Request, NEW q \in RequestCols, q.otp = 0,
             request' = [request EXCEPT ![r] = q], UNCHANGED <<now, otps>>
      PROVE  otps'[i] = otps[i] /\ Closed(i)'
  BY <1>0, <1>2, ClosedFrame
<1>3. ASSUME NEW r \in Request, NEW p \in Phone,
             RequestRegisterOTP(r, p) \/ VerifyRegisterOTP(r, p)
      PROVE  otps'[i] = otps[i] /\ Closed(i)'
  <2>1. now + OtpTTL \in Stamp
    BY RegistrationAssumption DEF IInv, TypeOK, Stamp
  <2>2. PICK q : /\ request' = [request EXCEPT ![r] = q] /\ UNCHANGED <<now, otps>>
                 /\ \/ q = [NoRequest EXCEPT !.pc = "create", !.phone = p, !.expires = now + OtpTTL]
                    \/ q = [NoRequest EXCEPT !.pc = "latest", !.phone = p]
    BY <1>3 DEF RequestRegisterOTP, VerifyRegisterOTP
  <2>3. q \in RequestCols
    BY <2>1, <2>2, IdleSlot DEF RequestCols
  <2>4. q.otp = 0
    BY <2>2 DEF NoRequest
  <2> QED BY <1>2, <2>2, <2>3, <2>4
<1>4. ASSUME NEW r \in Request, NEW tk \in tokens,
             CompleteRegister(r, tk) \/ \E e \in Email : LinkEmail(r, tk, e)
      PROVE  otps'[i] = otps[i] /\ Closed(i)'
  <2>1. tk \in TokenCols
    BY DEF IInv, TypeOK
  <2>2. PICK q : /\ request' = [request EXCEPT ![r] = q] /\ UNCHANGED <<now, otps>>
                 /\ \/ /\ q = [NoRequest EXCEPT !.pc = "insert", !.phone = tk.subject]
                       /\ tk.typ = "register"
                    \/ /\ \E e \in Email :
                            q = [NoRequest EXCEPT !.pc = "update", !.user = tk.subject, !.email = e]
                       /\ tk.typ = "access"
    BY <1>4 DEF CompleteRegister, LinkEmail, Accepted
  <2>3. q \in RequestCols
    BY <2>1, <2>2, IdleSlot DEF RequestCols, TokenCols
  <2>4. q.otp = 0
    BY <2>2 DEF NoRequest
  <2> QED BY <1>2, <2>2, <2>3, <2>4
<1>5. ASSUME NEW r \in Request, Finish(r), UNCHANGED <<now, otps>>
      PROVE  otps'[i] = otps[i] /\ Closed(i)'
  BY <1>2, <1>5, IdleSlot DEF Finish
<1>6. ASSUME NEW r \in Request, CreateOtp(r)
      PROVE  otps'[i] = otps[i] /\ Closed(i)'
  <2> DEFINE o == [phone |-> request[r].phone, expires |-> request[r].expires,
                   attempts |-> 0, used |-> FALSE]
  <2>1. o \in OtpCols
    BY <1>6 DEF CreateOtp, IInv, TypeOK, SlotsOK, SlotOK, At, OtpCols
  <2>2. otps' = Append(otps, o) /\ request' = [request EXCEPT ![r] = NoRequest] /\ now' = now
    BY <1>6 DEF CreateOtp, Finish
  <2> HIDE DEF o
  <2>3. /\ otps'[i] = otps[i]
        /\ \A j \in DOMAIN otps : j \in DOMAIN otps' /\ otps'[j].phone = otps[j].phone
    BY <1>0, <2>1, <2>2, AppendProperties
  <2> QED BY <1>0, <2>2, <2>3, IdleSlot, ClosedFrame
<1>7. ASSUME NEW r \in Request, VerifyCompare(r)
      PROVE  otps'[i] = otps[i] /\ Closed(i)'
  <2> PICK j \in OtpsOf(request[r].phone), pc \in {"issue", "increment"} :
        /\ Open(j)
        /\ request' = [request EXCEPT ![r] = [@ EXCEPT !.pc = pc, !.otp = j]]
    BY <1>7 DEF VerifyCompare
  <2>1. request[r] \in RequestCols /\ j \in 0 .. MaxOtps
    BY OtpRow DEF IInv, TypeOK, RequestCols, OtpsOf
  <2>2. PICK q \in RequestCols : q = [request[r] EXCEPT !.pc = pc, !.otp = j]
    BY <2>1 DEF RequestCols
  <2>3. q.otp = j /\ request' = [request EXCEPT ![r] = q] /\ UNCHANGED <<now, otps>>
    BY <1>7, <2>1, <2>2 DEF VerifyCompare, RequestCols
  <2>4. j # i
    BY DEF Open, Used, Closed
  <2> QED BY <2>3, <2>4, ClosedFrame
<1>8. ASSUME NEW r \in Request, request[r].pc # "verified",
             VerifyIssue(r) \/ VerifyMark(r) \/ CommitUser(r) \/ \E u \in User : InsertUser(r, u),
             \E q \in RequestCols :
               request' = [request EXCEPT ![r] = q] /\ q.otp = request[r].otp
      PROVE  otps'[i] = otps[i] /\ Closed(i)'
  <2>1. request[r].otp # i
    BY <1>8 DEF Closed, At
  <2>2. /\ otps'[i] = otps[i] /\ now' = now
        /\ \A j \in DOMAIN otps : j \in DOMAIN otps' /\ otps'[j].phone = otps[j].phone
    <3>1. CASE VerifyMark(r)
      <4>1. otps' = [otps EXCEPT ![request[r].otp] = [@ EXCEPT !.used = TRUE]] /\ now' = now
        BY <3>1 DEF VerifyMark
      <4>2. \A j \in DOMAIN otps : otps[j] \in OtpCols
        BY OtpRow
      <4> QED BY <1>0, <2>1, <4>1, <4>2 DEF OtpCols
    <3>2. CASE ~VerifyMark(r)
      BY <1>8, <3>2 DEF VerifyIssue, CommitUser, InsertUser
    <3> QED BY <3>1, <3>2
  <2>3. PICK q \in RequestCols :
          request' = [request EXCEPT ![r] = q] /\ q.otp = request[r].otp
    BY <1>8
  <2> QED BY <2>1, <2>2, <2>3, ClosedFrame
<1>9. ASSUME NEW r \in Request,
             VerifyIssue(r) \/ VerifyMark(r) \/ CommitUser(r) \/ \E u \in User : InsertUser(r, u)
      PROVE  otps'[i] = otps[i] /\ Closed(i)'
  <2>1. request[r] \in RequestCols /\ now + TokenTTL \in Stamp
    BY RegistrationAssumption DEF IInv, TypeOK, RequestCols, Stamp
  <2>2. request[r].pc # "verified"
    BY <1>9 DEF VerifyIssue, VerifyMark, CommitUser, InsertUser, At
  <2>3. CASE VerifyIssue(r)
    <3> DEFINE q == [request[r] EXCEPT !.pc = "mark", !.expires = now + TokenTTL]
    <3>1. q \in RequestCols /\ q.otp = request[r].otp
      BY <2>1 DEF RequestCols
    <3>2. request' = [request EXCEPT ![r] = q]
      BY <2>3 DEF VerifyIssue
    <3> QED BY <1>8, <1>9, <2>2, <3>1, <3>2
  <2>4. CASE VerifyMark(r) \/ CommitUser(r)
    <3>1. PICK pc \in {"verified", "registered"} : Proceed(r, pc)
      BY <2>4 DEF VerifyMark, CommitUser
    <3> DEFINE q == [request[r] EXCEPT !.pc = pc]
    <3>2. q \in RequestCols /\ q.otp = request[r].otp
      BY <2>1 DEF RequestCols
    <3>3. request' = [request EXCEPT ![r] = q]
      BY <3>1 DEF Proceed
    <3> QED BY <1>8, <1>9, <2>2, <3>2, <3>3
  <2>5. ASSUME NEW u \in User, InsertUser(r, u)
        PROVE  otps'[i] = otps[i] /\ Closed(i)'
    <3> DEFINE q == [request[r] EXCEPT !.pc = "commit", !.user = u]
    <3>1. q \in RequestCols /\ q.otp = request[r].otp
      BY <2>1 DEF RequestCols
    <3>2. request' = [request EXCEPT ![r] = q]
      BY <2>5 DEF InsertUser
    <3> QED BY <1>8, <1>9, <2>2, <3>1, <3>2
  <2> QED BY <1>9, <2>3, <2>4, <2>5
<1>10. ASSUME NEW r \in Request, VerifyIncrement(r)
       PROVE  otps'[i] = otps[i] /\ Closed(i)'
  <2>1. request[r].otp # i
    BY <1>10 DEF Closed, At, VerifyIncrement
  <2>2. /\ otps' = [otps EXCEPT ![request[r].otp].attempts = @ + 1] /\ now' = now
        /\ request' = [request EXCEPT ![r] = NoRequest]
    BY <1>10 DEF VerifyIncrement, Finish
  <2>3. \A j \in DOMAIN otps : otps[j] \in OtpCols
    BY OtpRow
  <2>4. /\ otps'[i] = otps[i]
        /\ \A j \in DOMAIN otps : j \in DOMAIN otps' /\ otps'[j].phone = otps[j].phone
    BY <1>0, <2>1, <2>2, <2>3 DEF OtpCols
  <2> QED BY <1>0, <2>2, <2>4, IdleSlot, ClosedFrame
<1>11. ASSUME NEW r \in Request,
              VerifyRefuse(r) \/ VerifyRespond(r) \/ InsertTaken(r) \/ RegisterRespond(r)
                \/ LinkUpdate(r) \/ LinkTaken(r) \/ Abort(r)
       PROVE  otps'[i] = otps[i] /\ Closed(i)'
  BY <1>5, <1>11 DEF VerifyRefuse, VerifyRespond, InsertTaken, RegisterRespond, LinkUpdate,
                     LinkTaken, Abort
<1> QED BY <1>1, <1>3, <1>4, <1>6, <1>7, <1>9, <1>10, <1>11 DEF Next

\* An OTP that was used, replaced or guessed at too often, or is too late, is
\* over for good, whatever the requests that already had it still do.
THEOREM ClosedForGood == Spec => ClosedOtpStaysClosed
<1>1. IInv /\ [Next]_vars =>
        [\A i \in DOMAIN otps : Closed(i) => otps'[i] = otps[i] /\ Closed(i)']_vars
  BY ClosedStep
<1> QED BY <1>1, Inductive, PTL DEF Spec, ClosedOtpStaysClosed

-----------------------------------------------------------------------------
(* A verification that lapsed.                                             *)

LEMMA UnprovedFrame ==
  ASSUME IInv, NEW p \in Phone, Unproved(p),
         NEW r \in Request, NEW q, request' = [request EXCEPT ![r] = q],
         q.phone = p => q.pc \in {"create", "latest", "increment"},
         \A u \in User : users'[u].phone = p => users[u].phone = p,
         \A tk \in tokens' \ tokens : tk.subject # p, now' = now
  PROVE  Unproved(p)'
<1>1. request'[r] = q /\ \A x \in Request \ {r} : request'[x] = request[x]
  BY DEF IInv, TypeOK
<1>2. ~PhoneTaken(p)'
  BY DEF Unproved, PhoneTaken
<1>3. \A x \in Request : request'[x].phone = p =>
        request'[x].pc \in {"create", "latest", "increment"}
  BY <1>1 DEF Unproved
<1>4. \A tk \in tokens' : tk.subject = p => now' >= tk.expires
  BY DEF Unproved
<1> QED BY <1>2, <1>3, <1>4 DEF Unproved

LEMMA UnprovedStep ==
  ASSUME IInv, [Next]_vars, NEW p \in Phone, Unproved(p), \A i \in OtpsOf(p) : ~Open(i)
  PROVE  Unproved(p)'
<1> USE RegistrationAssumption
<1>0. p # NULL
  OBVIOUS
<1>1. CASE Tick \/ UNCHANGED vars
  <2>1. /\ UNCHANGED <<users, request, tokens>>
        /\ now' \in Nat /\ now \in Nat /\ now' >= now
    BY <1>1 DEF Tick, vars, IInv, TypeOK
  <2>2. \A tk \in tokens : tk.expires \in Nat
    BY DEF IInv, TypeOK, TokenCols, Stamp
  <2> QED BY <2>1, <2>2 DEF Unproved, PhoneTaken
<1>2. ASSUME NEW r \in Request, Finish(r), UNCHANGED <<now, users, tokens>>
      PROVE  Unproved(p)'
  <2>1. NoRequest.phone # p
    BY <1>0 DEF NoRequest
  <2> QED BY <1>2, <2>1, UnprovedFrame DEF Finish
<1>3. ASSUME NEW r \in Request, NEW x \in Phone,
             RequestRegisterOTP(r, x) \/ VerifyRegisterOTP(r, x)
      PROVE  Unproved(p)'
  <2>1. PICK q : /\ request' = [request EXCEPT ![r] = q] /\ UNCHANGED <<now, users, tokens>>
                 /\ \/ q = [NoRequest EXCEPT !.pc = "create", !.phone = x, !.expires = now + OtpTTL]
                    \/ q = [NoRequest EXCEPT !.pc = "latest", !.phone = x]
    BY <1>3 DEF RequestRegisterOTP, VerifyRegisterOTP
  <2>2. q.pc \in {"create", "latest", "increment"}
    BY <2>1 DEF NoRequest
  <2> QED BY <2>1, <2>2, UnprovedFrame
<1>4. ASSUME NEW r \in Request, VerifyCompare(r)
      PROVE  Unproved(p)'
  <2> PICK i \in OtpsOf(request[r].phone), pc \in {"issue", "increment"} :
        /\ Open(i)
        /\ request' = [request EXCEPT ![r] = [@ EXCEPT !.pc = pc, !.otp = i]]
    BY <1>4 DEF VerifyCompare
  <2>1. PICK q : q = [request[r] EXCEPT !.pc = pc, !.otp = i]
    OBVIOUS
  <2>2. request[r] \in RequestCols
    BY DEF IInv, TypeOK, RequestCols
  <2>3. q.phone = request[r].phone /\ request' = [request EXCEPT ![r] = q]
    BY <2>1, <2>2 DEF RequestCols
  <2>4. q.phone # p
    BY <2>3
  <2> QED BY <1>4, <2>3, <2>4, UnprovedFrame DEF VerifyCompare
<1>5. ASSUME NEW r \in Request, VerifyIssue(r) \/ VerifyMark(r) \/ CommitUser(r)
      PROVE  Unproved(p)'
  <2>1. request[r].phone # p
    BY <1>5 DEF Unproved, VerifyIssue, VerifyMark, CommitUser, At
  <2>2. request[r] \in RequestCols
    BY DEF IInv, TypeOK, RequestCols
  <2>3. PICK q : q.phone = request[r].phone /\ request' = [request EXCEPT ![r] = q]
    <3>1. CASE VerifyIssue(r)
      BY <2>2, <3>1 DEF VerifyIssue, RequestCols
    <3>2. CASE VerifyMark(r)
      BY <2>2, <3>2 DEF VerifyMark, Proceed, RequestCols
    <3>3. CASE CommitUser(r)
      BY <2>2, <3>3 DEF CommitUser, Proceed, RequestCols
    <3> QED BY <1>5, <3>1, <3>2, <3>3
  <2>4. \A u \in User : users'[u].phone = p => users[u].phone = p
    <3>1. CASE CommitUser(r)
      <4>1. PICK c : c = [NoUser EXCEPT !.phone = request[r].phone, !.session = TRUE]
        OBVIOUS
      <4>2. c.phone # p /\ users' = [users EXCEPT ![request[r].user] = c]
        BY <2>1, <3>1, <4>1 DEF NoUser, CommitUser
      <4> QED BY <4>2 DEF IInv, TypeOK
    <3>2. CASE ~CommitUser(r)
      BY <1>5, <3>2 DEF VerifyIssue, VerifyMark
    <3> QED BY <3>1, <3>2
  <2>5. UNCHANGED <<now, tokens>>
    BY <1>5 DEF VerifyIssue, VerifyMark, CommitUser
  <2> QED BY <2>1, <2>3, <2>4, <2>5, UnprovedFrame
<1>6. ASSUME NEW r \in Request, VerifyRespond(r) \/ RegisterRespond(r)
      PROVE  Unproved(p)'
  <2>1. \A tk \in tokens' \ tokens : tk.subject # p
    <3>1. CASE VerifyRespond(r)
      BY <3>1 DEF VerifyRespond, Unproved, At
    <3>2. CASE RegisterRespond(r)
      BY <3>2 DEF RegisterRespond, Issued, IInv, SlotsOK, SlotOK, At
    <3> QED BY <1>6, <3>1, <3>2
  <2>2. Finish(r) /\ UNCHANGED <<now, users>>
    BY <1>6 DEF VerifyRespond, RegisterRespond
  <2>3. NoRequest.phone # p
    BY <1>0 DEF NoRequest
  <2> QED BY <2>1, <2>2, <2>3, UnprovedFrame DEF Finish
<1>7. ASSUME NEW r \in Request, NEW tk \in tokens, CompleteRegister(r, tk)
      PROVE  Unproved(p)'
  <2>1. tk.subject # p
    <3>1. now < tk.expires /\ now \in Nat /\ tk.expires \in Nat
      BY <1>7 DEF CompleteRegister, Accepted, IInv, TypeOK, TokenCols, Stamp
    <3> QED BY <3>1 DEF Unproved
  <2>2. PICK q : q = [NoRequest EXCEPT !.pc = "insert", !.phone = tk.subject]
    OBVIOUS
  <2>3. q.phone # p
    BY <2>1, <2>2 DEF NoRequest
  <2> QED BY <1>7, <2>2, <2>3, UnprovedFrame DEF CompleteRegister
<1>8. ASSUME NEW r \in Request, NEW u \in User, InsertUser(r, u)
      PROVE  Unproved(p)'
  <2>1. request[r].phone # p
    BY <1>8 DEF InsertUser, Unproved, At
  <2>2. request[r] \in RequestCols
    BY DEF IInv, TypeOK, RequestCols
  <2>3. PICK q : q = [request[r] EXCEPT !.pc = "commit", !.user = u]
    OBVIOUS
  <2>4. q.phone # p
    BY <2>1, <2>2, <2>3 DEF RequestCols
  <2> QED BY <1>8, <2>3, <2>4, UnprovedFrame DEF InsertUser
<1>9. ASSUME NEW r \in Request, NEW tk \in tokens, NEW e \in Email, LinkEmail(r, tk, e)
      PROVE  Unproved(p)'
  <2>1. PICK q : q = [NoRequest EXCEPT !.pc = "update", !.user = tk.subject, !.email = e]
    OBVIOUS
  <2>2. q.phone # p
    BY <1>0, <2>1 DEF NoRequest
  <2> QED BY <1>9, <2>1, <2>2, UnprovedFrame DEF LinkEmail
<1>10. ASSUME NEW r \in Request, LinkUpdate(r)
       PROVE  Unproved(p)'
  <2>1. \A u \in User : users[u] \in UserCols
    BY DEF IInv, TypeOK
  <2>2. users' = [users EXCEPT ![request[r].user] = [@ EXCEPT !.email = request[r].email]]
    BY <1>10 DEF LinkUpdate
  <2>3. \A u \in User : users'[u].phone = users[u].phone
    BY <2>1, <2>2 DEF IInv, TypeOK, UserCols
  <2>4. NoRequest.phone # p
    BY <1>0 DEF NoRequest
  <2> QED BY <1>10, <2>3, <2>4, UnprovedFrame DEF LinkUpdate, Finish
<1>11. ASSUME NEW r \in Request,
              CreateOtp(r) \/ VerifyRefuse(r) \/ VerifyIncrement(r) \/ InsertTaken(r)
                \/ LinkTaken(r) \/ Abort(r)
       PROVE  Unproved(p)'
  BY <1>2, <1>11 DEF CreateOtp, VerifyRefuse, VerifyIncrement, InsertTaken, LinkTaken, Abort
<1> QED BY <1>1, <1>3, <1>4, <1>5, <1>6, <1>7, <1>8, <1>9, <1>10, <1>11 DEF Next

\* Once the JWTs of a verification have expired, only an OTP that is open gets
\* an unregistered phone number on again.
THEOREM LapsedNeedsOtp == Spec => LapsedVerificationNeedsOtp
<1>1. IInv /\ [Next]_vars =>
        [\A p \in Phone : Unproved(p) /\ ~Unproved(p)' => \E i \in OtpsOf(p) : Open(i)]_vars
  BY UnprovedStep
<1> QED BY <1>1, Inductive, PTL DEF Spec, LapsedVerificationNeedsOtp

-----------------------------------------------------------------------------
(* The refinement.                                                         *)

ProvedPhones == {p \in Phone : Proved(p)}
AccountOf == [u \in User |-> [phone |-> users[u].phone, email |-> users[u].email]]

LEMMA InitAccounts == Init => A!Init
<1> SUFFICES ASSUME Init PROVE A!Init
  OBVIOUS
<1>1. \A u \in User : users[u].phone = NULL /\ users[u].email = NULL
  BY DEF Init, NoUser
<1>2. \A p : OtpsOf(p) = {}
  BY DEF Init, OtpsOf
<1> QED BY <1>1, <1>2 DEF A!Init

LEMMA AccountsDomain ==
  /\ AccountOf = [u \in User |-> AccountOf[u]] /\ AccountOf' = [u \in User |-> AccountOf'[u]]
  /\ \A u \in User : /\ AccountOf[u] = [phone |-> users[u].phone, email |-> users[u].email]
                     /\ AccountOf'[u] = [phone |-> users'[u].phone, email |-> users'[u].email]
BY DEF AccountOf

\* A phone number is proved when its OTP is marked.
LEMMA MarkProves ==
  ASSUME IInv, NEW r \in Request, VerifyMark(r)
  PROVE  A!Next
<1>1. request[r].otp \in OtpsOf(request[r].phone) /\ request[r].phone \in Phone
  BY DEF VerifyMark, IInv, SlotsOK, SlotOK, At
<1>2. PICK k \in DOMAIN otps, p \in Phone :
        k = request[r].otp /\ p = request[r].phone /\ otps[k].phone = p
  BY <1>1 DEF OtpsOf
<1>3. otps' = [otps EXCEPT ![k] = [@ EXCEPT !.used = TRUE]] /\ users' = users
  BY <1>2 DEF VerifyMark
<1>4. \A i \in DOMAIN otps : i \in 1 .. Len(otps) /\ otps[i] \in OtpCols
  BY OtpRow
<1>5. /\ DOMAIN otps' = DOMAIN otps
      /\ \A i \in DOMAIN otps \ {k} : otps'[i] = otps[i]
      /\ otps'[k].phone = p /\ otps'[k].used = TRUE
  BY <1>2, <1>3, <1>4 DEF OtpCols
<1>6. ProvedPhones' = ProvedPhones \cup {p}
  BY <1>2, <1>5 DEF ProvedPhones, Proved, OtpsOf
<1>7. A!Prove(p)
  BY <1>3, <1>6 DEF A!Prove, ProvedPhones, Proved
<1> QED BY <1>7 DEF A!Next

\* An account is opened when its user is committed.
LEMMA CommitOpens ==
  ASSUME IInv, NEW r \in Request, CommitUser(r)
  PROVE  A!Next
<1>1. /\ request[r].phone \in Phone /\ request[r].user \in User /\ Proved(request[r].phone)
      /\ ~UserRow(request[r].user) /\ ~PhoneTaken(request[r].phone)
  BY DEF CommitUser, IInv, SlotsOK, SlotOK, At
<1>2. PICK p \in Phone, u \in User : p = request[r].phone /\ u = request[r].user
  BY <1>1
<1>3. PICK c : c = [NoUser EXCEPT !.phone = p, !.session = TRUE]
  OBVIOUS
<1>4. c.phone = p /\ c.email = NULL
  BY <1>3 DEF NoUser
<1>5. users' = [users EXCEPT ![u] = c] /\ otps' = otps
  BY <1>2, <1>3 DEF CommitUser
<1>6. /\ AccountOf'[u] = [phone |-> p, email |-> NULL]
      /\ \A v \in User \ {u} : AccountOf'[v] = AccountOf[v]
  BY <1>4, <1>5, AccountsDomain DEF IInv, TypeOK
<1>7. AccountOf' = [AccountOf EXCEPT ![u] = [phone |-> p, email |-> NULL]]
  BY <1>6, AccountsDomain
<1>8. ProvedPhones' = ProvedPhones /\ p \in ProvedPhones
  BY <1>1, <1>2, <1>5 DEF ProvedPhones, Proved, OtpsOf
<1>9. AccountOf[u].phone = NULL /\ \A v \in User : AccountOf[v].phone # p
  BY <1>1, <1>2, AccountsDomain DEF UserRow, PhoneTaken
<1>10. A!Open(u, p)
  BY <1>7, <1>8, <1>9 DEF A!Open, AccountOf, ProvedPhones, Proved
<1> QED BY <1>10 DEF A!Next

LEMMA UpdateLinks ==
  ASSUME IInv, NEW r \in Request, LinkUpdate(r)
  PROVE  A!Next
<1>1. /\ request[r].user \in User /\ UserRow(request[r].user) /\ request[r].email \in Email
  BY DEF LinkUpdate, IInv, SlotsOK, SlotOK, At
<1>2. PICK e \in Email, u \in User : e = request[r].email /\ u = request[r].user
  BY <1>1
<1>3. PICK c : c = [users[u] EXCEPT !.email = e]
  OBVIOUS
<1>4. users[u] \in UserCols
  BY DEF IInv, TypeOK
<1>5. c.phone = users[u].phone /\ c.email = e
  BY <1>3, <1>4 DEF UserCols
<1>6. users' = [users EXCEPT ![u] = c] /\ otps' = otps /\ ~EmailOfOther(u, e)
  BY <1>2, <1>3 DEF LinkUpdate
<1>7. /\ AccountOf'[u] = [AccountOf[u] EXCEPT !.email = e]
      /\ \A v \in User \ {u} : AccountOf'[v] = AccountOf[v]
  <2>1. [AccountOf[u] EXCEPT !.email = e] = [phone |-> users[u].phone, email |-> e]
    BY AccountsDomain
  <2>2. users'[u] = c /\ \A v \in User \ {u} : users'[v] = users[v]
    BY <1>6 DEF IInv, TypeOK
  <2> QED BY <1>5, <2>1, <2>2, AccountsDomain
<1>8. AccountOf' = [AccountOf EXCEPT ![u] = [AccountOf[u] EXCEPT !.email = e]]
  BY <1>7, AccountsDomain
<1>9. ProvedPhones' = ProvedPhones
  BY <1>6 DEF ProvedPhones, Proved, OtpsOf
<1>10. AccountOf[u].phone # NULL /\ \A v \in User \ {u} : AccountOf[v].email # e
  BY <1>1, <1>2, <1>6, AccountsDomain DEF UserRow, EmailOfOther
<1>11. A!Link(u, e)
  BY <1>8, <1>9, <1>10 DEF A!Link, AccountOf, ProvedPhones, Proved
<1> QED BY <1>11 DEF A!Next

\* The accounts are as they were while no OTP becomes used and no user changes.
LEMMA SameAccounts ==
  ASSUME UNCHANGED users,
         \A i \in DOMAIN otps :
           /\ i \in DOMAIN otps' /\ otps'[i].phone = otps[i].phone
           /\ otps'[i].used = otps[i].used,
         \A i \in DOMAIN otps' \ DOMAIN otps : ~otps'[i].used
  PROVE  UNCHANGED A!avars
<1>1. ProvedPhones' = ProvedPhones
  BY DEF ProvedPhones, Proved, OtpsOf
<1>2. AccountOf' = AccountOf
  BY DEF AccountOf
<1> QED BY <1>1, <1>2 DEF A!avars, ProvedPhones, Proved, AccountOf

LEMMA CreateKeeps ==
  ASSUME IInv, NEW r \in Request, CreateOtp(r)
  PROVE  UNCHANGED A!avars
<1> DEFINE o == [phone |-> request[r].phone, expires |-> request[r].expires,
                 attempts |-> 0, used |-> FALSE]
<1>1. o \in OtpCols
  BY DEF CreateOtp, IInv, TypeOK, SlotsOK, SlotOK, At, OtpCols
<1>2. otps' = Append(otps, o) /\ users' = users /\ ~o.used
  BY DEF CreateOtp
<1>3. otps \in Seq(OtpCols)
  BY DEF IInv, TypeOK
<1> HIDE DEF o
<1>4. /\ \A i \in 1 .. Len(otps) : otps'[i] = otps[i]
      /\ otps'[Len(otps) + 1] = o /\ Len(otps) \in Nat
      /\ DOMAIN otps = 1 .. Len(otps) /\ DOMAIN otps' = 1 .. Len(otps) + 1
  BY <1>1, <1>2, <1>3, AppendProperties
<1>5. \A i \in DOMAIN otps :
        /\ i \in DOMAIN otps' /\ otps'[i].phone = otps[i].phone
        /\ otps'[i].used = otps[i].used
  BY <1>4
<1>6. \A i \in DOMAIN otps' \ DOMAIN otps : ~otps'[i].used
  BY <1>2, <1>4
<1> QED BY <1>2, <1>5, <1>6, SameAccounts

LEMMA IncrementKeeps ==
  ASSUME IInv, NEW r \in Request, VerifyIncrement(r)
  PROVE  UNCHANGED A!avars
<1>1. \A i \in DOMAIN otps : i \in 1 .. Len(otps) /\ otps[i] \in OtpCols
  BY OtpRow
<1>2. otps' = [otps EXCEPT ![request[r].otp].attempts = @ + 1] /\ users' = users
  BY DEF VerifyIncrement
<1>3. /\ DOMAIN otps' = DOMAIN otps
      /\ \A i \in DOMAIN otps : /\ otps'[i].phone = otps[i].phone
                                /\ otps'[i].used = otps[i].used
  BY <1>1, <1>2 DEF OtpCols
<1> QED BY <1>2, <1>3, SameAccounts

LEMMA NextAccounts ==
  ASSUME IInv, [Next]_vars
  PROVE  [A!Next]_(A!avars)
<1>1. CASE UNCHANGED <<otps, users>>
  BY <1>1, SameAccounts
<1>2. ASSUME NEW r \in Request,
             CreateOtp(r) \/ VerifyIncrement(r) \/ VerifyMark(r) \/ CommitUser(r) \/ LinkUpdate(r)
      PROVE  [A!Next]_(A!avars)
  BY <1>2, CreateKeeps, IncrementKeeps, MarkProves, CommitOpens, UpdateLinks
<1> QED BY <1>1, <1>2
        DEF Next, vars, Tick, RequestRegisterOTP, VerifyRegisterOTP, VerifyCompare, VerifyRefuse,
            VerifyIssue, VerifyRespond, CompleteRegister, InsertUser, InsertTaken,
            RegisterRespond, LinkEmail, LinkTaken, Abort

\* Every step of the requests proves a phone number, opens an account, links an
\* email or does none of that: whatever the races, the unique indexes and the
\* marks in the tables are all that accounts need.
THEOREM RegistrationImplementsAccounts == Spec => ImplementsAccounts
<1>1. IInv /\ [Next]_vars => [A!Next]_(A!avars)
  BY NextAccounts
<1> QED BY <1>1, InitAccounts, Inductive, PTL DEF Spec, ImplementsAccounts, A!Spec

=============================================================================
