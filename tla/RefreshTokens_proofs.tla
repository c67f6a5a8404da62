------------------------ MODULE RefreshTokens_proofs ------------------------
(***************************************************************************)
(* The refresh tokens of a login, for any number of tokens, users and      *)
(* requests, and that RefreshTokens implements LoginSession.               *)
(***************************************************************************)
EXTENDS RefreshTokens, TLAPS

Pending(r) == request[r].pc \in {"create", "update", "insert"}

\* What a request holds at each point.  A token that was drawn has no row
\* before its INSERT, and the one to be replaced is a row; locked, it is live.
SlotsOK ==
  \A r \in Request :
    /\ Pending(r) => /\ request[r].user \in User
                     /\ request[r].next \in Token /\ ~TokenRow(request[r].next)
    /\ request[r].pc \in {"draw", "update", "insert"} =>
         /\ request[r].token \in Token /\ TokenRow(request[r].token)
         /\ request[r].user = tokens[request[r].token].owner
    /\ request[r].pc = "insert" => LiveRow(request[r].token)
    /\ request[r].pc = "respond" => request[r].next \in Token /\ TokenRow(request[r].next)

\* No two requests have drawn one token, and a row has one lock.
SlotsApart ==
  \A r, q \in Request : r # q =>
    /\ Pending(r) /\ Pending(q) => request[r].next # request[q].next
    /\ request[r].pc = "insert" /\ request[q].pc = "insert"
         => request[r].token # request[q].token

\* A row descends from the row of a login, and clients hold tokens of rows.
LoginsOK ==
  /\ \A t \in Token : TokenRow(t) =>
       /\ tokens[t].owner \in User
       /\ tokens[t].login \in Token /\ TokenRow(tokens[t].login)
       /\ tokens[tokens[t].login].login = tokens[t].login
  /\ \A t \in known : TokenRow(t)

IInv == TypeOK /\ SlotsOK /\ SlotsApart /\ LoginsOK /\ OneLiveTokenPerLogin

-----------------------------------------------------------------------------
RequestCols == [pc : {"idle", "create", "draw", "update", "insert", "respond"},
                user : User \cup {NULL}, token : Token \cup {NULL},
                next : Token \cup {NULL}, expires : Stamp]

LEMMA InitIInv == Init => IInv
<1> SUFFICES ASSUME Init PROVE IInv
  OBVIOUS
<1> USE RefreshTokensAssumption
<1>1. TypeOK
  BY DEF Init, TypeOK, NoToken, NoRequest, NoLeave, TokenCols, TokenRow, Stamp
<1>2. SlotsOK /\ SlotsApart
  BY DEF Init, SlotsOK, SlotsApart, Pending, NoRequest
<1>3. LoginsOK /\ OneLiveTokenPerLogin
  BY DEF Init, LoginsOK, OneLiveTokenPerLogin, LiveRow, TokenRow, NoToken
<1> QED BY <1>1, <1>2, <1>3 DEF IInv

\* Without a change to the rows, the clients and the requests there is nothing
\* to show but types.
LEMMA SameIInv ==
  ASSUME IInv, TypeOK', UNCHANGED <<tokens, request, known>>
  PROVE  IInv'
  BY DEF IInv, SlotsOK, SlotsApart, LoginsOK, OneLiveTokenPerLogin, LiveRow, TokenRow, Pending

\* A request moves on and the rows stay.
LEMMA RequestIInv ==
  ASSUME IInv, NEW r \in Request, NEW q \in RequestCols,
         request' = [request EXCEPT ![r] = q],
         UNCHANGED <<now, tokens, leave>>, known' \subseteq Token, \A t \in known' : TokenRow(t),
         q.pc \in {"create", "update", "insert"} =>
           /\ q.user \in User /\ q.next \in Token /\ ~TokenRow(q.next)
           /\ \A p \in Request \ {r} : Pending(p) => request[p].next # q.next,
         q.pc \in {"draw", "update", "insert"} =>
           q.token \in Token /\ TokenRow(q.token) /\ q.user = tokens[q.token].owner,
         q.pc = "insert" => LiveRow(q.token) /\ ~Locked(q.token),
         q.pc = "respond" => q.next \in Token /\ TokenRow(q.next)
  PROVE  IInv'
<1>1. /\ request'[r] = q
      /\ \A p \in Request \ {r} : request'[p] = request[p]
      /\ request' \in [Request -> RequestCols]
  BY DEF IInv, TypeOK, RequestCols
<1>2. TypeOK'
  BY <1>1 DEF IInv, TypeOK, TokenRow, RequestCols
<1>3. SlotsOK'
  BY <1>1 DEF IInv, SlotsOK, Pending, TokenRow, LiveRow
<1>4. SlotsApart'
  BY <1>1 DEF IInv, SlotsApart, Pending, Locked
<1>5. LoginsOK' /\ OneLiveTokenPerLogin'
  BY DEF IInv, LoginsOK, OneLiveTokenPerLogin, TokenRow, LiveRow
<1> QED BY <1>2, <1>3, <1>4, <1>5 DEF IInv

\* A request that is over.
LEMMA DoneIInv ==
  ASSUME IInv, NEW r \in Request, request' = [request EXCEPT ![r] = NoRequest],
         UNCHANGED <<now, tokens, leave>>, known' \subseteq Token, \A t \in known' : TokenRow(t)
  PROVE  IInv'
<1>1. NoRequest \in RequestCols /\ NoRequest.pc = "idle"
  BY RefreshTokensAssumption DEF NoRequest, RequestCols, Stamp
<1> QED BY <1>1, RequestIInv

LEMMA LoginIInv ==
  ASSUME IInv, NEW r \in Request, NEW u \in User, NEW t \in Token, Login(r, u, t)
  PROVE  IInv'
<1> DEFINE q == [pc |-> "create", user |-> u, token |-> NULL, next |-> t, expires |-> now + TTL]
<1>1. q \in RequestCols
  BY RefreshTokensAssumption DEF IInv, TypeOK, RequestCols, Stamp
<1>2. q.pc = "create" /\ q.user \in User /\ q.next = t
  OBVIOUS
<1>3. /\ request' = [request EXCEPT ![r] = q]
      /\ UNCHANGED <<now, tokens, leave, known>>
      /\ ~TokenRow(t) /\ \A p \in Request : request[p].next # t
  BY DEF Login, Fresh
<1>4. known' \subseteq Token /\ \A x \in known' : TokenRow(x)
  BY <1>3 DEF IInv, TypeOK, LoginsOK
<1> HIDE DEF q
<1> QED BY <1>1, <1>2, <1>3, <1>4, RequestIInv

LEMMA RefreshFindIInv ==
  ASSUME IInv, NEW r \in Request, NEW t \in Token, RefreshFind(r, t)
  PROVE  IInv'
<1> DEFINE q == [NoRequest EXCEPT !.pc = "draw", !.user = tokens[t].owner, !.token = t]
<1>0. TokenRow(t) /\ tokens[t].owner \in User
  BY DEF IInv, LoginsOK, RefreshFind
<1>1. NoRequest \in RequestCols
  BY RefreshTokensAssumption DEF NoRequest, RequestCols, Stamp
<1>2. q \in RequestCols
  BY <1>0, <1>1 DEF RequestCols
<1>3. q.pc = "draw" /\ q.user = tokens[t].owner /\ q.token = t
  BY <1>1 DEF RequestCols
<1>4. request' = [request EXCEPT ![r] = q] /\ UNCHANGED <<now, tokens, leave, known>>
  BY DEF RefreshFind
<1>5. known' \subseteq Token /\ \A x \in known' : TokenRow(x)
  BY <1>4 DEF IInv, TypeOK, LoginsOK
<1> HIDE DEF q
<1> QED BY <1>0, <1>2, <1>3, <1>4, <1>5, RequestIInv

LEMMA RefreshDrawIInv ==
  ASSUME IInv, NEW r \in Request, NEW n \in Token, RefreshDraw(r, n)
  PROVE  IInv'
<1> DEFINE q == [request[r] EXCEPT !.pc = "update", !.next = n, !.expires = now + TTL]
<1>1. request[r] \in RequestCols /\ request[r].pc = "draw" /\ now + TTL \in Stamp
  BY RefreshTokensAssumption DEF IInv, TypeOK, RequestCols, RefreshDraw, Stamp
<1>2. q \in RequestCols
  BY <1>1 DEF RequestCols
<1>3. q.pc = "update" /\ q.user = request[r].user /\ q.token = request[r].token /\ q.next = n
  BY <1>1 DEF RequestCols
<1>4. /\ request' = [request EXCEPT ![r] = q]
      /\ UNCHANGED <<now, tokens, leave, known>>
      /\ ~TokenRow(n) /\ \A p \in Request : request[p].next # n
  BY DEF RefreshDraw, Fresh
<1>5. known' \subseteq Token /\ \A x \in known' : TokenRow(x)
  BY <1>4 DEF IInv, TypeOK, LoginsOK
<1>6. /\ q.token \in Token /\ TokenRow(q.token) /\ q.user = tokens[q.token].owner
      /\ q.user \in User
  BY <1>1, <1>3 DEF IInv, SlotsOK, LoginsOK
<1> HIDE DEF q
<1> QED BY <1>2, <1>3, <1>4, <1>5, <1>6, RequestIInv

\* The row is live when its lock is had, and nobody else has it.
LEMMA RefreshUpdateIInv ==
  ASSUME IInv, NEW r \in Request, RefreshUpdate(r)
  PROVE  IInv'
<1> DEFINE q == [request[r] EXCEPT !.pc = "insert"]
<1>1. q \in RequestCols
  BY DEF IInv, TypeOK, RequestCols
<1>2. /\ q.pc = "insert" /\ q.user = request[r].user /\ q.token = request[r].token
      /\ q.next = request[r].next
  BY DEF IInv, TypeOK
<1>3. /\ request' = [request EXCEPT ![r] = q]
      /\ UNCHANGED <<now, tokens, leave, known>>
      /\ request[r].pc = "update" /\ Pending(r)
      /\ LiveRow(q.token) /\ ~Locked(q.token)
  BY <1>2 DEF RefreshUpdate, Unrevoked, LiveRow, Pending
<1>4. known' \subseteq Token /\ \A x \in known' : TokenRow(x)
  BY <1>3 DEF IInv, TypeOK, LoginsOK
<1>5. /\ q.user \in User /\ q.next \in Token /\ ~TokenRow(q.next)
      /\ \A p \in Request \ {r} : Pending(p) => request[p].next # q.next
      /\ q.token \in Token /\ TokenRow(q.token) /\ q.user = tokens[q.token].owner
  BY <1>2, <1>3 DEF IInv, SlotsOK, SlotsApart
<1> HIDE DEF q
<1> QED BY <1>1, <1>2, <1>3, <1>4, <1>5, RequestIInv

-----------------------------------------------------------------------------
(* The steps that write rows.                                              *)

\* One row is inserted, by the request that drew its token.
LEMMA LoginCreateIInv ==
  ASSUME IInv, NEW r \in Request, LoginCreate(r)
  PROVE  IInv'
<1> DEFINE new == request[r].next
           u   == request[r].user
           row == [owner |-> u, status |-> "live", expires |-> request[r].expires, login |-> new]
<1>1. /\ new \in Token /\ u \in User /\ ~TokenRow(new) /\ Pending(r)
      /\ request[r].expires \in Stamp /\ u # NULL
  BY RefreshTokensAssumption DEF IInv, TypeOK, SlotsOK, Pending, LoginCreate
<1>2. /\ tokens' = [tokens EXCEPT ![new] = row]
      /\ request' = [request EXCEPT ![r] = [@ EXCEPT !.pc = "respond"]]
      /\ UNCHANGED <<now, leave, known>>
  BY DEF LoginCreate, RowFor
<1>3. row \in TokenCols
  BY <1>1 DEF TokenCols
<1>4. row.owner = u /\ row.login = new
  OBVIOUS
<1> HIDE DEF row
<1>5. /\ tokens'[new] = row
      /\ \A t \in Token \ {new} : tokens'[t] = tokens[t]
      /\ tokens' \in [Token -> TokenCols]
  BY <1>1, <1>2, <1>3 DEF IInv, TypeOK
<1>6. /\ request'[r].pc = "respond" /\ request'[r].next = new
      /\ request' \in [Request -> RequestCols]
      /\ \A p \in Request \ {r} : request'[p] = request[p]
  BY <1>2 DEF IInv, TypeOK, RequestCols
<1> HIDE DEF new, u
<1>7. TypeOK'
  BY <1>1, <1>2, <1>4, <1>5, <1>6 DEF IInv, TypeOK, TokenRow, RequestCols
<1>8. \A p \in Request : Pending(p) /\ p # r => request[p].next # new
  BY <1>1 DEF IInv, SlotsApart, new
<1>9. SlotsOK'
  BY <1>1, <1>4, <1>5, <1>6, <1>8 DEF IInv, SlotsOK, Pending, TokenRow, LiveRow
<1>10. SlotsApart'
  BY <1>6 DEF IInv, SlotsApart, Pending
<1>11. LoginsOK'
  BY <1>1, <1>2, <1>4, <1>5 DEF IInv, TypeOK, LoginsOK, TokenRow
<1>12. \A t \in Token : TokenRow(t) => tokens[t].login \in Token \ {new}
  BY <1>1 DEF IInv, LoginsOK
<1>13. OneLiveTokenPerLogin'
  BY <1>1, <1>4, <1>5, <1>12 DEF IInv, OneLiveTokenPerLogin, LiveRow, TokenRow
<1> QED BY <1>7, <1>9, <1>10, <1>11, <1>13 DEF IInv

\* The live token of a login is revoked and its successor inserted in one step.
LEMMA RefreshCommitIInv ==
  ASSUME IInv, NEW r \in Request, RefreshCommit(r)
  PROVE  IInv'
<1> DEFINE new == request[r].next
           old == request[r].token
           u   == request[r].user
           login == tokens[old].login
           row == [owner |-> u, status |-> "live", expires |-> request[r].expires,
                   login |-> login]
           was == [tokens[old] EXCEPT !.status = "revoked"]
<1>1. /\ new \in Token /\ u \in User /\ ~TokenRow(new) /\ Pending(r) /\ request[r].pc = "insert"
      /\ old \in Token /\ TokenRow(old) /\ LiveRow(old) /\ u = tokens[old].owner
      /\ request[r].expires \in Stamp /\ u # NULL
  BY RefreshTokensAssumption DEF IInv, TypeOK, SlotsOK, Pending, RefreshCommit
<1>2. /\ tokens' = [tokens EXCEPT ![old] = was, ![new] = row]
      /\ request' = [request EXCEPT ![r] = [@ EXCEPT !.pc = "respond"]]
      /\ UNCHANGED <<now, leave, known>>
  BY DEF RefreshCommit, RowFor
<1>3. login \in Token /\ TokenRow(login) /\ tokens[login].login = login /\ new # old
  BY <1>1 DEF IInv, LoginsOK
<1>4. row \in TokenCols /\ was \in TokenCols
  BY <1>1, <1>3 DEF IInv, TypeOK, TokenCols
<1>5. /\ row.owner = u /\ row.login = login
      /\ was.owner = u /\ was.login = login /\ was.status = "revoked"
  BY <1>1 DEF IInv, TypeOK, TokenCols
<1> HIDE DEF row, was
<1>6. /\ tokens'[new] = row /\ tokens'[old] = was
      /\ \A t \in Token \ {new, old} : tokens'[t] = tokens[t]
      /\ tokens' \in [Token -> TokenCols]
  BY <1>1, <1>2, <1>3, <1>4 DEF IInv, TypeOK
<1>7. /\ request'[r].pc = "respond" /\ request'[r].next = new
      /\ request' \in [Request -> RequestCols]
      /\ \A p \in Request \ {r} : request'[p] = request[p]
  BY <1>2 DEF IInv, TypeOK, RequestCols
<1>8. \A p \in Request \ {r} : /\ Pending(p) => request[p].next # new
                               /\ request[p].pc = "insert" => request[p].token # old
  BY <1>1 DEF IInv, SlotsApart
<1> HIDE DEF new, u, old, login
<1>9. TypeOK'
  BY <1>1, <1>2, <1>5, <1>6, <1>7 DEF IInv, TypeOK, TokenRow, RequestCols
<1>10. \A t \in Token : /\ TokenRow(t) => TokenRow(t)' /\ tokens'[t].owner = tokens[t].owner
                                            /\ tokens'[t].login = tokens[t].login
                        /\ TokenRow(t)' => TokenRow(t) \/ t = new
                        /\ t # old => (LiveRow(t) => LiveRow(t)')
                        /\ LiveRow(t)' => t # old /\ (LiveRow(t) \/ t = new)
  BY <1>1, <1>3, <1>5, <1>6 DEF TokenRow, LiveRow, old, login
<1>11. SlotsOK'
  BY <1>1, <1>7, <1>8, <1>10, <1>6, <1>5 DEF IInv, SlotsOK, Pending, TokenRow
<1>12. SlotsApart'
  BY <1>7 DEF IInv, SlotsApart, Pending
<1>13. LoginsOK'
  <2>1. ASSUME NEW t \in Token, TokenRow(t)'
        PROVE  /\ tokens'[t].owner \in User
               /\ tokens'[t].login \in Token /\ TokenRow(tokens[t].login)'
               /\ tokens'[tokens'[t].login].login = tokens'[t].login
    <3> DEFINE l == tokens'[t].login
    <3>1. l \in Token /\ TokenRow(l) /\ tokens[l].login = l /\ tokens'[t].owner \in User
      BY <1>1, <1>3, <1>5, <1>6, <1>10, <2>1 DEF IInv, LoginsOK
    <3>2. tokens'[l].owner # NULL /\ tokens'[l].login = tokens[l].login
      <4> HIDE DEF l
      <4> QED BY <3>1, <1>10 DEF TokenRow
    <3> QED BY <3>1, <3>2 DEF TokenRow
  <2>2. \A t \in known' : TokenRow(t)'
    BY <1>2, <1>10 DEF IInv, TypeOK, LoginsOK
  <2> QED BY <2>1, <2>2 DEF LoginsOK, TokenRow
<1>14. OneLiveTokenPerLogin'
  <2>1. ASSUME NEW s \in Token, NEW t \in Token, LiveRow(s)', LiveRow(t)',
               tokens'[s].login = tokens'[t].login
        PROVE  s = t
    BY <1>1, <1>5, <1>6, <1>10, <2>1 DEF IInv, OneLiveTokenPerLogin, LiveRow, login
  <2>2. ASSUME NEW t \in Token, TokenRow(t)'
        PROVE  tokens'[tokens'[t].login].owner = tokens'[t].owner
    BY <1>1, <1>3, <1>5, <1>6, <1>10, <2>2 DEF IInv, LoginsOK, OneLiveTokenPerLogin, login
  <2> QED BY <2>1, <2>2 DEF OneLiveTokenPerLogin, LiveRow, TokenRow
<1> QED BY <1>9, <1>11, <1>12, <1>13, <1>14 DEF IInv

\* Rows that are not locked are revoked.
LEMMA RevokeIInv ==
  ASSUME IInv, NEW Rows \in SUBSET Token, \A t \in Rows : TokenRow(t) /\ ~Locked(t),
         tokens' = Revoke(Rows), UNCHANGED <<now, request, known>>,
         leave' \in [Leaver -> [pc : {"idle", "update"}, rows : SUBSET Token]]
  PROVE  IInv'
<1>1. \A t \in Token \ Rows : tokens'[t] = tokens[t]
  BY DEF Revoke
<1>2. ASSUME NEW t \in Rows
      PROVE  /\ tokens'[t] \in TokenCols /\ tokens'[t].status = "revoked"
             /\ tokens'[t].owner = tokens[t].owner /\ tokens'[t].login = tokens[t].login
  <2>1. tokens'[t] = [tokens[t] EXCEPT !.status = "revoked"]
    BY DEF Revoke
  <2>2. tokens[t] \in TokenCols
    BY DEF IInv, TypeOK
  <2>3. tokens'[t] \in TokenCols
    BY <2>1, <2>2 DEF TokenCols
  <2> QED BY <2>1, <2>2, <2>3 DEF TokenCols
<1>3. tokens' \in [Token -> TokenCols]
  BY <1>1, <1>2 DEF Revoke, IInv, TypeOK
<1>4. \A t \in Token : /\ TokenRow(t)' <=> TokenRow(t)
                       /\ tokens'[t].owner = tokens[t].owner
                       /\ tokens'[t].login = tokens[t].login
                       /\ LiveRow(t)' <=> LiveRow(t) /\ t \notin Rows
  BY <1>1, <1>2 DEF TokenRow, LiveRow
<1>5. TypeOK'
  BY <1>1, <1>3, <1>4 DEF IInv, TypeOK
<1>6. SlotsOK'
  BY <1>4 DEF IInv, SlotsOK, Pending, Locked
<1>7. SlotsApart'
  BY DEF IInv, SlotsApart, Pending
<1>8. LoginsOK'
  BY <1>4 DEF IInv, TypeOK, LoginsOK
<1>9. OneLiveTokenPerLogin'
  BY <1>4 DEF IInv, LoginsOK, OneLiveTokenPerLogin
<1> QED BY <1>5, <1>6, <1>7, <1>8, <1>9 DEF IInv

LEMMA LogoutIInv ==
  ASSUME IInv, NEW t \in Token, Logout(t)
  PROVE  IInv'
<1>1. {t} \in SUBSET Token /\ \A x \in {t} : TokenRow(x) /\ ~Locked(x)
  BY DEF Logout, Unrevoked
<1>2. tokens' = Revoke({t}) /\ UNCHANGED <<now, request, known, leave>>
  BY DEF Logout
<1>3. leave' \in [Leaver -> [pc : {"idle", "update"}, rows : SUBSET Token]]
  BY <1>2 DEF IInv, TypeOK
<1> QED BY <1>1, <1>2, <1>3, RevokeIInv

LEMMA LogoutAllUpdateIInv ==
  ASSUME IInv, NEW l \in Leaver, LogoutAllUpdate(l)
  PROVE  IInv'
<1> DEFINE Rows == {t \in leave[l].rows : Unrevoked(t)}
<1>1. Rows \in SUBSET Token /\ \A x \in Rows : TokenRow(x) /\ ~Locked(x)
  BY DEF LogoutAllUpdate, Unrevoked, IInv, TypeOK
<1>2. tokens' = Revoke(Rows) /\ UNCHANGED <<now, request, known>>
  BY DEF LogoutAllUpdate
<1>3. leave' \in [Leaver -> [pc : {"idle", "update"}, rows : SUBSET Token]]
  BY DEF LogoutAllUpdate, IInv, TypeOK, NoLeave
<1> HIDE DEF Rows
<1> QED BY <1>1, <1>2, <1>3, RevokeIInv

LEMMA LeaverIInv ==
  ASSUME IInv, NEW l \in Leaver,
         LogoutAllAbort(l) \/ \E u \in User : LogoutAllBegin(l, u)
  PROVE  IInv'
<1>1. UNCHANGED <<now, tokens, request, known>>
  BY DEF LogoutAllAbort, LogoutAllBegin
<1>2. leave' \in [Leaver -> [pc : {"idle", "update"}, rows : SUBSET Token]]
  <2>1. CASE LogoutAllAbort(l)
    BY <2>1 DEF LogoutAllAbort, IInv, TypeOK, NoLeave
  <2>2. ASSUME NEW u \in User, LogoutAllBegin(l, u)
        PROVE  leave' \in [Leaver -> [pc : {"idle", "update"}, rows : SUBSET Token]]
    <3>1. {t \in Token : tokens[t].owner = u /\ Unrevoked(t)} \in SUBSET Token
      OBVIOUS
    <3> QED BY <2>2, <3>1 DEF LogoutAllBegin, IInv, TypeOK
  <2> QED BY <2>1, <2>2
<1>3. TypeOK'
  BY <1>1, <1>2 DEF IInv, TypeOK, TokenRow
<1> QED BY <1>1, <1>3, SameIInv

LEMMA TickIInv ==
  ASSUME IInv, Tick
  PROVE  IInv'
<1>1. TypeOK'
  BY RefreshTokensAssumption DEF Tick, IInv, TypeOK, TokenRow
<1> QED BY <1>1, SameIInv DEF Tick

-----------------------------------------------------------------------------
LEMMA NextIInv == IInv /\ [Next]_vars => IInv'
<1> SUFFICES ASSUME IInv, [Next]_vars PROVE IInv'
  OBVIOUS
<1>1. CASE UNCHANGED vars
  BY <1>1, SameIInv DEF vars, IInv, TypeOK, TokenRow
<1>2. ASSUME NEW r \in Request,
             RefreshMiss(r) \/ Respond(r) \/ Abort(r)
      PROVE  IInv'
  <2>1. request' = [request EXCEPT ![r] = NoRequest] /\ UNCHANGED <<now, tokens, leave>>
    BY <1>2 DEF RefreshMiss, Respond, Abort
  <2>2. known' \subseteq Token /\ \A t \in known' : TokenRow(t)
    BY <1>2 DEF RefreshMiss, Respond, Abort, IInv, TypeOK, LoginsOK, SlotsOK
  <2> QED BY <2>1, <2>2, DoneIInv
<1>3. ASSUME NEW r \in Request, NEW u \in User, NEW t \in Token, Login(r, u, t)
      PROVE  IInv'
  BY <1>3, LoginIInv
<1>4. ASSUME NEW r \in Request, NEW t \in Token, RefreshFind(r, t) \/ RefreshDraw(r, t)
      PROVE  IInv'
  BY <1>4, RefreshFindIInv, RefreshDrawIInv
<1>5. ASSUME NEW r \in Request, LoginCreate(r) \/ RefreshUpdate(r) \/ RefreshCommit(r)
      PROVE  IInv'
  BY <1>5, LoginCreateIInv, RefreshUpdateIInv, RefreshCommitIInv
<1>6. ASSUME NEW t \in Token, Logout(t)
      PROVE  IInv'
  BY <1>6, LogoutIInv
<1>7. ASSUME NEW l \in Leaver, LogoutAllUpdate(l)
      PROVE  IInv'
  BY <1>7, LogoutAllUpdateIInv
<1>8. ASSUME NEW l \in Leaver, LogoutAllAbort(l) \/ \E u \in User : LogoutAllBegin(l, u)
      PROVE  IInv'
  BY <1>8, LeaverIInv
<1> QED BY <1>1, <1>2, <1>3, <1>4, <1>5, <1>6, <1>7, <1>8, TickIInv DEF Next, Turn

\* What a request holds, whom a token descends from and who locks which row
\* keep one another in every step.
THEOREM Inductive == Spec => []IInv
  BY InitIInv, NextIInv, PTL DEF Spec

\* Rows and requests keep to their columns, and no token outlives
\* refreshTokenTTL, for any number of requests.
THEOREM TypeCorrect == Spec => []TypeOK
<1>1. IInv => TypeOK
  BY DEF IInv
<1> QED BY <1>1, Inductive, PTL

\* However many Refresh, Logout and LogoutAll requests race, a login has one
\* live token at most, and its tokens are all its user's.
THEOREM OneLiveToken == Spec => []OneLiveTokenPerLogin
<1>1. IInv => OneLiveTokenPerLogin
  BY DEF IInv
<1> QED BY <1>1, Inductive, PTL

-----------------------------------------------------------------------------
(* A lapsed session.                                                       *)

\* A row stays one, with the expiry and login it was inserted with.
LEMMA RowStays ==
  ASSUME IInv, [Next]_vars, NEW t \in Token, TokenRow(t)
  PROVE  TokenRow(t)' /\ tokens'[t].expires = tokens[t].expires
<1>1. ASSUME NEW Rows \in SUBSET Token, tokens' = Revoke(Rows)
      PROVE  TokenRow(t)' /\ tokens'[t].expires = tokens[t].expires
  <2>1. tokens'[t] = tokens[t] \/ tokens'[t] = [tokens[t] EXCEPT !.status = "revoked"]
    BY <1>1 DEF Revoke
  <2>2. tokens[t] \in TokenCols
    BY DEF IInv, TypeOK
  <2> QED BY <2>1, <2>2 DEF TokenRow, TokenCols
<1>2. ASSUME NEW r \in Request, LoginCreate(r)
      PROVE  TokenRow(t)' /\ tokens'[t].expires = tokens[t].expires
  <2>1. request[r].next \in Token \ {t}
    BY <1>2 DEF LoginCreate, IInv, SlotsOK, Pending
  <2> QED BY <1>2, <2>1 DEF LoginCreate, IInv, TypeOK, TokenRow
<1>3. ASSUME NEW r \in Request, RefreshCommit(r)
      PROVE  TokenRow(t)' /\ tokens'[t].expires = tokens[t].expires
  <2>1. request[r].next \in Token \ {t} /\ request[r].token \in Token
    BY <1>3 DEF RefreshCommit, IInv, SlotsOK, Pending
  <2>2. tokens'[t] = tokens[t] \/ tokens'[t] = [tokens[t] EXCEPT !.status = "revoked"]
    BY <1>3, <2>1 DEF RefreshCommit, IInv, TypeOK
  <2>3. tokens[t] \in TokenCols
    BY DEF IInv, TypeOK
  <2> QED BY <2>2, <2>3 DEF TokenRow, TokenCols
<1>4. ASSUME NEW u \in Token, Logout(u)
      PROVE  TokenRow(t)' /\ tokens'[t].expires = tokens[t].expires
  BY <1>1, <1>4 DEF Logout
<1>5. ASSUME NEW l \in Leaver, LogoutAllUpdate(l)
      PROVE  TokenRow(t)' /\ tokens'[t].expires = tokens[t].expires
  <2>1. {x \in leave[l].rows : Unrevoked(x)} \in SUBSET Token
    BY DEF IInv, TypeOK
  <2> QED BY <1>1, <1>5, <2>1 DEF LogoutAllUpdate
<1>6. CASE tokens' = tokens
  BY <1>6 DEF TokenRow
<1> QED BY <1>2, <1>3, <1>4, <1>5, <1>6
        DEF Next, Turn, vars, Tick, Login, RefreshFind, RefreshDraw, RefreshUpdate, RefreshMiss,
            Respond, Abort, LogoutAllBegin, LogoutAllAbort

\* A token comes under a refresh only when it has been found in time.
LEMMA LapsedUntouched ==
  ASSUME IInv, [Next]_vars, NEW t \in Token, Lapsed(t), NEW r \in Request
  PROVE  request'[r].token = t => request'[r].pc \notin {"draw", "update", "insert"}
<1> DEFINE Refreshing == {"draw", "update", "insert"}
<1>1. /\ request \in [Request -> RequestCols]
      /\ request[r].token = t => request[r].pc \notin Refreshing
  BY DEF IInv, TypeOK, RequestCols, Lapsed
<1>2. ASSUME NEW q \in Request, NEW n \in Token, RefreshFind(q, n)
      PROVE  request'[r].token = t => request'[r].pc \notin Refreshing
  <2>1. n # t
    BY <1>2 DEF Lapsed, RefreshFind, Expired
  <2>2. request'[q].token = n /\ (r # q => request'[r] = request[r])
    BY <1>1, <1>2 DEF RefreshFind, NoRequest
  <2> QED BY <1>1, <2>1, <2>2
<1>3. ASSUME NEW q \in Request,
             (\E n \in Token : RefreshDraw(q, n)) \/ LoginCreate(q) \/ RefreshUpdate(q)
               \/ RefreshCommit(q)
      PROVE  request'[r].token = t => request'[r].pc \notin Refreshing
  <2>1. /\ r # q => request'[r] = request[r]
        /\ request'[q].token = request[q].token
        /\ request[q].pc \in Refreshing \/ request'[q].pc = "respond"
    BY <1>1, <1>3 DEF RefreshDraw, LoginCreate, RefreshUpdate, RefreshCommit, RequestCols
  <2> QED BY <1>1, <2>1
<1>4. ASSUME NEW q \in Request,
             (\E u \in User, n \in Token : Login(q, u, n))
               \/ RefreshMiss(q) \/ Respond(q) \/ Abort(q)
      PROVE  request'[r].token = t => request'[r].pc \notin Refreshing
  <2>1. (r # q => request'[r] = request[r]) /\ request'[q].pc \in {"create", "idle"}
    BY <1>1, <1>4 DEF Login, RefreshMiss, Respond, Abort, NoRequest
  <2> QED BY <1>1, <2>1
<1>5. CASE request' = request
  BY <1>1, <1>5
<1> QED BY <1>2, <1>3, <1>4, <1>5
        DEF Next, Turn, vars, Tick, Logout, LogoutAllBegin, LogoutAllUpdate, LogoutAllAbort

\* A session nobody refreshed in time is over for good.
THEOREM LapsedForGood == Spec => LapsedStaysLapsed
<1>1. ASSUME IInv, [Next]_vars, NEW t \in Token, Lapsed(t)
      PROVE  Lapsed(t)'
  <2>1. now' >= now /\ now \in Nat /\ now' \in Nat
    <3>1. now \in Nat /\ now' \in Nat
      BY <1>1, NextIInv, RefreshTokensAssumption DEF IInv, TypeOK
    <3>2. now' = now \/ now' = now + 1
      BY <1>1
         DEF Next, Turn, vars, Tick, Login, RefreshFind, RefreshDraw, LoginCreate,
             RefreshUpdate, RefreshMiss, RefreshCommit, Respond, Abort, Logout, LogoutAllBegin, LogoutAllUpdate,
             LogoutAllAbort
    <3> QED BY <3>1, <3>2
  <2>2. tokens[t].expires \in Nat
    BY <1>1, RefreshTokensAssumption DEF IInv, TypeOK, TokenCols, Stamp
  <2>3. TokenRow(t)' /\ tokens'[t].expires = tokens[t].expires
    BY <1>1, RowStays DEF Lapsed
  <2>4. \A r \in Request : request'[r].token = t => request'[r].pc \notin {"draw", "update", "insert"}
    BY <1>1, LapsedUntouched
  <2> QED BY <1>1, <2>1, <2>2, <2>3, <2>4 DEF Lapsed
<1>2. IInv /\ [Next]_vars => [\A t \in Token : Lapsed(t) => Lapsed(t)']_vars
  BY <1>1
<1> QED BY <1>2, Inductive, PTL DEF Spec, LapsedStaysLapsed

-----------------------------------------------------------------------------
(* RefreshTokens implements LoginSession.                                  *)

Carries(s, t) == LiveRow(t) /\ tokens[t].login = s

\* The refinement mapping of carrier.
Carrier ==
  [s \in Token |->
    IF \E t \in Token : LiveRow(t) /\ tokens[t].login = s
    THEN CHOOSE t \in Token : LiveRow(t) /\ tokens[t].login = s
    ELSE NULL]

LEMMA CarrierDomain ==
  Carrier = [s \in Token |-> Carrier[s]] /\ Carrier' = [s \in Token |-> Carrier'[s]]
  BY DEF Carrier

\* The token that carries a login is its live one; there is no other.
LEMMA CarrierIs ==
  ASSUME IInv, NEW s \in Token
  PROVE  /\ \A t \in Token : Carries(s, t) => Carrier[s] = t
         /\ (\A t \in Token : ~Carries(s, t)) => Carrier[s] = NULL
<1>1. ASSUME NEW t \in Token, Carries(s, t)
      PROVE  Carrier[s] = t
  <2>1. \A x \in Token : LiveRow(x) /\ tokens[x].login = s => x = t
    BY <1>1 DEF IInv, OneLiveTokenPerLogin, Carries
  <2> QED BY <1>1, <2>1 DEF Carrier, Carries
<1>2. (\A t \in Token : ~Carries(s, t)) => Carrier[s] = NULL
  BY DEF Carrier, Carries
<1> QED BY <1>1, <1>2

\* The same of the next state.
LEMMA NextCarrierIs ==
  ASSUME IInv', NEW s \in Token
  PROVE  /\ \A t \in Token : Carries(s, t)' => Carrier'[s] = t
         /\ (\A t \in Token : ~Carries(s, t)') => Carrier'[s] = NULL
<1>1. ASSUME NEW t \in Token, Carries(s, t)'
      PROVE  Carrier'[s] = t
  <2>1. \A x \in Token : LiveRow(x)' /\ tokens'[x].login = s => x = t
    BY <1>1 DEF IInv, OneLiveTokenPerLogin, Carries
  <2> QED BY <1>1, <2>1 DEF Carrier, Carries
<1>2. (\A t \in Token : ~Carries(s, t)') => Carrier'[s] = NULL
  BY DEF Carrier, Carries
<1> QED BY <1>1, <1>2

\* A login whose live tokens stay is carried as before.
LEMMA CarrierStays ==
  ASSUME IInv, IInv', NEW s \in Token, \A t \in Token : Carries(s, t)' <=> Carries(s, t)
  PROVE  Carrier'[s] = Carrier[s]
<1>1. CASE \E t \in Token : Carries(s, t)
  BY <1>1, CarrierIs, NextCarrierIs
<1>2. CASE \A t \in Token : ~Carries(s, t)
  BY <1>2, CarrierIs, NextCarrierIs
<1> QED BY <1>1, <1>2

LEMMA InitSession == Init => S!Init
<1> SUFFICES ASSUME Init PROVE S!Init
  OBVIOUS
<1>1. \A t \in Token : tokens[t].login = NULL /\ ~LiveRow(t)
  BY DEF Init, NoToken, LiveRow, TokenRow
<1>2. LoginTokens = {}
  BY <1>1, RefreshTokensAssumption DEF LoginTokens
<1>3. Carrier = [s \in Token |-> NULL]
  BY <1>1 DEF Carrier
<1> QED BY <1>2, <1>3 DEF S!Init, Carrier

\* A login opens a session.
LEMMA LoginOpens ==
  ASSUME IInv, IInv', NEW r \in Request, LoginCreate(r)
  PROVE  S!Next
<1>0. /\ request[r].next \in Token /\ ~TokenRow(request[r].next)
      /\ request[r].user # NULL
  BY RefreshTokensAssumption DEF IInv, SlotsOK, Pending, LoginCreate
<1>1. PICK new \in Token :
        new = request[r].next /\ ~TokenRow(new) /\ request[r].user # NULL
  BY <1>0
<1>2. /\ tokens'[new].owner = request[r].user /\ tokens'[new].status = "live"
      /\ tokens'[new].login = new
      /\ \A t \in Token \ {new} : tokens'[t] = tokens[t]
  BY <1>1 DEF LoginCreate, RowFor, IInv, TypeOK
<1>3. tokens[new].login = NULL
  BY <1>1 DEF IInv, TypeOK, NoToken
<1>4. \A t \in Token : TokenRow(t) => tokens[t].login # new
  BY <1>1 DEF IInv, LoginsOK
<1>5. LoginTokens' = LoginTokens \cup {new} /\ new \notin LoginTokens
  BY <1>1, <1>2, <1>3, RefreshTokensAssumption DEF LoginTokens
<1>6. Carrier'[new] = new
  BY <1>1, <1>2, NextCarrierIs DEF Carries, LiveRow, TokenRow
<1>7. \A s \in Token \ {new} : Carrier'[s] = Carrier[s]
  BY <1>1, <1>2, CarrierStays DEF Carries, LiveRow, TokenRow
<1>8. Carrier' = [Carrier EXCEPT ![new] = new]
  BY <1>6, <1>7, CarrierDomain
<1>9. S!Open(new)
  BY <1>5, <1>8 DEF S!Open, Carrier
<1> QED BY <1>1, <1>9 DEF S!Next

\* A refresh passes its session on to the next token.
LEMMA RefreshPasses ==
  ASSUME IInv, IInv', NEW r \in Request, RefreshCommit(r)
  PROVE  S!Next
<1>0. /\ request[r].next \in Token /\ ~TokenRow(request[r].next)
      /\ request[r].user # NULL
      /\ request[r].token \in Token /\ LiveRow(request[r].token)
  BY RefreshTokensAssumption DEF IInv, SlotsOK, Pending, RefreshCommit, LiveRow
<1>1. PICK new \in Token, old \in Token :
        /\ new = request[r].next /\ ~TokenRow(new) /\ request[r].user # NULL
        /\ old = request[r].token /\ LiveRow(old) /\ new # old
  BY <1>0 DEF LiveRow
<1>2. PICK login \in Token : login = tokens[old].login /\ TokenRow(login)
  BY <1>1 DEF IInv, LoginsOK, LiveRow
<1>3. /\ tokens'[new].owner = request[r].user /\ tokens'[new].status = "live"
      /\ tokens'[new].login = login
      /\ tokens'[old].login = login /\ tokens'[old].status = "revoked"
      /\ \A t \in Token \ {new, old} : tokens'[t] = tokens[t]
  BY <1>1, <1>2 DEF RefreshCommit, RowFor, IInv, TypeOK, TokenCols
<1>4. tokens[new].login = NULL
  BY <1>1 DEF IInv, TypeOK, NoToken
<1>5. tokens[old].login = login
  BY <1>2
<1>6. LoginTokens' = LoginTokens
  BY <1>1, <1>2, <1>3, <1>4, <1>5, RefreshTokensAssumption DEF LoginTokens
<1>7. Carrier[login] = old
  BY <1>1, <1>2, <1>5, CarrierIs DEF Carries
<1>8. \A s \in Token : Carrier[s] # new
  <2> SUFFICES ASSUME NEW s \in Token PROVE Carrier[s] # new
    OBVIOUS
  <2>1. CASE \E t \in Token : Carries(s, t)
    BY <1>1, <2>1, CarrierIs DEF Carries, LiveRow
  <2>2. CASE \A t \in Token : ~Carries(s, t)
    BY <1>1, <2>2, CarrierIs, RefreshTokensAssumption
  <2> QED BY <2>1, <2>2
<1>9. Carrier'[login] = new
  BY <1>1, <1>2, <1>3, NextCarrierIs DEF Carries, LiveRow, TokenRow
<1>10. \A s \in Token \ {login} : Carrier'[s] = Carrier[s]
  <2> SUFFICES ASSUME NEW s \in Token \ {login} PROVE Carrier'[s] = Carrier[s]
    OBVIOUS
  <2>1. \A t \in Token : Carries(s, t)' <=> Carries(s, t)
    BY <1>1, <1>3, <1>5 DEF Carries, LiveRow, TokenRow
  <2> QED BY <2>1, CarrierStays
<1>11. Carrier' = [Carrier EXCEPT ![login] = new]
  BY <1>9, <1>10, CarrierDomain
<1>12. S!Pass(login, new)
  BY <1>1, <1>6, <1>7, <1>8, <1>11, RefreshTokensAssumption DEF S!Pass, Carrier
<1> QED BY <1>1, <1>2, <1>12 DEF S!Next

\* Revoking rows ends the sessions that the live ones among them carry.
LEMMA RevokeEnds ==
  ASSUME IInv, IInv', NEW R \in SUBSET Token, \A t \in R : LiveRow(t),
         tokens' = Revoke(R)
  PROVE  S!Next
<1>0. PICK Ended \in SUBSET Token : Ended = {s \in Token : \E t \in R : Carries(s, t)}
  OBVIOUS
<1>1. ASSUME NEW t \in Token
      PROVE  /\ tokens'[t].login = tokens[t].login
             /\ LiveRow(t)' <=> LiveRow(t) /\ t \notin R
  <2>1. t \notin R => tokens'[t] = tokens[t]
    BY DEF Revoke
  <2>2. t \in R => tokens'[t] = [tokens[t] EXCEPT !.status = "revoked"]
    BY DEF Revoke
  <2>3. tokens[t] \in TokenCols
    BY DEF IInv, TypeOK
  <2>4. t \in R => tokens'[t].login = tokens[t].login /\ tokens'[t].status = "revoked"
    BY <2>2, <2>3 DEF TokenCols
  <2> QED BY <2>1, <2>4 DEF LiveRow, TokenRow
<1>2. LoginTokens' = LoginTokens
  BY <1>1 DEF LoginTokens
<1>3. \A s \in Ended : Carrier[s] # NULL
  BY <1>0, CarrierIs, RefreshTokensAssumption
<1>4. ASSUME NEW s \in Ended
      PROVE  Carrier'[s] = NULL
  <2>1. PICK t \in R : Carries(s, t)
    BY <1>0
  <2>2. \A x \in Token : Carries(s, x) => x = t
    BY <2>1 DEF Carries, IInv, OneLiveTokenPerLogin
  <2>3. \A x \in Token : ~Carries(s, x)'
    BY <1>1, <2>1, <2>2 DEF Carries
  <2> QED BY <2>3, NextCarrierIs
<1>5. ASSUME NEW s \in Token \ Ended
      PROVE  Carrier'[s] = Carrier[s]
  <2>1. \A t \in Token : Carries(s, t)' <=> Carries(s, t)
    BY <1>0, <1>1 DEF Carries
  <2> QED BY <2>1, CarrierStays
<1>6. Carrier' = [s \in Token |-> IF s \in Ended THEN NULL ELSE Carrier[s]]
  BY <1>4, <1>5, CarrierDomain
<1>7. S!End(Ended)
  BY <1>2, <1>3, <1>6 DEF S!End, Carrier
<1> QED BY <1>7 DEF S!Next

LEMMA NextSession ==
  ASSUME IInv, IInv', [Next]_vars
  PROVE  [S!Next]_(S!svars)
<1>1. ASSUME NEW r \in Request, LoginCreate(r) \/ RefreshCommit(r)
      PROVE  S!Next
  BY <1>1, LoginOpens, RefreshPasses
<1>2. ASSUME NEW t \in Token, Logout(t)
      PROVE  S!Next
  <2>1. {t} \in SUBSET Token /\ tokens' = Revoke({t}) /\ \A x \in {t} : LiveRow(x)
    BY <1>2 DEF Logout, Unrevoked, LiveRow
  <2> QED BY <2>1, RevokeEnds
<1>3. ASSUME NEW l \in Leaver, LogoutAllUpdate(l)
      PROVE  S!Next
  <2> DEFINE R == {t \in leave[l].rows : Unrevoked(t)}
  <2>1. R \in SUBSET Token /\ tokens' = Revoke(R) /\ \A x \in R : LiveRow(x)
    BY <1>3 DEF LogoutAllUpdate, Unrevoked, LiveRow, IInv, TypeOK
  <2> QED BY <2>1, RevokeEnds
<1>4. CASE tokens' = tokens
  <2>1. LoginTokens' = LoginTokens /\ Carrier' = Carrier
    BY <1>4 DEF LoginTokens, Carrier, LiveRow, TokenRow
  <2> QED BY <2>1 DEF S!svars, Carrier
<1> QED BY <1>1, <1>2, <1>3, <1>4
        DEF Next, Turn, vars, Tick, Login, RefreshFind, RefreshDraw, RefreshUpdate, RefreshMiss,
            Respond, Abort, LogoutAllBegin, LogoutAllAbort

\* Every step of the table and its requests opens, passes on or ends login
\* sessions, or nothing: a session once ended is over, whatever had been read.
THEOREM ImplementsSessions == Spec => ImplementsLoginSession
<1>1. IInv /\ IInv' /\ [Next]_vars => [S!Next]_(S!svars)
  BY NextSession
<1> QED BY <1>1, InitSession, Inductive, PTL DEF Spec, ImplementsLoginSession, S!Spec

=============================================================================
