--------------------------- MODULE RefreshTokens ----------------------------
(***************************************************************************)
(* Login, Refresh, Logout and LogoutAll of usecase/auth_usecase.go over    *)
(* the table refresh_tokens.                                               *)
(*                                                                         *)
(* Refresh reads the token in one statement and replaces it in a later     *)
(* transaction of two; between them, and between the two, other requests   *)
(* run.  A row updated by an open transaction is locked: PostgreSQL makes  *)
(* any other update of it wait for the commit or the rollback, and then    *)
(* evaluates its WHERE clause again.  LogoutAll is one UPDATE over the     *)
(* rows of its snapshot, so it may wait too, and a row committed after the *)
(* snapshot is not among them.                                             *)
(*                                                                         *)
(* A request that is cancelled, fails or dies takes Abort: the transaction *)
(* it had open is rolled back and its response is lost.  Users are never   *)
(* deleted, so the lookup of the token's user always finds one; access     *)
(* tokens are not stored and are left out.                                 *)
(***************************************************************************)
EXTENDS Naturals

CONSTANTS
  Token,     \* refresh tokens, each standing for its hash
  User,
  Request,   \* slots for concurrent Login and Refresh requests
  Leaver,    \* slots for concurrent LogoutAll requests
  NULL,      \* an SQL NULL or an unset variable
  TTL,       \* refreshTokenTTL
  MaxTime    \* the clock stops here, a bound of the model only

ASSUME RefreshTokensAssumption ==
  /\ NULL \notin Token \cup User
  /\ TTL \in Nat
  /\ MaxTime \in Nat

VARIABLES
  now,       \* the clock of the server
  tokens,    \* table refresh_tokens; no row while owner is NULL
  request,   \* Login and Refresh requests
  leave,     \* LogoutAll requests
  known      \* the tokens responses have carried to clients

vars == <<now, tokens, request, leave, known>>

\* login is the token of the login a row descends from, kept to state properties
NoToken   == [owner |-> NULL, status |-> "live", expires |-> 0, login |-> NULL]
NoRequest == [pc |-> "idle", user |-> NULL, token |-> NULL, next |-> NULL, expires |-> 0]
NoLeave   == [pc |-> "idle", rows |-> {}]

Init ==
  /\ now = 0
  /\ tokens = [t \in Token |-> NoToken]
  /\ request = [r \in Request |-> NoRequest]
  /\ leave = [l \in Leaver |-> NoLeave]
  /\ known = {}

Tick ==
  /\ now < MaxTime
  /\ now' = now + 1
  /\ UNCHANGED <<tokens, request, leave, known>>

-----------------------------------------------------------------------------
(* The WHERE clauses and guards.  A name with an underscore is the same    *)
(* definition with a mistake in it, which the runs are shown to notice.    *)

TokenRow(t) == tokens[t].owner # NULL

\* revoked_at IS NULL
Unrevoked_NotAsked(t) == TokenRow(t)
Unrevoked(t) == TokenRow(t) /\ tokens[t].status = "live"

\* time.Now().After(stored.ExpiresAt)
Expired_Never(t) == FALSE
Expired(t) == now > tokens[t].expires

\* the row lock of an open Replace transaction
Locked_SinceRead(t) ==
  \E r \in Request : request[r].pc \in {"update", "insert"} /\ request[r].token = t
Locked(t) == \E r \in Request : request[r].pc = "insert" /\ request[r].token = t

\* GenerateRefreshToken: 32 random bytes, never drawn before
Fresh(t) == ~TokenRow(t) /\ \A r \in Request : request[r].next # t

\* INSERT INTO refresh_tokens
RowFor_Millis(u, login, expires) ==
  [owner |-> u, status |-> "live", expires |-> 1000 * expires, login |-> login]
RowFor(u, login, expires) ==
  [owner |-> u, status |-> "live", expires |-> expires, login |-> login]

Revoke(S) ==
  [t \in Token |-> IF t \in S THEN [tokens[t] EXCEPT !.status = "revoked"] ELSE tokens[t]]

-----------------------------------------------------------------------------
(* Login: the password matched, a token is drawn and its row inserted.     *)

Login(r, u, t) ==
  /\ request[r].pc = "idle"
  /\ Fresh(t)
  /\ request' = [request EXCEPT ![r] =
       [pc |-> "create", user |-> u, token |-> NULL, next |-> t, expires |-> now + TTL]]
  /\ UNCHANGED <<now, tokens, leave, known>>

LoginCreate(r) ==
  LET new == request[r].next IN
  /\ request[r].pc = "create"
  /\ tokens' = [tokens EXCEPT ![new] = RowFor(request[r].user, new, request[r].expires)]
  /\ request' = [request EXCEPT ![r] = [@ EXCEPT !.pc = "respond"]]
  /\ UNCHANGED <<now, leave, known>>

-----------------------------------------------------------------------------
(* Refresh: find the token, check it, draw the next one, then replace the  *)
(* one by the other in a transaction.                                      *)

RefreshFind(r, t) ==
  /\ request[r].pc = "idle"
  /\ t \in known
  /\ tokens[t].status = "live"
  /\ ~Expired(t)
  /\ request' = [request EXCEPT ![r] =
       [NoRequest EXCEPT !.pc = "draw", !.user = tokens[t].owner, !.token = t]]
  /\ UNCHANGED <<now, tokens, leave, known>>

\* its user was found; the expiry of the next token counts from here
RefreshDraw(r, n) ==
  /\ request[r].pc = "draw"
  /\ Fresh(n)
  /\ request' = [request EXCEPT ![r] =
       [@ EXCEPT !.pc = "update", !.next = n, !.expires = now + TTL]]
  /\ UNCHANGED <<now, tokens, leave, known>>

\* UPDATE ... WHERE revoked_at IS NULL, one row, locked from here to the commit
RefreshUpdate(r) ==
  /\ request[r].pc = "update"
  /\ ~Locked(request[r].token)
  /\ Unrevoked(request[r].token)
  /\ request' = [request EXCEPT ![r] = [@ EXCEPT !.pc = "insert"]]
  /\ UNCHANGED <<now, tokens, leave, known>>

\* no row: the token was replaced or revoked meanwhile
RefreshMiss(r) ==
  /\ request[r].pc = "update"
  /\ ~Locked(request[r].token)
  /\ ~Unrevoked(request[r].token)
  /\ request' = [request EXCEPT ![r] = NoRequest]
  /\ UNCHANGED <<now, tokens, leave, known>>

\* INSERT of the next token and COMMIT
RefreshCommit(r) ==
  LET old == request[r].token IN
  /\ request[r].pc = "insert"
  /\ tokens' = [tokens EXCEPT
       ![old] = [@ EXCEPT !.status = "revoked"],
       ![request[r].next] = RowFor(request[r].user, tokens[old].login, request[r].expires)]
  /\ request' = [request EXCEPT ![r] = [@ EXCEPT !.pc = "respond"]]
  /\ UNCHANGED <<now, leave, known>>

-----------------------------------------------------------------------------
Respond(r) ==
  /\ request[r].pc = "respond"
  /\ known' = known \cup {request[r].next}
  /\ request' = [request EXCEPT ![r] = NoRequest]
  /\ UNCHANGED <<now, tokens, leave>>

Abort(r) ==
  /\ request[r].pc # "idle"
  /\ request' = [request EXCEPT ![r] = NoRequest]
  /\ UNCHANGED <<now, tokens, leave, known>>

\* RevokeByHash
Logout(t) ==
  /\ t \in known
  /\ ~Locked(t)
  /\ Unrevoked(t)
  /\ tokens' = Revoke({t})
  /\ UNCHANGED <<now, request, leave, known>>

\* RevokeAllByUserID: the snapshot of the statement, then its updates once no
\* row of the snapshot is locked
LogoutAllBegin(l, u) ==
  /\ leave[l].pc = "idle"
  /\ leave' = [leave EXCEPT ![l] =
       [pc |-> "update", rows |-> {t \in Token : tokens[t].owner = u /\ Unrevoked(t)}]]
  /\ UNCHANGED <<now, tokens, request, known>>

LogoutAllUpdate(l) ==
  /\ leave[l].pc = "update"
  /\ \A t \in leave[l].rows : ~Locked(t)
  /\ tokens' = Revoke({t \in leave[l].rows : Unrevoked(t)})
  /\ leave' = [leave EXCEPT ![l] = NoLeave]
  /\ UNCHANGED <<now, request, known>>

LogoutAllAbort(l) ==
  /\ leave[l].pc = "update"
  /\ leave' = [leave EXCEPT ![l] = NoLeave]
  /\ UNCHANGED <<now, tokens, request, known>>

-----------------------------------------------------------------------------
Turn(r) ==
  LoginCreate(r) \/ RefreshUpdate(r) \/ RefreshMiss(r) \/ RefreshCommit(r) \/ Respond(r)

Next ==
  \/ Tick
  \/ \E r \in Request :
       \/ \E u \in User, t \in Token : Login(r, u, t)
       \/ \E t \in Token : RefreshFind(r, t) \/ RefreshDraw(r, t)
       \/ Turn(r)
       \/ Abort(r)
  \/ \E t \in Token : Logout(t)
  \/ \E l \in Leaver :
       \/ \E u \in User : LogoutAllBegin(l, u)
       \/ LogoutAllUpdate(l)
       \/ LogoutAllAbort(l)

Spec == Init /\ [][Next]_vars

\* A request that was accepted is run on; one that waits for a row lock gets
\* it when the lock is free again and again.
Fairness ==
  /\ \A r \in Request : WF_vars(Turn(r)) /\ SF_vars(RefreshUpdate(r) \/ RefreshMiss(r))
  /\ \A l \in Leaver : SF_vars(LogoutAllUpdate(l))

FairSpec == Spec /\ Fairness

-----------------------------------------------------------------------------
Stamp == 0 .. (MaxTime + TTL)
TokenCols == [owner : User \cup {NULL}, status : {"live", "revoked"}, expires : Stamp,
              login : Token \cup {NULL}]

LiveRow(t) == TokenRow(t) /\ tokens[t].status = "live"

\* Rows and requests keep to their columns, and no column is written of a row
\* that is not there; no token outlives refreshTokenTTL.
TypeOK ==
  /\ now \in 0 .. MaxTime
  /\ tokens \in [Token -> TokenCols]
  /\ request \in [Request -> [pc : {"idle", "create", "draw", "update", "insert", "respond"},
                              user : User \cup {NULL}, token : Token \cup {NULL},
                              next : Token \cup {NULL}, expires : Stamp]]
  /\ leave \in [Leaver -> [pc : {"idle", "update"}, rows : SUBSET Token]]
  /\ known \subseteq Token
  /\ \A t \in Token : ~TokenRow(t) => tokens[t] = NoToken

\* However many Refresh, Logout and LogoutAll requests race, the tokens that
\* descend from one login are never live two at a time, and all belong to the
\* user who logged in.
OneLiveTokenPerLogin ==
  \A s, t \in Token :
    /\ LiveRow(s) /\ LiveRow(t) /\ tokens[s].login = tokens[t].login => s = t
    /\ TokenRow(t) => tokens[tokens[t].login].owner = tokens[t].owner

\* A session nobody refreshed in time is over: with its token expired and no
\* refresh of it in flight, its token is never replaced.
Lapsed(t) ==
  /\ TokenRow(t) /\ now > tokens[t].expires
  /\ \A r \in Request : request[r].token = t => request[r].pc \notin {"draw", "update", "insert"}
LapsedStaysLapsed == [][\A t \in Token : Lapsed(t) => Lapsed(t)']_vars

\* Refresh tokens implement login sessions: one carrier at a time, and a
\* session that a Logout or a LogoutAll ended is not carried on by a Refresh
\* that had already found its token live.
LoginTokens == {t \in Token : tokens[t].login = t}
S == INSTANCE LoginSession WITH
       opened <- LoginTokens,
       carrier <- [s \in Token |->
         IF \E t \in Token : LiveRow(t) /\ tokens[t].login = s
         THEN CHOOSE t \in Token : LiveRow(t) /\ tokens[t].login = s
         ELSE NULL]
ImplementsLoginSession == S!Spec

\* Nobody waits for a row lock for ever.
RefreshFinishes == \A r \in Request : request[r].pc = "update" ~> request[r].pc # "update"
LogoutAllFinishes == \A l \in Leaver : leave[l].pc = "update" ~> leave[l].pc = "idle"

=============================================================================
