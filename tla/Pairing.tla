------------------------------ MODULE Pairing ------------------------------
(***************************************************************************)
(* Pairing a PC agent with a user's account: usecase/pairing_usecase.go    *)
(* over the tables pairing_sessions and pc_agents.                         *)
(*                                                                         *)
(* A request is a slot whose pc names the database call it makes next.     *)
(* One call is one step: PostgreSQL runs a statement, or the transaction   *)
(* of Confirm under its row lock, atomically, and any other request may    *)
(* run between two calls of the same request.  A request whose context is  *)
(* cancelled, whose database call fails or whose process dies takes its    *)
(* Abort action: all it held in memory is lost and only the rows remain.   *)
(*                                                                         *)
(* A step that answers an error and changes no row leaves its slot idle;   *)
(* where the request had not begun to hold anything it is no step at all.  *)
(* A secret stands for its bcrypt hash: the hash verifies that secret and  *)
(* no other.  last_seen_at and the names of devices are left out.          *)
(***************************************************************************)
EXTENDS Naturals

CONSTANTS
  Session,     \* the StartPairing requests, each naming the row it inserts
  Agent,       \* primary keys of pc_agents
  Code,        \* device codes
  User,
  Secret,      \* agent secrets
  Confirmer,   \* slots for concurrent ConfirmPairing requests
  Poller,      \* slots for concurrent GetPairingStatus requests
  Caller,      \* slots for concurrent requests of a PC agent
  NULL,        \* an SQL NULL or an unset variable
  MaxRetries,  \* deviceCodeMaxRetries
  TTL,         \* pairingSessionTTL
  MaxTime      \* the clock stops here, a bound of the model only

ASSUME PairingAssumption ==
  /\ NULL \notin Agent \cup Code \cup User \cup Secret
  /\ MaxRetries \in Nat \ {0}
  /\ TTL \in Nat
  /\ MaxTime \in Nat

VARIABLES
  now,       \* the clock of the server
  sessions,  \* table pairing_sessions; no row while code is NULL
  agents,    \* table pc_agents; no row while owner is NULL
  start,     \* StartPairing requests
  confirm,   \* ConfirmPairing requests
  poll,      \* GetPairingStatus requests
  call,      \* VerifyPCAgent and UpdatePCAgentOwnProtection requests
  held       \* the secrets a response has carried to each PC

requests == <<start, confirm, poll, call>>
vars == <<now, sessions, agents, start, confirm, poll, call, held>>

NoSession == [code |-> NULL, requested |-> NULL, status |-> "pending",
              expires |-> 0, by |-> NULL, agent |-> NULL, at |-> 0]
NoAgent   == [owner |-> NULL, hash |-> NULL, status |-> "offline", protection |-> "disabled"]
NewStart  == [pc |-> "new", code |-> NULL, tries |-> 0, expires |-> 0]
NoConfirm == [pc |-> "idle", code |-> NULL, user |-> NULL, at |-> 0]
NoPoll    == [pc |-> "idle", sess |-> NULL, status |-> "pending", agent |-> NULL,
              secret |-> NULL, issued |-> FALSE]
NoCall    == [pc |-> "idle", agent |-> NULL, secret |-> NULL, op |-> "verify"]

Init ==
  /\ now = 0
  /\ sessions = [s \in Session |-> NoSession]
  /\ agents = [a \in Agent |-> NoAgent]
  /\ start = [s \in Session |-> NewStart]
  /\ confirm = [c \in Confirmer |-> NoConfirm]
  /\ poll = [p \in Poller |-> NoPoll]
  /\ call = [v \in Caller |-> NoCall]
  /\ held = [a \in Agent |-> {}]

Tick ==
  /\ now < MaxTime
  /\ now' = now + 1
  /\ UNCHANGED <<sessions, agents, requests, held>>

-----------------------------------------------------------------------------
(* The WHERE clauses, guards and constraints the requests rest on.  A name *)
(* with an underscore is the same definition with a mistake in it, which   *)
(* the runs are shown to notice; no specification uses it.                 *)

SessionRow(s) == sessions[s].code # NULL
AgentRow(a) == agents[a].owner # NULL

\* SELECT EXISTS ... WHERE device_code = c
ExistsByDeviceCode(c) == \E s \in Session : sessions[s].code = c

\* INSERT violates the unique index on device_code
UniqueViolation_NoIndex(c) == FALSE
UniqueViolation(c) == \E s \in Session : sessions[s].code = c

\* gen_random_uuid(), under the unique index on requested_pc_agent_id
FreshAgentID(a) == \A s \in Session : sessions[s].requested # a

\* the retry loop has a turn left after n failed ones
TurnLeft_OneTooMany(n) == n <= MaxRetries
TurnLeft(n) == n < MaxRetries

\* status = 'pending', in Confirm and in the WHERE clause of Expire
StillPending_NotAsked(s) == TRUE
StillPending_NotExpired(s) == sessions[s].status # "expired"
StillPending(s) == sessions[s].status = "pending"

\* now.After(session.ExpiresAt)
After_AtDeadline(t, s) == t >= sessions[s].expires
After(t, s) == t > sessions[s].expires

\* WHERE id = a AND agent_secret_hash IS NULL
HashEmpty_NotAsked(a) == AgentRow(a)
HashEmpty(a) == AgentRow(a) /\ agents[a].hash = NULL

\* FindByID and bcrypt.CompareHashAndPassword
CredentialMatches_Unset(a, x) == AgentRow(a) /\ agents[a].hash \in {NULL, x}
CredentialMatches(a, x) == AgentRow(a) /\ agents[a].hash = x

\* WHERE id = a AND user_id = u
OwnedBy(a, u) == agents[a].owner = u

-----------------------------------------------------------------------------
(* StartPairing: draw a code, ask whether it exists, insert the row.       *)

NextTurn_NotCounted(s) == start' = [start EXCEPT ![s] = [@ EXCEPT !.pc = "check"]]
NextTurn(s) ==
  start' = [start EXCEPT ![s] = [@ EXCEPT
              !.tries = start[s].tries + 1,
              !.pc = IF TurnLeft(start[s].tries + 1) THEN "check" ELSE "failed"]]

\* ExistsByDeviceCode answered true: the next turn
StartTaken(s, c) ==
  /\ start[s].pc \in {"new", "check"}
  /\ ExistsByDeviceCode(c)
  /\ NextTurn(s)
  /\ UNCHANGED <<now, sessions, agents, confirm, poll, call, held>>

\* ExistsByDeviceCode answered false: the row to insert is made, with its deadline
StartFree(s, c) ==
  /\ start[s].pc \in {"new", "check"}
  /\ ~ExistsByDeviceCode(c)
  /\ start' = [start EXCEPT ![s] = [@ EXCEPT !.pc = "create", !.code = c,
                                            !.expires = now + TTL]]
  /\ UNCHANGED <<now, sessions, agents, confirm, poll, call, held>>

StartCreate(s, a) ==
  /\ start[s].pc = "create"
  /\ ~UniqueViolation(start[s].code)
  /\ FreshAgentID(a)
  /\ sessions' = [sessions EXCEPT ![s] =
       [NoSession EXCEPT !.code = start[s].code, !.requested = a, !.expires = start[s].expires]]
  /\ start' = [start EXCEPT ![s] = [@ EXCEPT !.pc = "done"]]
  /\ UNCHANGED <<now, agents, confirm, poll, call, held>>

\* another request inserted the code after it was checked: the next turn
StartCollide(s) ==
  /\ start[s].pc = "create"
  /\ UniqueViolation(start[s].code)
  /\ NextTurn(s)
  /\ UNCHANGED <<now, sessions, agents, confirm, poll, call, held>>

StartAbort(s) ==
  /\ start[s].pc \in {"check", "create"}
  /\ start' = [start EXCEPT ![s] = [@ EXCEPT !.pc = "failed"]]
  /\ UNCHANGED <<now, sessions, agents, confirm, poll, call, held>>

-----------------------------------------------------------------------------
(* ConfirmPairing: the clock is read, then one transaction decides with    *)
(* the row locked FOR UPDATE.                                              *)

ConfirmBegin(c, code, u) ==
  /\ confirm[c].pc = "idle"
  /\ confirm' = [confirm EXCEPT ![c] = [pc |-> "tx", code |-> code, user |-> u, at |-> now]]
  /\ UNCHANGED <<now, sessions, agents, start, poll, call, held>>

ConfirmDone(c) == confirm' = [confirm EXCEPT ![c] = NoConfirm]

\* no session has the code, or it is not pending: an error, nothing changes
ConfirmRefuse(c) ==
  /\ confirm[c].pc = "tx"
  /\ \A s \in Session : sessions[s].code = confirm[c].code => ~StillPending(s)
  /\ ConfirmDone(c)
  /\ UNCHANGED <<now, sessions, agents, start, poll, call, held>>

\* the clock as read before the transaction is past the deadline
ConfirmOverdue(c, s) ==
  /\ confirm[c].pc = "tx"
  /\ sessions[s].code = confirm[c].code
  /\ StillPending(s)
  /\ After(confirm[c].at, s)
  /\ sessions' = [sessions EXCEPT ![s] = [@ EXCEPT !.status = "expired"]]
  /\ ConfirmDone(c)
  /\ UNCHANGED <<now, agents, start, poll, call, held>>

\* INSERT INTO pc_agents and UPDATE pairing_sessions, committed together
ConfirmBind(c, s) ==
  /\ confirm[c].pc = "tx"
  /\ sessions[s].code = confirm[c].code
  /\ StillPending(s)
  /\ ~After(confirm[c].at, s)
  /\ agents' = [agents EXCEPT ![sessions[s].requested] =
                  [NoAgent EXCEPT !.owner = confirm[c].user]]
  /\ sessions' = [sessions EXCEPT ![s] =
       [@ EXCEPT !.status = "confirmed", !.by = confirm[c].user,
                 !.agent = sessions[s].requested, !.at = confirm[c].at]]
  /\ ConfirmDone(c)
  /\ UNCHANGED <<now, start, poll, call, held>>

ConfirmAbort(c) ==
  /\ confirm[c].pc = "tx"
  /\ ConfirmDone(c)
  /\ UNCHANGED <<now, sessions, agents, start, poll, call, held>>

-----------------------------------------------------------------------------
(* GetPairingStatus: find the session, expire it when overdue, find the    *)
(* agent, give it a secret if it has none, answer.                         *)

\* where a request goes once it holds the session
AfterSession_TooEarly(status, a) ==
  IF status = "pending" /\ a # NULL THEN "lookup" ELSE "respond"
AfterSession(status, a) ==
  IF status = "confirmed" /\ a # NULL THEN "lookup" ELSE "respond"

PollDone(p) == poll' = [poll EXCEPT ![p] = NoPoll]

\* FindByIDAndDeviceCode found the row; a miss is answered without a trace
PollFind(p, s) ==
  /\ poll[p].pc = "idle"
  /\ SessionRow(s)
  /\ poll' = [poll EXCEPT ![p] = [NoPoll EXCEPT !.pc = "check", !.sess = s,
                                     !.status = sessions[s].status,
                                     !.agent = sessions[s].agent]]
  /\ UNCHANGED <<now, sessions, agents, start, confirm, call, held>>

\* the row as found is judged by the clock; expires_at never changes
Overdue(p) == poll[p].status = "pending" /\ After(now, poll[p].sess)

PollCheck(p) ==
  /\ poll[p].pc = "check"
  /\ poll' = [poll EXCEPT ![p] = [@ EXCEPT !.pc =
       IF Overdue(p) THEN "expire" ELSE AfterSession(poll[p].status, poll[p].agent)]]
  /\ UNCHANGED <<now, sessions, agents, start, confirm, call, held>>

\* UPDATE ... WHERE id = s AND status = 'pending', one row
PollExpire(p) ==
  /\ poll[p].pc = "expire"
  /\ StillPending(poll[p].sess)
  /\ sessions' = [sessions EXCEPT ![poll[p].sess] = [@ EXCEPT !.status = "expired"]]
  /\ poll' = [poll EXCEPT ![p] = [@ EXCEPT !.pc = "respond", !.status = "expired"]]
  /\ UNCHANGED <<now, agents, start, confirm, call, held>>

\* no row: somebody confirmed or expired the session meanwhile
PollMissedExpire(p) ==
  /\ poll[p].pc = "expire"
  /\ ~StillPending(poll[p].sess)
  /\ poll' = [poll EXCEPT ![p] = [@ EXCEPT !.pc = "refind"]]
  /\ UNCHANGED <<now, sessions, agents, start, confirm, call, held>>

PollRefind(p) ==
  LET row == sessions[poll[p].sess] IN
  /\ poll[p].pc = "refind"
  /\ poll' = [poll EXCEPT ![p] = [@ EXCEPT !.pc = AfterSession(row.status, row.agent),
                                           !.status = row.status,
                                           !.agent = row.agent]]
  /\ UNCHANGED <<now, sessions, agents, start, confirm, call, held>>

\* FindByID: the agent has its secret already
PollIssued(p) ==
  /\ poll[p].pc = "lookup"
  /\ AgentRow(poll[p].agent)
  /\ ~HashEmpty(poll[p].agent)
  /\ poll' = [poll EXCEPT ![p] = [@ EXCEPT !.pc = "respond", !.issued = TRUE]]
  /\ UNCHANGED <<now, sessions, agents, start, confirm, call, held>>

\* FindByID: no secret yet, so one is drawn and hashed
PollDraw(p, x) ==
  /\ poll[p].pc = "lookup"
  /\ HashEmpty(poll[p].agent)
  /\ poll' = [poll EXCEPT ![p] = [@ EXCEPT !.pc = "issue", !.secret = x]]
  /\ UNCHANGED <<now, sessions, agents, start, confirm, call, held>>

\* SetAgentSecretHashIfEmpty, one row
PollIssue(p) ==
  /\ poll[p].pc = "issue"
  /\ HashEmpty(poll[p].agent)
  /\ agents' = [agents EXCEPT ![poll[p].agent] = [@ EXCEPT !.hash = poll[p].secret]]
  /\ poll' = [poll EXCEPT ![p] = [@ EXCEPT !.pc = "respond"]]
  /\ UNCHANGED <<now, sessions, start, confirm, call, held>>

\* SetAgentSecretHashIfEmpty, no row: its FindByID comes next, the secret is dropped
PollMissedIssue(p) ==
  /\ poll[p].pc = "issue"
  /\ ~HashEmpty(poll[p].agent)
  /\ poll' = [poll EXCEPT ![p] = [@ EXCEPT !.pc = "reread", !.secret = NULL]]
  /\ UNCHANGED <<now, sessions, agents, start, confirm, call, held>>

PollReread(p) ==
  /\ poll[p].pc = "reread"
  /\ AgentRow(poll[p].agent)
  /\ poll' = [poll EXCEPT ![p] = [@ EXCEPT !.pc = "respond", !.issued = TRUE]]
  /\ UNCHANGED <<now, sessions, agents, start, confirm, call, held>>

\* FindByID found no agent: the request answers an error
PollAgentGone(p) ==
  /\ poll[p].pc \in {"lookup", "reread"}
  /\ ~AgentRow(poll[p].agent)
  /\ PollDone(p)
  /\ UNCHANGED <<now, sessions, agents, start, confirm, call, held>>

\* the response reaches the PC
PollRespond(p) ==
  /\ poll[p].pc = "respond"
  /\ held' = IF poll[p].secret = NULL THEN held
             ELSE [held EXCEPT ![poll[p].agent] = @ \cup {poll[p].secret}]
  /\ PollDone(p)
  /\ UNCHANGED <<now, sessions, agents, start, confirm, call>>

\* cancelled, failed or lost, the response included
PollAbort(p) ==
  /\ poll[p].pc # "idle"
  /\ PollDone(p)
  /\ UNCHANGED <<now, sessions, agents, start, confirm, call, held>>

-----------------------------------------------------------------------------
(* VerifyPCAgent (op "verify") and UpdatePCAgentOwnProtection (op is the   *)
(* protection status): authenticate, then one or two updates by id.        *)

Protection == {"enabled", "disabled"}
Op == {"verify"} \cup Protection

CallDone(v) == call' = [call EXCEPT ![v] = NoCall]

CallFind(v, a, x, op) ==
  /\ call[v].pc = "idle"
  /\ CredentialMatches(a, x)
  /\ call' = [call EXCEPT ![v] = [pc |-> IF op = "verify" THEN "mark" ELSE "protect",
                                  agent |-> a, secret |-> x, op |-> op]]
  /\ UNCHANGED <<now, sessions, agents, start, confirm, poll, held>>

\* UpdateProtectionStatusByID
CallProtect(v) ==
  /\ call[v].pc = "protect"
  /\ AgentRow(call[v].agent)
  /\ agents' = [agents EXCEPT ![call[v].agent] = [@ EXCEPT !.protection = call[v].op]]
  /\ call' = [call EXCEPT ![v] = [@ EXCEPT !.pc = "mark"]]
  /\ UNCHANGED <<now, sessions, start, confirm, poll, held>>

\* MarkVerified
CallMark(v) ==
  /\ call[v].pc = "mark"
  /\ AgentRow(call[v].agent)
  /\ agents' = [agents EXCEPT ![call[v].agent] = [@ EXCEPT !.status = "online"]]
  /\ CallDone(v)
  /\ UNCHANGED <<now, sessions, start, confirm, poll, held>>

\* the agent was deleted between the calls: no row is updated, an error is answered
CallAgentGone(v) ==
  /\ call[v].pc \in {"protect", "mark"}
  /\ ~AgentRow(call[v].agent)
  /\ CallDone(v)
  /\ UNCHANGED <<now, sessions, agents, start, confirm, poll, held>>

CallAbort(v) ==
  /\ call[v].pc # "idle"
  /\ CallDone(v)
  /\ UNCHANGED <<now, sessions, agents, start, confirm, poll, held>>

-----------------------------------------------------------------------------
(* The two requests of the owner that are one statement each.              *)

\* the command that the handler then publishes to the PC is not part of this module
UpdatePCAgentProtection(u, a, to) ==
  /\ OwnedBy(a, u)
  /\ agents' = [agents EXCEPT ![a] = [@ EXCEPT !.protection = to]]
  /\ UNCHANGED <<now, sessions, requests, held>>

\* pairing_sessions.pc_agent_id is set NULL by its foreign key
DeletePCAgent(u, a) ==
  /\ OwnedBy(a, u)
  /\ agents' = [agents EXCEPT ![a] = NoAgent]
  /\ sessions' = [s \in Session |->
       IF sessions[s].agent = a THEN [sessions[s] EXCEPT !.agent = NULL] ELSE sessions[s]]
  /\ UNCHANGED <<now, requests, held>>

-----------------------------------------------------------------------------
StartTurn(s) ==
  \/ \E c \in Code : StartTaken(s, c) \/ StartFree(s, c)
  \/ \E a \in Agent : StartCreate(s, a)
  \/ StartCollide(s)

ConfirmTx(c) ==
  \/ ConfirmRefuse(c)
  \/ \E s \in Session : ConfirmOverdue(c, s) \/ ConfirmBind(c, s)

PollTurn(p) ==
  \/ PollCheck(p)
  \/ PollExpire(p)
  \/ PollMissedExpire(p)
  \/ PollRefind(p)
  \/ PollIssued(p)
  \/ \E x \in Secret : PollDraw(p, x)
  \/ PollIssue(p)
  \/ PollMissedIssue(p)
  \/ PollReread(p)
  \/ PollAgentGone(p)
  \/ PollRespond(p)

CallTurn(v) == CallProtect(v) \/ CallMark(v) \/ CallAgentGone(v)

Next ==
  \/ Tick
  \/ \E s \in Session : StartTurn(s) \/ StartAbort(s)
  \/ \E c \in Confirmer :
       \/ \E code \in Code, u \in User : ConfirmBegin(c, code, u)
       \/ ConfirmTx(c)
       \/ ConfirmAbort(c)
  \/ \E p \in Poller :
       \/ \E s \in Session : PollFind(p, s)
       \/ PollTurn(p)
       \/ PollAbort(p)
  \/ \E v \in Caller :
       \/ \E a \in Agent, x \in Secret, op \in Op : CallFind(v, a, x, op)
       \/ CallTurn(v)
       \/ CallAbort(v)
  \/ \E u \in User, a \in Agent :
       \/ \E to \in Protection : UpdatePCAgentProtection(u, a, to)
       \/ DeletePCAgent(u, a)

Spec == Init /\ [][Next]_vars

(* The server runs a request it has accepted to its end unless something   *)
(* aborts it, and a PC that asks again and again is not aborted each time. *)
Fairness ==
  /\ \A s \in Session : WF_vars(start[s].pc # "new" /\ StartTurn(s))
  /\ \A s \in Session : WF_vars(\E p \in Poller : PollFind(p, s))
  /\ \A p \in Poller :
       /\ WF_vars(PollTurn(p))
       /\ SF_vars(PollCheck(p))
       /\ SF_vars(\E x \in Secret : PollDraw(p, x))
       /\ SF_vars(PollIssue(p))

FairSpec == Spec /\ Fairness

-----------------------------------------------------------------------------
Status == {"pending", "confirmed", "expired"}
Stamp == 0 .. (MaxTime + TTL)

SessionCols == [code : Code \cup {NULL}, requested : Agent \cup {NULL}, status : Status,
                expires : Stamp, by : User \cup {NULL}, agent : Agent \cup {NULL},
                at : 0 .. MaxTime]
AgentCols   == [owner : User \cup {NULL}, hash : Secret \cup {NULL},
                status : {"online", "offline"}, protection : Protection]
StartSlot   == [pc : {"new", "check", "create", "done", "failed"}, code : Code \cup {NULL},
                tries : 0 .. MaxRetries, expires : Stamp]
ConfirmSlot == [pc : {"idle", "tx"}, code : Code \cup {NULL}, user : User \cup {NULL},
                at : 0 .. MaxTime]
PollSlot    == [pc : {"idle", "check", "expire", "refind", "lookup", "issue", "reread",
                      "respond"},
                sess : Session \cup {NULL}, status : Status, agent : Agent \cup {NULL},
                secret : Secret \cup {NULL}, issued : BOOLEAN]
CallSlot    == [pc : {"idle", "protect", "mark"}, agent : Agent \cup {NULL},
                secret : Secret \cup {NULL}, op : Op]

\* Every row and every request keeps to its columns and its program points: no
\* StartPairing takes more turns than deviceCodeMaxRetries, and no statement
\* writes a column of a row that is not there.
TypeOK ==
  /\ now \in 0 .. MaxTime
  /\ sessions \in [Session -> SessionCols]
  /\ agents \in [Agent -> AgentCols]
  /\ start \in [Session -> StartSlot]
  /\ confirm \in [Confirmer -> ConfirmSlot]
  /\ poll \in [Poller -> PollSlot]
  /\ call \in [Caller -> CallSlot]
  /\ held \in [Agent -> SUBSET Secret]
  /\ \A s \in Session : ~SessionRow(s) => sessions[s] = NoSession
  /\ \A a \in Agent : ~AgentRow(a) => agents[a] = NoAgent

\* Two StartPairing requests that both found a code free never both own it:
\* whoever types the code pairs the one PC that shows it.
CodeNamesOneSession ==
  \A s, t \in Session :
    SessionRow(s) /\ sessions[s].code = sessions[t].code => s = t

InStep(s) ==
  IF sessions[s].status = "confirmed" /\ AgentRow(sessions[s].requested)
  THEN /\ sessions[s].agent = sessions[s].requested
       /\ agents[sessions[s].requested].owner = sessions[s].by
  ELSE ~AgentRow(sessions[s].requested) /\ sessions[s].agent = NULL

\* The two rows one Confirm commits stay in step under every interleaving of
\* confirmations, expiries and deletions: an agent exists only for a
\* confirmed session, under the id the session asked for, owned by the user
\* who confirmed it; once it is deleted the session names no agent.
AgentMatchesSession ==
  /\ \A s \in Session : SessionRow(s) => InStep(s)
  /\ \A a \in Agent : AgentRow(a) => \E s \in Session : sessions[s].agent = a

\* Although Confirm decides with a clock read before it got the row lock and
\* a poll expires a row it read earlier, a session is confirmed only by a
\* request made before its deadline and expired only after it.
DecidedByDeadline ==
  \A s \in Session : SessionRow(s) =>
    /\ sessions[s].status = "confirmed" => sessions[s].at <= sessions[s].expires
    /\ sessions[s].status = "expired" => now > sessions[s].expires

\* Polls that race to give an agent its secret: one secret at most ever
\* reaches the PC, and it is the one the agent authenticates with.
DeliveredSecretVerifies ==
  \A a \in Agent :
    /\ \A x, y \in held[a] : x = y
    /\ AgentRow(a) => held[a] \subseteq {agents[a].hash}

\* A poll answers from rows it read several calls ago, yet when it tells the
\* PC that its session is confirmed or expired that is still so, and when it
\* says that a secret was or is being issued the agent has one.
AnswerIsFinal ==
  \A p \in Poller : poll[p].pc = "respond" =>
    /\ poll[p].status # "pending" => sessions[poll[p].sess].status = poll[p].status
    /\ (poll[p].issued \/ poll[p].secret # NULL) =>
         (AgentRow(poll[p].agent) => agents[poll[p].agent].hash # NULL)
    /\ ~(poll[p].issued /\ poll[p].secret # NULL)

\* The credential is compared in one call and used by id in later ones; the
\* row then still verifies that credential, or is gone.  An agent is online
\* only if it has a credential to have come online with.
VerifiedCallerHoldsCredential ==
  /\ \A v \in Caller :
       call[v].pc # "idle" /\ AgentRow(call[v].agent)
         => agents[call[v].agent].hash = call[v].secret
  /\ \A a \in Agent : agents[a].status = "online" => agents[a].hash # NULL

\* Whatever was in flight when the owner deleted an agent, the id is never
\* bound again, so an old credential cannot come back to life.
Deleted(s) == SessionRow(s) /\ sessions[s].status = "confirmed"
                /\ ~AgentRow(sessions[s].requested)
DeletedAgentStaysDeleted ==
  [][\A s \in Session : Deleted(s) => Deleted(s)']_vars

-----------------------------------------------------------------------------
(* The rows of a session and its agent, read as an enrollment.             *)

PhaseOf(s) ==
  CASE ~SessionRow(s) -> "none"
    [] SessionRow(s) /\ sessions[s].status = "pending" -> "open"
    [] SessionRow(s) /\ sessions[s].status = "expired" -> "closed"
    [] SessionRow(s) /\ sessions[s].status = "confirmed"
         -> IF AgentRow(sessions[s].requested) THEN "bound" ELSE "removed"

HashOf(s) == IF PhaseOf(s) = "bound" THEN agents[sessions[s].requested].hash ELSE NULL

E == INSTANCE Enrollment WITH
       phase <- [s \in Session |-> PhaseOf(s)],
       owner <- [s \in Session |-> sessions[s].by],
       credential <- [s \in Session |-> HashOf(s)]

\* The whole of pairing, with its stale reads and its races, implements the
\* enrollment of each session.
ImplementsEnrollment == E!Spec

\* The retry loop ends: a StartPairing request that began is answered.
StartFinishes ==
  \A s \in Session : start[s].pc # "new" ~> start[s].pc \in {"done", "failed"}

\* A confirmed PC that keeps polling gets its agent a credential, unless the
\* owner deletes the agent first.
CredentialEventually ==
  \A s \in Session : PhaseOf(s) = "bound" ~> (PhaseOf(s) # "bound" \/ HashOf(s) # NULL)

=============================================================================
