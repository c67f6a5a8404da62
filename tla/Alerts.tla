------------------------------- MODULE Alerts -------------------------------
(***************************************************************************)
(* Alerts from the PC agents to the phones of their owners:                *)
(* usecase/alert_usecase.go behind the two MQTT subscribers of             *)
(* cmd/server/main.go, over the tables alerts and mobile_devices.          *)
(*                                                                         *)
(* Each subscriber handles one message at a time: find the agent, look for *)
(* a recent alert of the same type, save, list the phones of the owner,    *)
(* send to one after the other, remove the tokens FCM no longer knows.     *)
(* One database or FCM call is one step; the two subscribers, the phones'  *)
(* registrations and the deletion of agents interleave between them.  The  *)
(* message is acknowledged whatever the handler returns, and sessions are  *)
(* clean, so what a lost connection had not delivered is gone.             *)
(*                                                                         *)
(* The broker, FCM and the agents are not in the repository.  An agent     *)
(* sends the time of its own clock, or none and the server takes its own:  *)
(* either way triggered_at may be any time.  It may send an alert twice.   *)
(* A registration is the transaction of Upsert: an INSERT ON CONFLICT, the *)
(* snapshot of a DELETE, and the DELETE with the COMMIT once no row it     *)
(* deletes is locked.  All phones are of one platform.                     *)
(***************************************************************************)
EXTENDS Naturals, Sequences, FiniteSets

CONSTANTS
  Agent,      \* PC agents
  User,
  Token,      \* FCM tokens
  Topic,      \* the subscribers that run; one whose topic is not configured does not
  Alert,      \* ids of the rows of alerts, one for each insert
  Register,   \* slots for concurrent RegisterMobileDevice requests
  NULL,       \* an SQL NULL or an unset variable
  Window,     \* duplicateAlertWindow
  MaxAt,      \* the last triggered_at, a bound of the model only
  MaxWire     \* messages on the way to a subscriber, a bound of the model only

ASSUME AlertsAssumption ==
  /\ NULL \notin User \cup Agent \cup Token \cup Topic
  /\ Topic \subseteq {"alert", "status"}
  /\ Window \in Nat
  /\ MaxAt \in Nat
  /\ MaxWire \in Nat

Type  == {"motion", "disconnected"}
Message == [agent : Agent, type : Type, at : 0 .. MaxAt]

VARIABLES
  owner,      \* pc_agents.user_id, NULL where there is no agent
  alerts,     \* table alerts; no row while agent is NULL
  devices,    \* table mobile_devices: the user of a token, NULL for no row
  dead,       \* the tokens FCM answers UNREGISTERED for
  wire,       \* messages on the way to each subscriber
  handler,    \* the message each subscriber is handling
  register    \* RegisterMobileDevice requests

vars == <<owner, alerts, devices, dead, wire, handler, register>>

\* via is the subscriber that saved a row, overlap whether another registration
\* of the user has committed since the snapshot; both kept to state properties
NoAlert    == [agent |-> NULL, type |-> "motion", at |-> 0, via |-> NULL]
Idle       == [pc |-> "idle", agent |-> NULL, type |-> "motion", at |-> 0, user |-> NULL,
               list |-> {}, invalid |-> {}]
NoRegister == [pc |-> "idle", user |-> NULL, token |-> NULL, rows |-> {}, overlap |-> FALSE]

Init ==
  /\ owner \in [Agent -> User]
  /\ alerts = [i \in Alert |-> NoAlert]
  /\ devices = [x \in Token |-> NULL]
  /\ dead = {}
  /\ wire = [t \in Topic |-> <<>>]
  /\ handler = [t \in Topic |-> Idle]
  /\ register = [r \in Register |-> NoRegister]

-----------------------------------------------------------------------------
(* Queries and guards.  A name with an underscore is the same definition   *)
(* with a mistake in it, which the runs are shown to notice.               *)

AgentRow(a) == owner[a] # NULL
AlertRow(i) == alerts[i].agent # NULL

\* FindRecentByAgentAndType: triggered_at >= at - window, with no upper bound
Recent_After(i, a, type, at) ==
  alerts[i].agent = a /\ alerts[i].type = type /\ alerts[i].at + Window > at
Recent(i, a, type, at) ==
  alerts[i].agent = a /\ alerts[i].type = type /\ alerts[i].at + Window >= at

\* the foreign key alerts.pc_agent_id
AgentReferenced(a) == AgentRow(a)

\* FindByUserID of mobile_device_repo.go
PhonesOf(u) == {x \in Token : devices[x] = u}

\* isInvalidFCMTokenError: the error code of the answer is UNREGISTERED
InvalidToken_AnyFailure(x) == TRUE
InvalidToken(x) == x \in dead

\* user_id = u AND fcm_token <> x
Others_ItsOwn(u, x) == PhonesOf(u) \cap {x}
Others(u, x) == PhonesOf(u) \ {x}

\* the open Upserts that have inserted or updated the row of x
Holders(x) == {r \in Register : register[r].pc # "idle" /\ register[r].token = x}

Handling(t, pc) == handler[t].pc = pc

-----------------------------------------------------------------------------
(* The broker and the agents.                                              *)

\* the status topic makes alerts only of unexpected disconnects; what
\* handleMQTTStatus ignores is left out
Publish(t, m) ==
  /\ Len(wire[t]) < MaxWire
  /\ t = "status" => m.type = "disconnected"
  /\ wire' = [wire EXCEPT ![t] = Append(@, m)]
  /\ UNCHANGED <<owner, alerts, devices, dead, handler, register>>

\* runOnce returns; after five seconds a clean session starts with nothing
Disconnect(t) ==
  /\ wire[t] # <<>>
  /\ wire' = [wire EXCEPT ![t] = <<>>]
  /\ UNCHANGED <<owner, alerts, devices, dead, handler, register>>

\* the server stops between two calls
Crash ==
  /\ wire' = [t \in Topic |-> <<>>]
  /\ handler' = [t \in Topic |-> Idle]
  /\ register' = [r \in Register |-> NoRegister]
  /\ UNCHANGED <<owner, alerts, devices, dead>>

\* an app is removed from its phone
Uninstall(x) ==
  /\ dead' = dead \cup {x}
  /\ UNCHANGED <<owner, alerts, devices, wire, handler, register>>

-----------------------------------------------------------------------------
(* CreateAlertFromAgent, called by handleMQTTAlert and handleMQTTStatus.   *)

Finish(t) == handler' = [handler EXCEPT ![t] = Idle]

\* the next message, and FindByID of its agent
Take(t) ==
  LET m == Head(wire[t]) IN
  /\ Handling(t, "idle")
  /\ wire[t] # <<>>
  /\ AgentRow(m.agent)
  /\ wire' = [wire EXCEPT ![t] = Tail(@)]
  /\ handler' = [handler EXCEPT ![t] =
       [Idle EXCEPT !.pc = "recent", !.agent = m.agent, !.type = m.type, !.at = m.at,
                    !.user = owner[m.agent]]]
  /\ UNCHANGED <<owner, alerts, devices, dead, register>>

TakeUnknown(t) ==
  /\ Handling(t, "idle")
  /\ wire[t] # <<>>
  /\ ~AgentRow(Head(wire[t]).agent)
  /\ wire' = [wire EXCEPT ![t] = Tail(@)]
  /\ UNCHANGED <<owner, alerts, devices, dead, handler, register>>

Duplicate(t) ==
  \E i \in Alert : Recent(i, handler[t].agent, handler[t].type, handler[t].at)

SkipDuplicate(t) ==
  /\ Handling(t, "recent")
  /\ Duplicate(t)
  /\ Finish(t)
  /\ UNCHANGED <<owner, alerts, devices, dead, wire, register>>

NoDuplicate(t) ==
  /\ Handling(t, "recent")
  /\ ~Duplicate(t)
  /\ handler' = [handler EXCEPT ![t] = [@ EXCEPT !.pc = "save"]]
  /\ UNCHANGED <<owner, alerts, devices, dead, wire, register>>

Save(t, i) ==
  LET h == handler[t] IN
  /\ Handling(t, "save")
  /\ AgentReferenced(h.agent)
  /\ ~AlertRow(i)
  /\ alerts' = [alerts EXCEPT ![i] =
       [agent |-> h.agent, type |-> h.type, at |-> h.at, via |-> t]]
  /\ handler' = [handler EXCEPT ![t] = [@ EXCEPT !.pc = "devices"]]
  /\ UNCHANGED <<owner, devices, dead, wire, register>>

\* the agent was deleted meanwhile
SaveRefused(t) ==
  /\ Handling(t, "save")
  /\ ~AgentReferenced(handler[t].agent)
  /\ Finish(t)
  /\ UNCHANGED <<owner, alerts, devices, dead, wire, register>>

ListDevices(t) ==
  LET phones == PhonesOf(handler[t].user) IN
  /\ Handling(t, "devices")
  /\ handler' = [handler EXCEPT ![t] =
       IF phones = {} THEN Idle ELSE [@ EXCEPT !.pc = "send", !.list = phones]]
  /\ UNCHANGED <<owner, alerts, devices, dead, wire, register>>

\* where the handler goes when it has sent to the last phone, or cleaned up
\* after the last one
Left_CleanupFirst(h, list, invalid) ==
  IF invalid # {} THEN [h EXCEPT !.pc = "cleanup", !.list = list, !.invalid = invalid]
  ELSE IF list # {} THEN [h EXCEPT !.pc = "send", !.list = list]
  ELSE Idle
Left(h, list, invalid) ==
  IF list # {} THEN [h EXCEPT !.pc = "send", !.list = list, !.invalid = invalid]
  ELSE IF invalid # {} THEN [h EXCEPT !.pc = "cleanup", !.list = {}, !.invalid = invalid]
  ELSE Idle

\* FCM accepts the message, fails, or answers that it does not know the token
Send(t, x) ==
  /\ Handling(t, "send")
  /\ x \in handler[t].list
  /\ handler' = [handler EXCEPT ![t] = Left(@, @.list \ {x}, @.invalid)]
  /\ UNCHANGED <<owner, alerts, devices, dead, wire, register>>

SendInvalid(t, x) ==
  /\ Handling(t, "send")
  /\ x \in handler[t].list
  /\ InvalidToken(x)
  /\ handler' = [handler EXCEPT ![t] = Left(@, @.list \ {x}, @.invalid \cup {x})]
  /\ UNCHANGED <<owner, alerts, devices, dead, wire, register>>

\* DeleteByFCMToken, of whoever the token is now
Cleanup(t, x) ==
  /\ Handling(t, "cleanup")
  /\ x \in handler[t].invalid
  /\ devices[x] # NULL => Holders(x) = {}
  /\ devices' = [devices EXCEPT ![x] = NULL]
  /\ handler' = [handler EXCEPT ![t] = Left(@, {}, @.invalid \ {x})]
  /\ UNCHANGED <<owner, alerts, dead, wire, register>>

\* its error is logged and the next token is tried
CleanupFail(t, x) ==
  /\ Handling(t, "cleanup")
  /\ x \in handler[t].invalid
  /\ handler' = [handler EXCEPT ![t] = Left(@, {}, @.invalid \ {x})]
  /\ UNCHANGED <<owner, alerts, devices, dead, wire, register>>

\* a query fails, or there is no access token for FCM: the error is logged
HandlerFail(t) ==
  /\ handler[t].pc \in {"recent", "save", "devices", "send"}
  /\ handler[t].invalid = {}
  /\ Finish(t)
  /\ UNCHANGED <<owner, alerts, devices, dead, wire, register>>

-----------------------------------------------------------------------------
(* RegisterMobileDevice.                                                   *)

RegisterUpsert(r, u, x) ==
  /\ register[r].pc = "idle"
  /\ Holders(x) = {}
  /\ register' = [register EXCEPT ![r] = [NoRegister EXCEPT !.pc = "delete", !.user = u, !.token = x]]
  /\ UNCHANGED <<owner, alerts, devices, dead, wire, handler>>

RegisterDelete(r) ==
  /\ register[r].pc = "delete"
  /\ register' = [register EXCEPT ![r] =
       [@ EXCEPT !.pc = "commit", !.rows = Others(register[r].user, register[r].token)]]
  /\ UNCHANGED <<owner, alerts, devices, dead, wire, handler>>

\* the transactions a DELETE waits for
WaitsFor(r) == UNION {Holders(x) : x \in register[r].rows} \ {r}

RegisterCommit(r) ==
  LET new == register[r] IN
  /\ new.pc = "commit"
  /\ WaitsFor(r) = {}
  /\ LET upserted == [devices EXCEPT ![new.token] = new.user] IN
     devices' = [x \in Token |->
       IF x \in new.rows /\ upserted[x] = new.user THEN NULL ELSE upserted[x]]
  /\ register' = [q \in Register |->
       IF q = r THEN NoRegister
       ELSE IF register[q].pc = "commit" /\ register[q].user = new.user
         THEN [register[q] EXCEPT !.overlap = TRUE]
       ELSE register[q]]
  /\ UNCHANGED <<owner, alerts, dead, wire, handler>>

\* each waits for another of them
Deadlocked(r) ==
  \E S \in SUBSET Register : r \in S /\ \A q \in S : WaitsFor(q) \cap S # {}

\* cancelled, failed, or the one of a deadlock that PostgreSQL picks
RegisterAbort_NoRollback(r) == register[r].pc # "idle" /\ UNCHANGED vars
RegisterAbort(r) ==
  /\ register[r].pc # "idle"
  /\ register' = [register EXCEPT ![r] = NoRegister]
  /\ UNCHANGED <<owner, alerts, devices, dead, wire, handler>>

\* DeletePCAgent, and alerts.pc_agent_id ON DELETE CASCADE
DeletePCAgent(a) ==
  /\ AgentRow(a)
  /\ owner' = [owner EXCEPT ![a] = NULL]
  /\ alerts' = [i \in Alert |-> IF alerts[i].agent = a THEN NoAlert ELSE alerts[i]]
  /\ UNCHANGED <<devices, dead, wire, handler, register>>

-----------------------------------------------------------------------------
HandlerTurn(t) ==
  \/ Take(t) \/ TakeUnknown(t)
  \/ SkipDuplicate(t) \/ NoDuplicate(t)
  \/ SaveRefused(t) \/ \E i \in Alert : Save(t, i)
  \/ ListDevices(t)
  \/ \E x \in Token : Send(t, x) \/ SendInvalid(t, x) \/ Cleanup(t, x)

\* what a database or FCM may do to a handler, but need not
HandlerError(t) == HandlerFail(t) \/ \E x \in Token : CleanupFail(t, x)

Next ==
  \/ \E t \in Topic :
       \/ \E m \in Message : Publish(t, m)
       \/ Disconnect(t)
       \/ HandlerTurn(t)
       \/ HandlerError(t)
  \/ Crash
  \/ \E x \in Token : Uninstall(x)
  \/ \E r \in Register :
       \/ \E u \in User, x \in Token : RegisterUpsert(r, u, x)
       \/ RegisterDelete(r)
       \/ RegisterCommit(r)
       \/ RegisterAbort(r)
  \/ \E a \in Agent : DeletePCAgent(a)

Spec == Init /\ [][Next]_vars

(* A handler runs on, and has to get the lock of a row it cleans up when   *)
(* that is free again and again; so has a transaction, and PostgreSQL      *)
(* ends deadlocks.  No error is assumed to come: DeleteByFCMToken waits    *)
(* with a context that has no deadline.                                    *)
Fairness ==
  /\ \A t \in Topic :
       /\ WF_vars(HandlerTurn(t))
       /\ SF_vars(\E x \in Token : Cleanup(t, x))
  /\ \A r \in Register :
       /\ WF_vars(RegisterDelete(r))
       /\ SF_vars(RegisterCommit(r))
       /\ WF_vars(Deadlocked(r) /\ RegisterAbort(r))

FairSpec == Spec /\ Fairness

-----------------------------------------------------------------------------
AlertCols == [agent : Agent \cup {NULL}, type : Type, at : 0 .. MaxAt, via : Topic \cup {NULL}]

\* Rows, messages and requests keep to their columns and program points: what
\* is left of a message's phones is sent to before the first token is removed,
\* and no step writes a column of a row that is not there.
TypeOK ==
  /\ owner \in [Agent -> User \cup {NULL}]
  /\ alerts \in [Alert -> AlertCols]
  /\ devices \in [Token -> User \cup {NULL}]
  /\ dead \subseteq Token
  /\ \A t \in Topic : wire[t] \in Seq(Message) /\ Len(wire[t]) <= MaxWire
  /\ handler \in [Topic -> [pc : {"idle", "recent", "save", "devices", "send", "cleanup"},
                            agent : Agent \cup {NULL}, type : Type, at : 0 .. MaxAt,
                            user : User \cup {NULL}, list : SUBSET Token,
                            invalid : SUBSET Token]]
  /\ register \in [Register -> [pc : {"idle", "delete", "commit"}, user : User \cup {NULL},
                                token : Token \cup {NULL}, rows : SUBSET Token,
                                overlap : BOOLEAN]]
  /\ \A i \in Alert : ~AlertRow(i) => alerts[i] = NoAlert
  /\ \A t \in Topic :
       /\ Handling(t, "idle") => handler[t] = Idle
       /\ handler[t].list # {} <=> Handling(t, "send")
       /\ Handling(t, "cleanup") => handler[t].invalid # {}

SameKind(i, j) == alerts[i].agent = alerts[j].agent /\ alerts[i].type = alerts[j].type

\* Whatever an agent repeats, at whatever times, and wherever the server
\* crashed: two alerts of one agent and type that came through one subscriber
\* are further apart than duplicateAlertWindow.
AlertsSpaced ==
  \A i, j \in Alert :
    i # j /\ AlertRow(i) /\ SameKind(i, j) /\ alerts[i].via = alerts[j].via
      => \/ alerts[i].at + Window < alerts[j].at
         \/ alerts[j].at + Window < alerts[i].at

\* Tokens are removed by name, after a list read several calls ago, and a
\* registration deletes rows it saw before it waited for their locks; still a
\* row goes only because FCM no longer knows its token, or while its user has
\* another row.
LivePhoneStays ==
  [][\A x \in Token :
       devices[x] # NULL /\ devices'[x] = NULL
         => x \in dead \/ \E y \in Token : devices'[y] = devices[x]]_vars

\* A registration leaves its user one phone, its own, whatever overlapping ones
\* left behind before, and whichever rows change hands while it waits for their
\* locks.  Of two that overlap this is not so: one that another of the user
\* overtook between its snapshot and its end may leave that one's row.
RegistrationReplaces ==
  [][\A r \in Register :
       ~register[r].overlap /\ RegisterCommit(r)
         => {x \in Token : devices'[x] = register[r].user} = {register[r].token}]_vars

\* A handler is done with every message it takes: the registrations whose row
\* locks its cleanup waits for come to an end, those that deadlock included, so
\* one message whose phones are gone does not block a subscriber for good.
HandlerReturns == \A t \in Topic : ~Handling(t, "idle") ~> Handling(t, "idle")

\* Two phones that register with each other's tokens lock rows in opposite
\* orders; still every registration ends.
RegisterFinishes ==
  \A r \in Register : register[r].pc # "idle" ~> register[r].pc = "idle"

\* What the log says of a skipped alert: there is one of the same agent and
\* type within the window.
DuplicateIsWithinWindow ==
  \A t \in Topic :
    Handling(t, "recent") /\ Duplicate(t)
      => \E i \in Alert :
           /\ Recent(i, handler[t].agent, handler[t].type, handler[t].at)
           /\ alerts[i].at <= handler[t].at + Window

=============================================================================
