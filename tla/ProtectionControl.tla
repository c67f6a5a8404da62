------------------------- MODULE ProtectionControl -------------------------
(***************************************************************************)
(* Protection commands for one PC agent: HandleUpdateProtection updates    *)
(* the row and leaves a goroutine behind that tells the PC over MQTT       *)
(* (http/pc_agent_handler.go, mqtt/publisher.go).                          *)
(*                                                                         *)
(* Each goroutine has a connection of its own, a context of three seconds  *)
(* with a second goroutine that closes the connection when it is over, and *)
(* one PUBLISH of QoS 1 which it does not repeat.  Nobody waits for it and *)
(* nothing orders it with those of other requests.                         *)
(*                                                                         *)
(* The broker and the PC are not in the repository.  The broker may keep   *)
(* silent, refuse, answer something else or close at any time; a PUBLISH   *)
(* written to a connection may reach it after the client has closed that,  *)
(* or not at all.  It passes the commands it takes on to the PC in order.  *)
(* The PC reports its own state (HandleUpdateOwnProtection).               *)
(***************************************************************************)
EXTENDS Naturals

CONSTANTS
  Command,  \* requests of HandleUpdateProtection
  NONE      \* nothing

ASSUME ProtectionControlAssumption == NONE \notin Command \cup BOOLEAN

VARIABLES
  row,      \* whether protection_status is enabled
  last,     \* the request that wrote it last, NONE for the PC itself
  told,     \* the last command the broker took
  request   \* the requests and their goroutines

vars == <<row, last, told, request>>

\* sent is the packet the broker has still to take, reply the one the client
\* has still to read.  alone and taken are kept to state properties: no other
\* command was under way when this one was written, and the broker took it.
NoRequest == [pc |-> "idle", enabled |-> FALSE, expired |-> FALSE, link |-> "none",
              sent |-> "none", reply |-> "none", alone |-> FALSE, taken |-> FALSE]

Init ==
  /\ row = FALSE
  /\ last = NONE
  /\ told = NONE
  /\ request = [c \in Command |-> NoRequest]

-----------------------------------------------------------------------------
(* Guards.  A name with an underscore is the same definition with a        *)
(* mistake in it, which the runs are shown to notice.                      *)

At(c, pc) == request[c].pc = pc

UnderWay(c) == request[c].pc \notin {"idle", "done"} \/ request[c].sent = "publish"

\* where the goroutine that waits for ctx.Done() runs
Watched_AfterConnect(c) == request[c].pc = "puback"
Watched(c) == request[c].pc \in {"connack", "puback"}

Step(c, to) == request' = [request EXCEPT ![c] = to] /\ UNCHANGED <<row, last, told>>

\* the deferred Close; what was written is written
Closed_Reopened(q) == [q EXCEPT !.pc = "dial", !.link = "none", !.reply = "none"]
Closed(q) == [q EXCEPT !.pc = "done", !.link = "none", !.reply = "none"]
Leave(c) == Step(c, Closed(request[c]))

-----------------------------------------------------------------------------
(* The requests.                                                           *)

\* UpdatePCAgentProtection commits
UpdateProtection(c, enabled) ==
  /\ At(c, "idle")
  /\ row' = enabled
  /\ last' = c
  /\ request' = [request EXCEPT ![c] =
       [@ EXCEPT !.pc = "updated", !.enabled = enabled,
                 !.alone = \A d \in Command \ {c} : ~UnderWay(d)]]
  /\ UNCHANGED told

\* no such agent of this user, or an error
UpdateRefused_Published(c) ==
  At(c, "idle") /\ \E enabled \in BOOLEAN :
    Step(c, [request[c] EXCEPT !.pc = "dial", !.enabled = enabled])
UpdateRefused(c) == At(c, "idle") /\ Step(c, [request[c] EXCEPT !.pc = "done"])

\* publishProtectionCommand
StartPublish(c) == At(c, "updated") /\ Step(c, [request[c] EXCEPT !.pc = "dial"])

\* the update has committed, the request was cancelled or its answer lost
UpdateLost(c) == At(c, "updated") /\ Step(c, [request[c] EXCEPT !.pc = "done"])

\* UpdatePCAgentOwnProtection
UpdateOwnProtection(enabled) ==
  row' = enabled /\ last' = NONE /\ UNCHANGED <<told, request>>

\* the process ends; Shutdown does not wait for the goroutines either
Crash ==
  /\ request' = [c \in Command |-> IF At(c, "idle") THEN request[c] ELSE Closed(request[c])]
  /\ UNCHANGED <<row, last, told>>

-----------------------------------------------------------------------------
(* The goroutine.                                                          *)

\* TCP, and CONNECT sent
Dial(c) ==
  /\ At(c, "dial")
  /\ ~request[c].expired
  /\ Step(c, [request[c] EXCEPT !.pc = "connack", !.link = "up", !.sent = "connect"])

DialFail(c) == At(c, "dial") /\ Leave(c)

\* PUBLISH written
ReadConnack(c) ==
  /\ At(c, "connack")
  /\ request[c].reply = "connack"
  /\ Step(c, [request[c] EXCEPT !.pc = "puback", !.reply = "none",
                !.sent = IF request[c].link = "up" THEN "publish" ELSE @])

\* and DISCONNECT, which the broker may miss
ReadPuback(c) == At(c, "puback") /\ request[c].reply = "puback" /\ Leave(c)

ReadFail(c) ==
  /\ At(c, "connack") \/ At(c, "puback")
  /\ \/ request[c].reply = "other"
     \/ request[c].reply = "none" /\ request[c].link # "up"
  /\ Leave(c)

\* SetReadDeadline: five seconds after the PUBLISH, later than the context's three
ReadDeadline(c) == At(c, "puback") /\ request[c].expired /\ Leave(c)

\* context.WithTimeout
Expire(c) ==
  /\ request[c].pc \in {"dial", "connack", "puback"}
  /\ ~request[c].expired
  /\ Step(c, [request[c] EXCEPT !.expired = TRUE])

Watch(c) ==
  /\ request[c].expired
  /\ Watched(c)
  /\ request[c].link # "none"
  /\ Step(c, [request[c] EXCEPT !.link = "none", !.reply = "none"])

-----------------------------------------------------------------------------
(* The broker.                                                             *)

BrokerAccept(c) ==
  /\ request[c].sent = "connect"
  /\ request[c].link = "up"
  /\ Step(c, [request[c] EXCEPT !.sent = "none", !.reply = "connack"])

BrokerRefuse(c) ==
  /\ request[c].sent # "none"
  /\ request[c].link = "up"
  /\ Step(c, [request[c] EXCEPT !.sent = "none", !.reply = "other"])

BrokerTake(c) ==
  /\ request[c].sent = "publish"
  /\ told' = request[c].enabled
  /\ request' = [request EXCEPT ![c] =
       [@ EXCEPT !.sent = "none", !.taken = TRUE,
                 !.reply = IF request[c].link = "up" THEN "puback" ELSE request[c].reply]]
  /\ UNCHANGED <<row, last>>

\* the connection ends there, or what was written to it is lost
BrokerClose(c) ==
  /\ request[c].link = "up" \/ request[c].sent # "none"
  /\ Step(c, [request[c] EXCEPT !.sent = "none",
                !.link = IF @ = "up" THEN "closed" ELSE @])

-----------------------------------------------------------------------------
Goroutine(c) ==
  \/ Dial(c) \/ DialFail(c)
  \/ ReadConnack(c) \/ ReadPuback(c) \/ ReadFail(c) \/ ReadDeadline(c)

Broker(c) == BrokerAccept(c) \/ BrokerRefuse(c) \/ BrokerTake(c) \/ BrokerClose(c)

Next ==
  \/ \E c \in Command :
       \/ \E enabled \in BOOLEAN : UpdateProtection(c, enabled)
       \/ UpdateRefused(c) \/ StartPublish(c) \/ UpdateLost(c)
       \/ Goroutine(c)
       \/ Expire(c) \/ Watch(c)
       \/ Broker(c)
  \/ \E enabled \in BOOLEAN : UpdateOwnProtection(enabled)
  \/ Crash

Spec == Init /\ [][Next]_vars

\* Goroutines run and the context expires; nothing is assumed of the broker.
FairSpec ==
  /\ Spec
  /\ \A c \in Command : WF_vars(Goroutine(c)) /\ WF_vars(Expire(c)) /\ WF_vars(Watch(c))

(* Without MQTT_BROKER newProtectionCommandPublisher returns a nil pointer, *)
(* which NewPCAgentHandler stores in an interface: protectionCommands is    *)
(* not nil, the goroutine starts, and Publish reads the Broker of a nil     *)
(* pointer.  A panic that nothing recovers ends the process.                *)
Panicked == \E c \in Command : At(c, "panicked")

PublishNil(c) == At(c, "dial") /\ Step(c, [request[c] EXCEPT !.pc = "panicked"])

NextDisabled ==
  /\ ~Panicked
  /\ \/ \E c \in Command :
          \/ \E enabled \in BOOLEAN : UpdateProtection(c, enabled)
          \/ UpdateRefused(c) \/ StartPublish(c) \/ UpdateLost(c)
          \/ PublishNil(c)
     \/ \E enabled \in BOOLEAN : UpdateOwnProtection(enabled)

DisabledSpec == Init /\ [][NextDisabled]_vars

-----------------------------------------------------------------------------
\* Requests keep to their program points, a goroutine that is gone has left no
\* connection open, and no packet is on the way that its turn has not come for.
TypeOK ==
  /\ row \in BOOLEAN
  /\ last \in Command \cup {NONE}
  /\ told \in BOOLEAN \cup {NONE}
  /\ request \in [Command ->
       [pc : {"idle", "updated", "dial", "connack", "puback", "done"},
        enabled : BOOLEAN, expired : BOOLEAN, link : {"none", "up", "closed"},
        sent : {"none", "connect", "publish"}, reply : {"none", "connack", "puback", "other"},
        alone : BOOLEAN, taken : BOOLEAN]]
  /\ \A c \in Command :
       /\ request[c].link # "none" => request[c].pc \in {"connack", "puback"}
       /\ request[c].sent = "publish" => request[c].pc \in {"puback", "done"}
       /\ request[c].reply # "none" => request[c].link # "none" /\ request[c].sent = "none"

\* What the PC was told is what the row says, however late commands reach the
\* broker and whatever requests were refused since: provided the last request
\* found no other command under way, the PC has not reported another state,
\* and the broker took the command.
ToldAsWritten ==
  last # NONE /\ request[last].alone /\ request[last].taken => told = row

\* A request never leaves a goroutine or a connection behind for good: also
\* with a broker that accepts and keeps silent, each comes to its end.
PublishEnds == \A c \in Command : At(c, "dial") ~> At(c, "done")

\* What the log says without MQTT_BROKER: the publisher is disabled, so that a
\* request costs nothing more than its update.
DisabledPublisherIsHarmless == ~Panicked

=============================================================================
