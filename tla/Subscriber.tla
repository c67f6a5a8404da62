----------------------------- MODULE Subscriber -----------------------------
(***************************************************************************)
(* One MQTT subscriber (mqtt/subscriber.go): Run with its reconnects, the  *)
(* handshake, the read loop and the goroutine that closes the connection   *)
(* when the context is cancelled.                                          *)
(*                                                                         *)
(* readPacket has no deadline: the client waits as long as the connection  *)
(* is open and nothing comes.  A connection that is closed by the other    *)
(* side still yields what had arrived before.                              *)
(*                                                                         *)
(* The broker is not in the repository.  It may refuse, keep silent, send  *)
(* what does not fit, or close at any time; the connection is a clean      *)
(* session, so nothing is kept for the next one.  A packet is its type,    *)
(* the bytes of its length and, for a PUBLISH, whether it has a packet id; *)
(* a message is known by its length.  Its topic is as long as there is     *)
(* room for; a PUBLISH with a topic longer than itself is passed over like *)
(* a packet of another type, and is one of those here.  The writes of      *)
(* CONNECT and SUBSCRIBE are part of the steps before the answer is read.  *)
(***************************************************************************)
EXTENDS PacketCodec

CONSTANTS
  Length,    \* the remaining lengths of the PUBLISH packets the broker sends
  MaxWire,   \* packets on the way, a bound of the model only
  NONE       \* no message

ASSUME SubscriberAssumption ==
  /\ Length \subseteq Lengths
  /\ MaxWire \in Nat
  /\ NONE \notin [length : Length, id : BOOLEAN]

VARIABLES
  cancelled,  \* the context of the process is
  pc,         \* where Run is
  msg,        \* the message its handler was given last, until it is done with
  link,       \* the connection: none, up, or closed by the other side
  wire,       \* packets on the way to the client
  stage       \* the last packet the broker has of the client, or answered

vars == <<cancelled, pc, msg, link, wire, stage>>

Message == [length : Length, id : BOOLEAN]

\* size is the true length of a PUBLISH, kept to state properties
Plain(type)     == [type |-> type, bytes |-> <<2>>, size |-> 0, id |-> FALSE]
TooLong         == [type |-> "other", bytes |-> <<128, 128, 128, 128>>, size |-> 0, id |-> FALSE]
Publish(n, id)  == [type |-> "publish", bytes |-> StandardLength(n), size |-> n, id |-> id]

Init ==
  /\ cancelled = FALSE
  /\ pc = "dial"
  /\ msg = NONE
  /\ link = "none"
  /\ wire = <<>>
  /\ stage = "none"

-----------------------------------------------------------------------------
(* The broker.                                                             *)

Arrives(packet) ==
  /\ link = "up"
  /\ Len(wire) < MaxWire
  /\ wire' = Append(wire, packet)
  /\ UNCHANGED <<cancelled, pc, msg, link>>

BrokerAccept == stage = "connect" /\ Arrives(Plain("connack")) /\ stage' = "accepted"
BrokerGrant  == stage = "subscribe" /\ Arrives(Plain("suback")) /\ stage' = "serve"

\* the standard lets the messages come before the SUBACK
BrokerPublish(n, id) ==
  /\ stage \in {"subscribe", "serve"}
  /\ Arrives(Publish(n, id))
  /\ UNCHANGED stage

\* a refusal, an answer of another type, a PUBLISH with a truncated topic, a
\* length of more than four bytes
BrokerOther ==
  /\ stage \in {"connect", "subscribe", "serve"}
  /\ \E packet \in {Plain("other"), TooLong} : Arrives(packet)
  /\ UNCHANGED stage

BrokerClose ==
  /\ link = "up"
  /\ link' = "closed"
  /\ \E k \in 0 .. Len(wire) : wire' = SubSeq(wire, 1, k)
  /\ UNCHANGED <<cancelled, pc, msg, stage>>

-----------------------------------------------------------------------------
(* Guards.                                                                 *)

Reading == pc \in {"connack", "suback", "read"}

\* the answers connect and subscribe insist on
Fits(packet) ==
  /\ WellFormed(packet.bytes)
  /\ pc = "connack" => packet.type = "connack"
  /\ pc = "suback" => packet.type = "suback"

\* what parsePublish insists on: the length of the topic, and the id if there
\* is to be one
Header(packet) == IF packet.id THEN 4 ELSE 2

IsMessage(packet) ==
  /\ packet.type = "publish"
  /\ WellFormed(packet.bytes)
  /\ Decoded(packet.bytes) >= Header(packet)

\* where the goroutine that waits for ctx.Done() runs
Watched_AfterSubscribe == pc \in {"read", "handle", "ack"}
Watched == pc \in {"connack", "suback", "read", "handle", "ack"}

\* what Run does when runOnce is over; a read of readLoop that fails after the
\* cancel is no error, and comes to the select
AfterError_Return == "stopped"
AfterError == IF cancelled /\ pc # "read" THEN "stopped" ELSE "wait"

-----------------------------------------------------------------------------
(* Run and runOnce.                                                        *)

\* the deferred Close
Leave_Open == pc' = AfterError /\ UNCHANGED <<msg, link, wire, cancelled, stage>>
Leave ==
  /\ pc' = AfterError
  /\ link' = "none" /\ wire' = <<>> /\ stage' = "none" /\ msg' = NONE
  /\ UNCHANGED cancelled

\* TCP, and CONNECT sent
Dial ==
  /\ pc = "dial"
  /\ ~cancelled
  /\ pc' = "connack" /\ link' = "up" /\ stage' = "connect"
  /\ UNCHANGED <<cancelled, msg, wire>>

\* unreachable, ten seconds, or the context
DialFail == pc = "dial" /\ Leave

Read(to) ==
  /\ wire # <<>>
  /\ Fits(Head(wire))
  /\ wire' = Tail(wire)
  /\ pc' = to
  /\ UNCHANGED <<cancelled, link>>

\* SUBSCRIBE sent
ReadConnack ==
  /\ pc = "connack" /\ Read("suback")
  /\ stage' = IF link = "up" THEN "subscribe" ELSE stage
  /\ UNCHANGED msg

ReadSuback == pc = "suback" /\ Read("read") /\ UNCHANGED <<msg, stage>>

ReadMessage ==
  /\ pc = "read" /\ Read("handle")
  /\ IsMessage(Head(wire))
  /\ msg' = [length |-> Decoded(Head(wire).bytes), id |-> Head(wire).id]
  /\ UNCHANGED stage

ReadSkip == pc = "read" /\ Read("read") /\ ~IsMessage(Head(wire)) /\ UNCHANGED <<msg, stage>>

ReadFail == Reading /\ wire # <<>> /\ ~Fits(Head(wire)) /\ Leave

ReadEOF == Reading /\ wire = <<>> /\ link # "up" /\ Leave

\* its error is logged
HandlerReturn ==
  /\ pc = "handle"
  /\ pc' = IF msg.id THEN "ack" ELSE "read"
  /\ msg' = NONE
  /\ UNCHANGED <<cancelled, link, wire, stage>>

\* PUBACK sent, or buffered for a connection that is gone
Ack == pc = "ack" /\ pc' = "read" /\ UNCHANGED <<cancelled, msg, link, wire, stage>>

AckFail == pc = "ack" /\ link # "up" /\ Leave

\* the timer of five seconds; the select may still choose it after the cancel
Retry == pc = "wait" /\ pc' = "dial" /\ UNCHANGED <<cancelled, msg, link, wire, stage>>

Stop == pc = "wait" /\ cancelled /\ pc' = "stopped" /\ UNCHANGED <<cancelled, msg, link, wire, stage>>

-----------------------------------------------------------------------------
\* runtimeCancel of main
Cancel == ~cancelled /\ cancelled' = TRUE /\ UNCHANGED <<pc, msg, link, wire, stage>>

Watch ==
  /\ cancelled
  /\ Watched
  /\ link # "none"
  /\ link' = "none" /\ wire' = <<>> /\ stage' = "none"
  /\ UNCHANGED <<cancelled, pc, msg>>

ClientTurn ==
  \/ Dial \/ DialFail
  \/ ReadConnack \/ ReadSuback \/ ReadMessage \/ ReadSkip \/ ReadFail \/ ReadEOF
  \/ HandlerReturn \/ Ack \/ AckFail
  \/ Retry \/ Stop

Next ==
  \/ BrokerAccept \/ BrokerGrant
  \/ \E n \in Length, id \in BOOLEAN : BrokerPublish(n, id)
  \/ BrokerOther \/ BrokerClose
  \/ ClientTurn
  \/ Cancel \/ Watch

Spec == Init /\ [][Next]_vars

\* Handlers return and goroutines run; nothing is assumed of the broker.
FairSpec == Spec /\ WF_vars(ClientTurn) /\ WF_vars(Watch)

-----------------------------------------------------------------------------
\* Run is at one of its points, and when it waits or has returned, it has left
\* no connection open and is done with its message.
TypeOK ==
  /\ cancelled \in BOOLEAN
  /\ pc \in {"dial", "connack", "suback", "read", "handle", "ack", "wait", "stopped"}
  /\ msg \in Message \cup {NONE}
  /\ link \in {"none", "up", "closed"}
  /\ \A i \in DOMAIN wire :
       wire[i] \in {Plain("connack"), Plain("suback"), Plain("other"), TooLong}
                     \cup {Publish(n, id) : n \in Length, id \in BOOLEAN}
  /\ stage \in {"none", "connect", "accepted", "subscribe", "serve"}
  /\ pc \in {"dial", "wait", "stopped"} => link = "none" /\ wire = <<>>
  /\ msg # NONE <=> pc = "handle"

\* The client and the broker agree on every length there is between them: the
\* client's own encoding of a length that is on the way is the one the broker
\* sent, and it reads back what it writes, on both sides of each power of 128.
LengthsRoundTrip ==
  \A i \in DOMAIN wire :
    wire[i].type = "publish" => wire[i].bytes = Encoded(wire[i].size) /\ RoundTrips(wire[i].size)

\* What a packet is to the handler: its message, or none.
Sent(packet) ==
  IF packet.type = "publish" /\ packet.size >= Header(packet)
    THEN [length |-> packet.size, id |-> packet.id] ELSE NONE
Inbox(packets) == [i \in DOMAIN packets |-> Sent(packets[i])]

D == INSTANCE Delivery WITH inbox <- Inbox(wire), current <- msg

\* The subscriber implements Delivery: through lost connections, refusals and
\* packets that are not messages, its handler is given the messages of the
\* broker whole, in order and one at a time, and only a tail is ever lost.
ImplementsDelivery == D!Spec

\* Once the context is cancelled the subscriber comes to its end, whatever the
\* broker does: also in the middle of a handshake it never answers.
StopsWhenCancelled == cancelled ~> pc = "stopped"

\* A subscriber survives any trouble with its broker: when the broker is well
\* from some time on, the subscriber is subscribed from some time on.
BrokerFault ==
  \/ BrokerOther \/ BrokerClose \/ DialFail
  \/ stage = "subscribe" /\ \E n \in Length, id \in BOOLEAN : BrokerPublish(n, id)
BrokerGetsWell ==
  <>[][~BrokerFault]_vars /\ WF_vars(BrokerAccept) /\ WF_vars(BrokerGrant)
Recovers ==
  BrokerGetsWell => <>[](cancelled \/ pc \in {"read", "handle", "ack"})

=============================================================================
