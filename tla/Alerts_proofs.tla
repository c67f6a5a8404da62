---------------------------- MODULE Alerts_proofs ----------------------------
(***************************************************************************)
(* Alerts and the registration of phones, for any number of agents, users, *)
(* tokens, rows and requests, whatever the window and the clocks.          *)
(***************************************************************************)
EXTENDS Alerts, SequenceTheorems, TLAPS

WireOK == wire \in [Topic -> Seq(Message)]

\* What a handler has in hand: the agent of its message, and tokens that FCM
\* refused and always will.
HandlersOK ==
  \A t \in Topic :
    /\ ~Handling(t, "idle") => handler[t].agent \in Agent
    /\ handler[t].invalid \subseteq dead

\* Between its query and its insert a handler stays clear of what its own
\* subscriber saved: nobody else saves in its name.
SaveIsClear ==
  \A t \in Topic, i \in Alert :
    /\ Handling(t, "save") /\ alerts[i].via = t
    /\ alerts[i].agent = handler[t].agent /\ alerts[i].type = handler[t].type
    => alerts[i].at + Window < handler[t].at

\* A registration never deletes its own row, and its snapshot has all other
\* rows of its user until another registration of the user commits.
RegistersOK ==
  \A r \in Register :
    /\ register[r].pc # "idle" => register[r].user \in User /\ register[r].token \in Token
    /\ register[r].pc = "commit" => register[r].token \notin register[r].rows
    /\ register[r].pc = "commit" /\ ~register[r].overlap =>
         Others(register[r].user, register[r].token) \subseteq register[r].rows

IInv == TypeOK /\ WireOK /\ HandlersOK /\ AlertsSpaced /\ SaveIsClear /\ RegistersOK

-----------------------------------------------------------------------------
HandlerCols ==
  [pc : {"idle", "recent", "save", "devices", "send", "cleanup"},
   agent : Agent \cup {NULL}, type : Type, at : 0 .. MaxAt, user : User \cup {NULL},
   list : SUBSET Token, invalid : SUBSET Token]

RegisterCols ==
  [pc : {"idle", "delete", "commit"}, user : User \cup {NULL}, token : Token \cup {NULL},
   rows : SUBSET Token, overlap : BOOLEAN]

\* A handler's columns fit its program point.
Fits(h) ==
  /\ h.pc = "idle" => h = Idle
  /\ h.list # {} <=> h.pc = "send"
  /\ h.pc = "cleanup" => h.invalid # {}

Clear(t, h) ==
  \A i \in Alert :
    alerts[i].via = t /\ alerts[i].agent = h.agent /\ alerts[i].type = h.type
      => alerts[i].at + Window < h.at

LEMMA IdleFits == Idle \in HandlerCols /\ Idle.pc = "idle" /\ Idle.invalid = {} /\ Fits(Idle)
BY AlertsAssumption DEF Idle, HandlerCols, Type, Fits

LEMMA NoRegisterIdle == NoRegister \in RegisterCols /\ NoRegister.pc = "idle"
BY DEF NoRegister, RegisterCols

LEMMA HandlerFits ==
  ASSUME TypeOK, NEW t \in Topic
  PROVE  handler[t] \in HandlerCols /\ Fits(handler[t])
BY DEF TypeOK, HandlerCols, Fits, Handling

\* A handler moves on: the rows of phones it touches go, and the alerts stay.
LEMMA HandlerIInv ==
  ASSUME IInv, NEW t \in Topic, NEW h \in HandlerCols,
         handler' = [handler EXCEPT ![t] = h], UNCHANGED <<owner, alerts, dead, register>>,
         wire' \in [Topic -> Seq(Message)], \A s \in Topic : Len(wire'[s]) <= MaxWire,
         devices' \in [Token -> User \cup {NULL}],
         \A x \in Token : devices'[x] # NULL => devices'[x] = devices[x],
         Fits(h), h.pc # "idle" => h.agent \in Agent, h.invalid \subseteq dead,
         h.pc = "save" => Clear(t, h)
  PROVE  IInv'
<1>1. /\ handler' \in [Topic -> HandlerCols] /\ handler'[t] = h
      /\ \A s \in Topic \ {t} : handler'[s] = handler[s]
  BY DEF IInv, TypeOK, HandlerCols
<1>2. TypeOK'
  <2>1. \A s \in Topic : /\ handler'[s].pc = "idle" => handler'[s] = Idle
                         /\ handler'[s].list # {} <=> handler'[s].pc = "send"
                         /\ handler'[s].pc = "cleanup" => handler'[s].invalid # {}
    BY <1>1 DEF IInv, TypeOK, Fits, Handling
  <2>2. \A i \in Alert : ~AlertRow(i)' => alerts'[i] = NoAlert
    BY DEF IInv, TypeOK, AlertRow
  <2>3. \A s \in Topic : wire'[s] \in Seq(Message) /\ Len(wire'[s]) <= MaxWire
    OBVIOUS
  <2> QED BY <1>1, <2>1, <2>2, <2>3 DEF IInv, TypeOK, HandlerCols, Handling
<1>3. HandlersOK'
  BY <1>1 DEF IInv, HandlersOK, Handling
<1>4. AlertsSpaced'
  BY DEF IInv, AlertsSpaced, AlertRow, SameKind
<1>5. SaveIsClear'
  BY <1>1 DEF IInv, SaveIsClear, Clear, Handling
<1>6. RegistersOK'
  <2>1. \A u \in User, x \in Token : Others(u, x)' \subseteq Others(u, x)
    BY AlertsAssumption DEF Others, PhonesOf
  <2> QED BY <2>1 DEF IInv, RegistersOK
<1>7. WireOK'
  BY DEF WireOK
<1> QED BY <1>2, <1>3, <1>4, <1>5, <1>6, <1>7 DEF IInv

LEMMA HandlerOnlyIInv ==
  ASSUME IInv, NEW t \in Topic, NEW h \in HandlerCols,
         handler' = [handler EXCEPT ![t] = h],
         UNCHANGED <<owner, alerts, devices, dead, wire, register>>,
         Fits(h), h.pc # "idle" => h.agent \in Agent, h.invalid \subseteq dead,
         h.pc = "save" => Clear(t, h)
  PROVE  IInv'
<1>1. /\ wire' \in [Topic -> Seq(Message)] /\ devices' \in [Token -> User \cup {NULL}]
      /\ \A s \in Topic : Len(wire'[s]) <= MaxWire
      /\ \A x \in Token : devices'[x] # NULL => devices'[x] = devices[x]
  BY DEF IInv, WireOK, TypeOK
<1> QED BY <1>1, HandlerIInv

LEMMA FinishIInv ==
  ASSUME IInv, NEW t \in Topic, Finish(t),
         UNCHANGED <<owner, alerts, devices, dead, wire, register>>
  PROVE  IInv'
BY IdleFits, HandlerOnlyIInv DEF Finish

LEMMA TailWire ==
  ASSUME IInv, NEW t \in Topic, wire[t] # <<>>, wire' = [wire EXCEPT ![t] = Tail(@)]
  PROVE  /\ wire' \in [Topic -> Seq(Message)] /\ \A s \in Topic : Len(wire'[s]) <= MaxWire
         /\ Head(wire[t]) \in Message
<1>1. wire \in [Topic -> Seq(Message)] /\ \A s \in Topic : Len(wire[s]) <= MaxWire
  BY DEF IInv, WireOK, TypeOK
<1>2. wire[t] \in Seq(Message) /\ Len(wire[t]) \in Nat
  BY <1>1
<1>3. /\ Head(wire[t]) \in Message /\ Tail(wire[t]) \in Seq(Message)
      /\ Len(Tail(wire[t])) = Len(wire[t]) - 1
  BY <1>2, HeadTailProperties
<1>4. Len(Tail(wire[t])) <= MaxWire
  BY <1>1, <1>2, <1>3, AlertsAssumption
<1> QED BY <1>1, <1>3, <1>4

LEMMA TakeIInv ==
  ASSUME IInv, NEW t \in Topic, Take(t)
  PROVE  IInv'
<1>1. PICK m : m = Head(wire[t])
  OBVIOUS
<1>2. PICK h : h = [Idle EXCEPT !.pc = "recent", !.agent = m.agent, !.type = m.type,
                                !.at = m.at, !.user = owner[m.agent]]
  OBVIOUS
<1>3. /\ wire[t] # <<>> /\ wire' = [wire EXCEPT ![t] = Tail(@)]
      /\ handler' = [handler EXCEPT ![t] = h]
      /\ UNCHANGED <<owner, alerts, devices, dead, register>>
  BY <1>1, <1>2 DEF Take
<1>4. m \in Message
  BY <1>1, <1>3, TailWire
<1>5. m.agent \in Agent /\ m.type \in Type /\ m.at \in 0 .. MaxAt
      /\ owner[m.agent] \in User \cup {NULL}
  BY <1>4 DEF Message, IInv, TypeOK
<1>6. h \in HandlerCols
  BY <1>2, <1>5, IdleFits DEF HandlerCols
<1>7. h.pc = "recent" /\ h.agent = m.agent /\ h.list = {} /\ h.invalid = {}
  BY <1>2 DEF Idle
<1>8. devices' \in [Token -> User \cup {NULL}]
      /\ \A x \in Token : devices'[x] # NULL => devices'[x] = devices[x]
  BY <1>3 DEF IInv, TypeOK
<1>9. Fits(h)
  BY <1>7 DEF Fits
<1> QED BY <1>3, <1>5, <1>6, <1>7, <1>8, <1>9, TailWire, HandlerIInv

LEMMA TakeUnknownIInv ==
  ASSUME IInv, NEW t \in Topic, TakeUnknown(t)
  PROVE  IInv'
<1>1. /\ wire[t] # <<>> /\ wire' = [wire EXCEPT ![t] = Tail(@)]
      /\ handler' = [handler EXCEPT ![t] = handler[t]]
      /\ UNCHANGED <<owner, alerts, devices, dead, register>>
  BY DEF TakeUnknown, IInv, TypeOK
<1>2. devices' \in [Token -> User \cup {NULL}]
      /\ \A x \in Token : devices'[x] # NULL => devices'[x] = devices[x]
  BY <1>1 DEF IInv, TypeOK
<1>3. /\ handler[t].pc # "idle" => handler[t].agent \in Agent
      /\ handler[t].invalid \subseteq dead
      /\ handler[t].pc = "save" => Clear(t, handler[t])
  BY DEF IInv, HandlersOK, SaveIsClear, Clear, Handling
<1> QED BY <1>1, <1>2, <1>3, HandlerFits, TailWire, HandlerIInv DEF IInv

\* The query that found nothing recent looked at more than its own subscriber's.
LEMMA NoDuplicateIInv ==
  ASSUME IInv, NEW t \in Topic, NoDuplicate(t)
  PROVE  IInv'
<1>1. handler[t] \in HandlerCols /\ Fits(handler[t]) /\ handler[t].pc = "recent"
  BY HandlerFits DEF IInv, NoDuplicate, Handling
<1>2. PICK h : h = [handler[t] EXCEPT !.pc = "save"]
  OBVIOUS
<1>3. /\ h \in HandlerCols /\ h.pc = "save" /\ h.agent = handler[t].agent
      /\ h.type = handler[t].type /\ h.at = handler[t].at /\ h.list = handler[t].list
      /\ h.invalid = handler[t].invalid
  BY <1>1, <1>2 DEF HandlerCols
<1>4. /\ handler' = [handler EXCEPT ![t] = h]
      /\ UNCHANGED <<owner, alerts, devices, dead, wire, register>>
  BY <1>2 DEF NoDuplicate
<1>5. Fits(h) /\ h.agent \in Agent /\ h.invalid \subseteq dead
  BY <1>1, <1>3 DEF Fits, IInv, HandlersOK, Handling
<1>6. Clear(t, h)
  <2> SUFFICES ASSUME NEW i \in Alert, alerts[i].agent = h.agent, alerts[i].type = h.type
               PROVE  alerts[i].at + Window < h.at
    BY DEF Clear
  <2>1. alerts[i].at \in Nat /\ h.at \in Nat /\ Window \in Nat
    BY <1>3, AlertsAssumption DEF IInv, TypeOK, AlertCols, HandlerCols
  <2>2. ~(alerts[i].at + Window >= h.at)
    BY <1>3 DEF NoDuplicate, Duplicate, Recent
  <2> QED BY <2>1, <2>2
<1> QED BY <1>3, <1>4, <1>5, <1>6, HandlerOnlyIInv

LEMMA ListDevicesIInv ==
  ASSUME IInv, NEW t \in Topic, ListDevices(t)
  PROVE  IInv'
<1>1. handler[t] \in HandlerCols /\ Fits(handler[t]) /\ handler[t].pc = "devices"
  BY HandlerFits DEF IInv, ListDevices, Handling
<1>2. PICK phones : phones = PhonesOf(handler[t].user) /\ phones \in SUBSET Token
  BY DEF PhonesOf
<1>3. CASE phones = {}
  <2>1. Finish(t) /\ UNCHANGED <<owner, alerts, devices, dead, wire, register>>
    BY <1>2, <1>3 DEF ListDevices, Finish
  <2> QED BY <2>1, FinishIInv
<1>4. CASE phones # {}
  <2>1. PICK h : h = [handler[t] EXCEPT !.pc = "send", !.list = phones]
    OBVIOUS
  <2>2. /\ h \in HandlerCols /\ h.pc = "send" /\ h.agent = handler[t].agent
        /\ h.list = phones /\ h.invalid = handler[t].invalid
    BY <1>1, <1>2, <2>1 DEF HandlerCols
  <2>3. /\ handler' = [handler EXCEPT ![t] = h]
        /\ UNCHANGED <<owner, alerts, devices, dead, wire, register>>
    BY <1>2, <1>4, <2>1 DEF ListDevices
  <2>4. Fits(h) /\ h.agent \in Agent /\ h.invalid \subseteq dead
    BY <1>1, <1>4, <2>2 DEF Fits, IInv, HandlersOK, Handling
  <2> QED BY <2>2, <2>3, <2>4, HandlerOnlyIInv
<1> QED BY <1>3, <1>4

\* Where a handler goes from its phones and its cleanup.
LEMMA LeftFits ==
  ASSUME NEW h \in HandlerCols, h.agent \in Agent,
         NEW list \in SUBSET Token, NEW invalid \in SUBSET Token, h.list = {} \/ h.pc = "send"
  PROVE  /\ Left(h, list, invalid) \in HandlerCols /\ Fits(Left(h, list, invalid))
         /\ Left(h, list, invalid).pc # "idle" => Left(h, list, invalid).agent \in Agent
         /\ Left(h, list, invalid).pc # "save"
         /\ Left(h, list, invalid).invalid \subseteq invalid
<1>1. CASE list # {}
  <2>1. PICK l : l = [h EXCEPT !.pc = "send", !.list = list, !.invalid = invalid]
    OBVIOUS
  <2>2. /\ l \in HandlerCols /\ l.pc = "send" /\ l.list = list /\ l.invalid = invalid
        /\ l.agent = h.agent
    BY <2>1 DEF HandlerCols
  <2>3. Left(h, list, invalid) = l
    BY <1>1, <2>1 DEF Left
  <2>4. Fits(l)
    BY <1>1, <2>2 DEF Fits
  <2> QED BY <2>2, <2>3, <2>4
<1>2. CASE list = {} /\ invalid # {}
  <2>1. PICK l : l = [h EXCEPT !.pc = "cleanup", !.list = {}, !.invalid = invalid]
    OBVIOUS
  <2>2. /\ l \in HandlerCols /\ l.pc = "cleanup" /\ l.list = {} /\ l.invalid = invalid
        /\ l.agent = h.agent
    BY <2>1 DEF HandlerCols
  <2>3. Left(h, list, invalid) = l
    BY <1>2, <2>1 DEF Left
  <2>4. Fits(l)
    BY <1>2, <2>2 DEF Fits
  <2> QED BY <2>2, <2>3, <2>4
<1>3. CASE list = {} /\ invalid = {}
  <2>1. Left(h, list, invalid) = Idle
    BY <1>3 DEF Left
  <2> QED BY <2>1, IdleFits
<1> QED BY <1>1, <1>2, <1>3

\* A token joins the invalid ones only when FCM no longer knows it.
LEMMA SendIInv ==
  ASSUME IInv, NEW t \in Topic, NEW x \in Token, Send(t, x) \/ SendInvalid(t, x)
  PROVE  IInv'
<1>1. handler[t] \in HandlerCols /\ handler[t].pc = "send"
  BY HandlerFits DEF IInv, Send, SendInvalid, Handling
<1>2. handler[t].agent \in Agent /\ handler[t].invalid \subseteq dead
  BY <1>1 DEF IInv, HandlersOK, Handling
<1>3. PICK list \in SUBSET Token, invalid \in SUBSET Token :
        /\ invalid \subseteq dead
        /\ handler' = [handler EXCEPT ![t] = Left(handler[t], list, invalid)]
        /\ UNCHANGED <<owner, alerts, devices, dead, wire, register>>
  <2> DEFINE list == handler[t].list \ {x}
  <2>1. list \in SUBSET Token /\ handler[t].invalid \in SUBSET Token
    BY <1>1 DEF HandlerCols
  <2>2. CASE Send(t, x)
    BY <1>2, <2>1, <2>2 DEF Send
  <2>3. CASE SendInvalid(t, x)
    <3>1. x \in dead
      BY <2>3 DEF SendInvalid, InvalidToken
    <3>2. /\ handler[t].invalid \cup {x} \in SUBSET Token
          /\ handler[t].invalid \cup {x} \subseteq dead
      BY <1>2, <2>1, <3>1
    <3>3. /\ handler' = [handler EXCEPT ![t] = Left(handler[t], list, handler[t].invalid \cup {x})]
          /\ UNCHANGED <<owner, alerts, devices, dead, wire, register>>
      BY <2>3 DEF SendInvalid
    <3> QED BY <2>1, <3>2, <3>3
  <2> QED BY <2>2, <2>3
<1>4. PICK h \in HandlerCols : h = Left(handler[t], list, invalid)
  BY <1>1, <1>2, LeftFits
<1>5. /\ Fits(h) /\ h.pc # "save" /\ h.invalid \subseteq dead
      /\ h.pc # "idle" => h.agent \in Agent
  BY <1>1, <1>2, <1>3, <1>4, LeftFits
<1> QED BY <1>3, <1>4, <1>5, HandlerOnlyIInv

LEMMA CleanupIInv ==
  ASSUME IInv, NEW t \in Topic, NEW x \in Token, Cleanup(t, x) \/ CleanupFail(t, x)
  PROVE  IInv'
<1>1. handler[t] \in HandlerCols /\ handler[t].pc = "cleanup" /\ handler[t].list = {}
  BY HandlerFits DEF IInv, Cleanup, CleanupFail, Handling, Fits
<1>2. handler[t].agent \in Agent /\ handler[t].invalid \subseteq dead
  BY <1>1 DEF IInv, HandlersOK, Handling
<1>3. PICK invalid \in SUBSET Token : invalid = handler[t].invalid \ {x}
  BY <1>1 DEF HandlerCols
<1>4. PICK h \in HandlerCols : h = Left(handler[t], {}, invalid)
  BY <1>1, <1>2, LeftFits
<1>5. /\ Fits(h) /\ h.pc # "save" /\ h.invalid \subseteq invalid
      /\ h.pc # "idle" => h.agent \in Agent
  BY <1>1, <1>2, <1>4, LeftFits
<1>6. /\ handler' = [handler EXCEPT ![t] = h]
      /\ UNCHANGED <<owner, alerts, dead, wire, register>>
  BY <1>3, <1>4 DEF Cleanup, CleanupFail
<1>7. /\ devices' \in [Token -> User \cup {NULL}]
      /\ \A y \in Token : devices'[y] # NULL => devices'[y] = devices[y]
  BY DEF Cleanup, CleanupFail, IInv, TypeOK
<1>8. wire' \in [Topic -> Seq(Message)] /\ \A s \in Topic : Len(wire'[s]) <= MaxWire
  BY <1>6 DEF IInv, WireOK, TypeOK
<1>9. h.invalid \subseteq dead
  BY <1>2, <1>3, <1>5
<1> QED BY <1>5, <1>6, <1>7, <1>8, <1>9, HandlerIInv

\* The new row is clear of its subscriber's others, as is the next to be saved
\* by another one.
LEMMA SaveIInv ==
  ASSUME IInv, NEW t \in Topic, NEW i \in Alert, Save(t, i)
  PROVE  IInv'
<1>1. handler[t] \in HandlerCols /\ Fits(handler[t]) /\ handler[t].pc = "save"
  BY HandlerFits DEF IInv, Save, Handling
<1>2. handler[t].agent \in Agent /\ handler[t].invalid \subseteq dead
  BY <1>1 DEF IInv, HandlersOK, Handling
<1>3. PICK h : h = [handler[t] EXCEPT !.pc = "devices"]
  OBVIOUS
<1>4. /\ h \in HandlerCols /\ h.pc = "devices" /\ h.agent = handler[t].agent
      /\ h.list = handler[t].list /\ h.invalid = handler[t].invalid
  BY <1>1, <1>3 DEF HandlerCols
<1>5. PICK n : n = [agent |-> handler[t].agent, type |-> handler[t].type,
                    at |-> handler[t].at, via |-> t]
  OBVIOUS
<1>6. /\ n \in AlertCols /\ n.agent # NULL /\ n.agent = handler[t].agent
      /\ n.type = handler[t].type /\ n.at = handler[t].at /\ n.via = t
  BY <1>1, <1>2, <1>5, AlertsAssumption DEF AlertCols, HandlerCols
<1>7. /\ alerts' = [alerts EXCEPT ![i] = n] /\ handler' = [handler EXCEPT ![t] = h]
      /\ UNCHANGED <<owner, devices, dead, wire, register>>
  BY <1>3, <1>5 DEF Save
<1>8. /\ handler' \in [Topic -> HandlerCols] /\ handler'[t] = h
      /\ \A s \in Topic \ {t} : handler'[s] = handler[s]
  BY <1>4, <1>7 DEF IInv, TypeOK, HandlerCols
<1>9. /\ alerts' \in [Alert -> AlertCols] /\ alerts'[i] = n
      /\ \A j \in Alert \ {i} : alerts'[j] = alerts[j]
  BY <1>6, <1>7 DEF IInv, TypeOK
<1>10. TypeOK'
  <2>1. \A s \in Topic : /\ handler'[s].pc = "idle" => handler'[s] = Idle
                         /\ handler'[s].list # {} <=> handler'[s].pc = "send"
                         /\ handler'[s].pc = "cleanup" => handler'[s].invalid # {}
    BY <1>1, <1>4, <1>8 DEF IInv, TypeOK, Fits, Handling
  <2>2. \A j \in Alert : ~AlertRow(j)' => alerts'[j] = NoAlert
    BY <1>6, <1>9 DEF IInv, TypeOK, AlertRow
  <2> QED BY <1>7, <1>8, <1>9, <2>1, <2>2 DEF IInv, TypeOK, HandlerCols, Handling
<1>11. HandlersOK'
  BY <1>2, <1>4, <1>7, <1>8 DEF IInv, HandlersOK, Handling
<1>12. \A j \in Alert \ {i} :
         alerts[j].via = t /\ alerts[j].agent = n.agent /\ alerts[j].type = n.type
           => alerts[j].at + Window < n.at
  BY <1>1, <1>6 DEF IInv, SaveIsClear, Handling
<1>13. AlertsSpaced'
  <2> SUFFICES ASSUME NEW j \in Alert, NEW k \in Alert, j # k, AlertRow(j)', SameKind(j, k)',
                      alerts'[j].via = alerts'[k].via
               PROVE  \/ alerts'[j].at + Window < alerts'[k].at
                      \/ alerts'[k].at + Window < alerts'[j].at
    BY DEF AlertsSpaced
  <2>1. CASE j = i
    BY <1>6, <1>9, <1>12, <2>1 DEF SameKind
  <2>2. CASE k = i
    BY <1>6, <1>9, <1>12, <2>2 DEF SameKind
  <2>3. CASE j # i /\ k # i
    BY <1>9, <2>3 DEF IInv, AlertsSpaced, AlertRow, SameKind
  <2> QED BY <2>1, <2>2, <2>3
<1>14. SaveIsClear'
  BY <1>4, <1>6, <1>8, <1>9 DEF IInv, SaveIsClear, Handling
<1>15. RegistersOK' /\ WireOK'
  BY <1>7 DEF IInv, RegistersOK, WireOK, Others, PhonesOf
<1> QED BY <1>10, <1>11, <1>13, <1>14, <1>15 DEF IInv

-----------------------------------------------------------------------------
\* Messages come and go, and tokens die.
LEMMA WireIInv ==
  ASSUME IInv, UNCHANGED <<owner, alerts, devices, handler, register>>,
         wire' \in [Topic -> Seq(Message)], \A s \in Topic : Len(wire'[s]) <= MaxWire,
         dead \subseteq dead', dead' \subseteq Token
  PROVE  IInv'
<1>1. TypeOK'
  BY DEF IInv, TypeOK, AlertRow, Handling
<1>2. HandlersOK'
  BY DEF IInv, HandlersOK, Handling
<1>3. AlertsSpaced' /\ SaveIsClear'
  BY DEF IInv, AlertsSpaced, AlertRow, SameKind, SaveIsClear, Handling
<1>4. RegistersOK' /\ WireOK'
  BY DEF IInv, RegistersOK, WireOK, Others, PhonesOf
<1> QED BY <1>1, <1>2, <1>3, <1>4 DEF IInv

LEMMA BrokerIInv ==
  ASSUME IInv, NEW t \in Topic, (\E m \in Message : Publish(t, m)) \/ Disconnect(t)
  PROVE  IInv'
<1>1. /\ wire \in [Topic -> Seq(Message)] /\ wire[t] \in Seq(Message) /\ Len(wire[t]) \in Nat
      /\ \A s \in Topic : Len(wire[s]) <= MaxWire
  BY DEF IInv, WireOK, TypeOK
<1>2. PICK w \in Seq(Message) : wire' = [wire EXCEPT ![t] = w] /\ Len(w) <= MaxWire
  <2>1. ASSUME NEW m \in Message, Publish(t, m)
        PROVE  \E w \in Seq(Message) : wire' = [wire EXCEPT ![t] = w] /\ Len(w) <= MaxWire
    <3>1. /\ Append(wire[t], m) \in Seq(Message)
          /\ Len(Append(wire[t], m)) = Len(wire[t]) + 1 /\ Len(wire[t]) < MaxWire
      BY <1>1, <2>1, AppendProperties DEF Publish
    <3>2. Len(Append(wire[t], m)) <= MaxWire
      BY <1>1, <3>1, AlertsAssumption
    <3>3. wire' = [wire EXCEPT ![t] = Append(wire[t], m)]
      BY <2>1 DEF Publish
    <3> QED BY <3>1, <3>2, <3>3
  <2>2. CASE Disconnect(t)
    <3>1. <<>> \in Seq(Message) /\ Len(<<>>) = 0 /\ 0 <= MaxWire
      BY EmptySeq, AlertsAssumption
    <3> QED BY <2>2, <3>1 DEF Disconnect
  <2> QED BY <2>1, <2>2
<1>3. /\ wire' \in [Topic -> Seq(Message)]
      /\ \A s \in Topic : Len(wire'[s]) <= MaxWire
  BY <1>1, <1>2
<1>4. UNCHANGED <<owner, alerts, devices, dead, handler, register>>
  BY DEF Publish, Disconnect
<1>5. dead \subseteq dead' /\ dead' \subseteq Token
  BY <1>4 DEF IInv, TypeOK
<1> QED BY <1>3, <1>4, <1>5, WireIInv

LEMMA UninstallIInv ==
  ASSUME IInv, NEW x \in Token, Uninstall(x)
  PROVE  IInv'
<1>1. /\ UNCHANGED <<owner, alerts, devices, handler, register>>
      /\ dead \subseteq dead' /\ dead' \subseteq Token
      /\ wire' \in [Topic -> Seq(Message)] /\ \A s \in Topic : Len(wire'[s]) <= MaxWire
  BY DEF Uninstall, IInv, WireOK, TypeOK
<1> QED BY <1>1, WireIInv

\* A crash loses what the handlers and the registrations had in hand and no row.
LEMMA CrashIInv == IInv /\ Crash => IInv'
<1> SUFFICES ASSUME IInv, Crash PROVE IInv'
  OBVIOUS
<1>1. <<>> \in Seq(Message) /\ Len(<<>>) = 0 /\ 0 <= MaxWire
  BY EmptySeq, AlertsAssumption
<1>2. /\ \A t \in Topic : wire'[t] = <<>> /\ handler'[t] = Idle
      /\ \A r \in Register : register'[r] = NoRegister
      /\ UNCHANGED <<owner, alerts, devices, dead>>
  BY DEF Crash
<1>3. /\ wire' \in [Topic -> Seq(Message)] /\ handler' \in [Topic -> HandlerCols]
      /\ register' \in [Register -> RegisterCols]
  BY <1>1, IdleFits, NoRegisterIdle DEF Crash
<1>4. TypeOK'
  <2>1. \A t \in Topic : /\ handler'[t].list # {} <=> handler'[t].pc = "send"
                         /\ handler'[t].pc # "cleanup"
    BY <1>2, IdleFits DEF Fits
  <2> QED BY <1>1, <1>2, <1>3, <2>1
          DEF IInv, TypeOK, HandlerCols, RegisterCols, AlertRow, Handling
<1>5. HandlersOK' /\ SaveIsClear'
  BY <1>2, IdleFits DEF HandlersOK, SaveIsClear, Handling
<1>6. AlertsSpaced'
  BY <1>2 DEF IInv, AlertsSpaced, AlertRow, SameKind
<1>7. RegistersOK' /\ WireOK'
  BY <1>2, <1>3, NoRegisterIdle DEF RegistersOK, WireOK
<1> QED BY <1>4, <1>5, <1>6, <1>7 DEF IInv

\* An agent goes with its alerts.
LEMMA DeletePCAgentIInv ==
  ASSUME IInv, NEW a \in Agent, DeletePCAgent(a)
  PROVE  IInv'
<1>1. NoAlert \in AlertCols /\ NoAlert.agent = NULL /\ NoAlert.via = NULL
  BY AlertsAssumption DEF NoAlert, AlertCols, Type
<1>2. \A i \in Alert : alerts'[i] = NoAlert \/ alerts'[i] = alerts[i]
  BY DEF DeletePCAgent
<1>3. /\ alerts' \in [Alert -> AlertCols] /\ owner' \in [Agent -> User \cup {NULL}]
      /\ UNCHANGED <<devices, dead, wire, handler, register>>
  BY <1>1 DEF DeletePCAgent, IInv, TypeOK
<1>4. TypeOK'
  <2>1. \A i \in Alert : ~AlertRow(i)' => alerts'[i] = NoAlert
    BY <1>2 DEF IInv, TypeOK, AlertRow
  <2> QED BY <1>3, <2>1 DEF IInv, TypeOK, Handling
<1>5. HandlersOK' /\ RegistersOK' /\ WireOK'
  BY <1>3 DEF IInv, HandlersOK, RegistersOK, WireOK, Others, PhonesOf, Handling
<1>6. AlertsSpaced'
  BY <1>1, <1>2 DEF IInv, AlertsSpaced, AlertRow, SameKind
<1>7. SaveIsClear'
  BY <1>1, <1>2, <1>3, AlertsAssumption DEF IInv, SaveIsClear, Handling
<1> QED BY <1>4, <1>5, <1>6, <1>7 DEF IInv

-----------------------------------------------------------------------------
LEMMA RegisterIInv ==
  ASSUME IInv, NEW r \in Register, NEW q \in RegisterCols,
         register' = [register EXCEPT ![r] = q],
         UNCHANGED <<owner, alerts, devices, dead, wire, handler>>,
         q.pc # "idle" => q.user \in User /\ q.token \in Token,
         q.pc = "commit" => q.token \notin q.rows /\ Others(q.user, q.token) \subseteq q.rows
  PROVE  IInv'
<1>1. /\ register' \in [Register -> RegisterCols] /\ register'[r] = q
      /\ \A s \in Register \ {r} : register'[s] = register[s]
  BY DEF IInv, TypeOK, RegisterCols
<1>2. TypeOK'
  BY <1>1 DEF IInv, TypeOK, RegisterCols, AlertRow, Handling
<1>3. HandlersOK' /\ AlertsSpaced' /\ SaveIsClear' /\ WireOK'
  BY DEF IInv, HandlersOK, AlertsSpaced, AlertRow, SameKind, SaveIsClear, WireOK, Handling
<1>4. RegistersOK'
  BY <1>1 DEF IInv, RegistersOK, Others, PhonesOf
<1> QED BY <1>2, <1>3, <1>4 DEF IInv

LEMMA RegisterUpsertIInv ==
  ASSUME IInv, NEW r \in Register, NEW u \in User, NEW x \in Token, RegisterUpsert(r, u, x)
  PROVE  IInv'
<1>1. PICK q : q = [NoRegister EXCEPT !.pc = "delete", !.user = u, !.token = x]
  OBVIOUS
<1>2. q \in RegisterCols
  BY <1>1, NoRegisterIdle DEF RegisterCols
<1>3. q.pc = "delete" /\ q.user = u /\ q.token = x
  BY <1>1 DEF NoRegister
<1> QED BY <1>1, <1>2, <1>3, RegisterIInv DEF RegisterUpsert

LEMMA RegisterDeleteIInv ==
  ASSUME IInv, NEW r \in Register, RegisterDelete(r)
  PROVE  IInv'
<1>1. /\ register[r] \in RegisterCols /\ register[r].user \in User
      /\ register[r].token \in Token
  BY DEF RegisterDelete, IInv, TypeOK, RegisterCols, RegistersOK
<1>2. PICK rows : rows = Others(register[r].user, register[r].token)
  OBVIOUS
<1>3. rows \in SUBSET Token /\ register[r].token \notin rows
  BY <1>2 DEF Others, PhonesOf
<1>4. PICK q : q = [register[r] EXCEPT !.pc = "commit", !.rows = rows]
  OBVIOUS
<1>5. /\ q \in RegisterCols /\ q.user = register[r].user /\ q.token = register[r].token
      /\ q.rows = rows /\ q.pc = "commit"
  BY <1>1, <1>3, <1>4 DEF RegisterCols
<1>6. register' = [register EXCEPT ![r] = q]
  BY <1>2, <1>4 DEF RegisterDelete
<1>7. q.user \in User /\ q.token \in Token /\ q.token \notin q.rows
  BY <1>1, <1>3, <1>5
<1>8. Others(q.user, q.token) \subseteq q.rows
  BY <1>2, <1>5
<1>9. UNCHANGED <<owner, alerts, devices, dead, wire, handler>>
  BY DEF RegisterDelete
<1> QED BY <1>5, <1>6, <1>7, <1>8, <1>9, RegisterIInv

LEMMA RegisterAbortIInv ==
  ASSUME IInv, NEW r \in Register, RegisterAbort(r)
  PROVE  IInv'
BY NoRegisterIdle, RegisterIInv DEF RegisterAbort

\* What a commit does to the rows.
LEMMA Committed ==
  ASSUME IInv, NEW r \in Register, RegisterCommit(r)
  PROVE  /\ register[r].user \in User /\ register[r].token \in Token
         /\ register[r].token \notin register[r].rows
         /\ devices'[register[r].token] = register[r].user
         /\ \A x \in Token \ {register[r].token} :
              devices'[x] = IF x \in register[r].rows /\ devices[x] = register[r].user
                            THEN NULL ELSE devices[x]
<1>1. /\ register[r].user \in User /\ register[r].token \in Token
      /\ register[r].token \notin register[r].rows
  BY DEF RegisterCommit, IInv, RegistersOK
<1>2. PICK u \in User, y \in Token :
        u = register[r].user /\ y = register[r].token /\ y \notin register[r].rows
  BY <1>1
<1>3. PICK upserted : upserted = [devices EXCEPT ![y] = u]
  OBVIOUS
<1>4. upserted[y] = u /\ \A x \in Token \ {y} : upserted[x] = devices[x]
  BY <1>3 DEF IInv, TypeOK
<1>5. \A x \in Token :
        devices'[x] = IF x \in register[r].rows /\ upserted[x] = u THEN NULL ELSE upserted[x]
  BY <1>2, <1>3 DEF RegisterCommit
<1> QED BY <1>1, <1>2, <1>4, <1>5

\* Another user's commit takes rows and gives none; one of the user's own is
\* noted as an overlap.
LEMMA RegisterCommitIInv ==
  ASSUME IInv, NEW r \in Register, RegisterCommit(r)
  PROVE  IInv'
<1>1. UNCHANGED <<owner, alerts, dead, wire, handler>>
  BY DEF RegisterCommit
<1>2. \A q \in Register : register[q] \in RegisterCols
  BY DEF IInv, TypeOK, RegisterCols
<1>3. ASSUME NEW q \in Register
      PROVE  /\ register'[q] \in RegisterCols
             /\ \/ register'[q] = NoRegister
                \/ /\ register'[q].pc = register[q].pc /\ register'[q].user = register[q].user
                   /\ register'[q].token = register[q].token
                   /\ register'[q].rows = register[q].rows
                   /\ register'[q].pc = "commit" /\ ~register'[q].overlap =>
                        ~register[q].overlap /\ register[q].user # register[r].user
  <2>1. CASE q = r
    BY <2>1, NoRegisterIdle DEF RegisterCommit
  <2>2. CASE q # r /\ register[q].pc = "commit" /\ register[q].user = register[r].user
    <3>1. register'[q] = [register[q] EXCEPT !.overlap = TRUE]
      BY <2>2 DEF RegisterCommit
    <3>2. /\ register'[q] \in RegisterCols /\ register'[q].pc = register[q].pc
          /\ register'[q].user = register[q].user /\ register'[q].token = register[q].token
          /\ register'[q].rows = register[q].rows /\ register'[q].overlap = TRUE
      BY <1>2, <3>1 DEF RegisterCols
    <3> QED BY <3>2
  <2>3. CASE q # r /\ ~(register[q].pc = "commit" /\ register[q].user = register[r].user)
    <3>1. register'[q] = register[q]
      BY <2>3 DEF RegisterCommit
    <3> QED BY <1>2, <2>3, <3>1
  <2> QED BY <2>1, <2>2, <2>3
<1>4. register' \in [Register -> RegisterCols]
  <2>1. register' = [q \in Register |-> register'[q]]
    BY DEF RegisterCommit
  <2> QED BY <1>3, <2>1
<1>5. devices' \in [Token -> User \cup {NULL}]
  <2>1. devices' = [x \in Token |-> devices'[x]]
    BY DEF RegisterCommit
  <2>2. \A x \in Token : devices'[x] \in User \cup {NULL}
    BY Committed DEF IInv, TypeOK
  <2> QED BY <2>1, <2>2
<1>6. TypeOK'
  BY <1>1, <1>4, <1>5 DEF IInv, TypeOK, RegisterCols, AlertRow, Handling
<1>7. HandlersOK' /\ AlertsSpaced' /\ SaveIsClear' /\ WireOK'
  BY <1>1 DEF IInv, HandlersOK, AlertsSpaced, AlertRow, SameKind, SaveIsClear, WireOK, Handling
<1>8. RegistersOK'
  <2> SUFFICES ASSUME NEW q \in Register, register'[q] # NoRegister
               PROVE  /\ register'[q].pc # "idle" =>
                           register'[q].user \in User /\ register'[q].token \in Token
                      /\ register'[q].pc = "commit" => register'[q].token \notin register'[q].rows
                      /\ register'[q].pc = "commit" /\ ~register'[q].overlap =>
                           \A x \in Token : devices'[x] = register'[q].user =>
                             x = register'[q].token \/ x \in register'[q].rows
    BY NoRegisterIdle DEF RegistersOK, Others, PhonesOf
  <2>1. ASSUME ~register[q].overlap, register[q].pc = "commit", register[q].user # register[r].user,
               NEW x \in Token, devices'[x] = register[q].user
        PROVE  x = register[q].token \/ x \in register[q].rows
    <3>1. /\ register[q].user # NULL
          /\ Others(register[q].user, register[q].token) \subseteq register[q].rows
      BY <2>1, AlertsAssumption DEF IInv, RegistersOK
    <3>2. devices[x] = register[q].user
      BY <2>1, <3>1, Committed
    <3> QED BY <3>1, <3>2 DEF Others, PhonesOf
  <2> QED BY <1>3, <2>1 DEF IInv, RegistersOK
<1> QED BY <1>6, <1>7, <1>8 DEF IInv

-----------------------------------------------------------------------------
LEMMA InitIInv == Init => IInv
<1> SUFFICES ASSUME Init PROVE IInv
  OBVIOUS
<1> USE AlertsAssumption
<1>1. NoAlert \in AlertCols /\ NoAlert.agent = NULL /\ NoAlert.via = NULL
  BY DEF NoAlert, AlertCols, Type
<1>2. wire \in [Topic -> Seq(Message)] /\ \A t \in Topic : wire[t] = <<>> /\ Len(wire[t]) <= MaxWire
  BY EmptySeq DEF Init
<1>3. /\ alerts \in [Alert -> AlertCols] /\ \A i \in Alert : alerts[i] = NoAlert
      /\ handler \in [Topic -> HandlerCols] /\ \A t \in Topic : handler[t] = Idle
      /\ register \in [Register -> RegisterCols] /\ \A r \in Register : register[r] = NoRegister
  BY <1>1, IdleFits, NoRegisterIdle DEF Init
<1>4. TypeOK
  BY <1>2, <1>3, IdleFits DEF Init, TypeOK, Fits, HandlerCols, RegisterCols, Handling
<1>5. HandlersOK /\ SaveIsClear /\ RegistersOK /\ WireOK
  BY <1>2, <1>3, IdleFits, NoRegisterIdle
     DEF HandlersOK, SaveIsClear, RegistersOK, WireOK, Handling
<1>6. AlertsSpaced
  BY <1>1, <1>3 DEF AlertsSpaced, AlertRow
<1> QED BY <1>4, <1>5, <1>6 DEF IInv

LEMMA NextIInv == IInv /\ [Next]_vars => IInv'
<1> SUFFICES ASSUME IInv, [Next]_vars PROVE IInv'
  OBVIOUS
<1>1. ASSUME NEW t \in Topic, (\E m \in Message : Publish(t, m)) \/ Disconnect(t) PROVE IInv'
  BY <1>1, BrokerIInv
<1>2. ASSUME NEW t \in Topic, HandlerTurn(t) \/ HandlerError(t) PROVE IInv'
  <2>1. CASE Take(t) \/ TakeUnknown(t) \/ NoDuplicate(t) \/ ListDevices(t)
    BY <2>1, TakeIInv, TakeUnknownIInv, NoDuplicateIInv, ListDevicesIInv
  <2>2. CASE SkipDuplicate(t) \/ SaveRefused(t) \/ HandlerFail(t)
    BY <2>2, FinishIInv DEF SkipDuplicate, SaveRefused, HandlerFail
  <2>3. ASSUME NEW i \in Alert, Save(t, i) PROVE IInv'
    BY <2>3, SaveIInv
  <2>4. ASSUME NEW x \in Token, Send(t, x) \/ SendInvalid(t, x) \/ Cleanup(t, x) \/ CleanupFail(t, x)
        PROVE  IInv'
    BY <2>4, SendIInv, CleanupIInv
  <2> QED BY <1>2, <2>1, <2>2, <2>3, <2>4 DEF HandlerTurn, HandlerError
<1>3. CASE Crash
  BY <1>3, CrashIInv
<1>4. ASSUME NEW x \in Token, Uninstall(x) PROVE IInv'
  BY <1>4, UninstallIInv
<1>5. ASSUME NEW r \in Register,
             \/ \E u \in User, x \in Token : RegisterUpsert(r, u, x)
             \/ RegisterDelete(r) \/ RegisterCommit(r) \/ RegisterAbort(r)
      PROVE  IInv'
  BY <1>5, RegisterUpsertIInv, RegisterDeleteIInv, RegisterCommitIInv, RegisterAbortIInv
<1>6. ASSUME NEW a \in Agent, DeletePCAgent(a) PROVE IInv'
  BY <1>6, DeletePCAgentIInv
<1>7. CASE UNCHANGED vars
  <2>1. /\ UNCHANGED <<owner, alerts, devices, handler, register>> /\ UNCHANGED <<wire, dead>>
    BY <1>7 DEF vars
  <2>2. /\ wire' \in [Topic -> Seq(Message)] /\ \A s \in Topic : Len(wire'[s]) <= MaxWire
        /\ dead \subseteq dead' /\ dead' \subseteq Token
    BY <2>1 DEF IInv, WireOK, TypeOK
  <2> QED BY <2>1, <2>2, WireIInv
<1> QED BY <1>1, <1>2, <1>3, <1>4, <1>5, <1>6, <1>7 DEF Next

\* What handlers have in hand, what was saved through their subscriber and what
\* registrations are about to delete keep one another in every step.
THEOREM Inductive == Spec => []IInv
<1> QED BY InitIInv, NextIInv, PTL DEF Spec

\* Rows, messages and requests keep to their columns and program points: a
\* handler never cleans up with a phone still to be sent to.
THEOREM TypeCorrect == Spec => []TypeOK
<1>1. IInv => TypeOK
  BY DEF IInv
<1> QED BY <1>1, Inductive, PTL

\* Two alerts of one agent and type that one subscriber saved are further apart
\* than the window, although it queries and saves in two calls.
THEOREM SpacedThroughOneSubscriber == Spec => []AlertsSpaced
<1>1. IInv => AlertsSpaced
  BY DEF IInv
<1> QED BY <1>1, Inductive, PTL

-----------------------------------------------------------------------------
(* What happens to the phones: only a cleanup and a commit delete rows.    *)

LEMMA PhonesStep ==
  ASSUME [Next]_vars
  PROVE  \/ devices' = devices
         \/ \E t \in Topic, x \in Token : Cleanup(t, x)
         \/ \E r \in Register : RegisterCommit(r)
BY DEF Next, vars, Publish, Disconnect, HandlerTurn, Take, TakeUnknown, SkipDuplicate,
       NoDuplicate, SaveRefused, Save, ListDevices, Send, SendInvalid, HandlerError, CleanupFail,
       HandlerFail, Crash, Uninstall, RegisterUpsert, RegisterDelete, RegisterAbort, DeletePCAgent

\* A row goes because FCM refused its token, which no registration mends, or
\* because the registration that deletes it leaves its user another one.
THEOREM LivePhoneIsKept == Spec => LivePhoneStays
<1>1. ASSUME IInv, [Next]_vars, NEW x \in Token, devices[x] # NULL, devices'[x] = NULL
      PROVE  x \in dead \/ \E y \in Token : devices'[y] = devices[x]
  <2>1. ASSUME NEW t \in Topic, NEW y \in Token, Cleanup(t, y)
        PROVE  x \in dead
    <3>1. y \in dead
      <4>1. handler[t].invalid \subseteq dead
        BY <1>1 DEF IInv, HandlersOK
      <4>2. y \in handler[t].invalid
        BY <2>1 DEF Cleanup
      <4> QED BY <4>1, <4>2
    <3>2. x = y
      BY <1>1, <2>1 DEF Cleanup, IInv, TypeOK
    <3> QED BY <3>1, <3>2
  <2>2. ASSUME NEW r \in Register, RegisterCommit(r)
        PROVE  \E y \in Token : devices'[y] = devices[x]
    <3>1. /\ register[r].user # NULL /\ register[r].token \in Token
          /\ devices'[register[r].token] = register[r].user
      BY <1>1, <2>2, Committed, AlertsAssumption
    <3>2. devices[x] = register[r].user
      BY <1>1, <2>2, <3>1, Committed
    <3> QED BY <3>1, <3>2
  <2> QED BY <1>1, <2>1, <2>2, PhonesStep
<1>2. IInv /\ [Next]_vars =>
        [\A x \in Token :
           devices[x] # NULL /\ devices'[x] = NULL
             => x \in dead \/ \E y \in Token : devices'[y] = devices[x]]_vars
  BY <1>1
<1> QED BY <1>2, Inductive, PTL DEF Spec, LivePhoneStays

\* A registration ends with its own row as the only one of its user, unless
\* another one of the user committed since it took its snapshot.
THEOREM OnePhoneRemains == Spec => RegistrationReplaces
<1>1. ASSUME IInv, NEW r \in Register, ~register[r].overlap, RegisterCommit(r)
      PROVE  {x \in Token : devices'[x] = register[r].user} = {register[r].token}
  <2>1. /\ register[r].user \in User /\ register[r].user # NULL /\ register[r].token \in Token
        /\ devices'[register[r].token] = register[r].user
    BY <1>1, Committed, AlertsAssumption
  <2>2. Others(register[r].user, register[r].token) \subseteq register[r].rows
    BY <1>1 DEF RegisterCommit, IInv, RegistersOK
  <2>3. ASSUME NEW x \in Token \ {register[r].token}
        PROVE  devices'[x] # register[r].user
    <3>1. CASE devices[x] = register[r].user
      <4>1. x \in register[r].rows
        BY <2>2, <3>1 DEF Others, PhonesOf
      <4> QED BY <1>1, <2>1, <3>1, <4>1, Committed
    <3>2. CASE devices[x] # register[r].user
      BY <1>1, <2>1, <3>2, Committed
    <3> QED BY <3>1, <3>2
  <2> QED BY <2>1, <2>3
<1>2. IInv /\ [Next]_vars =>
        [\A r \in Register :
           ~register[r].overlap /\ RegisterCommit(r)
             => {x \in Token : devices'[x] = register[r].user} = {register[r].token}]_vars
  BY <1>1
<1> QED BY <1>2, Inductive, PTL DEF Spec, RegistrationReplaces

=============================================================================
