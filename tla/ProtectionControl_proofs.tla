---------------------- MODULE ProtectionControl_proofs ----------------------
(***************************************************************************)
(* Protection commands for any number of requests: no goroutine leaves a   *)
(* connection behind, and what the PC was told is what the row says.       *)
(***************************************************************************)
EXTENDS ProtectionControl, TLAPS

\* A request that has not begun is as it was made.  The row is the last
\* request's, and while that one is alone no other can reach the broker.
LastAlone ==
  /\ \A c \in Command : At(c, "idle") => ~request[c].taken
  /\ last # NONE =>
       /\ request[last].enabled = row
       /\ request[last].alone => \A c \in Command \ {last} : ~UnderWay(c)

IInv == TypeOK /\ LastAlone /\ ToldAsWritten

-----------------------------------------------------------------------------
\* A request by itself: its columns, and what its program point says of its
\* connection and of the packets on the way.
RequestCols ==
  [pc : {"idle", "updated", "dial", "connack", "puback", "done"},
   enabled : BOOLEAN, expired : BOOLEAN, link : {"none", "up", "closed"},
   sent : {"none", "connect", "publish"}, reply : {"none", "connack", "puback", "other"},
   alone : BOOLEAN, taken : BOOLEAN]

Sound(q) ==
  /\ q \in RequestCols
  /\ q.link # "none" => q.pc \in {"connack", "puback"}
  /\ q.sent = "publish" => q.pc \in {"puback", "done"}
  /\ q.reply # "none" => q.link # "none" /\ q.sent = "none"

LEMMA TypeSound ==
  TypeOK <=> /\ row \in BOOLEAN /\ last \in Command \cup {NONE} /\ told \in BOOLEAN \cup {NONE}
             /\ request \in [Command -> RequestCols]
             /\ \A c \in Command : Sound(request[c])
  BY DEF TypeOK, Sound, RequestCols

LEMMA InitIInv == Init => IInv
<1> SUFFICES ASSUME Init PROVE IInv
  OBVIOUS
<1>1. Sound(NoRequest)
  BY DEF Sound, RequestCols, NoRequest
<1>2. TypeOK
  BY <1>1, TypeSound DEF Init, Sound
<1>3. LastAlone /\ ToldAsWritten
  BY ProtectionControlAssumption DEF Init, LastAlone, ToldAsWritten, NoRequest, At
<1> QED BY <1>2, <1>3 DEF IInv

\* A step of one request that leaves the row, the PC and its history alone, and
\* puts no command under way that was not so before.
LEMMA StepIInv ==
  ASSUME IInv, NEW c \in Command, NEW to, Step(c, to), Sound(to),
         to.pc = "idle" => request[c].pc = "idle",
         to.enabled = request[c].enabled, to.alone = request[c].alone,
         to.taken = request[c].taken,
         to.pc \notin {"idle", "done"} \/ to.sent = "publish" => UnderWay(c)
  PROVE  IInv'
<1>1. /\ request'[c] = to
      /\ \A d \in Command \ {c} : request'[d] = request[d]
      /\ row' = row /\ last' = last /\ told' = told
  BY DEF IInv, TypeOK, Step
<1>2. TypeOK'
  <2>1. request' \in [Command -> RequestCols]
    BY TypeSound DEF IInv, Step, Sound
  <2>2. \A d \in Command : Sound(request'[d])
    BY <1>1, TypeSound DEF IInv
  <2>3. row' \in BOOLEAN /\ last' \in Command \cup {NONE} /\ told' \in BOOLEAN \cup {NONE}
    BY <1>1 DEF IInv, TypeOK
  <2> QED BY <2>1, <2>2, <2>3 DEF TypeOK, Sound, RequestCols
<1>3. LastAlone'
  BY <1>1 DEF IInv, TypeOK, LastAlone, At, UnderWay
<1>4. ToldAsWritten'
  BY <1>1 DEF IInv, TypeOK, ToldAsWritten
<1> QED BY <1>2, <1>3, <1>4 DEF IInv
LEMMA UpdateRefusedIInv ==
  ASSUME IInv, NEW c \in Command, UpdateRefused(c)
  PROVE  IInv'
<1> DEFINE q == request[c]
           to == [q EXCEPT !.pc = "done"]
<1>1. Sound(q)
  BY TypeSound DEF IInv
<1>2. Step(c, to) /\ q.pc = "idle"
  BY DEF UpdateRefused, At
<1>3. to \in RequestCols
  BY <1>1, <1>2 DEF Sound, RequestCols
<1>4. Sound(to)
  BY <1>1, <1>2, <1>3 DEF Sound, RequestCols
<1>5. /\ to.enabled = q.enabled /\ to.alone = q.alone /\ to.taken = q.taken
      /\ to.pc = "idle" => q.pc = "idle"
  BY <1>1, <1>2 DEF Sound, RequestCols
<1>6. to.pc \notin {"idle", "done"} \/ to.sent = "publish" => UnderWay(c)
  BY <1>1, <1>2 DEF Sound, RequestCols, UnderWay
<1> HIDE DEF to
<1> QED BY <1>2, <1>4, <1>5, <1>6, StepIInv

LEMMA StartPublishIInv ==
  ASSUME IInv, NEW c \in Command, StartPublish(c)
  PROVE  IInv'
<1> DEFINE q == request[c]
           to == [q EXCEPT !.pc = "dial"]
<1>1. Sound(q)
  BY TypeSound DEF IInv
<1>2. Step(c, to) /\ q.pc = "updated"
  BY DEF StartPublish, At
<1>3. to \in RequestCols
  BY <1>1, <1>2 DEF Sound, RequestCols
<1>4. Sound(to)
  BY <1>1, <1>2, <1>3 DEF Sound, RequestCols
<1>5. /\ to.enabled = q.enabled /\ to.alone = q.alone /\ to.taken = q.taken
      /\ to.pc = "idle" => q.pc = "idle"
  BY <1>1, <1>2 DEF Sound, RequestCols
<1>6. to.pc \notin {"idle", "done"} \/ to.sent = "publish" => UnderWay(c)
  BY <1>1, <1>2 DEF Sound, RequestCols, UnderWay
<1> HIDE DEF to
<1> QED BY <1>2, <1>4, <1>5, <1>6, StepIInv

LEMMA UpdateLostIInv ==
  ASSUME IInv, NEW c \in Command, UpdateLost(c)
  PROVE  IInv'
<1> DEFINE q == request[c]
           to == [q EXCEPT !.pc = "done"]
<1>1. Sound(q)
  BY TypeSound DEF IInv
<1>2. Step(c, to) /\ q.pc = "updated"
  BY DEF UpdateLost, At
<1>3. to \in RequestCols
  BY <1>1, <1>2 DEF Sound, RequestCols
<1>4. Sound(to)
  BY <1>1, <1>2, <1>3 DEF Sound, RequestCols
<1>5. /\ to.enabled = q.enabled /\ to.alone = q.alone /\ to.taken = q.taken
      /\ to.pc = "idle" => q.pc = "idle"
  BY <1>1, <1>2 DEF Sound, RequestCols
<1>6. to.pc \notin {"idle", "done"} \/ to.sent = "publish" => UnderWay(c)
  BY <1>1, <1>2 DEF Sound, RequestCols, UnderWay
<1> HIDE DEF to
<1> QED BY <1>2, <1>4, <1>5, <1>6, StepIInv

LEMMA DialIInv ==
  ASSUME IInv, NEW c \in Command, Dial(c)
  PROVE  IInv'
<1> DEFINE q == request[c]
           to == [q EXCEPT !.pc = "connack", !.link = "up", !.sent = "connect"]
<1>1. Sound(q)
  BY TypeSound DEF IInv
<1>2. Step(c, to) /\ q.pc = "dial"
  BY DEF Dial, At
<1>3. to \in RequestCols
  BY <1>1, <1>2 DEF Sound, RequestCols
<1>4. Sound(to)
  BY <1>1, <1>2, <1>3 DEF Sound, RequestCols
<1>5. /\ to.enabled = q.enabled /\ to.alone = q.alone /\ to.taken = q.taken
      /\ to.pc = "idle" => q.pc = "idle"
  BY <1>1, <1>2 DEF Sound, RequestCols
<1>6. to.pc \notin {"idle", "done"} \/ to.sent = "publish" => UnderWay(c)
  BY <1>1, <1>2 DEF Sound, RequestCols, UnderWay
<1> HIDE DEF to
<1> QED BY <1>2, <1>4, <1>5, <1>6, StepIInv

LEMMA ReadConnackIInv ==
  ASSUME IInv, NEW c \in Command, ReadConnack(c)
  PROVE  IInv'
<1> DEFINE q == request[c]
           to == [q EXCEPT !.pc = "puback", !.reply = "none",
                !.sent = IF q.link = "up" THEN "publish" ELSE @]
<1>1. Sound(q)
  BY TypeSound DEF IInv
<1>2. Step(c, to) /\ q.pc = "connack" /\ q.reply = "connack"
  BY DEF ReadConnack, At
<1>3. to \in RequestCols
  BY <1>1, <1>2 DEF Sound, RequestCols
<1>4. Sound(to)
  BY <1>1, <1>2, <1>3 DEF Sound, RequestCols
<1>5. /\ to.enabled = q.enabled /\ to.alone = q.alone /\ to.taken = q.taken
      /\ to.pc = "idle" => q.pc = "idle"
  BY <1>1, <1>2 DEF Sound, RequestCols
<1>6. to.pc \notin {"idle", "done"} \/ to.sent = "publish" => UnderWay(c)
  BY <1>1, <1>2 DEF Sound, RequestCols, UnderWay
<1> HIDE DEF to
<1> QED BY <1>2, <1>4, <1>5, <1>6, StepIInv

LEMMA ExpireIInv ==
  ASSUME IInv, NEW c \in Command, Expire(c)
  PROVE  IInv'
<1> DEFINE q == request[c]
           to == [q EXCEPT !.expired = TRUE]
<1>1. Sound(q)
  BY TypeSound DEF IInv
<1>2. Step(c, to) /\ q.pc \in {"dial", "connack", "puback"}
  BY DEF Expire, At
<1>3. to \in RequestCols
  BY <1>1, <1>2 DEF Sound, RequestCols
<1>4. Sound(to)
  BY <1>1, <1>2, <1>3 DEF Sound, RequestCols
<1>5. /\ to.enabled = q.enabled /\ to.alone = q.alone /\ to.taken = q.taken
      /\ to.pc = "idle" => q.pc = "idle"
  BY <1>1, <1>2 DEF Sound, RequestCols
<1>6. to.pc \notin {"idle", "done"} \/ to.sent = "publish" => UnderWay(c)
  BY <1>1, <1>2 DEF Sound, RequestCols, UnderWay
<1> HIDE DEF to
<1> QED BY <1>2, <1>4, <1>5, <1>6, StepIInv

LEMMA WatchIInv ==
  ASSUME IInv, NEW c \in Command, Watch(c)
  PROVE  IInv'
<1> DEFINE q == request[c]
           to == [q EXCEPT !.link = "none", !.reply = "none"]
<1>1. Sound(q)
  BY TypeSound DEF IInv
<1>2. Step(c, to) /\ q.pc \in {"connack", "puback"}
  BY DEF Watch, At, Watched
<1>3. to \in RequestCols
  BY <1>1, <1>2 DEF Sound, RequestCols
<1>4. Sound(to)
  BY <1>1, <1>2, <1>3 DEF Sound, RequestCols
<1>5. /\ to.enabled = q.enabled /\ to.alone = q.alone /\ to.taken = q.taken
      /\ to.pc = "idle" => q.pc = "idle"
  BY <1>1, <1>2 DEF Sound, RequestCols
<1>6. to.pc \notin {"idle", "done"} \/ to.sent = "publish" => UnderWay(c)
  BY <1>1, <1>2 DEF Sound, RequestCols, UnderWay
<1> HIDE DEF to
<1> QED BY <1>2, <1>4, <1>5, <1>6, StepIInv

LEMMA BrokerAcceptIInv ==
  ASSUME IInv, NEW c \in Command, BrokerAccept(c)
  PROVE  IInv'
<1> DEFINE q == request[c]
           to == [q EXCEPT !.sent = "none", !.reply = "connack"]
<1>1. Sound(q)
  BY TypeSound DEF IInv
<1>2. Step(c, to) /\ q.sent = "connect" /\ q.link = "up"
  BY DEF BrokerAccept, At
<1>3. to \in RequestCols
  BY <1>1, <1>2 DEF Sound, RequestCols
<1>4. Sound(to)
  BY <1>1, <1>2, <1>3 DEF Sound, RequestCols
<1>5. /\ to.enabled = q.enabled /\ to.alone = q.alone /\ to.taken = q.taken
      /\ to.pc = "idle" => q.pc = "idle"
  BY <1>1, <1>2 DEF Sound, RequestCols
<1>6. to.pc \notin {"idle", "done"} \/ to.sent = "publish" => UnderWay(c)
  BY <1>1, <1>2 DEF Sound, RequestCols, UnderWay
<1> HIDE DEF to
<1> QED BY <1>2, <1>4, <1>5, <1>6, StepIInv

LEMMA BrokerRefuseIInv ==
  ASSUME IInv, NEW c \in Command, BrokerRefuse(c)
  PROVE  IInv'
<1> DEFINE q == request[c]
           to == [q EXCEPT !.sent = "none", !.reply = "other"]
<1>1. Sound(q)
  BY TypeSound DEF IInv
<1>2. Step(c, to) /\ q.link = "up"
  BY DEF BrokerRefuse, At
<1>3. to \in RequestCols
  BY <1>1, <1>2 DEF Sound, RequestCols
<1>4. Sound(to)
  BY <1>1, <1>2, <1>3 DEF Sound, RequestCols
<1>5. /\ to.enabled = q.enabled /\ to.alone = q.alone /\ to.taken = q.taken
      /\ to.pc = "idle" => q.pc = "idle"
  BY <1>1, <1>2 DEF Sound, RequestCols
<1>6. to.pc \notin {"idle", "done"} \/ to.sent = "publish" => UnderWay(c)
  BY <1>1, <1>2 DEF Sound, RequestCols, UnderWay
<1> HIDE DEF to
<1> QED BY <1>2, <1>4, <1>5, <1>6, StepIInv

LEMMA BrokerCloseIInv ==
  ASSUME IInv, NEW c \in Command, BrokerClose(c)
  PROVE  IInv'
<1> DEFINE q == request[c]
           link == IF q.link = "up" THEN "closed" ELSE q.link
           to == [q EXCEPT !.sent = "none", !.link = link]
<1>1. Sound(q)
  BY TypeSound DEF IInv
<1>2. Step(c, to) /\ (q.link = "up" \/ q.sent # "none")
  BY DEF BrokerClose, At
<1>3. to \in RequestCols
  <2>1. link \in {"none", "up", "closed"}
    BY <1>1 DEF Sound, RequestCols
  <2> HIDE DEF link
  <2> QED BY <1>1, <1>2, <2>1 DEF Sound, RequestCols
<1>4. Sound(to)
  BY <1>1, <1>2, <1>3 DEF Sound, RequestCols
<1>5. /\ to.enabled = q.enabled /\ to.alone = q.alone /\ to.taken = q.taken
      /\ to.pc = "idle" => q.pc = "idle"
  BY <1>1, <1>2 DEF Sound, RequestCols
<1>6. to.pc \notin {"idle", "done"} \/ to.sent = "publish" => UnderWay(c)
  BY <1>1, <1>2 DEF Sound, RequestCols, UnderWay
<1> HIDE DEF to
<1> QED BY <1>2, <1>4, <1>5, <1>6, StepIInv

\* The deferred Close, wherever the goroutine returns.
LEMMA LeaveIInv ==
  ASSUME IInv, NEW c \in Command, Leave(c),
         request[c].pc \in {"dial", "connack", "puback"}
  PROVE  IInv'
<1> DEFINE q == request[c]
           to == [q EXCEPT !.pc = "done", !.link = "none", !.reply = "none"]
<1>1. Sound(q)
  BY TypeSound DEF IInv
<1>2. Step(c, to) /\ q.pc \in {"dial", "connack", "puback"}
  BY DEF Leave, Closed
<1>3. to \in RequestCols
  BY <1>1, <1>2 DEF Sound, RequestCols
<1>4. Sound(to)
  BY <1>1, <1>2, <1>3 DEF Sound, RequestCols
<1>5. /\ to.enabled = q.enabled /\ to.alone = q.alone /\ to.taken = q.taken
      /\ to.pc = "idle" => q.pc = "idle"
  BY <1>1, <1>2 DEF Sound, RequestCols
<1>6. to.pc \notin {"idle", "done"} \/ to.sent = "publish" => UnderWay(c)
  BY <1>1, <1>2 DEF Sound, RequestCols, UnderWay
<1> HIDE DEF to
<1> QED BY <1>2, <1>4, <1>5, <1>6, StepIInv

-----------------------------------------------------------------------------
(* The steps that write the row, tell the PC or end them all.              *)

LEMMA UpdateProtectionIInv ==
  ASSUME IInv, NEW c \in Command, NEW enabled \in BOOLEAN, UpdateProtection(c, enabled)
  PROVE  IInv'
<1> DEFINE q == request[c]
           quiet == \A d \in Command \ {c} : ~UnderWay(d)
           to == [q EXCEPT !.pc = "updated", !.enabled = enabled, !.alone = quiet]
<1>1. Sound(q) /\ q.pc = "idle" /\ ~q.taken
  BY TypeSound DEF IInv, LastAlone, UpdateProtection, At
<1>2. request' = [request EXCEPT ![c] = to]
  BY DEF UpdateProtection
<1>3. quiet \in BOOLEAN
  OBVIOUS
<1> HIDE DEF quiet
<1>4. to \in RequestCols
  BY <1>1, <1>3 DEF Sound, RequestCols
<1>5. to.pc = "updated" /\ to.enabled = enabled /\ to.alone = quiet /\ to.taken = q.taken
  BY <1>1, <1>3 DEF Sound, RequestCols
<1>6. to.link = q.link /\ to.sent = q.sent /\ to.reply = q.reply
  BY <1>1, <1>3 DEF Sound, RequestCols
<1>7. Sound(to)
  BY <1>1, <1>4, <1>5, <1>6 DEF Sound
<1> HIDE DEF to
<1>8. /\ request'[c] = to
      /\ \A d \in Command \ {c} : request'[d] = request[d]
      /\ request' \in [Command -> RequestCols]
  BY <1>2, <1>4, TypeSound DEF IInv
<1>9. TypeOK'
  <2>1. \A d \in Command : Sound(request'[d])
    BY <1>7, <1>8, TypeSound DEF IInv
  <2>2. row' \in BOOLEAN /\ last' \in Command \cup {NONE} /\ told' \in BOOLEAN \cup {NONE}
    BY DEF IInv, TypeOK, UpdateProtection
  <2> QED BY <1>8, <2>1, <2>2 DEF TypeOK, Sound, RequestCols
<1>10. last' = c /\ row' = enabled /\ ~to.taken
  BY <1>1, <1>5 DEF UpdateProtection
<1>11. LastAlone'
  BY <1>5, <1>8, <1>10 DEF IInv, LastAlone, At, UnderWay, quiet
<1>12. ToldAsWritten'
  BY <1>8, <1>10 DEF ToldAsWritten
<1> QED BY <1>9, <1>11, <1>12 DEF IInv

LEMMA UpdateOwnIInv ==
  ASSUME IInv, NEW enabled \in BOOLEAN, UpdateOwnProtection(enabled)
  PROVE  IInv'
<1>1. TypeOK'
  BY DEF IInv, TypeOK, UpdateOwnProtection
<1>2. LastAlone' /\ ToldAsWritten'
  BY DEF IInv, LastAlone, ToldAsWritten, At, UnderWay, UpdateOwnProtection
<1> QED BY <1>1, <1>2 DEF IInv

\* Only the command of the last request can reach the broker while it is alone.
LEMMA BrokerTakeIInv ==
  ASSUME IInv, NEW c \in Command, BrokerTake(c)
  PROVE  IInv'
<1> DEFINE q == request[c]
           reply == IF q.link = "up" THEN "puback" ELSE q.reply
           to == [q EXCEPT !.sent = "none", !.taken = TRUE, !.reply = reply]
<1>1. Sound(q) /\ q.sent = "publish"
  BY TypeSound DEF IInv, BrokerTake
<1>2. request' = [request EXCEPT ![c] = to]
  BY DEF BrokerTake
<1>3. reply \in {"none", "connack", "puback", "other"} /\ (reply # "none" => q.link # "none")
  BY <1>1 DEF Sound, RequestCols
<1> HIDE DEF reply
<1>4. to \in RequestCols
  BY <1>1, <1>3 DEF Sound, RequestCols
<1>5. to.pc = q.pc /\ to.enabled = q.enabled /\ to.alone = q.alone /\ to.taken
  BY <1>1, <1>3 DEF Sound, RequestCols
<1>6. to.link = q.link /\ to.sent = "none" /\ to.reply = reply
  BY <1>1, <1>3 DEF Sound, RequestCols
<1>7. Sound(to) /\ to.pc # "idle"
  BY <1>1, <1>3, <1>4, <1>5, <1>6 DEF Sound
<1> HIDE DEF to
<1>8. /\ request'[c] = to
      /\ \A d \in Command \ {c} : request'[d] = request[d]
      /\ request' \in [Command -> RequestCols]
  BY <1>2, <1>4, TypeSound DEF IInv
<1>9. TypeOK'
  <2>1. \A d \in Command : Sound(request'[d])
    BY <1>7, <1>8, TypeSound DEF IInv
  <2>2. row' \in BOOLEAN /\ last' \in Command \cup {NONE} /\ told' \in BOOLEAN \cup {NONE}
    BY <1>1 DEF IInv, TypeOK, BrokerTake, Sound, RequestCols
  <2> QED BY <1>8, <2>1, <2>2 DEF TypeOK, Sound, RequestCols
<1>10. last' = last /\ row' = row /\ told' = q.enabled
  BY DEF BrokerTake
<1>11. LastAlone'
  BY <1>1, <1>5, <1>6, <1>7, <1>8, <1>10 DEF IInv, TypeOK, LastAlone, At, UnderWay
<1>12. ToldAsWritten'
  <2>1. last # NONE /\ last # c => ~request[last].alone
    BY <1>1 DEF IInv, LastAlone, UnderWay
  <2> QED BY <1>5, <1>8, <1>10, <2>1 DEF IInv, TypeOK, LastAlone, ToldAsWritten
<1> QED BY <1>9, <1>11, <1>12 DEF IInv

LEMMA CrashIInv ==
  ASSUME IInv, Crash
  PROVE  IInv'
<1>1. ASSUME NEW c \in Command, ~At(c, "idle")
      PROVE  /\ Sound(Closed(request[c])) /\ Closed(request[c]).pc = "done"
             /\ Closed(request[c]).enabled = request[c].enabled
             /\ Closed(request[c]).alone = request[c].alone
             /\ Closed(request[c]).taken = request[c].taken
             /\ Closed(request[c]).sent = request[c].sent
  <2> DEFINE q == request[c]
             to == [q EXCEPT !.pc = "done", !.link = "none", !.reply = "none"]
  <2>1. Sound(q) /\ Closed(q) = to
    BY TypeSound DEF IInv, Closed
  <2>2. to \in RequestCols
    BY <2>1 DEF Sound, RequestCols
  <2>3. /\ to.enabled = q.enabled /\ to.alone = q.alone /\ to.taken = q.taken
        /\ to.pc = "done" /\ to.sent = q.sent /\ to.link = "none" /\ to.reply = "none"
    BY <2>1 DEF Sound, RequestCols
  <2>4. Sound(to)
    BY <2>1, <2>2, <2>3 DEF Sound
  <2> QED BY <2>1, <2>3, <2>4
<1>2. ASSUME NEW c \in Command
      PROVE  /\ Sound(request'[c])
             /\ request'[c].enabled = request[c].enabled
             /\ request'[c].alone = request[c].alone
             /\ request'[c].taken = request[c].taken
             /\ request'[c].sent = request[c].sent
             /\ request'[c].pc = "idle" => request[c].pc = "idle"
             /\ request'[c].pc \in {"idle", "done"}
  <2>1. CASE At(c, "idle")
    BY <2>1, TypeSound DEF Crash, At, IInv
  <2>2. CASE ~At(c, "idle")
    BY <2>2, <1>1 DEF Crash
  <2> QED BY <2>1, <2>2
<1>3. row' = row /\ last' = last /\ told' = told
  BY DEF Crash
<1>4. TypeOK'
  <2>1. request' \in [Command -> RequestCols]
    BY <1>2 DEF Crash, Sound
  <2> QED BY <1>2, <1>3, <2>1 DEF IInv, TypeOK, Sound, RequestCols
<1>5. LastAlone'
  BY <1>2, <1>3 DEF IInv, TypeOK, LastAlone, At, UnderWay
<1>6. ToldAsWritten'
  BY <1>2, <1>3 DEF IInv, TypeOK, ToldAsWritten
<1> QED BY <1>4, <1>5, <1>6 DEF IInv

-----------------------------------------------------------------------------
LEMMA NextIInv == IInv /\ [Next]_vars => IInv'
<1> SUFFICES ASSUME IInv, [Next]_vars PROVE IInv'
  OBVIOUS
<1>1. CASE UNCHANGED vars
  BY <1>1 DEF vars, IInv, TypeOK, LastAlone, ToldAsWritten, At, UnderWay
<1>2. CASE Crash
  BY <1>2, CrashIInv
<1>3. ASSUME NEW enabled \in BOOLEAN, UpdateOwnProtection(enabled)
      PROVE  IInv'
  BY <1>3, UpdateOwnIInv
<1>4. ASSUME NEW c \in Command, NEW enabled \in BOOLEAN, UpdateProtection(c, enabled)
      PROVE  IInv'
  BY <1>4, UpdateProtectionIInv
<1>5. ASSUME NEW c \in Command, UpdateRefused(c) \/ StartPublish(c) \/ UpdateLost(c)
      PROVE  IInv'
  BY <1>5, UpdateRefusedIInv, StartPublishIInv, UpdateLostIInv
<1>6. ASSUME NEW c \in Command, Goroutine(c)
      PROVE  IInv'
  <2>1. CASE DialFail(c) \/ ReadPuback(c) \/ ReadFail(c) \/ ReadDeadline(c)
    <3>1. Leave(c) /\ request[c].pc \in {"dial", "connack", "puback"}
      BY <2>1 DEF DialFail, ReadPuback, ReadFail, ReadDeadline, At
    <3> QED BY <3>1, LeaveIInv
  <2> QED BY <1>6, <2>1, DialIInv, ReadConnackIInv DEF Goroutine
<1>7. ASSUME NEW c \in Command, Expire(c) \/ Watch(c)
      PROVE  IInv'
  BY <1>7, ExpireIInv, WatchIInv
<1>8. ASSUME NEW c \in Command, Broker(c)
      PROVE  IInv'
  BY <1>8, BrokerAcceptIInv, BrokerRefuseIInv, BrokerTakeIInv, BrokerCloseIInv DEF Broker
<1> QED BY <1>1, <1>2, <1>3, <1>4, <1>5, <1>6, <1>7, <1>8 DEF Next

\* Whatever the broker does and whenever the process ends, a goroutine that is
\* gone has left no connection open and a packet is on the way only in its turn.
THEOREM TypeCorrect == Spec => []TypeOK
<1>1. IInv => TypeOK
  BY DEF IInv
<1> QED BY <1>1, InitIInv, NextIInv, PTL DEF Spec

\* What the PC was told by the last request, if that was alone, is what its row
\* says, for any number of requests before and refused ones since.
THEOREM ToldTruly == Spec => []ToldAsWritten
<1>1. IInv => ToldAsWritten
  BY DEF IInv
<1> QED BY <1>1, InitIInv, NextIInv, PTL DEF Spec

=============================================================================
