--------------------------- MODULE Pairing_proofs ---------------------------
(***************************************************************************)
(* Theorems of Pairing, for every number of requests, agents and secrets:  *)
(* its types, the rows of pairing_sessions and pc_agents under every       *)
(* interleaving, that sessions are decided by their deadline, and that     *)
(* Pairing implements Enrollment.                                          *)
(***************************************************************************)
EXTENDS Pairing, TLAPS

\* What a request in flight holds, by the program point it has reached.
SlotsOK ==
  /\ \A s \in Session :
       /\ start[s].pc \in {"new", "check", "create"} => start[s].tries < MaxRetries
       /\ start[s].pc = "create" => start[s].code \in Code
       /\ start[s].pc = "done" <=> SessionRow(s)
       /\ SessionRow(s) => sessions[s].requested \in Agent
  /\ \A c \in Confirmer :
       confirm[c].pc = "tx" => confirm[c].code \in Code /\ confirm[c].user \in User
  /\ \A p \in Poller :
       /\ poll[p].pc # "idle" => poll[p].sess \in Session /\ SessionRow(poll[p].sess)
       /\ poll[p].pc \in {"lookup", "issue", "reread"} => poll[p].agent \in Agent
       /\ poll[p].pc = "issue" => poll[p].secret \in Secret
       /\ poll[p].secret # NULL => /\ poll[p].agent \in Agent
                                   /\ poll[p].pc \in {"issue", "respond"}
  /\ \A v \in Caller :
       /\ call[v].pc # "idle" => call[v].agent \in Agent
       /\ call[v].pc = "protect" => call[v].op \in Protection

Typed == TypeOK /\ SlotsOK

LEMMA InitTyped == Init => Typed
<1> SUFFICES ASSUME Init PROVE Typed
  OBVIOUS
<1> USE PairingAssumption DEF Init, SessionRow, AgentRow, NoSession, NoAgent, NewStart,
        NoConfirm, NoPoll, NoCall
<1>1. TypeOK
  BY DEF TypeOK, SessionCols, AgentCols, StartSlot, ConfirmSlot, PollSlot, CallSlot,
         Status, Stamp, Op, Protection
<1>2. SlotsOK
  BY DEF SlotsOK
<1> QED BY <1>1, <1>2 DEF Typed

LEMMA TickTyped ==
  ASSUME Typed, Tick
  PROVE  Typed'
<1> USE DEF Typed
<1>1. TypeOK'
  BY PairingAssumption DEF TypeOK, Tick, requests, SessionRow, AgentRow
<1>2. SlotsOK'
  BY DEF SlotsOK, Tick, requests, SessionRow
<1> QED BY <1>1, <1>2

LEMMA StartTakenTyped ==
  ASSUME Typed, NEW s \in Session, NEW c \in Code, StartTaken(s, c)
  PROVE  Typed'
<1> USE DEF Typed
<1>1. start[s] \in StartSlot /\ start[s].tries < MaxRetries
  BY DEF StartTaken, SlotsOK, TypeOK
<1>2. start[s].tries + 1 \in 0 .. MaxRetries
  BY <1>1, PairingAssumption DEF StartSlot
<1>3. start' \in [Session -> StartSlot]
  BY <1>2 DEF StartTaken, NextTurn, StartSlot, TypeOK
<1>4. TypeOK'
  BY <1>3 DEF TypeOK, StartTaken, SessionRow, AgentRow
<1>5. SlotsOK'
  BY DEF TypeOK, SlotsOK, StartTaken, NextTurn, TurnLeft, SessionRow, StartSlot
<1> QED BY <1>4, <1>5

LEMMA StartCollideTyped ==
  ASSUME Typed, NEW s \in Session, StartCollide(s)
  PROVE  Typed'
<1> USE DEF Typed
<1>1. start[s] \in StartSlot /\ start[s].tries < MaxRetries
  BY DEF StartCollide, SlotsOK, TypeOK
<1>2. start[s].tries + 1 \in 0 .. MaxRetries
  BY <1>1, PairingAssumption DEF StartSlot
<1>3. start' \in [Session -> StartSlot]
  BY <1>2 DEF StartCollide, NextTurn, StartSlot, TypeOK
<1>4. TypeOK'
  BY <1>3 DEF TypeOK, StartCollide, SessionRow, AgentRow
<1>5. SlotsOK'
  BY DEF TypeOK, SlotsOK, StartCollide, NextTurn, TurnLeft, SessionRow, StartSlot
<1> QED BY <1>4, <1>5

LEMMA StartFreeTyped ==
  ASSUME Typed, NEW s \in Session, NEW c \in Code, StartFree(s, c)
  PROVE  Typed'
<1> USE DEF Typed
<1>1. now + TTL \in Stamp
  BY PairingAssumption DEF TypeOK, Stamp
<1>2. start' \in [Session -> StartSlot]
  BY <1>1 DEF StartFree, StartSlot, TypeOK
<1>3. TypeOK'
  BY <1>2 DEF TypeOK, StartFree, SessionRow, AgentRow
<1>4. SlotsOK'
  BY DEF TypeOK, SlotsOK, StartFree, SessionRow, StartSlot
<1> QED BY <1>3, <1>4

LEMMA StartCreateTyped ==
  ASSUME Typed, NEW s \in Session, NEW a \in Agent, StartCreate(s, a)
  PROVE  Typed'
<1> USE DEF Typed
<1>1. start[s] \in StartSlot /\ start[s].code \in Code
  BY DEF StartCreate, TypeOK, SlotsOK
<1>2. [NoSession EXCEPT !.code = start[s].code, !.requested = a, !.expires = start[s].expires]
        \in SessionCols
  <2>1. 0 \in 0 .. MaxTime
    BY PairingAssumption
  <2> QED BY <1>1, <2>1 DEF StartSlot, SessionCols, NoSession, Status
<1>3. sessions' \in [Session -> SessionCols]
  BY <1>2 DEF StartCreate, TypeOK
<1>4. start' \in [Session -> StartSlot]
  BY DEF StartCreate, StartSlot, TypeOK
<1>5. TypeOK'
  BY <1>1, <1>3, <1>4, PairingAssumption DEF TypeOK, StartCreate, SessionRow, AgentRow, NoSession
<1>6. SlotsOK'
  BY <1>1, PairingAssumption DEF TypeOK, SlotsOK, StartCreate, SessionRow, StartSlot, NoSession
<1> QED BY <1>5, <1>6

LEMMA StartAbortTyped ==
  ASSUME Typed, NEW s \in Session, StartAbort(s)
  PROVE  Typed'
<1> USE DEF Typed
<1>1. start \in [Session -> StartSlot]
  BY DEF TypeOK, SlotsOK, StartAbort
<1>2. start' \in [Session -> StartSlot]
  BY <1>1 DEF StartAbort, StartSlot
<1>3. TypeOK'
  BY <1>2 DEF TypeOK, StartAbort, SessionRow, AgentRow
<1>4. SlotsOK'
  BY <1>1, PairingAssumption DEF SlotsOK, StartAbort, SessionRow, StartSlot
<1> QED BY <1>3, <1>4

LEMMA ConfirmBeginTyped ==
  ASSUME Typed, NEW c \in Confirmer, NEW code \in Code, NEW u \in User, ConfirmBegin(c, code, u)
  PROVE  Typed'
<1> USE DEF Typed
<1>1. confirm \in [Confirmer -> ConfirmSlot]
        /\ now \in 0 .. MaxTime
  BY DEF TypeOK, SlotsOK, ConfirmBegin
<1>2. confirm' \in [Confirmer -> ConfirmSlot]
  BY <1>1, PairingAssumption DEF ConfirmBegin, ConfirmSlot
<1>3. TypeOK'
  BY <1>2 DEF TypeOK, ConfirmBegin, SessionRow, AgentRow
<1>4. SlotsOK'
  BY <1>1, PairingAssumption DEF SlotsOK, ConfirmBegin, SessionRow, ConfirmSlot
<1> QED BY <1>3, <1>4

LEMMA ConfirmRefuseTyped ==
  ASSUME Typed, NEW c \in Confirmer, ConfirmRefuse(c)
  PROVE  Typed'
<1> USE DEF Typed
<1>1. confirm \in [Confirmer -> ConfirmSlot]
  BY DEF TypeOK, SlotsOK, ConfirmRefuse
<1>2. confirm' \in [Confirmer -> ConfirmSlot]
  BY <1>1, PairingAssumption DEF ConfirmRefuse, ConfirmSlot, ConfirmDone, NoConfirm
<1>3. TypeOK'
  BY <1>2 DEF TypeOK, ConfirmRefuse, SessionRow, AgentRow
<1>4. SlotsOK'
  BY <1>1, PairingAssumption DEF SlotsOK, ConfirmRefuse, SessionRow, ConfirmSlot, ConfirmDone, NoConfirm
<1> QED BY <1>3, <1>4

LEMMA ConfirmAbortTyped ==
  ASSUME Typed, NEW c \in Confirmer, ConfirmAbort(c)
  PROVE  Typed'
<1> USE DEF Typed
<1>1. confirm \in [Confirmer -> ConfirmSlot]
  BY DEF TypeOK, SlotsOK, ConfirmAbort
<1>2. confirm' \in [Confirmer -> ConfirmSlot]
  BY <1>1, PairingAssumption DEF ConfirmAbort, ConfirmSlot, ConfirmDone, NoConfirm
<1>3. TypeOK'
  BY <1>2 DEF TypeOK, ConfirmAbort, SessionRow, AgentRow
<1>4. SlotsOK'
  BY <1>1, PairingAssumption DEF SlotsOK, ConfirmAbort, SessionRow, ConfirmSlot, ConfirmDone, NoConfirm
<1> QED BY <1>3, <1>4

LEMMA ConfirmOverdueTyped ==
  ASSUME Typed, NEW c \in Confirmer, NEW s \in Session, ConfirmOverdue(c, s)
  PROVE  Typed'
<1> USE DEF Typed
<1>1. SessionRow(s)
  BY PairingAssumption DEF ConfirmOverdue, SlotsOK, SessionRow
<1>0. sessions \in [Session -> SessionCols]
  BY DEF TypeOK
<1>2. sessions' \in [Session -> SessionCols]
  BY <1>0 DEF ConfirmOverdue, SessionCols, Status
<1>3. confirm' \in [Confirmer -> ConfirmSlot]
  BY PairingAssumption DEF ConfirmOverdue, ConfirmDone, TypeOK, ConfirmSlot, NoConfirm
<1>4. \A t \in Session : sessions'[t].code = sessions[t].code
                           /\ sessions'[t].requested = sessions[t].requested
  BY DEF ConfirmOverdue, TypeOK, SessionCols
<1>5. TypeOK'
  BY <1>1, <1>2, <1>3 DEF TypeOK, ConfirmOverdue, SessionRow, AgentRow, SessionCols
<1>6. SlotsOK'
  BY <1>4 DEF TypeOK, SlotsOK, ConfirmOverdue, ConfirmDone, NoConfirm, SessionRow
<1> QED BY <1>5, <1>6

LEMMA ConfirmBindTyped ==
  ASSUME Typed, NEW c \in Confirmer, NEW s \in Session, ConfirmBind(c, s)
  PROVE  Typed'
<1> USE DEF Typed
<1>1. SessionRow(s) /\ sessions[s].requested \in Agent /\ confirm[c].user \in User
  BY PairingAssumption DEF ConfirmBind, SlotsOK, SessionRow
<1>0. sessions \in [Session -> SessionCols] /\ confirm[c] \in ConfirmSlot
  BY DEF TypeOK
<1> DEFINE row == [sessions[s] EXCEPT !.status = "confirmed", !.by = confirm[c].user,
                     !.agent = sessions[s].requested, !.at = confirm[c].at]
<1>9. confirm[c].at \in 0 .. MaxTime
  BY <1>0 DEF ConfirmSlot
<1>10. row \in SessionCols
  BY <1>0, <1>1, <1>9 DEF SessionCols, Status
<1>2. sessions' \in [Session -> SessionCols]
  BY <1>0, <1>10 DEF ConfirmBind
<1>3. confirm' \in [Confirmer -> ConfirmSlot]
  BY PairingAssumption DEF ConfirmBind, ConfirmDone, TypeOK, ConfirmSlot, NoConfirm
<1>4. [NoAgent EXCEPT !.owner = confirm[c].user] \in AgentCols
  BY <1>1 DEF NoAgent, AgentCols, Protection
<1>5. agents' \in [Agent -> AgentCols]
  BY <1>4 DEF ConfirmBind, TypeOK
<1>6. \A t \in Session : sessions'[t].code = sessions[t].code
                           /\ sessions'[t].requested = sessions[t].requested
  BY DEF ConfirmBind, TypeOK, SessionCols
<1>7. TypeOK'
  BY <1>1, <1>2, <1>3, <1>5, PairingAssumption
     DEF TypeOK, ConfirmBind, SessionRow, AgentRow, SessionCols, NoAgent
<1>8. SlotsOK'
  BY <1>6 DEF TypeOK, SlotsOK, ConfirmBind, ConfirmDone, NoConfirm, SessionRow
<1> QED BY <1>7, <1>8

LEMMA PollFindTyped ==
  ASSUME Typed, NEW p \in Poller, NEW s \in Session, PollFind(p, s)
  PROVE  Typed'
<1> USE DEF Typed
<1>1. poll \in [Poller -> PollSlot]
        /\ sessions \in [Session -> SessionCols]
  BY DEF TypeOK, SlotsOK, PollFind
<1>2. poll' \in [Poller -> PollSlot]
  BY <1>1 DEF PollFind, PollSlot, NoPoll, SessionCols, SessionRow
<1>3. TypeOK'
  BY <1>2 DEF TypeOK, PollFind, SessionRow, AgentRow
<1>4. SlotsOK'
  BY <1>1, PairingAssumption DEF SlotsOK, PollFind, SessionRow, PollSlot, NoPoll, SessionCols, SessionRow
<1> QED BY <1>3, <1>4

LEMMA PollCheckTyped ==
  ASSUME Typed, NEW p \in Poller, PollCheck(p)
  PROVE  Typed'
<1> USE DEF Typed
<1>1. poll \in [Poller -> PollSlot]
        /\ poll[p].sess \in Session /\ SessionRow(poll[p].sess)
  BY DEF TypeOK, SlotsOK, PollCheck
<1>2. poll' \in [Poller -> PollSlot]
  BY <1>1 DEF PollCheck, PollSlot, AfterSession
<1>3. TypeOK'
  BY <1>2 DEF TypeOK, PollCheck, SessionRow, AgentRow
<1>4. SlotsOK'
  BY <1>1, PairingAssumption DEF SlotsOK, PollCheck, SessionRow, PollSlot, AfterSession
<1> QED BY <1>3, <1>4

LEMMA PollMissedExpireTyped ==
  ASSUME Typed, NEW p \in Poller, PollMissedExpire(p)
  PROVE  Typed'
<1> USE DEF Typed
<1>1. poll \in [Poller -> PollSlot]
  BY DEF TypeOK, SlotsOK, PollMissedExpire
<1>2. poll' \in [Poller -> PollSlot]
  BY <1>1 DEF PollMissedExpire, PollSlot
<1>3. TypeOK'
  BY <1>2 DEF TypeOK, PollMissedExpire, SessionRow, AgentRow
<1>4. SlotsOK'
  BY <1>1, PairingAssumption DEF SlotsOK, PollMissedExpire, SessionRow, PollSlot
<1> QED BY <1>3, <1>4

LEMMA PollRefindTyped ==
  ASSUME Typed, NEW p \in Poller, PollRefind(p)
  PROVE  Typed'
<1> USE DEF Typed
<1> DEFINE row == sessions[poll[p].sess]
           next == AfterSession(row.status, row.agent)
<1>1. poll \in [Poller -> PollSlot] /\ row \in SessionCols
  BY DEF TypeOK, SlotsOK, PollRefind
<1>2. next \in {"lookup", "respond"} /\ (next = "lookup" => row.agent # NULL)
  BY DEF AfterSession
<1>3. poll' = [poll EXCEPT ![p] = [poll[p] EXCEPT !.pc = next, !.status = row.status,
                                                  !.agent = row.agent]]
  BY DEF PollRefind
<1>4. row.status \in Status /\ row.agent \in Agent \cup {NULL}
  BY <1>1 DEF SessionCols
<1>5. poll[p].secret = NULL
  BY DEF SlotsOK, PollRefind
<1> HIDE DEF next, row
<1>6. poll' \in [Poller -> PollSlot]
  BY <1>1, <1>2, <1>3, <1>4 DEF PollSlot
<1>7. TypeOK'
  BY <1>6 DEF TypeOK, PollRefind, SessionRow, AgentRow
<1>8. /\ poll'[p].pc = next /\ poll'[p].agent = row.agent
      /\ poll'[p].secret = NULL /\ poll'[p].sess = poll[p].sess
      /\ \A q \in Poller \ {p} : poll'[q] = poll[q]
  BY <1>1, <1>3, <1>5 DEF PollSlot
<1>9. poll[p].pc # "idle"
  BY DEF PollRefind
<1>10. SlotsOK'
  BY <1>2, <1>4, <1>8, <1>9, PairingAssumption DEF SlotsOK, PollRefind, SessionRow
<1> QED BY <1>7, <1>10

LEMMA PollIssuedTyped ==
  ASSUME Typed, NEW p \in Poller, PollIssued(p)
  PROVE  Typed'
<1> USE DEF Typed
<1>1. poll \in [Poller -> PollSlot]
  BY DEF TypeOK, SlotsOK, PollIssued
<1>2. poll' \in [Poller -> PollSlot]
  BY <1>1 DEF PollIssued, PollSlot
<1>3. TypeOK'
  BY <1>2 DEF TypeOK, PollIssued, SessionRow, AgentRow
<1>4. SlotsOK'
  BY <1>1, PairingAssumption DEF SlotsOK, PollIssued, SessionRow, PollSlot
<1> QED BY <1>3, <1>4

LEMMA PollDrawTyped ==
  ASSUME Typed, NEW p \in Poller, NEW x \in Secret, PollDraw(p, x)
  PROVE  Typed'
<1> USE DEF Typed
<1>1. poll \in [Poller -> PollSlot]
  BY DEF TypeOK, SlotsOK, PollDraw
<1>2. poll' \in [Poller -> PollSlot]
  BY <1>1 DEF PollDraw, PollSlot
<1>3. TypeOK'
  BY <1>2 DEF TypeOK, PollDraw, SessionRow, AgentRow
<1>4. SlotsOK'
  BY <1>1, PairingAssumption DEF SlotsOK, PollDraw, SessionRow, PollSlot
<1> QED BY <1>3, <1>4

LEMMA PollMissedIssueTyped ==
  ASSUME Typed, NEW p \in Poller, PollMissedIssue(p)
  PROVE  Typed'
<1> USE DEF Typed
<1>1. poll \in [Poller -> PollSlot]
  BY DEF TypeOK, SlotsOK, PollMissedIssue
<1>2. poll' \in [Poller -> PollSlot]
  BY <1>1 DEF PollMissedIssue, PollSlot
<1>3. TypeOK'
  BY <1>2 DEF TypeOK, PollMissedIssue, SessionRow, AgentRow
<1>4. SlotsOK'
  BY <1>1, PairingAssumption DEF SlotsOK, PollMissedIssue, SessionRow, PollSlot
<1> QED BY <1>3, <1>4

LEMMA PollRereadTyped ==
  ASSUME Typed, NEW p \in Poller, PollReread(p)
  PROVE  Typed'
<1> USE DEF Typed
<1>1. poll \in [Poller -> PollSlot]
  BY DEF TypeOK, SlotsOK, PollReread
<1>2. poll' \in [Poller -> PollSlot]
  BY <1>1 DEF PollReread, PollSlot
<1>3. TypeOK'
  BY <1>2 DEF TypeOK, PollReread, SessionRow, AgentRow
<1>4. SlotsOK'
  BY <1>1, PairingAssumption DEF SlotsOK, PollReread, SessionRow, PollSlot
<1> QED BY <1>3, <1>4

LEMMA PollAgentGoneTyped ==
  ASSUME Typed, NEW p \in Poller, PollAgentGone(p)
  PROVE  Typed'
<1> USE DEF Typed
<1>1. poll \in [Poller -> PollSlot]
  BY DEF TypeOK, SlotsOK, PollAgentGone
<1>2. poll' \in [Poller -> PollSlot]
  BY <1>1 DEF PollAgentGone, PollSlot, PollDone, NoPoll, Status
<1>3. TypeOK'
  BY <1>2 DEF TypeOK, PollAgentGone, SessionRow, AgentRow
<1>4. SlotsOK'
  BY <1>1, PairingAssumption DEF SlotsOK, PollAgentGone, SessionRow, PollSlot, PollDone, NoPoll, Status
<1> QED BY <1>3, <1>4

LEMMA PollAbortTyped ==
  ASSUME Typed, NEW p \in Poller, PollAbort(p)
  PROVE  Typed'
<1> USE DEF Typed
<1>1. poll \in [Poller -> PollSlot]
  BY DEF TypeOK, SlotsOK, PollAbort
<1>2. poll' \in [Poller -> PollSlot]
  BY <1>1 DEF PollAbort, PollSlot, PollDone, NoPoll, Status
<1>3. TypeOK'
  BY <1>2 DEF TypeOK, PollAbort, SessionRow, AgentRow
<1>4. SlotsOK'
  BY <1>1, PairingAssumption DEF SlotsOK, PollAbort, SessionRow, PollSlot, PollDone, NoPoll, Status
<1> QED BY <1>3, <1>4

LEMMA PollExpireTyped ==
  ASSUME Typed, NEW p \in Poller, PollExpire(p)
  PROVE  Typed'
<1> USE DEF Typed
<1>1. poll[p].sess \in Session /\ SessionRow(poll[p].sess)
  BY DEF PollExpire, SlotsOK
<1>0. sessions \in [Session -> SessionCols]
  BY DEF TypeOK
<1>2. sessions' \in [Session -> SessionCols]
  BY <1>0 DEF PollExpire, SessionCols, Status
<1>3. poll' \in [Poller -> PollSlot]
  BY DEF PollExpire, TypeOK, PollSlot, Status
<1>4. \A t \in Session : sessions'[t].code = sessions[t].code
                           /\ sessions'[t].requested = sessions[t].requested
  BY DEF PollExpire, TypeOK, SessionCols
<1>5. TypeOK'
  BY <1>1, <1>2, <1>3 DEF TypeOK, PollExpire, SessionRow, AgentRow, SessionCols
<1>6. SlotsOK'
  BY <1>4 DEF TypeOK, SlotsOK, PollExpire, PollSlot, SessionRow
<1> QED BY <1>5, <1>6

LEMMA PollIssueTyped ==
  ASSUME Typed, NEW p \in Poller, PollIssue(p)
  PROVE  Typed'
<1> USE DEF Typed
<1>1. poll[p].agent \in Agent /\ poll[p].secret \in Secret /\ AgentRow(poll[p].agent)
  BY DEF PollIssue, HashEmpty, SlotsOK
<1>2. agents' \in [Agent -> AgentCols]
  BY <1>1 DEF PollIssue, TypeOK, AgentCols
<1>3. poll' \in [Poller -> PollSlot]
  BY DEF PollIssue, TypeOK, PollSlot
<1>4. TypeOK'
  BY <1>1, <1>2, <1>3 DEF TypeOK, PollIssue, SessionRow, AgentRow, AgentCols
<1>5. SlotsOK'
  BY DEF TypeOK, SlotsOK, PollIssue, PollSlot, SessionRow
<1> QED BY <1>4, <1>5

LEMMA PollRespondTyped ==
  ASSUME Typed, NEW p \in Poller, PollRespond(p)
  PROVE  Typed'
<1> USE DEF Typed
<1>1. poll' \in [Poller -> PollSlot]
  BY DEF PollRespond, PollDone, NoPoll, TypeOK, PollSlot, Status
<1>2. held' \in [Agent -> SUBSET Secret]
  BY DEF PollRespond, TypeOK, PollSlot, SlotsOK
<1>3. TypeOK'
  BY <1>1, <1>2 DEF TypeOK, PollRespond, SessionRow, AgentRow
<1>4. SlotsOK'
  BY DEF TypeOK, SlotsOK, PollRespond, PollDone, NoPoll, SessionRow
<1> QED BY <1>3, <1>4

LEMMA CallFindTyped ==
  ASSUME Typed, NEW v \in Caller, NEW a \in Agent, NEW x \in Secret, NEW op \in Op, CallFind(v, a, x, op)
  PROVE  Typed'
<1> USE DEF Typed
<1>1. call \in [Caller -> CallSlot]
  BY DEF TypeOK, SlotsOK, CallFind
<1>2. call' \in [Caller -> CallSlot]
  BY <1>1 DEF CallFind, CallSlot, Op
<1>3. TypeOK'
  BY <1>2 DEF TypeOK, CallFind, SessionRow, AgentRow
<1>4. SlotsOK'
  BY <1>1, PairingAssumption DEF SlotsOK, CallFind, SessionRow, CallSlot, Op
<1> QED BY <1>3, <1>4

LEMMA CallAgentGoneTyped ==
  ASSUME Typed, NEW v \in Caller, CallAgentGone(v)
  PROVE  Typed'
<1> USE DEF Typed
<1>1. call \in [Caller -> CallSlot]
  BY DEF TypeOK, SlotsOK, CallAgentGone
<1>2. call' \in [Caller -> CallSlot]
  BY <1>1 DEF CallAgentGone, CallSlot, CallDone, NoCall, Op, Protection
<1>3. TypeOK'
  BY <1>2 DEF TypeOK, CallAgentGone, SessionRow, AgentRow
<1>4. SlotsOK'
  BY <1>1, PairingAssumption DEF SlotsOK, CallAgentGone, SessionRow, CallSlot, CallDone, NoCall, Op, Protection
<1> QED BY <1>3, <1>4

LEMMA CallAbortTyped ==
  ASSUME Typed, NEW v \in Caller, CallAbort(v)
  PROVE  Typed'
<1> USE DEF Typed
<1>1. call \in [Caller -> CallSlot]
  BY DEF TypeOK, SlotsOK, CallAbort
<1>2. call' \in [Caller -> CallSlot]
  BY <1>1 DEF CallAbort, CallSlot, CallDone, NoCall, Op, Protection
<1>3. TypeOK'
  BY <1>2 DEF TypeOK, CallAbort, SessionRow, AgentRow
<1>4. SlotsOK'
  BY <1>1, PairingAssumption DEF SlotsOK, CallAbort, SessionRow, CallSlot, CallDone, NoCall, Op, Protection
<1> QED BY <1>3, <1>4

LEMMA CallProtectTyped ==
  ASSUME Typed, NEW v \in Caller, CallProtect(v)
  PROVE  Typed'
<1> USE DEF Typed
<1>1. call[v].agent \in Agent
  BY DEF CallProtect, SlotsOK
<1>9. call[v].op \in Protection
  BY DEF CallProtect, SlotsOK
<1>0. agents \in [Agent -> AgentCols]
  BY DEF TypeOK
<1>2. agents' \in [Agent -> AgentCols]
  BY <1>0, <1>9 DEF CallProtect, AgentCols
<1>3. call' \in [Caller -> CallSlot]
  BY DEF CallProtect, TypeOK, CallSlot
<1>4. TypeOK'
  BY <1>1, <1>2, <1>3 DEF TypeOK, CallProtect, SessionRow, AgentRow, AgentCols
<1>5. SlotsOK'
  BY DEF TypeOK, SlotsOK, CallProtect, CallSlot, SessionRow
<1> QED BY <1>4, <1>5

LEMMA CallMarkTyped ==
  ASSUME Typed, NEW v \in Caller, CallMark(v)
  PROVE  Typed'
<1> USE DEF Typed
<1>1. call[v].agent \in Agent
  BY DEF CallMark, SlotsOK
<1>2. agents' \in [Agent -> AgentCols]
  BY DEF CallMark, TypeOK, AgentCols
<1>3. call' \in [Caller -> CallSlot]
  BY DEF CallMark, CallDone, NoCall, TypeOK, CallSlot, Op, Protection
<1>4. TypeOK'
  BY <1>1, <1>2, <1>3 DEF TypeOK, CallMark, SessionRow, AgentRow, AgentCols
<1>5. SlotsOK'
  BY DEF TypeOK, SlotsOK, CallMark, CallDone, NoCall, SessionRow
<1> QED BY <1>4, <1>5

LEMMA UpdatePCAgentProtectionTyped ==
  ASSUME Typed, NEW u \in User, NEW a \in Agent, NEW to \in Protection,
         UpdatePCAgentProtection(u, a, to)
  PROVE  Typed'
<1> USE DEF Typed
<1>1. AgentRow(a)
  BY PairingAssumption DEF UpdatePCAgentProtection, OwnedBy, AgentRow
<1>0. agents \in [Agent -> AgentCols]
  BY DEF TypeOK
<1>2. agents' \in [Agent -> AgentCols]
  BY <1>0 DEF UpdatePCAgentProtection, AgentCols
<1>3. TypeOK'
  BY <1>1, <1>2 DEF TypeOK, UpdatePCAgentProtection, requests, SessionRow, AgentRow, AgentCols
<1>4. SlotsOK'
  BY DEF SlotsOK, UpdatePCAgentProtection, requests, SessionRow
<1> QED BY <1>3, <1>4

LEMMA DeletePCAgentTyped ==
  ASSUME Typed, NEW u \in User, NEW a \in Agent, DeletePCAgent(u, a)
  PROVE  Typed'
<1> USE DEF Typed
<1>0. sessions \in [Session -> SessionCols]
  BY DEF TypeOK
<1>1. sessions' \in [Session -> SessionCols]
  BY <1>0 DEF DeletePCAgent, SessionCols
<1>2. agents' \in [Agent -> AgentCols]
  BY DEF DeletePCAgent, TypeOK, AgentCols, NoAgent, Protection
<1>3. \A t \in Session : sessions'[t].code = sessions[t].code
                           /\ sessions'[t].requested = sessions[t].requested
  BY DEF DeletePCAgent, TypeOK, SessionCols
<1>4. \A t \in Session : ~SessionRow(t) => sessions'[t] = NoSession
  BY DEF DeletePCAgent, TypeOK, NoSession
<1>5. TypeOK'
  BY <1>1, <1>2, <1>3, <1>4 DEF TypeOK, DeletePCAgent, requests, SessionRow, AgentRow
<1>6. SlotsOK'
  BY <1>3 DEF SlotsOK, DeletePCAgent, requests, SessionRow
<1> QED BY <1>5, <1>6

LEMMA NextTyped ==
  ASSUME Typed, [Next]_vars
  PROVE  Typed'
<1>1. CASE Tick
  BY <1>1, TickTyped
<1>2. ASSUME NEW s \in Session, StartTurn(s) \/ StartAbort(s)
      PROVE  Typed'
  BY <1>2, StartTakenTyped, StartFreeTyped, StartCreateTyped, StartCollideTyped,
     StartAbortTyped DEF StartTurn
<1>3. ASSUME NEW c \in Confirmer,
             \/ \E code \in Code, u \in User : ConfirmBegin(c, code, u)
             \/ ConfirmTx(c) \/ ConfirmAbort(c)
      PROVE  Typed'
  BY <1>3, ConfirmBeginTyped, ConfirmRefuseTyped, ConfirmOverdueTyped, ConfirmBindTyped,
     ConfirmAbortTyped DEF ConfirmTx
<1>4. ASSUME NEW p \in Poller,
             \/ \E s \in Session : PollFind(p, s)
             \/ PollTurn(p) \/ PollAbort(p)
      PROVE  Typed'
  BY <1>4, PollFindTyped, PollCheckTyped, PollExpireTyped, PollMissedExpireTyped,
     PollRefindTyped, PollIssuedTyped, PollDrawTyped, PollIssueTyped, PollMissedIssueTyped,
     PollRereadTyped, PollAgentGoneTyped, PollRespondTyped, PollAbortTyped DEF PollTurn
<1>5. ASSUME NEW v \in Caller,
             \/ \E a \in Agent, x \in Secret, op \in Op : CallFind(v, a, x, op)
             \/ CallTurn(v) \/ CallAbort(v)
      PROVE  Typed'
  BY <1>5, CallFindTyped, CallProtectTyped, CallMarkTyped, CallAgentGoneTyped,
     CallAbortTyped DEF CallTurn
<1>6. ASSUME NEW u \in User, NEW a \in Agent,
             \/ \E to \in Protection : UpdatePCAgentProtection(u, a, to)
             \/ DeletePCAgent(u, a)
      PROVE  Typed'
  BY <1>6, UpdatePCAgentProtectionTyped, DeletePCAgentTyped
<1>7. CASE UNCHANGED vars
  BY <1>7 DEF Typed, TypeOK, SlotsOK, SessionRow, AgentRow, vars
<1> QED BY <1>1, <1>2, <1>3, <1>4, <1>5, <1>6, <1>7 DEF Next

\* Every row and every slot keeps its type, whatever requests run.
THEOREM TypeCorrect == Spec => []TypeOK
<1>1. Spec => []Typed
  BY InitTyped, NextTyped, PTL DEF Spec
<1>2. Typed => TypeOK
  BY DEF Typed
<1> QED BY <1>1, <1>2, PTL

-----------------------------------------------------------------------------
(* The rows of both tables.                                                *)

\* The few steps that write a row; every other one leaves both tables alone.
RowStep ==
  \/ \E s \in Session, a \in Agent : StartCreate(s, a)
  \/ \E c \in Confirmer, s \in Session : ConfirmOverdue(c, s)
  \/ \E c \in Confirmer, s \in Session : ConfirmBind(c, s)
  \/ \E p \in Poller : PollExpire(p)
  \/ \E p \in Poller : PollIssue(p)
  \/ \E v \in Caller : CallProtect(v)
  \/ \E v \in Caller : CallMark(v)
  \/ \E u \in User, a \in Agent, to \in Protection : UpdatePCAgentProtection(u, a, to)
  \/ \E u \in User, a \in Agent : DeletePCAgent(u, a)

LEMMA RowSteps ==
  ASSUME [Next]_vars
  PROVE  RowStep \/ UNCHANGED <<sessions, agents>>
<1>1. CASE Tick
  BY <1>1 DEF Tick
<1>2. ASSUME NEW s \in Session, StartTurn(s) \/ StartAbort(s)
      PROVE  RowStep \/ UNCHANGED <<sessions, agents>>
  BY <1>2 DEF StartTurn, StartTaken, StartFree, StartCollide, StartAbort, RowStep
<1>3. ASSUME NEW c \in Confirmer,
             \/ \E code \in Code, u \in User : ConfirmBegin(c, code, u)
             \/ ConfirmTx(c) \/ ConfirmAbort(c)
      PROVE  RowStep \/ UNCHANGED <<sessions, agents>>
  BY <1>3 DEF ConfirmBegin, ConfirmTx, ConfirmRefuse, ConfirmAbort, RowStep
<1>4. ASSUME NEW p \in Poller,
             \/ \E s \in Session : PollFind(p, s)
             \/ PollTurn(p) \/ PollAbort(p)
      PROVE  RowStep \/ UNCHANGED <<sessions, agents>>
  BY <1>4 DEF PollFind, PollTurn, PollCheck, PollMissedExpire, PollRefind, PollIssued,
     PollDraw, PollMissedIssue, PollReread, PollAgentGone, PollRespond, PollAbort, RowStep
<1>5. ASSUME NEW v \in Caller,
             \/ \E a \in Agent, x \in Secret, op \in Op : CallFind(v, a, x, op)
             \/ CallTurn(v) \/ CallAbort(v)
      PROVE  RowStep \/ UNCHANGED <<sessions, agents>>
  BY <1>5 DEF CallFind, CallTurn, CallAgentGone, CallAbort, RowStep
<1>6. ASSUME NEW u \in User, NEW a \in Agent,
             \/ \E to \in Protection : UpdatePCAgentProtection(u, a, to)
             \/ DeletePCAgent(u, a)
      PROVE  RowStep \/ UNCHANGED <<sessions, agents>>
  BY <1>6 DEF RowStep
<1>7. CASE UNCHANGED vars
  BY <1>7 DEF vars
<1> QED BY <1>1, <1>2, <1>3, <1>4, <1>5, <1>6, <1>7 DEF Next

\* What the tables keep to: no two sessions share a code or an agent id, and
\* a session and its agent are in step.
IDNamesOneSession ==
  \A s, t \in Session :
    SessionRow(s) /\ SessionRow(t) /\ sessions[s].requested = sessions[t].requested => s = t

RowsOK == IDNamesOneSession /\ CodeNamesOneSession /\ AgentMatchesSession

LEMMA InitRows == Init => RowsOK
  BY DEF Init, RowsOK, IDNamesOneSession, CodeNamesOneSession, AgentMatchesSession,
     InStep, SessionRow, AgentRow, NoSession, NoAgent

\* Rows whose identifying columns do not change stay in step.
LEMMA SameRows ==
  ASSUME RowsOK,
         \A s \in Session : /\ sessions'[s].code = sessions[s].code
                            /\ sessions'[s].requested = sessions[s].requested
                            /\ sessions'[s].status = sessions[s].status
                            /\ sessions'[s].by = sessions[s].by
                            /\ sessions'[s].agent = sessions[s].agent,
         \A s \in Session : SessionRow(s) => sessions[s].requested \in Agent,
         \A a \in Agent : agents'[a].owner = agents[a].owner
  PROVE  RowsOK'
<1>1. \A s \in Session : SessionRow(s)' <=> SessionRow(s)
  BY DEF SessionRow
<1>2. \A a \in Agent : AgentRow(a)' <=> AgentRow(a)
  BY DEF AgentRow
<1>3. \A s \in Session : SessionRow(s) => InStep(s)'
  BY <1>2 DEF RowsOK, AgentMatchesSession, InStep
<1>4. AgentMatchesSession'
  BY <1>1, <1>2, <1>3 DEF RowsOK, AgentMatchesSession
<1>5. IDNamesOneSession' /\ CodeNamesOneSession'
  BY <1>1 DEF RowsOK, IDNamesOneSession, CodeNamesOneSession
<1> QED BY <1>4, <1>5 DEF RowsOK

LEMMA CreateRows ==
  ASSUME Typed, RowsOK, NEW s \in Session, NEW a \in Agent, StartCreate(s, a)
  PROVE  RowsOK'
<1>1. ~SessionRow(s) /\ start[s].code \in Code /\ start[s].code # NULL /\ a # NULL
  BY PairingAssumption DEF Typed, SlotsOK, StartCreate
<1>2. /\ sessions'[s].code = start[s].code /\ sessions'[s].requested = a
      /\ sessions'[s].status = "pending" /\ sessions'[s].agent = NULL
      /\ \A t \in Session \ {s} : sessions'[t] = sessions[t]
      /\ agents' = agents
  BY DEF StartCreate, Typed, TypeOK, NoSession
<1>3. ~AgentRow(a)
  <2> SUFFICES ASSUME AgentRow(a) PROVE FALSE
    OBVIOUS
  <2>1. PICK t \in Session : sessions[t].agent = a
    BY DEF RowsOK, AgentMatchesSession
  <2>2. SessionRow(t)
    BY <2>1, <1>1 DEF Typed, TypeOK, NoSession
  <2>3. sessions[t].requested = a
    BY <2>1, <2>2, <1>1 DEF RowsOK, AgentMatchesSession, InStep
  <2> QED BY <2>3 DEF StartCreate, FreshAgentID
<1>4. IDNamesOneSession'
  BY <1>1, <1>2 DEF StartCreate, FreshAgentID, IDNamesOneSession, RowsOK, SessionRow
<1>5. CodeNamesOneSession'
  BY <1>1, <1>2 DEF StartCreate, UniqueViolation, CodeNamesOneSession, RowsOK, SessionRow
<1>6. ASSUME NEW t \in Session, SessionRow(t)'
      PROVE  InStep(t)'
  <2>1. CASE t = s
    BY <2>1, <1>2, <1>3 DEF InStep, AgentRow
  <2>2. CASE t # s
    BY <2>2, <1>2, <1>6 DEF RowsOK, AgentMatchesSession, InStep, SessionRow, AgentRow
  <2> QED BY <2>1, <2>2
<1>7. ASSUME NEW b \in Agent, AgentRow(b)'
      PROVE  \E t \in Session : sessions'[t].agent = b
  <2>1. PICK t \in Session : sessions[t].agent = b
    BY <1>2, <1>7 DEF RowsOK, AgentMatchesSession, AgentRow
  <2>2. t # s
    BY <2>1, <1>1, PairingAssumption DEF Typed, TypeOK, NoSession
  <2> QED BY <2>1, <2>2, <1>2
<1> QED BY <1>4, <1>5, <1>6, <1>7 DEF RowsOK, AgentMatchesSession

\* A pending session has no agent yet, so closing it leaves the tables in step.
LEMMA ExpireRows ==
  ASSUME Typed, RowsOK, NEW s \in Session, SessionRow(s), StillPending(s),
         sessions' = [sessions EXCEPT ![s] = [@ EXCEPT !.status = "expired"]],
         agents' = agents
  PROVE  RowsOK'
<1>1. /\ sessions'[s].status = "expired"
      /\ \A t \in Session : /\ sessions'[t].code = sessions[t].code
                            /\ sessions'[t].requested = sessions[t].requested
                            /\ sessions'[t].agent = sessions[t].agent
      /\ \A t \in Session \ {s} : sessions'[t] = sessions[t]
  BY DEF Typed, TypeOK, SessionCols
<1>2. \A t \in Session : SessionRow(t)' <=> SessionRow(t)
  BY <1>1 DEF SessionRow
<1>3. ASSUME NEW t \in Session, SessionRow(t)
      PROVE  InStep(t)'
  <2>1. InStep(t)
    BY <1>3 DEF RowsOK, AgentMatchesSession
  <2>2. CASE t = s
    BY <2>1, <2>2, <1>1 DEF InStep, AgentRow, StillPending
  <2>3. CASE t # s
    BY <2>1, <2>3, <1>1 DEF InStep, AgentRow
  <2> QED BY <2>2, <2>3
<1>4. \A a \in Agent : AgentRow(a)' => \E t \in Session : sessions'[t].agent = a
  BY <1>1 DEF RowsOK, AgentMatchesSession, AgentRow
<1>5. IDNamesOneSession' /\ CodeNamesOneSession'
  BY <1>1, <1>2 DEF RowsOK, IDNamesOneSession, CodeNamesOneSession
<1> QED BY <1>2, <1>3, <1>4, <1>5 DEF RowsOK, AgentMatchesSession

LEMMA BindRows ==
  ASSUME Typed, RowsOK, NEW c \in Confirmer, NEW s \in Session, ConfirmBind(c, s)
  PROVE  RowsOK'
<1> DEFINE id == sessions[s].requested
<1>1. SessionRow(s) /\ id \in Agent /\ confirm[c].user \in User /\ confirm[c].user # NULL
  BY PairingAssumption DEF ConfirmBind, Typed, SlotsOK, SessionRow
<1>2. /\ sessions'[s].status = "confirmed" /\ sessions'[s].agent = id
      /\ sessions'[s].by = confirm[c].user
      /\ \A t \in Session : /\ sessions'[t].code = sessions[t].code
                            /\ sessions'[t].requested = sessions[t].requested
      /\ \A t \in Session \ {s} : sessions'[t] = sessions[t]
  BY DEF ConfirmBind, Typed, TypeOK, SessionCols
<1>3. /\ agents'[id].owner = confirm[c].user
      /\ \A a \in Agent \ {id} : agents'[a] = agents[a]
  BY <1>1 DEF ConfirmBind, Typed, TypeOK, NoAgent, AgentCols
<1>4. \A t \in Session : SessionRow(t)' <=> SessionRow(t)
  BY <1>2 DEF SessionRow
<1>5. ASSUME NEW t \in Session, SessionRow(t)
      PROVE  InStep(t)'
  <2>1. InStep(t)
    BY <1>5 DEF RowsOK, AgentMatchesSession
  <2>2. CASE t = s
    BY <2>2, <1>1, <1>2, <1>3 DEF InStep, AgentRow
  <2>3. CASE t # s
    <3>1. sessions[t].requested # id /\ sessions[t].requested \in Agent
      BY <2>3, <1>1, <1>5 DEF RowsOK, IDNamesOneSession, Typed, SlotsOK
    <3> HIDE DEF id
    <3> QED BY <2>1, <2>3, <3>1, <1>2, <1>3 DEF InStep, AgentRow
  <2> QED BY <2>2, <2>3
<1>6. ASSUME NEW a \in Agent, AgentRow(a)'
      PROVE  \E t \in Session : sessions'[t].agent = a
  <2>1. CASE a = id
    BY <2>1, <1>2
  <2>2. CASE a # id
    <3>1. PICK t \in Session : sessions[t].agent = a
      BY <2>2, <1>3, <1>6 DEF RowsOK, AgentMatchesSession, AgentRow
    <3>2. InStep(s) /\ StillPending(s)
      BY <1>1 DEF RowsOK, AgentMatchesSession, ConfirmBind
    <3>3. t # s
      BY <3>1, <3>2, PairingAssumption DEF InStep, StillPending
    <3> QED BY <3>1, <3>3, <1>2
  <2> QED BY <2>1, <2>2
<1>7. IDNamesOneSession' /\ CodeNamesOneSession'
  BY <1>2, <1>4 DEF RowsOK, IDNamesOneSession, CodeNamesOneSession
<1> QED BY <1>4, <1>5, <1>6, <1>7 DEF RowsOK, AgentMatchesSession

LEMMA DeleteRows ==
  ASSUME Typed, RowsOK, NEW u \in User, NEW a \in Agent, DeletePCAgent(u, a)
  PROVE  RowsOK'
<1>1. AgentRow(a)
  BY PairingAssumption DEF DeletePCAgent, OwnedBy, AgentRow
<1>2. /\ agents'[a].owner = NULL
      /\ \A b \in Agent \ {a} : agents'[b] = agents[b]
  BY DEF DeletePCAgent, Typed, TypeOK, NoAgent
<1>3. \A t \in Session : /\ sessions'[t].code = sessions[t].code
                         /\ sessions'[t].requested = sessions[t].requested
                         /\ sessions'[t].status = sessions[t].status
                         /\ sessions'[t].by = sessions[t].by
                         /\ sessions'[t].agent = IF sessions[t].agent = a THEN NULL
                                                 ELSE sessions[t].agent
  BY DEF DeletePCAgent, Typed, TypeOK, SessionCols
<1>4. \A t \in Session : SessionRow(t)' <=> SessionRow(t)
  BY <1>3 DEF SessionRow
<1>5. ASSUME NEW t \in Session, SessionRow(t)
      PROVE  InStep(t)'
  <2>1. InStep(t) /\ sessions[t].requested \in Agent
    BY <1>5 DEF RowsOK, AgentMatchesSession, Typed, SlotsOK
  <2>2. CASE sessions[t].requested = a
    BY <2>1, <2>2, <1>2, <1>3 DEF InStep, AgentRow
  <2>3. CASE sessions[t].requested # a
    BY <2>1, <2>3, <1>2, <1>3, PairingAssumption DEF InStep, AgentRow
  <2> QED BY <2>2, <2>3
<1>6. ASSUME NEW b \in Agent, AgentRow(b)'
      PROVE  \E t \in Session : sessions'[t].agent = b
  <2>1. b # a
    BY <1>2, <1>6 DEF AgentRow
  <2>2. PICK t \in Session : sessions[t].agent = b
    BY <2>1, <1>2, <1>6 DEF RowsOK, AgentMatchesSession, AgentRow
  <2> QED BY <2>1, <2>2, <1>3
<1>7. IDNamesOneSession' /\ CodeNamesOneSession'
  BY <1>3, <1>4 DEF RowsOK, IDNamesOneSession, CodeNamesOneSession
<1> QED BY <1>4, <1>5, <1>6, <1>7 DEF RowsOK, AgentMatchesSession

\* The updates that find an agent by its id write one column of it.
Update ==
  \/ \E p \in Poller : PollIssue(p)
  \/ \E v \in Caller : CallProtect(v)
  \/ \E v \in Caller : CallMark(v)
  \/ \E u \in User, a \in Agent, to \in Protection : UpdatePCAgentProtection(u, a, to)

LEMMA UpdateKeepsOwners ==
  ASSUME Typed, Update
  PROVE  sessions' = sessions /\ \A a \in Agent : agents'[a].owner = agents[a].owner
<1>1. agents \in [Agent -> AgentCols]
  BY DEF Typed, TypeOK
<1>2. ASSUME NEW p \in Poller, PollIssue(p)
      PROVE  \A a \in Agent : agents'[a].owner = agents[a].owner
  BY <1>1, <1>2 DEF PollIssue, AgentCols
<1>3. ASSUME NEW v \in Caller, CallProtect(v)
      PROVE  \A a \in Agent : agents'[a].owner = agents[a].owner
  BY <1>1, <1>3 DEF CallProtect, AgentCols
<1>4. ASSUME NEW v \in Caller, CallMark(v)
      PROVE  \A a \in Agent : agents'[a].owner = agents[a].owner
  BY <1>1, <1>4 DEF CallMark, AgentCols
<1>5. ASSUME NEW b \in Agent, NEW to \in Protection, NEW u \in User,
             UpdatePCAgentProtection(u, b, to)
      PROVE  \A a \in Agent : agents'[a].owner = agents[a].owner
  BY <1>1, <1>5 DEF UpdatePCAgentProtection, AgentCols
<1>6. sessions' = sessions
  BY DEF Update, PollIssue, CallProtect, CallMark, UpdatePCAgentProtection
<1> QED BY <1>2, <1>3, <1>4, <1>5, <1>6 DEF Update

LEMMA UpdateRows ==
  ASSUME Typed, RowsOK, Update
  PROVE  RowsOK'
<1>1. \A s \in Session : SessionRow(s) => sessions[s].requested \in Agent
  BY DEF Typed, SlotsOK
<1> QED BY <1>1, UpdateKeepsOwners, SameRows

LEMMA NextRows ==
  ASSUME Typed, RowsOK, [Next]_vars
  PROVE  RowsOK'
<1>1. CASE UNCHANGED <<sessions, agents>>
  BY <1>1, SameRows DEF Typed, SlotsOK
<1>2. CASE RowStep
  <2>1. ASSUME NEW c \in Confirmer, NEW s \in Session, ConfirmOverdue(c, s)
        PROVE  RowsOK'
    <3>1. SessionRow(s)
      BY <2>1, PairingAssumption DEF ConfirmOverdue, Typed, SlotsOK, SessionRow
    <3> QED BY <2>1, <3>1, ExpireRows DEF ConfirmOverdue
  <2>2. ASSUME NEW p \in Poller, PollExpire(p)
        PROVE  RowsOK'
    <3>1. poll[p].sess \in Session /\ SessionRow(poll[p].sess)
      BY <2>2 DEF PollExpire, Typed, SlotsOK
    <3> QED BY <2>2, <3>1, ExpireRows DEF PollExpire
  <2> QED BY <1>2, <2>1, <2>2, CreateRows, BindRows, DeleteRows, UpdateRows
      DEF RowStep, Update
<1> QED BY <1>1, <1>2, RowSteps

\* Codes and agent ids name one session each, and a session and its agent stay
\* in step, at every program point of every request.
THEOREM RowsCorrect == Spec => [](Typed /\ RowsOK)
<1>1. Init => Typed /\ RowsOK
  BY InitTyped, InitRows
<1>2. Typed /\ RowsOK /\ [Next]_vars => (Typed /\ RowsOK)'
  BY NextTyped, NextRows
<1> QED BY <1>1, <1>2, PTL DEF Spec

\* No interleaving of StartPairing requests gives two sessions one code.
THEOREM CodeIsUnique == Spec => []CodeNamesOneSession
<1>1. Typed /\ RowsOK => CodeNamesOneSession
  BY DEF RowsOK
<1> QED BY <1>1, RowsCorrect, PTL

\* Sessions and agents stay in step, for any number of requests.
THEOREM AgentInStep == Spec => []AgentMatchesSession
<1>1. Typed /\ RowsOK => AgentMatchesSession
  BY DEF RowsOK
<1> QED BY <1>1, RowsCorrect, PTL

-----------------------------------------------------------------------------
LEMMA NextDeleted ==
  ASSUME Typed, RowsOK, [Next]_vars, NEW s \in Session, Deleted(s)
  PROVE  Deleted(s)'
<1> USE DEF Deleted
<1>1. sessions[s].requested \in Agent
  BY DEF Typed, SlotsOK
<1>2. CASE UNCHANGED <<sessions, agents>>
  BY <1>2 DEF SessionRow, AgentRow
<1>3. ASSUME NEW t \in Session, NEW a \in Agent, StartCreate(t, a)
      PROVE  Deleted(s)'
  BY <1>3 DEF StartCreate, Typed, TypeOK, SlotsOK, SessionRow, AgentRow
<1>4. ASSUME NEW c \in Confirmer, NEW t \in Session, ConfirmOverdue(c, t)
      PROVE  Deleted(s)'
  BY <1>4 DEF ConfirmOverdue, StillPending, Typed, TypeOK, SessionRow, AgentRow
<1>5. ASSUME NEW c \in Confirmer, NEW t \in Session, ConfirmBind(c, t)
      PROVE  Deleted(s)'
  <2>1. t # s /\ SessionRow(t)
    BY <1>5, PairingAssumption DEF ConfirmBind, StillPending, Typed, SlotsOK, SessionRow
  <2>2. sessions[t].requested # sessions[s].requested
    BY <2>1 DEF RowsOK, IDNamesOneSession
  <2> QED BY <1>1, <1>5, <2>1, <2>2 DEF ConfirmBind, Typed, TypeOK, SessionRow, AgentRow
<1>6. ASSUME NEW p \in Poller, PollExpire(p)
      PROVE  Deleted(s)'
  BY <1>6 DEF PollExpire, StillPending, Typed, TypeOK, SessionRow, AgentRow
<1>7. CASE Update
  BY <1>1, <1>7, UpdateKeepsOwners DEF SessionRow, AgentRow
<1>8. ASSUME NEW u \in User, NEW a \in Agent, DeletePCAgent(u, a)
      PROVE  Deleted(s)'
  <2>1. /\ sessions'[s].code = sessions[s].code
        /\ sessions'[s].requested = sessions[s].requested
        /\ sessions'[s].status = sessions[s].status
    BY <1>8 DEF DeletePCAgent, Typed, TypeOK, SessionCols
  <2>2. \A b \in Agent : agents'[b].owner = agents[b].owner \/ agents'[b].owner = NULL
    BY <1>8 DEF DeletePCAgent, Typed, TypeOK, NoAgent
  <2> QED BY <1>1, <2>1, <2>2 DEF SessionRow, AgentRow
<1> QED BY <1>2, <1>3, <1>4, <1>5, <1>6, <1>7, <1>8, RowSteps DEF RowStep, Update

\* An agent its owner deleted is never bound again, whatever was in flight.
THEOREM DeletedForGood == Spec => DeletedAgentStaysDeleted
<1>1. Typed /\ RowsOK /\ [Next]_vars =>
        [\A s \in Session : Deleted(s) => Deleted(s)']_vars
  BY NextDeleted
<1> QED BY <1>1, RowsCorrect, PTL DEF Spec, DeletedAgentStaysDeleted

-----------------------------------------------------------------------------
(* Sessions are decided by their deadline, although the requests that      *)
(* decide them go by a clock and by rows read earlier.                     *)

\* What the requests remember of the clock: a confirmation the time it was
\* made, a poll that goes to expire a session that its deadline has passed.
ClocksOK ==
  /\ \A c \in Confirmer : confirm[c].pc = "tx" => confirm[c].at <= now
  /\ \A p \in Poller : poll[p].pc = "expire" => now > sessions[poll[p].sess].expires

Timely == DecidedByDeadline /\ ClocksOK

LEMMA InitTimely == Init => Timely
  BY DEF Init, Timely, DecidedByDeadline, ClocksOK, SessionRow, NoSession, NoConfirm, NoPoll

LEMMA ClockRuns ==
  ASSUME Typed, [Next]_vars
  PROVE  now \in Nat /\ now' \in Nat /\ now <= now'
<1>1. now \in Nat
  BY PairingAssumption DEF Typed, TypeOK
<1>2. now' = now \/ now' = now + 1
  <2>1. CASE Tick
    BY <2>1 DEF Tick
  <2>2. ASSUME NEW s \in Session, StartTurn(s) \/ StartAbort(s)
        PROVE  now' = now
    BY <2>2 DEF StartTurn, StartTaken, StartFree, StartCreate, StartCollide, StartAbort
  <2>3. ASSUME NEW c \in Confirmer,
               \/ \E code \in Code, u \in User : ConfirmBegin(c, code, u)
               \/ ConfirmTx(c) \/ ConfirmAbort(c)
        PROVE  now' = now
    BY <2>3 DEF ConfirmBegin, ConfirmTx, ConfirmRefuse, ConfirmOverdue, ConfirmBind, ConfirmAbort
  <2>4. ASSUME NEW p \in Poller,
               (\E s \in Session : PollFind(p, s)) \/ PollTurn(p) \/ PollAbort(p)
        PROVE  now' = now
    BY <2>4 DEF PollFind, PollTurn, PollCheck, PollExpire, PollMissedExpire, PollRefind,
       PollIssued, PollDraw, PollIssue, PollMissedIssue, PollReread, PollAgentGone,
       PollRespond, PollAbort
  <2>5. ASSUME NEW v \in Caller,
               \/ \E a \in Agent, x \in Secret, op \in Op : CallFind(v, a, x, op)
               \/ CallTurn(v) \/ CallAbort(v)
        PROVE  now' = now
    BY <2>5 DEF CallFind, CallTurn, CallProtect, CallMark, CallAgentGone, CallAbort
  <2>6. ASSUME NEW u \in User, NEW a \in Agent,
               \/ \E to \in Protection : UpdatePCAgentProtection(u, a, to)
               \/ DeletePCAgent(u, a)
        PROVE  now' = now
    BY <2>6 DEF UpdatePCAgentProtection, DeletePCAgent
  <2>7. CASE UNCHANGED vars
    BY <2>7 DEF vars
  <2> QED BY <2>1, <2>2, <2>3, <2>4, <2>5, <2>6, <2>7 DEF Next
<1> QED BY <1>1, <1>2

\* A row that is there stays, and so does its deadline.
LEMMA DeadlineFixed ==
  ASSUME Typed, [Next]_vars, NEW s \in Session, SessionRow(s)
  PROVE  SessionRow(s)' /\ sessions'[s].expires = sessions[s].expires
<1>1. sessions \in [Session -> SessionCols]
  BY DEF Typed, TypeOK
<1>2. CASE UNCHANGED <<sessions, agents>>
  BY <1>2 DEF SessionRow
<1>3. ASSUME NEW t \in Session, NEW a \in Agent, StartCreate(t, a)
      PROVE  sessions'[s] = sessions[s]
  BY <1>1, <1>3 DEF StartCreate, Typed, SlotsOK
<1>4. ASSUME NEW c \in Confirmer, NEW t \in Session, ConfirmOverdue(c, t)
      PROVE  sessions'[s].code = sessions[s].code /\ sessions'[s].expires = sessions[s].expires
  BY <1>1, <1>4 DEF ConfirmOverdue, SessionCols
<1>5. ASSUME NEW c \in Confirmer, NEW t \in Session, ConfirmBind(c, t)
      PROVE  sessions'[s].code = sessions[s].code /\ sessions'[s].expires = sessions[s].expires
  BY <1>1, <1>5 DEF ConfirmBind, SessionCols
<1>6. ASSUME NEW p \in Poller, PollExpire(p)
      PROVE  sessions'[s].code = sessions[s].code /\ sessions'[s].expires = sessions[s].expires
  BY <1>1, <1>6 DEF PollExpire, SessionCols
<1>7. CASE Update
  BY <1>7, UpdateKeepsOwners DEF SessionRow
<1>8. ASSUME NEW u \in User, NEW a \in Agent, DeletePCAgent(u, a)
      PROVE  sessions'[s].code = sessions[s].code /\ sessions'[s].expires = sessions[s].expires
  BY <1>1, <1>8 DEF DeletePCAgent, SessionCols
<1> QED BY <1>2, <1>3, <1>4, <1>5, <1>6, <1>7, <1>8, RowSteps DEF RowStep, Update, SessionRow

\* The clock a confirmation holds was read in an earlier step or in this one.
LEMMA ConfirmClock ==
  ASSUME Typed, [Next]_vars, NEW c \in Confirmer, confirm'[c].pc = "tx"
  PROVE  confirm'[c] = confirm[c] \/ confirm'[c].at = now
<1>1. confirm \in [Confirmer -> ConfirmSlot]
  BY DEF Typed, TypeOK
<1>2. CASE Tick
  BY <1>2 DEF Tick, requests
<1>3. ASSUME NEW s \in Session, StartTurn(s) \/ StartAbort(s)
      PROVE  confirm' = confirm
  BY <1>3 DEF StartTurn, StartTaken, StartFree, StartCreate, StartCollide, StartAbort
<1>4. ASSUME NEW d \in Confirmer, NEW code \in Code, NEW u \in User, ConfirmBegin(d, code, u)
      PROVE  confirm'[c] = confirm[c] \/ confirm'[c].at = now
  BY <1>1, <1>4 DEF ConfirmBegin
<1>5. ASSUME NEW d \in Confirmer, ConfirmTx(d) \/ ConfirmAbort(d)
      PROVE  confirm'[c] = confirm[c]
  <2>1. ConfirmDone(d)
    BY <1>5 DEF ConfirmTx, ConfirmRefuse, ConfirmOverdue, ConfirmBind, ConfirmAbort
  <2> QED BY <1>1, <2>1 DEF ConfirmDone, NoConfirm
<1>6. ASSUME NEW p \in Poller,
             (\E s \in Session : PollFind(p, s)) \/ PollTurn(p) \/ PollAbort(p)
      PROVE  confirm' = confirm
  BY <1>6 DEF PollFind, PollTurn, PollCheck, PollExpire, PollMissedExpire, PollRefind,
     PollIssued, PollDraw, PollIssue, PollMissedIssue, PollReread, PollAgentGone,
     PollRespond, PollAbort
<1>7. ASSUME NEW v \in Caller,
             \/ \E a \in Agent, x \in Secret, op \in Op : CallFind(v, a, x, op)
             \/ CallTurn(v) \/ CallAbort(v)
      PROVE  confirm' = confirm
  BY <1>7 DEF CallFind, CallTurn, CallProtect, CallMark, CallAgentGone, CallAbort
<1>8. ASSUME NEW u \in User, NEW a \in Agent,
             \/ \E to \in Protection : UpdatePCAgentProtection(u, a, to)
             \/ DeletePCAgent(u, a)
      PROVE  confirm' = confirm
  BY <1>8 DEF UpdatePCAgentProtection, DeletePCAgent, requests
<1>9. CASE UNCHANGED vars
  BY <1>9 DEF vars, requests
<1> QED BY <1>2, <1>3, <1>4, <1>5, <1>6, <1>7, <1>8, <1>9 DEF Next

\* A poll that goes to expire its session went before, or goes now, in time.
LEMMA PollClock ==
  ASSUME Typed, [Next]_vars, NEW p \in Poller, poll'[p].pc = "expire"
  PROVE  poll'[p] = poll[p] \/ (poll'[p].sess = poll[p].sess /\ poll[p].sess \in Session
                                 /\ SessionRow(poll[p].sess) /\ now > sessions[poll[p].sess].expires)
<1> DEFINE Goal == poll'[p] = poll[p] \/ (poll'[p].sess = poll[p].sess /\ poll[p].sess \in Session
                                 /\ SessionRow(poll[p].sess) /\ now > sessions[poll[p].sess].expires)
<1>1. poll \in [Poller -> PollSlot]
  BY DEF Typed, TypeOK
<1>2. CASE Tick
  BY <1>2 DEF Tick, requests
<1>3. ASSUME NEW s \in Session, StartTurn(s) \/ StartAbort(s)
      PROVE  poll' = poll
  BY <1>3 DEF StartTurn, StartTaken, StartFree, StartCreate, StartCollide, StartAbort
<1>4. ASSUME NEW d \in Confirmer,
             \/ \E code \in Code, u \in User : ConfirmBegin(d, code, u)
             \/ ConfirmTx(d) \/ ConfirmAbort(d)
      PROVE  poll' = poll
  BY <1>4 DEF ConfirmBegin, ConfirmTx, ConfirmRefuse, ConfirmOverdue, ConfirmBind, ConfirmAbort
<1>5. ASSUME NEW q \in Poller, NEW s \in Session, PollFind(q, s)
      PROVE  poll'[p] = poll[p]
  BY <1>1, <1>5 DEF PollFind, NoPoll
<1>6. ASSUME NEW q \in Poller, PollCheck(q)
      PROVE  Goal
  <2>1. CASE q = p /\ Overdue(p)
    <3>1. poll'[p].sess = poll[p].sess
      BY <1>1, <1>6, <2>1 DEF PollCheck, PollSlot
    <3>2. poll[p].sess \in Session /\ SessionRow(poll[p].sess)
      BY <1>6, <2>1 DEF PollCheck, Typed, SlotsOK
    <3> QED BY <2>1, <3>1, <3>2 DEF Overdue, After
  <2>2. CASE q = p /\ ~Overdue(p)
    BY <1>1, <1>6, <2>2 DEF PollCheck, AfterSession, PollSlot
  <2>3. CASE q # p
    BY <1>1, <1>6, <2>3 DEF PollCheck
  <2> QED BY <2>1, <2>2, <2>3
<1>7. ASSUME NEW q \in Poller, PollExpire(q) \/ PollMissedExpire(q)
      PROVE  poll'[p] = poll[p]
  BY <1>1, <1>7 DEF PollExpire, PollMissedExpire, PollSlot
<1>8. ASSUME NEW q \in Poller, PollRefind(q)
      PROVE  poll'[p] = poll[p]
  BY <1>1, <1>8 DEF PollRefind, AfterSession, PollSlot
<1>9. ASSUME NEW q \in Poller,
             \/ PollIssued(q) \/ PollIssue(q) \/ PollMissedIssue(q) \/ PollReread(q)
             \/ \E x \in Secret : PollDraw(q, x)
      PROVE  poll'[p] = poll[p]
  BY <1>1, <1>9 DEF PollIssued, PollDraw, PollIssue, PollMissedIssue, PollReread, PollSlot
<1>10. ASSUME NEW q \in Poller, PollAgentGone(q) \/ PollRespond(q) \/ PollAbort(q)
       PROVE  poll'[p] = poll[p]
  BY <1>1, <1>10 DEF PollAgentGone, PollRespond, PollAbort, PollDone, NoPoll
<1>11. ASSUME NEW v \in Caller,
              \/ \E a \in Agent, x \in Secret, op \in Op : CallFind(v, a, x, op)
              \/ CallTurn(v) \/ CallAbort(v)
       PROVE  poll' = poll
  BY <1>11 DEF CallFind, CallTurn, CallProtect, CallMark, CallAgentGone, CallAbort
<1>12. ASSUME NEW u \in User, NEW a \in Agent,
              \/ \E to \in Protection : UpdatePCAgentProtection(u, a, to)
              \/ DeletePCAgent(u, a)
       PROVE  poll' = poll
  BY <1>12 DEF UpdatePCAgentProtection, DeletePCAgent, requests
<1>13. CASE UNCHANGED vars
  BY <1>13 DEF vars, requests
<1> QED BY <1>2, <1>3, <1>4, <1>5, <1>6, <1>7, <1>8, <1>9, <1>10, <1>11, <1>12, <1>13
    DEF Next, PollTurn

LEMMA NextClocks ==
  ASSUME Typed, Timely, [Next]_vars
  PROVE  ClocksOK'
<1>1. now \in Nat /\ now' \in Nat /\ now <= now'
  BY ClockRuns
<1>2. ASSUME NEW c \in Confirmer, confirm'[c].pc = "tx"
      PROVE  confirm'[c].at <= now'
  <2>1. confirm'[c].at = now \/ (confirm'[c] = confirm[c] /\ confirm[c].at <= now)
    BY <1>2, ConfirmClock DEF Timely, ClocksOK
  <2>2. confirm[c].at \in Nat
    BY PairingAssumption DEF Typed, TypeOK, ConfirmSlot
  <2> QED BY <1>1, <2>1, <2>2
<1>3. ASSUME NEW p \in Poller, poll'[p].pc = "expire"
      PROVE  now' > sessions'[poll'[p].sess].expires
  <2>1. /\ poll'[p].sess = poll[p].sess
        /\ poll[p].sess \in Session /\ SessionRow(poll[p].sess)
        /\ now > sessions[poll[p].sess].expires
    <3>1. CASE poll'[p] = poll[p]
      BY <1>3, <3>1 DEF Typed, SlotsOK, Timely, ClocksOK
    <3>2. CASE poll'[p] # poll[p]
      BY <1>3, <3>2, PollClock
    <3> QED BY <3>1, <3>2
  <2>2. sessions'[poll[p].sess].expires = sessions[poll[p].sess].expires
    BY <2>1, DeadlineFixed
  <2>3. sessions[poll[p].sess].expires \in Nat
    BY <2>1, PairingAssumption DEF Typed, TypeOK, SessionCols, Stamp
  <2> QED BY <1>1, <2>1, <2>2, <2>3
<1> QED BY <1>2, <1>3 DEF ClocksOK

\* The fact about one row: what its columns say of its deadline.
Decided(s) ==
  /\ sessions[s].status = "confirmed" => sessions[s].at <= sessions[s].expires
  /\ sessions[s].status = "expired" => now > sessions[s].expires

\* A row whose status, time and deadline do not change stays decided.
LEMMA SameDecided ==
  ASSUME Typed, [Next]_vars, NEW s \in Session, SessionRow(s), Decided(s),
         sessions'[s].status = sessions[s].status, sessions'[s].at = sessions[s].at
  PROVE  Decided(s)'
<1>1. sessions'[s].expires = sessions[s].expires
  BY DeadlineFixed
<1>2. now \in Nat /\ now' \in Nat /\ now <= now'
  BY ClockRuns
<1>3. sessions[s].expires \in Nat
  BY PairingAssumption DEF Typed, TypeOK, SessionCols, Stamp
<1> QED BY <1>1, <1>2, <1>3 DEF Decided

LEMMA NextDecided ==
  ASSUME Typed, Timely, [Next]_vars, NEW s \in Session, SessionRow(s)'
  PROVE  Decided(s)'
<1>1. sessions \in [Session -> SessionCols]
  BY DEF Typed, TypeOK
<1>2. now \in Nat /\ now' \in Nat /\ now <= now'
  BY ClockRuns
<1>3. SessionRow(s) => Decided(s) /\ sessions[s].expires \in Nat /\ sessions[s].at \in Nat
  BY PairingAssumption DEF Timely, DecidedByDeadline, Decided, Typed, TypeOK, SessionCols, Stamp
<1>4. SessionRow(s) => sessions'[s].expires = sessions[s].expires
  BY DeadlineFixed
<1>5. ASSUME sessions'[s] = sessions[s]
      PROVE  Decided(s)'
  BY <1>3, <1>5, SameDecided DEF SessionRow
<1>6. CASE UNCHANGED <<sessions, agents>>
  BY <1>5, <1>6
<1>7. ASSUME NEW t \in Session, NEW a \in Agent, StartCreate(t, a)
      PROVE  Decided(s)'
  <2>1. CASE s = t
    BY <1>1, <1>7, <2>1 DEF StartCreate, NoSession, Decided
  <2>2. CASE s # t
    BY <1>1, <1>5, <1>7, <2>2 DEF StartCreate
  <2> QED BY <2>1, <2>2
<1>8. ASSUME NEW c \in Confirmer, NEW t \in Session, ConfirmOverdue(c, t)
      PROVE  Decided(s)'
  <2>1. CASE s = t
    <3>1. SessionRow(s) /\ confirm[c].at > sessions[s].expires /\ confirm[c].at <= now
      BY <1>8, <2>1, PairingAssumption
      DEF ConfirmOverdue, After, Timely, ClocksOK, Typed, SlotsOK, SessionRow
    <3>2. sessions'[s].status = "expired"
      BY <1>1, <1>8, <2>1 DEF ConfirmOverdue, SessionCols
    <3>3. confirm[c].at \in Nat
      BY PairingAssumption DEF Typed, TypeOK, ConfirmSlot
    <3> QED BY <1>2, <1>3, <1>4, <3>1, <3>2, <3>3 DEF Decided
  <2>2. CASE s # t
    BY <1>1, <1>5, <1>8, <2>2 DEF ConfirmOverdue
  <2> QED BY <2>1, <2>2
<1>9. ASSUME NEW c \in Confirmer, NEW t \in Session, ConfirmBind(c, t)
      PROVE  Decided(s)'
  <2>1. CASE s = t
    <3>1. SessionRow(s) /\ ~(confirm[c].at > sessions[s].expires)
      BY <1>9, <2>1, PairingAssumption
      DEF ConfirmBind, After, Typed, SlotsOK, SessionRow
    <3>2. sessions'[s].status = "confirmed" /\ sessions'[s].at = confirm[c].at
      BY <1>1, <1>9, <2>1 DEF ConfirmBind, SessionCols
    <3>3. confirm[c].at \in Nat
      BY PairingAssumption DEF Typed, TypeOK, ConfirmSlot
    <3> QED BY <1>3, <1>4, <3>1, <3>2, <3>3 DEF Decided
  <2>2. CASE s # t
    BY <1>1, <1>5, <1>9, <2>2 DEF ConfirmBind
  <2> QED BY <2>1, <2>2
<1>10. ASSUME NEW p \in Poller, PollExpire(p)
       PROVE  Decided(s)'
  <2>1. CASE s = poll[p].sess
    <3>1. SessionRow(s) /\ now > sessions[s].expires
      BY <1>10, <2>1 DEF PollExpire, Timely, ClocksOK, Typed, SlotsOK
    <3>2. sessions'[s].status = "expired"
      BY <1>1, <1>10, <2>1 DEF PollExpire, SessionCols
    <3> QED BY <1>2, <1>3, <1>4, <3>1, <3>2 DEF Decided
  <2>2. CASE s # poll[p].sess
    BY <1>1, <1>5, <1>10, <2>2 DEF PollExpire
  <2> QED BY <2>1, <2>2
<1>11. CASE Update
  BY <1>5, <1>11, UpdateKeepsOwners
<1>12. ASSUME NEW u \in User, NEW a \in Agent, DeletePCAgent(u, a)
       PROVE  Decided(s)'
  <2>1. /\ sessions'[s].code = sessions[s].code
        /\ sessions'[s].status = sessions[s].status
        /\ sessions'[s].at = sessions[s].at
    BY <1>1, <1>12 DEF DeletePCAgent, SessionCols
  <2>2. SessionRow(s)
    BY <2>1 DEF SessionRow
  <2> QED BY <1>3, <2>1, <2>2, SameDecided
<1> QED BY <1>6, <1>7, <1>8, <1>9, <1>10, <1>11, <1>12, RowSteps DEF RowStep, Update

LEMMA NextTimely ==
  ASSUME Typed, Timely, [Next]_vars
  PROVE  Timely'
<1>1. DecidedByDeadline'
  BY NextDecided DEF DecidedByDeadline, Decided
<1> QED BY <1>1, NextClocks DEF Timely

\* However stale the clock or the row a request decides by, a session is
\* confirmed only by a request made in time, and expired only when overdue.
THEOREM DecidedInTime == Spec => []DecidedByDeadline
<1>1. Init => Typed /\ Timely
  BY InitTyped, InitTimely
<1>2. Typed /\ Timely /\ [Next]_vars => (Typed /\ Timely)'
  BY NextTyped, NextTimely
<1>3. Typed /\ Timely => DecidedByDeadline
  BY DEF Timely
<1> QED BY <1>1, <1>2, <1>3, PTL DEF Spec

-----------------------------------------------------------------------------
(* Pairing implements Enrollment: every step, read through PhaseOf, HashOf *)
(* and the column by, is a step of Enrollment or changes nothing of it.    *)

\* What Enrollment sees of a session is the same after the step.
Quiet(s) ==
  PhaseOf(s)' = PhaseOf(s) /\ HashOf(s)' = HashOf(s) /\ sessions'[s].by = sessions[s].by

LEMMA AllQuiet ==
  ASSUME \A s \in Session : Quiet(s)
  PROVE  UNCHANGED E!evars
  BY DEF Quiet, E!evars

LEMMA InitEnrollment == Init => E!Init
  BY DEF Init, E!Init, PhaseOf, HashOf, SessionRow, NoSession

\* The two rows of a session are the same after the step.
LEMMA SameRowsQuiet ==
  ASSUME Typed, NEW s \in Session, sessions'[s] = sessions[s],
         SessionRow(s) => agents'[sessions[s].requested] = agents[sessions[s].requested]
  PROVE  Quiet(s)
<1>1. SessionRow(s)' <=> SessionRow(s)
  BY DEF SessionRow
<1>2. SessionRow(s) => (AgentRow(sessions[s].requested)' <=> AgentRow(sessions[s].requested))
  BY DEF AgentRow
<1>3. PhaseOf(s)' = PhaseOf(s)
  <2>1. CASE SessionRow(s)
    BY <2>1, <1>1, <1>2 DEF PhaseOf, AgentRow
  <2>2. CASE ~SessionRow(s)
    BY <2>2, <1>1 DEF PhaseOf
  <2> QED BY <2>1, <2>2
<1>4. HashOf(s)' = HashOf(s)
  BY <1>3, <1>1 DEF HashOf, PhaseOf
<1> QED BY <1>3, <1>4 DEF Quiet

\* One session moves and the others are quiet: the step of Enrollment it is.
LEMMA EnrollmentStep ==
  ASSUME NEW s \in Session, \A t \in Session \ {s} : Quiet(t),
         \/ /\ PhaseOf(s) = "none" /\ PhaseOf(s)' = "open"
            /\ HashOf(s)' = HashOf(s) /\ sessions'[s].by = sessions[s].by
         \/ /\ PhaseOf(s) = "open" /\ PhaseOf(s)' = "closed"
            /\ HashOf(s)' = HashOf(s) /\ sessions'[s].by = sessions[s].by
         \/ /\ PhaseOf(s) = "open" /\ PhaseOf(s)' = "bound"
            /\ HashOf(s)' = HashOf(s) /\ sessions'[s].by \in User
         \/ /\ PhaseOf(s) = "bound" /\ PhaseOf(s)' = "removed"
            /\ HashOf(s)' = NULL /\ sessions'[s].by = sessions[s].by
         \/ /\ PhaseOf(s) = "bound" /\ PhaseOf(s)' = PhaseOf(s)
            /\ HashOf(s) = NULL /\ HashOf(s)' \in Secret /\ sessions'[s].by = sessions[s].by
  PROVE  E!Next
<1> DEFINE Phase == [t \in Session |-> PhaseOf(t)]
           Owner == [t \in Session |-> sessions[t].by]
           Hash  == [t \in Session |-> HashOf(t)]
<1>1. Phase' = [Phase EXCEPT ![s] = PhaseOf(s)']
  BY DEF Quiet
<1>2. Owner' = [Owner EXCEPT ![s] = sessions'[s].by]
  BY DEF Quiet
<1>3. Hash' = [Hash EXCEPT ![s] = HashOf(s)']
  BY DEF Quiet
<1>4. sessions'[s].by = sessions[s].by => Owner' = Owner
  BY <1>2
<1>5. HashOf(s)' = HashOf(s) => Hash' = Hash
  BY <1>3
<1>6. PhaseOf(s)' = PhaseOf(s) => Phase' = Phase
  BY <1>1
<1>7. Phase[s] = PhaseOf(s) /\ Hash[s] = HashOf(s)
  OBVIOUS
<1>8. CASE /\ PhaseOf(s) = "none" /\ PhaseOf(s)' = "open"
           /\ HashOf(s)' = HashOf(s) /\ sessions'[s].by = sessions[s].by
  <2>1. E!Open(s)
    BY <1>1, <1>4, <1>5, <1>7, <1>8 DEF E!Open
  <2> QED BY <2>1 DEF E!Next
<1>9. CASE /\ PhaseOf(s) = "open" /\ PhaseOf(s)' = "closed"
           /\ HashOf(s)' = HashOf(s) /\ sessions'[s].by = sessions[s].by
  <2>1. E!Close(s)
    BY <1>1, <1>4, <1>5, <1>7, <1>9 DEF E!Close
  <2> QED BY <2>1 DEF E!Next
<1>10. CASE /\ PhaseOf(s) = "open" /\ PhaseOf(s)' = "bound"
            /\ HashOf(s)' = HashOf(s) /\ sessions'[s].by \in User
  <2>1. PICK u \in User : u = sessions'[s].by
    BY <1>10
  <2>2. E!Bind(s, u)
    BY <1>1, <1>2, <1>5, <1>7, <1>10, <2>1 DEF E!Bind
  <2> QED BY <2>2 DEF E!Next
<1>11. CASE /\ PhaseOf(s) = "bound" /\ PhaseOf(s)' = "removed"
            /\ HashOf(s)' = NULL /\ sessions'[s].by = sessions[s].by
  <2>1. E!Remove(s)
    BY <1>1, <1>3, <1>4, <1>7, <1>11 DEF E!Remove
  <2> QED BY <2>1 DEF E!Next
<1>12. CASE /\ PhaseOf(s) = "bound" /\ PhaseOf(s)' = PhaseOf(s)
            /\ HashOf(s) = NULL /\ HashOf(s)' \in Secret /\ sessions'[s].by = sessions[s].by
  <2>1. PICK x \in Secret : x = HashOf(s)'
    BY <1>12
  <2>2. E!Issue(s, x)
    BY <1>3, <1>4, <1>6, <1>7, <1>12, <2>1 DEF E!Issue
  <2> QED BY <2>2 DEF E!Next
<1> QED BY <1>8, <1>9, <1>10, <1>11, <1>12

\* PhaseOf and HashOf of a row that is there.
LEMMA PhaseOfRow ==
  ASSUME Typed, NEW s \in Session, SessionRow(s)
  PROVE  /\ sessions[s].status = "pending" => PhaseOf(s) = "open" /\ HashOf(s) = NULL
         /\ sessions[s].status = "expired" => PhaseOf(s) = "closed" /\ HashOf(s) = NULL
         /\ sessions[s].status = "confirmed" /\ AgentRow(sessions[s].requested)
              => PhaseOf(s) = "bound" /\ HashOf(s) = agents[sessions[s].requested].hash
         /\ sessions[s].status = "confirmed" /\ ~AgentRow(sessions[s].requested)
              => PhaseOf(s) = "removed" /\ HashOf(s) = NULL
<1>1. sessions[s].status = "pending" => PhaseOf(s) = "open"
  BY DEF PhaseOf
<1>2. sessions[s].status = "expired" => PhaseOf(s) = "closed"
  BY DEF PhaseOf
<1>3. sessions[s].status = "confirmed" /\ AgentRow(sessions[s].requested) => PhaseOf(s) = "bound"
  BY DEF PhaseOf
<1>4. sessions[s].status = "confirmed" /\ ~AgentRow(sessions[s].requested)
        => PhaseOf(s) = "removed"
  BY DEF PhaseOf
<1> QED BY <1>1, <1>2, <1>3, <1>4 DEF HashOf

LEMMA CreateEnrolls ==
  ASSUME Typed, RowsOK, NEW s \in Session, NEW a \in Agent, StartCreate(s, a)
  PROVE  E!Next
<1>1. ~SessionRow(s) /\ start[s].code \in Code
  BY DEF StartCreate, Typed, SlotsOK
<1>2. PhaseOf(s) = "none" /\ HashOf(s) = NULL /\ sessions[s].by = NULL
  BY <1>1 DEF PhaseOf, HashOf, Typed, TypeOK, NoSession
<1>3. SessionRow(s)' /\ sessions'[s].status = "pending" /\ sessions'[s].by = NULL
  BY <1>1, PairingAssumption DEF StartCreate, Typed, TypeOK, NoSession, SessionRow
<1>4. PhaseOf(s)' = "open" /\ HashOf(s)' = NULL
  BY <1>3 DEF PhaseOf, HashOf
<1>5. \A t \in Session \ {s} : Quiet(t)
  BY SameRowsQuiet DEF StartCreate, Typed, TypeOK
<1> QED BY <1>2, <1>3, <1>4, <1>5, EnrollmentStep

LEMMA ExpireEnrolls ==
  ASSUME Typed, RowsOK, NEW s \in Session, SessionRow(s), StillPending(s),
         sessions' = [sessions EXCEPT ![s] = [@ EXCEPT !.status = "expired"]],
         agents' = agents
  PROVE  E!Next
<1>1. PhaseOf(s) = "open" /\ HashOf(s) = NULL
  BY PhaseOfRow DEF StillPending
<1>2. /\ sessions'[s].code = sessions[s].code /\ sessions'[s].by = sessions[s].by
      /\ sessions'[s].status = "expired"
  BY DEF Typed, TypeOK, SessionCols
<1>3. PhaseOf(s)' = "closed" /\ HashOf(s)' = NULL
  BY <1>2 DEF PhaseOf, HashOf, SessionRow
<1>4. \A t \in Session \ {s} : Quiet(t)
  BY SameRowsQuiet DEF Typed, TypeOK
<1> QED BY <1>1, <1>2, <1>3, <1>4, EnrollmentStep

LEMMA BindEnrolls ==
  ASSUME Typed, RowsOK, NEW c \in Confirmer, NEW s \in Session, ConfirmBind(c, s)
  PROVE  E!Next
<1> DEFINE id == sessions[s].requested
<1>1. SessionRow(s) /\ id \in Agent /\ confirm[c].user \in User /\ confirm[c].user # NULL
  BY PairingAssumption DEF ConfirmBind, Typed, SlotsOK, SessionRow
<1>2. PhaseOf(s) = "open" /\ HashOf(s) = NULL
  BY <1>1, PhaseOfRow DEF ConfirmBind, StillPending
<1>3. /\ sessions'[s].code = sessions[s].code /\ sessions'[s].requested = id
      /\ sessions'[s].status = "confirmed" /\ sessions'[s].by = confirm[c].user
      /\ \A t \in Session \ {s} : sessions'[t] = sessions[t]
  BY DEF ConfirmBind, Typed, TypeOK, SessionCols
<1>4. /\ agents'[id].owner = confirm[c].user /\ agents'[id].hash = NULL
      /\ \A a \in Agent \ {id} : agents'[a] = agents[a]
  BY <1>1 DEF ConfirmBind, Typed, TypeOK, NoAgent
<1>5. SessionRow(s)' /\ AgentRow(sessions[s].requested)'
  BY <1>1, <1>3, <1>4 DEF SessionRow, AgentRow
<1>6. PhaseOf(s)' = "bound"
  BY <1>3, <1>4, <1>5 DEF PhaseOf, AgentRow
<1>7. HashOf(s)' = NULL
  BY <1>3, <1>4, <1>6 DEF HashOf
<1>8. ASSUME NEW t \in Session \ {s}
      PROVE  Quiet(t)
  <2>1. SessionRow(t) => sessions[t].requested # id /\ sessions[t].requested \in Agent
    BY <1>1 DEF RowsOK, IDNamesOneSession, Typed, SlotsOK
  <2> HIDE DEF id
  <2> QED BY <1>3, <1>4, <2>1, SameRowsQuiet
<1> QED BY <1>1, <1>2, <1>3, <1>6, <1>7, <1>8, EnrollmentStep

LEMMA DeleteEnrolls ==
  ASSUME Typed, RowsOK, NEW u \in User, NEW a \in Agent, DeletePCAgent(u, a)
  PROVE  E!Next
<1>1. AgentRow(a)
  BY PairingAssumption DEF DeletePCAgent, OwnedBy, AgentRow
<1>2. PICK s \in Session : sessions[s].agent = a
  BY <1>1 DEF RowsOK, AgentMatchesSession
<1>3. SessionRow(s) /\ sessions[s].requested = a /\ sessions[s].status = "confirmed"
  <2>1. SessionRow(s)
    BY <1>2, PairingAssumption DEF Typed, TypeOK, NoSession
  <2> QED BY <1>2, <2>1, PairingAssumption DEF RowsOK, AgentMatchesSession, InStep
<1>4. PhaseOf(s) = "bound"
  BY <1>1, <1>3, PhaseOfRow
<1>5. \A t \in Session : /\ sessions'[t].code = sessions[t].code
                         /\ sessions'[t].requested = sessions[t].requested
                         /\ sessions'[t].status = sessions[t].status
                         /\ sessions'[t].by = sessions[t].by
  BY DEF DeletePCAgent, Typed, TypeOK, SessionCols
<1>6. agents'[a].owner = NULL /\ \A b \in Agent \ {a} : agents'[b] = agents[b]
  BY DEF DeletePCAgent, Typed, TypeOK, NoAgent
<1>7. PhaseOf(s)' = "removed"
  BY <1>3, <1>5, <1>6 DEF PhaseOf, SessionRow, AgentRow
<1>8. HashOf(s)' = NULL
  BY <1>7 DEF HashOf
<1>9. ASSUME NEW t \in Session \ {s}
      PROVE  Quiet(t)
  <2>1. SessionRow(t) => sessions[t].requested # a /\ sessions[t].requested \in Agent
    BY <1>3 DEF RowsOK, IDNamesOneSession, Typed, SlotsOK
  <2>2. SessionRow(t)' <=> SessionRow(t)
    BY <1>5 DEF SessionRow
  <2>3. SessionRow(t) => agents'[sessions[t].requested] = agents[sessions[t].requested]
    BY <1>6, <2>1
  <2>4. PhaseOf(t)' = PhaseOf(t)
    <3>1. CASE SessionRow(t)
      BY <3>1, <1>5, <2>2, <2>3 DEF PhaseOf, AgentRow
    <3>2. CASE ~SessionRow(t)
      BY <3>2, <2>2 DEF PhaseOf
    <3> QED BY <3>1, <3>2
  <2>5. HashOf(t)' = HashOf(t)
    BY <1>5, <2>2, <2>3, <2>4 DEF HashOf, PhaseOf
  <2> QED BY <1>5, <2>4, <2>5 DEF Quiet
<1> QED BY <1>4, <1>5, <1>7, <1>8, <1>9, EnrollmentStep

\* Updates of other columns than the secret's are invisible.
LEMMA SameAgentsQuiet ==
  ASSUME Typed, sessions' = sessions,
         \A a \in Agent : /\ agents'[a].owner = agents[a].owner
                          /\ agents'[a].hash = agents[a].hash
  PROVE  UNCHANGED E!evars
<1>1. ASSUME NEW s \in Session
      PROVE  Quiet(s)
  <2>1. SessionRow(s) => sessions[s].requested \in Agent
    BY DEF Typed, SlotsOK
  <2>2. SessionRow(s) => (AgentRow(sessions[s].requested)' <=> AgentRow(sessions[s].requested))
    BY <2>1 DEF AgentRow
  <2>3. PhaseOf(s)' = PhaseOf(s)
    <3>1. CASE SessionRow(s)
      BY <3>1, <2>1, <2>2 DEF PhaseOf, SessionRow, AgentRow
    <3>2. CASE ~SessionRow(s)
      BY <3>2 DEF PhaseOf, SessionRow
    <3> QED BY <3>1, <3>2
  <2>4. HashOf(s)' = HashOf(s)
    <3>1. PhaseOf(s) = "bound" => SessionRow(s)
      BY DEF PhaseOf
    <3> QED BY <2>1, <2>3, <3>1 DEF HashOf
  <2> QED BY <2>3, <2>4 DEF Quiet
<1> QED BY <1>1, AllQuiet

LEMMA IssueEnrolls ==
  ASSUME Typed, RowsOK, NEW p \in Poller, PollIssue(p)
  PROVE  E!Next
<1> DEFINE a == poll[p].agent
<1>1. a \in Agent /\ AgentRow(a) /\ agents[a].hash = NULL /\ poll[p].secret \in Secret
  BY DEF PollIssue, HashEmpty, Typed, SlotsOK
<1>2. PICK s \in Session : sessions[s].agent = a
  BY <1>1 DEF RowsOK, AgentMatchesSession
<1>3. SessionRow(s) /\ sessions[s].requested = a /\ sessions[s].status = "confirmed"
  <2>1. a # NULL
    BY <1>1, PairingAssumption
  <2>2. SessionRow(s)
    BY <1>2, <2>1 DEF Typed, TypeOK, NoSession
  <2> QED BY <1>2, <2>1, <2>2 DEF RowsOK, AgentMatchesSession, InStep
<1>4. PhaseOf(s) = "bound" /\ HashOf(s) = NULL
  BY <1>1, <1>3, PhaseOfRow
<1>5. sessions' = sessions
  BY DEF PollIssue
<1>6. /\ agents'[a].owner = agents[a].owner /\ agents'[a].hash = poll[p].secret
      /\ \A b \in Agent \ {a} : agents'[b] = agents[b]
  <2>1. agents \in [Agent -> AgentCols]
    BY DEF Typed, TypeOK
  <2> QED BY <1>1, <2>1 DEF PollIssue, AgentCols
<1>7. PhaseOf(s)' = "bound"
  BY <1>1, <1>3, <1>5, <1>6 DEF PhaseOf, SessionRow, AgentRow
<1>8. HashOf(s)' = poll[p].secret
  BY <1>3, <1>5, <1>6, <1>7 DEF HashOf
<1>9. ASSUME NEW t \in Session \ {s}
      PROVE  Quiet(t)
  <2>1. SessionRow(t) => sessions[t].requested # a /\ sessions[t].requested \in Agent
    BY <1>3 DEF RowsOK, IDNamesOneSession, Typed, SlotsOK
  <2> HIDE DEF a
  <2> QED BY <1>5, <1>6, <2>1, SameRowsQuiet
<1> QED BY <1>1, <1>4, <1>5, <1>7, <1>8, <1>9, EnrollmentStep

LEMMA NextEnrollment ==
  ASSUME Typed, RowsOK, [Next]_vars
  PROVE  [E!Next]_(E!evars)
<1>1. agents \in [Agent -> AgentCols]
  BY DEF Typed, TypeOK
<1>2. CASE UNCHANGED <<sessions, agents>>
  BY <1>2, SameAgentsQuiet
<1>3. ASSUME NEW c \in Confirmer, NEW s \in Session, ConfirmOverdue(c, s)
      PROVE  E!Next
  <2>1. SessionRow(s)
    BY <1>3, PairingAssumption DEF ConfirmOverdue, Typed, SlotsOK, SessionRow
  <2> QED BY <1>3, <2>1, ExpireEnrolls DEF ConfirmOverdue
<1>4. ASSUME NEW p \in Poller, PollExpire(p)
      PROVE  E!Next
  <2>1. poll[p].sess \in Session /\ SessionRow(poll[p].sess)
    BY <1>4 DEF PollExpire, Typed, SlotsOK
  <2> QED BY <1>4, <2>1, ExpireEnrolls DEF PollExpire
<1>5. ASSUME NEW v \in Caller, CallProtect(v) \/ CallMark(v)
      PROVE  UNCHANGED E!evars
  <2>1. /\ sessions' = sessions
        /\ \A a \in Agent : agents'[a].owner = agents[a].owner /\ agents'[a].hash = agents[a].hash
    BY <1>1, <1>5 DEF CallProtect, CallMark, AgentCols
  <2> QED BY <2>1, SameAgentsQuiet
<1>6. ASSUME NEW u \in User, NEW b \in Agent, NEW to \in Protection,
             UpdatePCAgentProtection(u, b, to)
      PROVE  UNCHANGED E!evars
  <2>1. /\ sessions' = sessions
        /\ \A a \in Agent : agents'[a].owner = agents[a].owner /\ agents'[a].hash = agents[a].hash
    BY <1>1, <1>6 DEF UpdatePCAgentProtection, AgentCols
  <2> QED BY <2>1, SameAgentsQuiet
<1> QED BY <1>2, <1>3, <1>4, <1>5, <1>6, CreateEnrolls, BindEnrolls, DeleteEnrolls,
           IssueEnrolls, RowSteps DEF RowStep

\* Pairing, with its stale reads, its races and its aborted requests, is an
\* implementation of Enrollment for any number of sessions and requests.
THEOREM PairingImplementsEnrollment == Spec => ImplementsEnrollment
<1>1. Init => E!Init
  BY InitEnrollment
<1>2. Typed /\ RowsOK /\ [Next]_vars => [E!Next]_(E!evars)
  BY NextEnrollment
<1> QED BY <1>1, <1>2, RowsCorrect, PTL DEF Spec, ImplementsEnrollment, E!Spec

=============================================================================
