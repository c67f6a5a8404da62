---------------------- MODULE PairingCredential_proofs ----------------------
(***************************************************************************)
(* The secret of an agent: which polls may hold it, which PC was given it  *)
(* and who calls with it, for any number of polls and calls.               *)
(***************************************************************************)
EXTENDS Pairing_proofs

\* A session that asked for the agent id was confirmed; it stays so after the
\* agent is deleted, and is why the id is never bound again.
ConfirmedFor(a) ==
  \E s \in Session : /\ SessionRow(s) /\ sessions[s].status = "confirmed"
                     /\ sessions[s].requested = a

LEMMA AgentConfirmed ==
  ASSUME Typed, RowsOK, NEW s \in Session, sessions[s].agent # NULL
  PROVE  ConfirmedFor(sessions[s].agent)
<1>1. SessionRow(s)
  BY DEF Typed, TypeOK, NoSession
<1> QED BY <1>1 DEF ConfirmedFor, RowsOK, AgentMatchesSession, InStep

LEMMA RowConfirmed ==
  ASSUME Typed, RowsOK, NEW a \in Agent, AgentRow(a)
  PROVE  ConfirmedFor(a)
<1>1. PICK s \in Session : sessions[s].agent = a
  BY DEF RowsOK, AgentMatchesSession
<1>2. a # NULL
  BY PairingAssumption
<1> QED BY <1>1, <1>2, AgentConfirmed

\* A status other than pending is final, and the row and its agent id stay.
LEMMA StatusFinal ==
  ASSUME Typed, [Next]_vars, NEW s \in Session, SessionRow(s), sessions[s].status # "pending"
  PROVE  /\ SessionRow(s)' /\ sessions'[s].status = sessions[s].status
         /\ sessions'[s].requested = sessions[s].requested
<1>1. sessions \in [Session -> SessionCols]
  BY DEF Typed, TypeOK
<1>2. CASE UNCHANGED <<sessions, agents>>
  BY <1>2 DEF SessionRow
<1>3. ASSUME NEW t \in Session, NEW a \in Agent, StartCreate(t, a)
      PROVE  sessions'[s] = sessions[s]
  BY <1>1, <1>3 DEF StartCreate, Typed, SlotsOK
<1>4. ASSUME NEW c \in Confirmer, NEW t \in Session, ConfirmOverdue(c, t) \/ ConfirmBind(c, t)
      PROVE  sessions'[s] = sessions[s]
  BY <1>1, <1>4 DEF ConfirmOverdue, ConfirmBind, StillPending
<1>5. ASSUME NEW p \in Poller, PollExpire(p)
      PROVE  sessions'[s] = sessions[s]
  BY <1>1, <1>5 DEF PollExpire, StillPending
<1>6. CASE Update
  BY <1>6, UpdateKeepsOwners DEF SessionRow
<1>7. ASSUME NEW u \in User, NEW a \in Agent, DeletePCAgent(u, a)
      PROVE  /\ sessions'[s].code = sessions[s].code
             /\ sessions'[s].status = sessions[s].status
             /\ sessions'[s].requested = sessions[s].requested
  BY <1>1, <1>7 DEF DeletePCAgent, SessionCols
<1> QED BY <1>2, <1>3, <1>4, <1>5, <1>6, <1>7, RowSteps DEF RowStep, Update, SessionRow

LEMMA ConfirmedStays ==
  ASSUME Typed, [Next]_vars, NEW a, ConfirmedFor(a)
  PROVE  ConfirmedFor(a)'
  BY StatusFinal DEF ConfirmedFor

\* Once its session is confirmed, an agent's hash changes only when a poll
\* issues it, and an agent that is gone does not come back.
LEMMA HashSetOnce ==
  ASSUME Typed, RowsOK, [Next]_vars, NEW a \in Agent, ConfirmedFor(a), AgentRow(a)'
  PROVE  /\ AgentRow(a)
         /\ \/ agents'[a].hash = agents[a].hash
            \/ \E p \in Poller : /\ PollIssue(p) /\ poll[p].agent = a
                                 /\ agents[a].hash = NULL /\ agents'[a].hash = poll[p].secret
<1> DEFINE Goal == /\ AgentRow(a)
                   /\ \/ agents'[a].hash = agents[a].hash
                      \/ \E p \in Poller : /\ PollIssue(p) /\ poll[p].agent = a
                                           /\ agents[a].hash = NULL
                                           /\ agents'[a].hash = poll[p].secret
<1>1. agents \in [Agent -> AgentCols]
  BY DEF Typed, TypeOK
<1>2. ASSUME agents'[a] = agents[a]
      PROVE  Goal
  BY <1>2 DEF AgentRow
<1>3. CASE UNCHANGED <<sessions, agents>>
  BY <1>2, <1>3
<1>4. ASSUME NEW s \in Session, NEW b \in Agent, StartCreate(s, b)
      PROVE  Goal
  BY <1>2, <1>4 DEF StartCreate
<1>5. ASSUME NEW c \in Confirmer, NEW s \in Session, ConfirmOverdue(c, s)
      PROVE  Goal
  BY <1>2, <1>5 DEF ConfirmOverdue
<1>6. ASSUME NEW c \in Confirmer, NEW s \in Session, ConfirmBind(c, s)
      PROVE  Goal
  <2>1. PICK t \in Session : /\ SessionRow(t) /\ sessions[t].status = "confirmed"
                             /\ sessions[t].requested = a
    BY DEF ConfirmedFor
  <2>2. SessionRow(s) /\ s # t
    BY <1>6, <2>1, PairingAssumption DEF ConfirmBind, StillPending, Typed, SlotsOK, SessionRow
  <2>3. sessions[s].requested # a
    BY <2>1, <2>2 DEF RowsOK, IDNamesOneSession
  <2> QED BY <1>1, <1>2, <1>6, <2>3 DEF ConfirmBind
<1>7. ASSUME NEW p \in Poller, PollExpire(p)
      PROVE  Goal
  BY <1>2, <1>7 DEF PollExpire
<1>8. ASSUME NEW p \in Poller, PollIssue(p)
      PROVE  Goal
  <2>1. CASE poll[p].agent = a
    <3>1. AgentRow(a) /\ agents[a].hash = NULL
      BY <1>8, <2>1 DEF PollIssue, HashEmpty
    <3>2. agents'[a].hash = poll[p].secret
      BY <1>1, <1>8, <2>1 DEF PollIssue, AgentCols
    <3> QED BY <1>8, <2>1, <3>1, <3>2
  <2>2. CASE poll[p].agent # a
    BY <1>1, <1>2, <1>8, <2>2 DEF PollIssue
  <2> QED BY <2>1, <2>2
<1>9. ASSUME NEW v \in Caller, CallProtect(v) \/ CallMark(v)
      PROVE  Goal
  <2>1. agents'[a].owner = agents[a].owner /\ agents'[a].hash = agents[a].hash
    BY <1>1, <1>9 DEF CallProtect, CallMark, AgentCols
  <2> QED BY <2>1 DEF AgentRow
<1>10. ASSUME NEW u \in User, NEW b \in Agent, NEW to \in Protection,
              UpdatePCAgentProtection(u, b, to)
       PROVE  Goal
  <2>1. agents'[a].owner = agents[a].owner /\ agents'[a].hash = agents[a].hash
    BY <1>1, <1>10 DEF UpdatePCAgentProtection, AgentCols
  <2> QED BY <2>1 DEF AgentRow
<1>11. ASSUME NEW u \in User, NEW b \in Agent, DeletePCAgent(u, b)
       PROVE  Goal
  <2>1. CASE a = b
    BY <1>1, <1>11, <2>1 DEF DeletePCAgent, NoAgent, AgentRow
  <2>2. CASE a # b
    BY <1>1, <1>2, <1>11, <2>2 DEF DeletePCAgent
  <2> QED BY <2>1, <2>2
<1> QED BY <1>3, <1>4, <1>5, <1>6, <1>7, <1>8, <1>9, <1>10, <1>11, RowSteps DEF RowStep

-----------------------------------------------------------------------------
\* The steps of one poll; every other step leaves polls and deliveries alone.
PollStep(p) == (\E s \in Session : PollFind(p, s)) \/ PollTurn(p) \/ PollAbort(p)

LEMMA PollSteps ==
  ASSUME [Next]_vars
  PROVE  (\E p \in Poller : PollStep(p)) \/ UNCHANGED <<poll, held>>
<1>1. CASE Tick
  BY <1>1 DEF Tick, requests
<1>2. ASSUME NEW s \in Session, StartTurn(s) \/ StartAbort(s)
      PROVE  UNCHANGED <<poll, held>>
  BY <1>2 DEF StartTurn, StartTaken, StartFree, StartCreate, StartCollide, StartAbort
<1>3. ASSUME NEW d \in Confirmer,
             \/ \E code \in Code, u \in User : ConfirmBegin(d, code, u)
             \/ ConfirmTx(d) \/ ConfirmAbort(d)
      PROVE  UNCHANGED <<poll, held>>
  BY <1>3 DEF ConfirmBegin, ConfirmTx, ConfirmRefuse, ConfirmOverdue, ConfirmBind, ConfirmAbort
<1>4. ASSUME NEW v \in Caller,
             \/ \E a \in Agent, x \in Secret, op \in Op : CallFind(v, a, x, op)
             \/ CallTurn(v) \/ CallAbort(v)
      PROVE  UNCHANGED <<poll, held>>
  BY <1>4 DEF CallFind, CallTurn, CallProtect, CallMark, CallAgentGone, CallAbort
<1>5. ASSUME NEW u \in User, NEW a \in Agent,
             \/ \E to \in Protection : UpdatePCAgentProtection(u, a, to)
             \/ DeletePCAgent(u, a)
      PROVE  UNCHANGED <<poll, held>>
  BY <1>5 DEF UpdatePCAgentProtection, DeletePCAgent, requests
<1>6. CASE UNCHANGED vars
  BY <1>6 DEF vars, requests
<1> QED BY <1>1, <1>2, <1>3, <1>4, <1>5, <1>6 DEF Next, PollStep

LEMMA OtherPolls ==
  ASSUME Typed, NEW p \in Poller, PollStep(p), NEW q \in Poller, q # p
  PROVE  poll'[q] = poll[q]
<1>1. poll \in [Poller -> PollSlot]
  BY DEF Typed, TypeOK
<1>2. ASSUME NEW s \in Session, PollFind(p, s)
      PROVE  poll'[q] = poll[q]
  BY <1>1, <1>2 DEF PollFind
<1>3. ASSUME \/ PollCheck(p) \/ PollExpire(p) \/ PollMissedExpire(p) \/ PollRefind(p)
             \/ PollIssued(p) \/ \E x \in Secret : PollDraw(p, x)
      PROVE  poll'[q] = poll[q]
  BY <1>1, <1>3 DEF PollCheck, PollExpire, PollMissedExpire, PollRefind, PollIssued, PollDraw
<1>4. ASSUME PollIssue(p) \/ PollMissedIssue(p) \/ PollReread(p)
      PROVE  poll'[q] = poll[q]
  BY <1>1, <1>4 DEF PollIssue, PollMissedIssue, PollReread
<1>5. ASSUME PollAgentGone(p) \/ PollRespond(p) \/ PollAbort(p)
      PROVE  poll'[q] = poll[q]
  BY <1>1, <1>5 DEF PollAgentGone, PollRespond, PollAbort, PollDone
<1> QED BY <1>2, <1>3, <1>4, <1>5 DEF PollStep, PollTurn

-----------------------------------------------------------------------------
\* The secrets of agent a that are out: with its PC, or in an answer under way.
Carries(p, a, x) == poll[p].pc = "respond" /\ poll[p].agent = a /\ poll[p].secret = x
Out(a) == {x \in Secret : x \in held[a] \/ \E p \in Poller : Carries(p, a, x)}

OneSecretOut ==
  \A a \in Agent :
    /\ \A x, y \in Out(a) : x = y
    /\ Out(a) # {} => ConfirmedFor(a)
    /\ AgentRow(a) => Out(a) \subseteq {agents[a].hash}

\* A poll lets a secret out only by storing its hash.
LEMMA OutByIssue ==
  ASSUME Typed, [Next]_vars, NEW a \in Agent, NEW x \in Out(a)', x \notin Out(a)
  PROVE  \E p \in Poller : PollIssue(p) /\ poll[p].agent = a /\ poll[p].secret = x
<1>1. /\ poll \in [Poller -> PollSlot] /\ held \in [Agent -> SUBSET Secret]
      /\ \A p \in Poller : poll[p].secret # NULL => poll[p].pc \in {"issue", "respond"}
  BY DEF Typed, TypeOK, SlotsOK
<1>2. x \in Secret /\ x # NULL
  BY PairingAssumption DEF Out
<1>3. PICK p \in Poller : PollStep(p)
  BY PollSteps DEF Out, Carries
<1>4. x \in held'[a] \/ \E q \in Poller : Carries(q, a, x)'
  BY DEF Out
<1>5. x \notin held[a] /\ \A q \in Poller : ~Carries(q, a, x)
  BY <1>2 DEF Out
<1>6. CASE PollRespond(p)
  <2>1. poll'[p].secret = NULL
    BY <1>1, <1>6 DEF PollRespond, PollDone, NoPoll
  <2>2. x \in held'[a]
    BY <1>2, <1>3, <1>4, <1>5, <2>1, OtherPolls DEF Carries
  <2> QED BY <1>1, <1>5, <1>6, <2>2 DEF PollRespond, Carries
<1>7. CASE ~PollRespond(p)
  <2>1. held' = held
    BY <1>3, <1>7 DEF PollStep, PollTurn, PollFind, PollCheck, PollExpire, PollMissedExpire,
       PollRefind, PollIssued, PollDraw, PollIssue, PollMissedIssue, PollReread,
       PollAgentGone, PollAbort
  <2>2. PICK q \in Poller : Carries(q, a, x)'
    BY <1>4, <1>5, <2>1
  <2>3. q = p
    BY <1>3, <1>5, <2>2, OtherPolls DEF Carries
  <2>4. Carries(p, a, x)' /\ ~Carries(p, a, x)
    BY <1>5, <2>2, <2>3
  <2>5. ASSUME NEW s \in Session, PollFind(p, s)
        PROVE  FALSE
    BY <1>1, <1>2, <2>4, <2>5 DEF PollFind, Carries, NoPoll
  <2>6. ASSUME PollCheck(p) \/ PollExpire(p) \/ PollMissedExpire(p) \/ PollRefind(p)
        PROVE  FALSE
    <3>1. poll[p].secret = NULL
      BY <1>1, <2>6 DEF PollCheck, PollExpire, PollMissedExpire, PollRefind
    <3>2. poll'[p].secret = poll[p].secret
      BY <1>1, <2>6 DEF PollCheck, PollExpire, PollMissedExpire, PollRefind, PollSlot
    <3> QED BY <1>2, <2>4, <3>1, <3>2 DEF Carries
  <2>7. ASSUME NEW y \in Secret, PollDraw(p, y)
        PROVE  FALSE
    BY <1>1, <2>4, <2>7 DEF PollDraw, Carries
  <2>8. ASSUME PollIssued(p) \/ PollMissedIssue(p) \/ PollReread(p)
        PROVE  FALSE
    <3>1. poll'[p].secret = NULL
      BY <1>1, <2>8 DEF PollIssued, PollMissedIssue, PollReread, PollSlot
    <3> QED BY <1>2, <2>4, <3>1 DEF Carries
  <2>9. ~PollAgentGone(p) /\ ~PollAbort(p)
    BY <1>1, <1>2, <2>4 DEF PollAgentGone, PollAbort, PollDone, NoPoll, Carries
  <2>10. PollIssue(p)
    BY <1>3, <1>7, <2>5, <2>6, <2>7, <2>8, <2>9 DEF PollStep, PollTurn
  <2>11. poll[p].agent = a /\ poll[p].secret = x
    BY <1>1, <2>4, <2>10 DEF PollIssue, Carries, PollSlot
  <2> QED BY <2>10, <2>11
<1> QED BY <1>6, <1>7

LEMMA NextOneSecretOut ==
  ASSUME Typed, RowsOK, OneSecretOut, [Next]_vars
  PROVE  OneSecretOut'
<1> SUFFICES ASSUME NEW a \in Agent
             PROVE  /\ \A x, y \in Out(a)' : x = y
                    /\ Out(a)' # {} => ConfirmedFor(a)'
                    /\ AgentRow(a)' => Out(a)' \subseteq {agents'[a].hash}
  BY DEF OneSecretOut
<1>1. /\ \A x, y \in Out(a) : x = y
      /\ Out(a) # {} => ConfirmedFor(a)
      /\ AgentRow(a) => Out(a) \subseteq {agents[a].hash}
      /\ \A x \in Out(a) : x # NULL
  BY PairingAssumption DEF OneSecretOut, Out
<1>2. CASE Out(a)' \subseteq Out(a)
  <2>1. ASSUME NEW x \in Out(a)', AgentRow(a)'
        PROVE  x = agents'[a].hash
    <3>1. x \in Out(a) /\ ConfirmedFor(a)
      BY <1>1, <1>2, <2>1
    <3>2. AgentRow(a) /\ (agents'[a].hash = agents[a].hash \/ agents[a].hash = NULL)
      BY <2>1, <3>1, HashSetOnce
    <3> QED BY <1>1, <3>1, <3>2
  <2>2. Out(a)' # {} => ConfirmedFor(a)'
    BY <1>1, <1>2, ConfirmedStays
  <2> QED BY <1>1, <1>2, <2>1, <2>2
<1>3. CASE ~(Out(a)' \subseteq Out(a))
  <2>1. PICK p \in Poller : PollIssue(p) /\ poll[p].agent = a
    BY <1>3, OutByIssue
  <2>2. AgentRow(a) /\ agents[a].hash = NULL
    BY <2>1 DEF PollIssue, HashEmpty
  <2>3. Out(a) = {}
    BY <1>1, <2>2
  <2>4. agents \in [Agent -> AgentCols]
    BY DEF Typed, TypeOK
  <2>5. ASSUME NEW x \in Out(a)'
        PROVE  x = agents'[a].hash
    <3>1. PICK q \in Poller : PollIssue(q) /\ poll[q].agent = a /\ poll[q].secret = x
      BY <2>3, OutByIssue
    <3> QED BY <2>4, <3>1 DEF PollIssue, AgentCols
  <2>6. ConfirmedFor(a)'
    BY <2>2, RowConfirmed, ConfirmedStays
  <2> QED BY <2>5, <2>6
<1> QED BY <1>2, <1>3

-----------------------------------------------------------------------------
\* What a poll knows of rows it read earlier: a final status, an agent that
\* was bound, and of an agent it calls issued that its hash is set.
PollKnows(p) ==
  LET agent == poll[p].agent IN
  poll[p].pc # "idle" =>
    /\ poll[p].status # "pending" => sessions[poll[p].sess].status = poll[p].status
    /\ agent # NULL => ConfirmedFor(agent)
    /\ poll[p].issued => poll[p].pc = "respond" /\ poll[p].secret = NULL
    /\ poll[p].pc = "reread" \/ poll[p].issued =>
         agent \in Agent /\ (AgentRow(agent) => agents[agent].hash # NULL)

\* A poll that takes no step still knows what it knew.
LEMMA PollKeeps ==
  ASSUME Typed, RowsOK, [Next]_vars, NEW p \in Poller, PollKnows(p), poll'[p] = poll[p]
  PROVE  PollKnows(p)'
<1> SUFFICES ASSUME poll[p].pc # "idle"
             PROVE  PollKnows(p)'
  BY DEF PollKnows
<1>1. poll[p].sess \in Session /\ SessionRow(poll[p].sess)
  BY DEF Typed, SlotsOK
<1>2. poll[p].status # "pending" => sessions'[poll[p].sess].status = poll[p].status
  BY <1>1, StatusFinal DEF PollKnows
<1>3. poll[p].agent # NULL => ConfirmedFor(poll[p].agent) /\ ConfirmedFor(poll[p].agent)'
  BY ConfirmedStays DEF PollKnows
<1>4. ASSUME poll[p].pc = "reread" \/ poll[p].issued
      PROVE  /\ poll[p].agent \in Agent
             /\ AgentRow(poll[p].agent)' => agents'[poll[p].agent].hash # NULL
  <2>1. poll[p].agent \in Agent /\ poll[p].agent # NULL
    BY <1>4, PairingAssumption DEF PollKnows
  <2>2. AgentRow(poll[p].agent) => agents[poll[p].agent].hash # NULL
    BY <1>4 DEF PollKnows
  <2> QED BY <1>3, <2>1, <2>2, HashSetOnce
<1> QED BY <1>2, <1>3, <1>4 DEF PollKnows

\* A poll that takes a step learns only what holds.
LEMMA PollLearns ==
  ASSUME Typed, RowsOK, [Next]_vars, NEW p \in Poller, PollKnows(p), PollStep(p)
  PROVE  PollKnows(p)'
<1>1. /\ poll \in [Poller -> PollSlot]
      /\ poll[p].pc \in {"lookup", "issue", "reread"} => poll[p].agent \in Agent
      /\ poll[p].pc # "idle" => poll[p].sess \in Session /\ SessionRow(poll[p].sess)
      /\ poll[p].secret # NULL => poll[p].pc \in {"issue", "respond"}
  BY DEF Typed, TypeOK, SlotsOK
<1>2. \A a : ConfirmedFor(a) => ConfirmedFor(a)'
  BY ConfirmedStays
<1>3. ASSUME NEW s \in Session, PollFind(p, s)
      PROVE  PollKnows(p)'
  <2>1. /\ poll'[p].pc = "check" /\ poll'[p].sess = s /\ ~poll'[p].issued
        /\ poll'[p].status = sessions[s].status /\ poll'[p].agent = sessions[s].agent
        /\ sessions' = sessions
    BY <1>1, <1>3 DEF PollFind, NoPoll
  <2>2. \A a : a = sessions[s].agent /\ a # NULL => ConfirmedFor(a)'
    BY <1>2, AgentConfirmed
  <2> QED BY <2>1, <2>2 DEF PollKnows
<1>4. ASSUME PollCheck(p) \/ PollMissedExpire(p)
      PROVE  PollKnows(p)'
  <2>1. /\ poll'[p].pc \in {"expire", "lookup", "respond", "refind"} /\ sessions' = sessions
        /\ poll'[p].sess = poll[p].sess /\ poll'[p].status = poll[p].status
        /\ poll'[p].agent = poll[p].agent /\ poll'[p].issued = poll[p].issued
        /\ poll[p].pc \in {"check", "expire"}
    BY <1>1, <1>4 DEF PollCheck, PollMissedExpire, AfterSession, PollSlot
  <2> QED BY <1>2, <2>1 DEF PollKnows
<1>5. ASSUME PollExpire(p)
      PROVE  PollKnows(p)'
  <2>1. /\ poll'[p].sess = poll[p].sess /\ poll'[p].status = "expired"
        /\ poll'[p].agent = poll[p].agent /\ poll'[p].issued = poll[p].issued
        /\ poll'[p].pc = "respond" /\ poll[p].pc = "expire"
    BY <1>1, <1>5 DEF PollExpire, PollSlot
  <2>2. sessions'[poll[p].sess].status = "expired"
    <3>1. sessions \in [Session -> SessionCols]
      BY DEF Typed, TypeOK
    <3> QED BY <1>1, <1>5, <3>1 DEF PollExpire, SessionCols
  <2> QED BY <1>2, <2>1, <2>2 DEF PollKnows
<1>6. ASSUME PollRefind(p)
      PROVE  PollKnows(p)'
  <2> DEFINE row == sessions[poll[p].sess]
             next == AfterSession(row.status, row.agent)
  <2>1. poll' = [poll EXCEPT ![p] = [poll[p] EXCEPT !.pc = next, !.status = row.status,
                                                    !.agent = row.agent]]
    BY <1>6 DEF PollRefind
  <2>2. next # "reread" /\ poll[p].pc = "refind" /\ sessions' = sessions
    BY <1>6 DEF PollRefind, AfterSession
  <2>3. /\ \A a : a = row.agent /\ a # NULL => ConfirmedFor(a)'
        /\ row.status = sessions[poll[p].sess].status
    BY <1>1, <1>2, <2>2, AgentConfirmed
  <2> HIDE DEF row, next
  <2>4. /\ poll'[p].sess = poll[p].sess /\ poll'[p].status = row.status
        /\ poll'[p].agent = row.agent /\ poll'[p].issued = poll[p].issued
        /\ poll'[p].pc # "reread"
    BY <1>1, <2>1, <2>2 DEF PollSlot
  <2> QED BY <2>2, <2>3, <2>4 DEF PollKnows
<1>7. ASSUME PollIssued(p) \/ PollReread(p)
      PROVE  PollKnows(p)'
  <2>1. /\ poll'[p].pc = "respond" /\ sessions' = sessions /\ agents' = agents
        /\ poll'[p].sess = poll[p].sess /\ poll'[p].status = poll[p].status
        /\ poll'[p].agent = poll[p].agent /\ poll'[p].secret = NULL
        /\ poll[p].pc \in {"lookup", "reread"}
    BY <1>1, <1>7 DEF PollIssued, PollReread, PollSlot
  <2>2. poll[p].agent \in Agent /\ agents[poll[p].agent].hash # NULL
    BY <1>1, <1>7 DEF PollIssued, PollReread, HashEmpty, PollKnows
  <2> QED BY <1>2, <2>1, <2>2 DEF PollKnows
<1>8. ASSUME PollMissedIssue(p)
      PROVE  PollKnows(p)'
  <2>1. /\ poll'[p].pc = "reread" /\ sessions' = sessions /\ agents' = agents
        /\ poll'[p].sess = poll[p].sess /\ poll'[p].status = poll[p].status
        /\ poll'[p].agent = poll[p].agent /\ poll'[p].issued = poll[p].issued
        /\ poll[p].pc = "issue"
    BY <1>1, <1>8 DEF PollMissedIssue, PollSlot
  <2>2. /\ poll[p].agent \in Agent
        /\ AgentRow(poll[p].agent) => agents[poll[p].agent].hash # NULL
    BY <1>1, <1>8 DEF PollMissedIssue, HashEmpty
  <2> QED BY <1>2, <2>1, <2>2 DEF PollKnows, AgentRow
<1>9. ASSUME NEW x \in Secret, PollDraw(p, x)
      PROVE  PollKnows(p)'
  <2>1. /\ poll'[p].pc = "issue" /\ sessions' = sessions
        /\ poll'[p].sess = poll[p].sess /\ poll'[p].status = poll[p].status
        /\ poll'[p].agent = poll[p].agent /\ poll'[p].issued = poll[p].issued
        /\ poll[p].pc = "lookup"
    BY <1>1, <1>9 DEF PollDraw, PollSlot
  <2> QED BY <1>2, <2>1 DEF PollKnows
<1>10. ASSUME PollIssue(p)
       PROVE  PollKnows(p)'
  <2>1. /\ poll'[p].pc = "respond" /\ sessions' = sessions
        /\ poll'[p].sess = poll[p].sess /\ poll'[p].status = poll[p].status
        /\ poll'[p].agent = poll[p].agent /\ poll'[p].issued = poll[p].issued
        /\ poll[p].pc = "issue"
    BY <1>1, <1>10 DEF PollIssue, PollSlot
  <2> QED BY <1>2, <2>1 DEF PollKnows
<1>11. ASSUME PollAgentGone(p) \/ PollRespond(p) \/ PollAbort(p)
       PROVE  PollKnows(p)'
  <2>1. poll'[p].pc = "idle"
    BY <1>1, <1>11 DEF PollAgentGone, PollRespond, PollAbort, PollDone, NoPoll
  <2> QED BY <2>1 DEF PollKnows
<1> QED BY <1>3, <1>4, <1>5, <1>6, <1>7, <1>8, <1>9, <1>10, <1>11 DEF PollStep, PollTurn

LEMMA NextPollKnows ==
  ASSUME Typed, RowsOK, [Next]_vars, \A p \in Poller : PollKnows(p), NEW p \in Poller
  PROVE  PollKnows(p)'
  BY PollKeeps, PollLearns, PollSteps, OtherPolls

-----------------------------------------------------------------------------
\* A call compared a credential with the hash of an agent that was there.
CallHolds(v) ==
  call[v].pc # "idle" =>
    /\ call[v].secret \in Secret
    /\ ConfirmedFor(call[v].agent)
    /\ AgentRow(call[v].agent) => agents[call[v].agent].hash = call[v].secret

OnlineHasHash == \A a \in Agent : agents[a].status = "online" => agents[a].hash # NULL

\* A call in flight is the call of the step before, or was let in by CallFind.
LEMMA CallSteps ==
  ASSUME Typed, [Next]_vars, NEW v \in Caller, call'[v].pc # "idle"
  PROVE  \/ /\ call[v].pc # "idle"
            /\ call'[v].agent = call[v].agent /\ call'[v].secret = call[v].secret
         \/ \E a \in Agent, x \in Secret, op \in Op : CallFind(v, a, x, op)
<1> DEFINE Same == /\ call[v].pc # "idle"
                   /\ call'[v].agent = call[v].agent /\ call'[v].secret = call[v].secret
           Found == \E a \in Agent, x \in Secret, op \in Op : CallFind(v, a, x, op)
<1>1. call \in [Caller -> CallSlot]
  BY DEF Typed, TypeOK
<1>2. CASE UNCHANGED call
  BY <1>2
<1>3. CASE Tick
  BY <1>2, <1>3 DEF Tick, requests
<1>4. ASSUME NEW s \in Session, StartTurn(s) \/ StartAbort(s)
      PROVE  UNCHANGED call
  BY <1>4 DEF StartTurn, StartTaken, StartFree, StartCreate, StartCollide, StartAbort
<1>5. ASSUME NEW d \in Confirmer,
             \/ \E code \in Code, u \in User : ConfirmBegin(d, code, u)
             \/ ConfirmTx(d) \/ ConfirmAbort(d)
      PROVE  UNCHANGED call
  BY <1>5 DEF ConfirmBegin, ConfirmTx, ConfirmRefuse, ConfirmOverdue, ConfirmBind, ConfirmAbort
<1>6. ASSUME NEW p \in Poller, PollStep(p)
      PROVE  UNCHANGED call
  BY <1>6 DEF PollStep, PollTurn, PollFind, PollCheck, PollExpire, PollMissedExpire,
     PollRefind, PollIssued, PollDraw, PollIssue, PollMissedIssue, PollReread,
     PollAgentGone, PollRespond, PollAbort
<1>7. ASSUME NEW u \in User, NEW a \in Agent,
             \/ \E to \in Protection : UpdatePCAgentProtection(u, a, to)
             \/ DeletePCAgent(u, a)
      PROVE  UNCHANGED call
  BY <1>7 DEF UpdatePCAgentProtection, DeletePCAgent, requests
<1>8. ASSUME NEW w \in Caller, NEW a \in Agent, NEW x \in Secret, NEW op \in Op,
             CallFind(w, a, x, op)
      PROVE  Same \/ Found
  <2>1. CASE w = v
    BY <1>8, <2>1
  <2>2. CASE w # v
    <3>1. call'[v] = call[v]
      BY <1>1, <1>8, <2>2 DEF CallFind
    <3> QED BY <3>1
  <2> QED BY <2>1, <2>2
<1>9. ASSUME NEW w \in Caller, CallProtect(w)
      PROVE  Same
  <2>1. /\ call'[v].agent = call[v].agent /\ call'[v].secret = call[v].secret
        /\ call'[v].pc = IF w = v THEN "mark" ELSE call[v].pc
    BY <1>1, <1>9 DEF CallProtect, CallSlot
  <2> QED BY <1>9, <2>1 DEF CallProtect
<1>10. ASSUME NEW w \in Caller, CallMark(w) \/ CallAgentGone(w) \/ CallAbort(w)
       PROVE  Same
  <2>1. call'[v] = IF w = v THEN NoCall ELSE call[v]
    BY <1>1, <1>10 DEF CallMark, CallAgentGone, CallAbort, CallDone
  <2>2. NoCall.pc = "idle"
    BY DEF NoCall
  <2> QED BY <2>1, <2>2
<1>11. CASE UNCHANGED vars
  BY <1>2, <1>11 DEF vars, requests
<1> QED BY <1>2, <1>3, <1>4, <1>5, <1>6, <1>7, <1>8, <1>9, <1>10, <1>11
        DEF Next, CallTurn, PollStep

LEMMA NextCallHolds ==
  ASSUME Typed, RowsOK, [Next]_vars, NEW v \in Caller, CallHolds(v)
  PROVE  CallHolds(v)'
<1> SUFFICES ASSUME call'[v].pc # "idle"
             PROVE  CallHolds(v)'
  BY DEF CallHolds
<1>1. CASE /\ call[v].pc # "idle"
           /\ call'[v].agent = call[v].agent /\ call'[v].secret = call[v].secret
  <2>1. call[v].agent \in Agent /\ call[v].secret \in Secret /\ ConfirmedFor(call[v].agent)
    BY <1>1 DEF Typed, SlotsOK, CallHolds
  <2>2. AgentRow(call[v].agent)' => agents'[call[v].agent].hash = call[v].secret
    BY <1>1, <2>1, HashSetOnce, PairingAssumption DEF CallHolds
  <2>3. \A a : ConfirmedFor(a) => ConfirmedFor(a)'
    BY ConfirmedStays
  <2> QED BY <1>1, <2>1, <2>2, <2>3 DEF CallHolds
<1>2. ASSUME NEW a \in Agent, NEW x \in Secret, NEW op \in Op, CallFind(v, a, x, op)
      PROVE  CallHolds(v)'
  <2>1. call \in [Caller -> CallSlot]
    BY DEF Typed, TypeOK
  <2>2. call'[v].agent = a /\ call'[v].secret = x /\ agents' = agents
    BY <1>2, <2>1 DEF CallFind
  <2>3. agents[a].hash = x /\ ConfirmedFor(a)'
    BY <1>2, RowConfirmed, ConfirmedStays DEF CallFind, CredentialMatches
  <2> QED BY <2>2, <2>3 DEF CallHolds
<1> QED BY <1>1, <1>2, CallSteps

\* An agent comes online only when a call marks it.
LEMMA OnlineByCall ==
  ASSUME Typed, RowsOK, [Next]_vars, NEW a \in Agent,
         agents'[a].status = "online", agents[a].status # "online"
  PROVE  AgentRow(a) /\ \E v \in Caller : CallMark(v) /\ call[v].agent = a
<1>1. agents \in [Agent -> AgentCols]
  BY DEF Typed, TypeOK
<1>2. agents' # agents
  BY <1>1
<1>3. ASSUME NEW c \in Confirmer, NEW s \in Session, ConfirmBind(c, s)
      PROVE  FALSE
  BY <1>1, <1>3 DEF ConfirmBind, NoAgent
<1>4. ASSUME NEW p \in Poller, PollIssue(p)
      PROVE  FALSE
  BY <1>1, <1>4 DEF PollIssue, AgentCols
<1>5. ASSUME NEW v \in Caller, CallProtect(v)
      PROVE  FALSE
  BY <1>1, <1>5 DEF CallProtect, AgentCols
<1>6. ASSUME NEW u \in User, NEW b \in Agent, NEW to \in Protection,
             UpdatePCAgentProtection(u, b, to)
      PROVE  FALSE
  BY <1>1, <1>6 DEF UpdatePCAgentProtection, AgentCols
<1>7. ASSUME NEW u \in User, NEW b \in Agent, DeletePCAgent(u, b)
      PROVE  FALSE
  BY <1>1, <1>7 DEF DeletePCAgent, NoAgent
<1>8. ASSUME NEW v \in Caller, CallMark(v)
      PROVE  AgentRow(a) /\ call[v].agent = a
  BY <1>1, <1>8 DEF CallMark, AgentCols
<1> QED BY <1>2, <1>3, <1>4, <1>5, <1>6, <1>7, <1>8, RowSteps
        DEF RowStep, StartCreate, ConfirmOverdue, PollExpire

LEMMA NextOnline ==
  ASSUME Typed, RowsOK, OnlineHasHash, \A v \in Caller : CallHolds(v), [Next]_vars
  PROVE  OnlineHasHash'
<1> SUFFICES ASSUME NEW a \in Agent, agents'[a].status = "online"
             PROVE  agents'[a].hash # NULL
  BY DEF OnlineHasHash
<1>1. AgentRow(a)'
  <2>1. Typed'
    BY NextTyped
  <2> QED BY <2>1 DEF Typed, TypeOK, NoAgent
<1>2. AgentRow(a) /\ agents[a].hash # NULL
  <2>1. CASE agents[a].status = "online"
    BY <2>1, PairingAssumption DEF Typed, TypeOK, NoAgent, OnlineHasHash
  <2>2. CASE agents[a].status # "online"
    <3>1. PICK v \in Caller : CallMark(v) /\ call[v].agent = a
      BY <2>2, OnlineByCall
    <3> QED BY <3>1, PairingAssumption DEF CallMark, CallHolds
  <2> QED BY <2>1, <2>2
<1> QED BY <1>1, <1>2, RowConfirmed, HashSetOnce

-----------------------------------------------------------------------------
CredentialOK == /\ OneSecretOut
                /\ \A p \in Poller : PollKnows(p)
                /\ \A v \in Caller : CallHolds(v)
                /\ OnlineHasHash

LEMMA InitCredential == Init => CredentialOK
<1> SUFFICES ASSUME Init PROVE CredentialOK
  OBVIOUS
<1>1. \A a \in Agent : Out(a) = {}
  BY DEF Init, Out, Carries, NoPoll
<1>2. \A a \in Agent : ~AgentRow(a) /\ agents[a].status = "offline"
  BY DEF Init, AgentRow, NoAgent
<1>3. /\ \A p \in Poller : poll[p].pc = "idle"
      /\ \A v \in Caller : call[v].pc = "idle"
  BY DEF Init, NoPoll, NoCall
<1> QED BY <1>1, <1>2, <1>3 DEF CredentialOK, OneSecretOut, PollKnows, CallHolds, OnlineHasHash

\* The inductive invariant of the credential, for any number of polls and calls.
THEOREM CredentialCorrect == Spec => [](Typed /\ RowsOK /\ CredentialOK)
<1>1. Init => Typed /\ RowsOK /\ CredentialOK
  BY InitTyped, InitRows, InitCredential
<1>2. Typed /\ RowsOK /\ CredentialOK /\ [Next]_vars => (Typed /\ RowsOK /\ CredentialOK)'
  BY NextTyped, NextRows, NextOneSecretOut, NextPollKnows, NextCallHolds, NextOnline
     DEF CredentialOK
<1> QED BY <1>1, <1>2, PTL DEF Spec

\* However many polls race, the one secret a PC may be given is the one its
\* agent authenticates with.
THEOREM OneSecretDelivered == Spec => []DeliveredSecretVerifies
<1>1. Typed /\ CredentialOK => DeliveredSecretVerifies
  <2> SUFFICES ASSUME Typed, CredentialOK, NEW a \in Agent
               PROVE  /\ \A x, y \in held[a] : x = y
                      /\ AgentRow(a) => held[a] \subseteq {agents[a].hash}
    BY DEF DeliveredSecretVerifies
  <2>1. held[a] \subseteq Out(a)
    BY DEF Typed, TypeOK, Out
  <2> QED BY <2>1 DEF CredentialOK, OneSecretOut
<1> QED BY <1>1, CredentialCorrect, PTL

\* What a poll answers from rows it read earlier is still so when it answers.
THEOREM PollAnswersTruly == Spec => []AnswerIsFinal
<1>1. Typed /\ CredentialOK => AnswerIsFinal
  <2> SUFFICES ASSUME Typed, CredentialOK, NEW p \in Poller, poll[p].pc = "respond"
               PROVE  /\ poll[p].status # "pending" =>
                           sessions[poll[p].sess].status = poll[p].status
                      /\ poll[p].issued \/ poll[p].secret # NULL =>
                           (AgentRow(poll[p].agent) => agents[poll[p].agent].hash # NULL)
                      /\ ~(poll[p].issued /\ poll[p].secret # NULL)
    BY DEF AnswerIsFinal
  <2>1. PollKnows(p)
    BY DEF CredentialOK
  <2>2. ASSUME poll[p].secret # NULL, AgentRow(poll[p].agent)
        PROVE  agents[poll[p].agent].hash # NULL
    <3>1. poll[p].agent \in Agent /\ poll[p].secret \in Secret
      BY <2>2 DEF Typed, SlotsOK, TypeOK, PollSlot
    <3>2. poll[p].secret \in Out(poll[p].agent)
      BY <3>1 DEF Out, Carries
    <3> QED BY <2>2, <3>1, <3>2 DEF CredentialOK, OneSecretOut
  <2> QED BY <2>1, <2>2 DEF PollKnows
<1> QED BY <1>1, CredentialCorrect, PTL

\* A call that was let in acts on an agent that still verifies its credential,
\* or is gone, for any number of calls.
THEOREM CallerVerified == Spec => []VerifiedCallerHoldsCredential
<1>1. CredentialOK => VerifiedCallerHoldsCredential
  BY DEF CredentialOK, VerifiedCallerHoldsCredential, CallHolds, OnlineHasHash
<1> QED BY <1>1, CredentialCorrect, PTL

=============================================================================
