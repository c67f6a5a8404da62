\* Two PCs draw the same code under fairness: one StartPairing waits for the
\* other or runs out of turns, and sessions are confirmed, expired and polled
\* until the agent has a credential.
SPECIFICATION FairSpec
CONSTANTS
  Session = {s1, s2}
  Agent = {a1, a2}
  Code = {k1}
  User = {u1}
  Secret = {x1}
  Confirmer = {c1}
  Poller = {p1}
  Caller = {}
  NULL = NULL
  MaxRetries = 2
  TTL = 1
  MaxTime = 2
INVARIANTS
  TypeOK
  CodeNamesOneSession
  AgentMatchesSession
  DecidedByDeadline
PROPERTIES
  StartFinishes
  CredentialEventually
CHECK_DEADLOCK FALSE
