\* One PC: two confirmations, two polls, an authenticated request of the agent
\* and its deletion race.
SPECIFICATION Spec
CONSTANTS
  Session = {s1}
  Agent = {a1}
  Code = {k1}
  User = {u1, u2}
  Secret = {x1, x2}
  Confirmer = {c1, c2}
  Poller = {p1, p2}
  Caller = {v1}
  NULL = NULL
  MaxRetries = 1
  TTL = 0
  MaxTime = 1
SYMMETRY Symmetry
INVARIANTS
  DeliveredSecretVerifies
  AnswerIsFinal
  VerifiedCallerHoldsCredential
PROPERTIES
  DeletedAgentStaysDeleted
  ImplementsEnrollment
CHECK_DEADLOCK FALSE
