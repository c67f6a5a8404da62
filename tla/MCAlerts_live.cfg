\* Alerts and registrations of one user under fairness.
SPECIFICATION FairSpec
CONSTANTS
  Agent = {a1}
  User = {u1}
  Token = {x1, x2}
  Topic = {"status"}
  Alert = {i1}
  Register = {r1, r2}
  NULL = NULL
  Window = 0
  MaxAt = 0
  MaxWire = 1
PROPERTIES
  HandlerReturns
  RegisterFinishes
CHECK_DEADLOCK FALSE
