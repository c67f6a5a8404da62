\* The alerts of one agent, repeated, late and early, are saved and sent while
\* phones register, change hands and are gone, and the agent may be deleted.
SPECIFICATION Spec
CONSTANTS
  Agent = {a1}
  User = {u1, u2}
  Token = {x1, x2}
  Topic = {"status"}
  Alert = {i1, i2, i3}
  Register = {r1, r2}
  NULL = NULL
  Window = 1
  MaxAt = 2
  MaxWire = 1
SYMMETRY Symmetry
INVARIANTS
  TypeOK
  AlertsSpaced
PROPERTIES
  LivePhoneStays
  RegistrationReplaces
CHECK_DEADLOCK FALSE
