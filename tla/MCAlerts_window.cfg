\* What is skipped as a duplicate.
SPECIFICATION Spec
CONSTANTS
  Agent = {a1}
  User = {u1}
  Token = {}
  Topic = {"alert"}
  Alert = {i1, i2}
  Register = {}
  NULL = NULL
  Window = 1
  MaxAt = 3
  MaxWire = 1
SYMMETRY Symmetry
INVARIANTS
  DuplicateIsWithinWindow
CHECK_DEADLOCK FALSE
