\* Two requests at a time register two phone numbers and link one email.
SPECIFICATION Spec
CONSTANTS
  Phone = {p1, p2}
  User = {u1, u2}
  Email = {e1}
  Request = {r1, r2}
  NULL = NULL
  MaxAttempts = 1
  OtpTTL = 0
  TokenTTL = 1
  MaxTime = 2
  MaxOtps = 2
SYMMETRY Symmetry
INVARIANTS
  TypeOK
  GuessesBounded
PROPERTIES
  ClosedOtpStaysClosed
  LapsedVerificationNeedsOtp
  ImplementsAccounts
CHECK_DEADLOCK FALSE
