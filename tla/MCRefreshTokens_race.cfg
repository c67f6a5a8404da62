\* Two refreshes, a Logout and a LogoutAll race for the tokens of one user, from
\* two logins or from one, and wait for row locks.
SPECIFICATION FairSpec
CONSTANTS
  Token = {1, 2, 3}
  User = {u1}
  Request = {r1, r2}
  Leaver = {l1}
  NULL = NULL
  TTL = 0
  MaxTime = 1
ACTION_CONSTRAINT DrawInOrder
INVARIANTS
  TypeOK
  OneLiveTokenPerLogin
PROPERTIES
  LapsedStaysLapsed
  ImplementsLoginSession
  RefreshFinishes
  LogoutAllFinishes
CHECK_DEADLOCK FALSE
