\* One sender and an alert for five phones.
SPECIFICATION Spec
CONSTANTS
  Sender = {s1}
  NULL = NULL
  Lifetime = {0}
  Default = 6
  Margin = 4
  Timeout = 1
  MaxDevices = 5
  MaxTime = 12
INVARIANTS
  TokenGoodWhileSending
CHECK_DEADLOCK FALSE
