\* Two senders, tokens of two lifetimes, up to five phones a sender.
SPECIFICATION FairSpec
CONSTANTS
  Sender = {s1, s2}
  NULL = NULL
  Lifetime = {0, 5}
  Default = 6
  Margin = 4
  Timeout = 1
  MaxDevices = 5
  MaxTime = 12
INVARIANTS
  TypeOK
  TokenGoodForMargin
PROPERTIES
  GoodTokenKept
  SenderServed
CHECK_DEADLOCK FALSE
