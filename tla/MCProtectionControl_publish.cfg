\* Requests of the owner that overlap, their commands and an unreliable broker.
SPECIFICATION FairSpec
CONSTANTS
  Command = {c1, c2}
  NONE = NONE
INVARIANTS
  TypeOK
  ToldAsWritten
PROPERTIES
  PublishEnds
CHECK_DEADLOCK FALSE
