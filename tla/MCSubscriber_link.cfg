\* One subscriber; lengths on both sides of each power of 128, and those on
\* both sides of what a message takes, without a packet id (2) and with one (4).
SPECIFICATION FairSpec
CONSTANTS
  Length = {1, 2, 3, 4, 127, 128, 16383, 16384, 2097151, 2097152, 268435455}
  MaxWire = 2
  NONE = NONE
INVARIANTS
  TypeOK
  LengthsRoundTrip
PROPERTIES
  ImplementsDelivery
  StopsWhenCancelled
  Recovers
CHECK_DEADLOCK FALSE
