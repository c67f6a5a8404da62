---------------------------- MODULE PacketCodec -----------------------------
(***************************************************************************)
(* The remaining length in the header of an MQTT packet, as                *)
(* mqtt/subscriber.go writes and reads it.  A byte is a number below 256;  *)
(* a name with an underscore is the same definition with a mistake in it,  *)
(* which the runs are shown to notice.                                     *)
(***************************************************************************)
EXTENDS Naturals, Sequences

\* What four bytes of seven bits each count, and the lengths they hold: the
\* standard's limit, which no packet of the client comes near.
Weight    == <<1, 128, 16384, 2097152>>
MaxLength == 268435455
Lengths   == 0 .. MaxLength

\* encodeRemainingLength: the low seven bits first, the eighth set while more follow
Encoded_OneMore(length) ==
  LET rest[n \in Lengths] ==
        IF n <= 128 THEN <<n>> ELSE <<(n % 128) + 128>> \o rest[n \div 128]
  IN  rest[length]
Bytes[n \in Lengths] ==
  IF n < 128 THEN <<n>> ELSE <<(n % 128) + 128>> \o Bytes[n \div 128]
Encoded(length) == Bytes[length]

\* readRemainingLength: the first byte without the eighth bit ends it; it is
\* malformed if the fourth still has it
Ends(bytes, i) == bytes[i] < 128 /\ \A j \in 1 .. i - 1 : bytes[j] >= 128
WellFormed(bytes) == \E i \in DOMAIN bytes : i <= 4 /\ Ends(bytes, i)

\* what the loop adds up in its four turns; the multiplier is the weight
Turn_Early(bytes, i) ==
  IF \A j \in 1 .. i - 1 : bytes[j] >= 128
    THEN (bytes[i] % 128) * (IF i = 1 THEN 1 ELSE 128 * Weight[i]) ELSE 0
Turn(bytes, i) ==
  IF \A j \in 1 .. i - 1 : bytes[j] >= 128 THEN (bytes[i] % 128) * Weight[i] ELSE 0
Decoded(bytes) == Turn(bytes, 1) + Turn(bytes, 2) + Turn(bytes, 3) + Turn(bytes, 4)

-----------------------------------------------------------------------------
(* What the MQTT standard says: as few bytes as hold the number, in base   *)
(* 128, each but the last with its eighth bit set.                         *)

BytesFor(n) == CHOOSE k \in 1 .. 4 : /\ n < 128 * Weight[k]
                                     /\ \A j \in 1 .. k - 1 : n >= 128 * Weight[j]
StandardLength(n) ==
  [i \in 1 .. BytesFor(n) |->
     ((n \div Weight[i]) % 128) + (IF i < BytesFor(n) THEN 128 ELSE 0)]

RoundTrips(n) ==
  /\ Encoded(n) = StandardLength(n)
  /\ WellFormed(Encoded(n)) /\ Decoded(Encoded(n)) = n

=============================================================================
